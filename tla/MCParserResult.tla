--------------------------- MODULE MCParserResult ---------------------------
(***************************************************************************)
(* ParserResult for TLC: the identities of objects, statements and         *)
(* messages are interchangeable.                                           *)
(***************************************************************************)
EXTENDS ParserResult, TLC

Symmetry == Permutations(Results) \union Permutations(Stmts) \union Permutations(Msgs)
=============================================================================
