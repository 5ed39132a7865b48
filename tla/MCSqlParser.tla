---------------------------- MODULE MCSqlParser ----------------------------
(* Texts for SqlParser. A family of texts is a template: the alternatives  *)
(* of each of its places. Its texts have the first alternative everywhere  *)
(* but in one place, so that every alternative is parsed.                  *)
EXTENDS SqlParser

Family(template) ==
  UNION {{FlattenSeq([j \in DOMAIN template |-> IF j = k THEN alt ELSE template[j][1]])
          : alt \in ToSet(template[k])} : k \in DOMAIN template}

\* A name of its own, that TLC evaluates once.
MCRows == GrammarRows

id == <<"IDENTIFIER">>
int == <<"INTVAL">>
Always(toks) == <<toks>>
Paren(toks) == <<"(">> \o toks \o <<")">>
SubSelect == Paren(<<"SELECT", "*", "FROM", "IDENTIFIER">>)

Operands ==
  <<id, int, <<"FLOATVAL">>, <<"STRING">>, <<"NULL">>, <<"KEY">>,
    <<":", "IDENTIFIER">>, <<"IDENTIFIER", ".", "IDENTIFIER">>, <<"IDENTIFIER", ".", "*">>,
    Paren(<<"?", "+", "?">>), SubSelect, id \o Paren(<<>>),
    id \o Paren(<<"DISTINCT", "?", ",", "INTVAL">>)>>

Conditions ==
  <<id,
    <<"-", "IDENTIFIER", "*", "INTVAL", "+", "IDENTIFIER", "^", "INTVAL", "CONCAT", "STRING">>,
    <<"NOT", "IDENTIFIER", "=", "?", "AND", "?", "LESSEQ", "INTVAL", "OR", "INTVAL", "GREATEREQ",
      "INTVAL">>,
    <<"IDENTIFIER", "ISNULL", "OR", "IDENTIFIER", "IS", "NULL", "AND", "IDENTIFIER", "IS", "NOT",
      "NULL">>,
    <<"IDENTIFIER", "-", "INTVAL", "/", "INTVAL", "%", "INTVAL", "MATCH", "STRING">>,
    <<"IDENTIFIER", "LIKE", "STRING", "ESCAPE", "STRING">>,
    <<"IDENTIFIER", "NOT", "LIKE", "STRING", "OR", "IDENTIFIER", "ILIKE", "STRING">>,
    <<"IDENTIFIER", "NOT", "LIKE", "STRING", "ESCAPE", "STRING">>,
    <<"IDENTIFIER", "ILIKE", "STRING", "ESCAPE", "STRING">>,
    <<"IDENTIFIER", "<", "INTVAL", "OR", "INTVAL", ">", "INTVAL", "OR", "INTVAL", "NOTEQUALS",
      "INTVAL">>,
    <<"IDENTIFIER", "BETWEEN", "?", "AND", "INTVAL", "OR", "IDENTIFIER">>,
    <<"IDENTIFIER", "IN", "(", "?", ",", "INTVAL", ")">>,
    <<"IDENTIFIER", "NOT", "IN", "(", "?", ")">>,
    <<"IDENTIFIER", "IN">> \o SubSelect, <<"IDENTIFIER", "NOT", "IN">> \o SubSelect,
    <<"IDENTIFIER", "IN", "(", ")">>, <<"IDENTIFIER", "NOT", "IN", "(", ")">>,
    <<"EXISTS">> \o SubSelect, <<"NOT", "EXISTS">> \o SubSelect,
    <<"CASE", "?", "WHEN", "?", "THEN", "?", "ELSE", "?", "END">>,
    <<"CASE", "IDENTIFIER", "WHEN", "INTVAL", "THEN", "STRING", "END">>,
    <<"CASE", "WHEN", "IDENTIFIER", "THEN", "INTVAL", "WHEN", "?", "THEN", "?", "END">>,
    <<"CASE", "WHEN", "IDENTIFIER", "THEN", "INTVAL", "ELSE", "?", "END">>>>

TableRefs ==
  <<id, <<"IDENTIFIER", ".", "STRING", "AS", "IDENTIFIER">>, <<"IDENTIFIER", "AS", "STRING">>,
    SubSelect \o id, SubSelect \o <<"STRING">>,
    <<"IDENTIFIER", ",", "IDENTIFIER", ",", "IDENTIFIER">>,
    <<"IDENTIFIER", "NATURAL", "JOIN", "IDENTIFIER">>,
    <<"IDENTIFIER", "JOIN", "IDENTIFIER", "ON", "?", "=", "IDENTIFIER">>,
    <<"IDENTIFIER", "JOIN", "IDENTIFIER", "IDENTIFIER", "USING", "(", "IDENTIFIER", ")">>,
    SubSelect \o <<"CROSS", "JOIN">> \o SubSelect \o <<"USING", "(", "IDENTIFIER", ")">>>>
  \o [k \in 1..8 |->
        id \o <<<<"INNER">>, <<"LEFT">>, <<"RIGHT">>, <<"OUTER">>, <<"FULL">>,
                <<"LEFT", "OUTER">>, <<"RIGHT", "OUTER">>, <<"FULL", "OUTER">>>>[k]
           \o <<"JOIN", "IDENTIFIER", "ON", "IDENTIFIER">>]

Limits == <<<<>>, <<"LIMIT", "?">>, <<"LIMIT", "?", "OFFSET", "?">>, <<"LIMIT", "?", ",", "?">>>>

Orders ==
  <<<<>>, <<"ORDER", "BY", "IDENTIFIER", ",", "?", "DESC">>,
    <<"ORDER", "BY", "IDENTIFIER", "COLLATE", "IDENTIFIER", "ASC">>>>

SelectTexts ==
  Family(<<Always(<<"SELECT">>), <<<<>>, <<"DISTINCT">>>>, Operands,
           <<<<>>, <<",", "*", ",", "IDENTIFIER", "AS", "STRING">>>>, Always(<<"FROM">>),
           TableRefs>>)
  \union
  Family(<<Always(<<"SELECT", "IDENTIFIER", "FROM", "IDENTIFIER", "WHERE">>), Conditions,
           <<<<>>, <<"GROUP", "BY", "IDENTIFIER">>,
             <<"GROUP", "BY", "IDENTIFIER", ",", "?", "HAVING", "?">>>>, Orders, Limits>>)

SelectClause == <<"SELECT", "IDENTIFIER", "FROM", "IDENTIFIER">>
Limit == <<"LIMIT", "INTVAL">>

UnionTexts ==
  Family(<<<<SelectClause, Paren(SelectClause), Paren(Paren(SelectClause))>>,
           <<<<"UNION">>, <<"UNION", "ALL">>, <<"INTERSECT">>, <<"EXCEPT">>>>,
           <<SelectClause, Paren(SelectClause)>>, Orders, Limits>>)
  \union {Paren(SelectClause \o Limit) \o <<"UNION">> \o SelectClause \o Limit}

Names == <<id, <<"STRING">>, <<"TEXT">>, <<"ON">>, <<"KEY">>, <<"TEMP">>, <<"REPLACE">>,
           <<"RECURSIVE">>>>
TableNames == <<id, <<"IDENTIFIER", ".", "IDENTIFIER">>, <<"STRING", ".", "KEY">>>>
Where == <<<<>>, <<"WHERE", "IDENTIFIER", "=", "?">>>>

StatementTexts ==
  Family(<<Always(<<"ALTER", "TABLE">>), TableNames, Always(<<"RENAME">>),
           <<<<"TO", "IDENTIFIER">>, <<"COLUMN", "IDENTIFIER", "TO", "STRING">>>>>>)
  \union {<<"ALTER", "TABLE", "IDENTIFIER", "ADD", "IDENTIFIER", "INT">>}
  \union Family(<<Always(<<"PRAGMA">>), <<id, <<"IDENTIFIER", "=", "INTVAL">>>>>>)
  \union Family(<<Always(<<"DROP">>),
                  <<<<"TABLE">>, <<"TABLE", "IF", "EXISTS">>, <<"VIEW">>, <<"TRIGGER">>,
                    <<"INDEX", "IF", "EXISTS">>>>, Names>>)
  \union Family(<<Always(<<"DELETE", "FROM">>), TableNames, Where>>)
  \union Family(<<Always(<<"INSERT">>), <<<<>>, <<"OR", "REPLACE">>>>, Always(<<"INTO">>),
                  TableNames, <<<<>>, Paren(<<"IDENTIFIER", ",", "STRING">>)>>,
                  <<<<"VALUES", "(", "INTVAL", ",", "?", ")">>, SelectClause,
                    SelectClause \o <<"UNION">> \o SelectClause>>>>)
  \union Family(<<Always(<<"CREATE", "VIEW">>), <<<<>>, <<"IF", "NOT", "EXISTS">>>>, TableNames,
                  <<<<>>, Paren(<<"IDENTIFIER", ",", "STRING">>)>>, Always(<<"AS">>),
                  <<SelectClause>>>>)
  \union Family(<<Always(<<"CREATE">>), <<<<>>, <<"UNIQUE">>>>, Always(<<"INDEX">>),
                  <<id, <<"IF", "NOT", "EXISTS", "STRING">>>>, Always(<<"ON">>), TableNames,
                  <<Paren(<<"IDENTIFIER", "COLLATE", "STRING", "DESC">>),
                    Paren(<<"IDENTIFIER", ",", "IDENTIFIER", "ASC">>)>>>>)
  \union Family(<<Always(<<"UPDATE">>), TableNames, Always(<<"SET">>),
                  <<<<"IDENTIFIER", "=", "INTVAL">>,
                    <<"IDENTIFIER", "=", "?", "AND", "INTVAL", ",", "KEY", "=", "?">>>>, Where>>)

ColumnTypes ==
  [k \in 1..11 |-> <<<<"INT", "INTEGER", "LONG", "BOOLEAN", "TEXT", "BLOB", "REAL", "DOUBLE",
                       "FLOAT", "VARCHAR", "DATETIME">>[k]>>]
  \o <<<<"VARCHAR", "(", "INTVAL", ")">>>>

References == <<"REFERENCES", "IDENTIFIER">>

ColumnConstraints ==
  <<<<>>, <<"PRIMARY", "KEY", "AUTOINCREMENT">>, <<"NOT", "NULL", "UNIQUE">>,
    <<"NOTNULL", "DEFAULT", "?">>,
    <<"DEFAULT", "INTVAL">> \o References \o <<"DEFAULT", "STRING">> \o References,
    References \o Paren(<<"IDENTIFIER", ",", "IDENTIFIER">>) \o <<"MATCH", "IDENTIFIER">>>>
  \o [k \in 1..5 |->
        References \o <<"ON", <<"DELETE", "UPDATE">>[1 + (k % 2)]>>
        \o <<<<"SET", "NULL">>, <<"SET", "DEFAULT">>, <<"CASCADE">>, <<"RESTRICT">>,
             <<"NO", "ACTION">>>>[k] \o <<"ON", "DELETE", "CASCADE">>]
  \o [k \in 1..6 |->
        References
        \o <<<<"DEFERRABLE", "INITIALLY", "DEFERRED">>, <<"DEFERRABLE", "INITIALLY", "IMMEDIATE">>,
             <<"DEFERRABLE">>, <<"NOT", "DEFERRABLE", "INITIALLY", "DEFERRED">>,
             <<"NOT", "DEFERRABLE", "INITIALLY", "IMMEDIATE">>, <<"NOT", "DEFERRABLE">>>>[k]]

\* Two constraints of a column, where the second does not begin with what goes on with the first.
Constraints ==
  {<<"PRIMARY", "KEY">>, <<"NOT", "NULL">>, <<"NOTNULL">>, <<"UNIQUE">>, <<"DEFAULT", "INTVAL">>,
   <<"AUTOINCREMENT">>, References}

GoesOnWith(c, d) == c[1] \in {"DEFAULT", "REFERENCES"} /\ d[1] = "NOT"

ColumnText(constraints) ==
  <<"CREATE", "TABLE", "IDENTIFIER", "(", "IDENTIFIER", "INT">> \o constraints \o <<")">>

ConstraintTexts ==
  {ColumnText(c \o d) : <<c, d>> \in {cd \in Constraints \X Constraints : ~GoesOnWith(cd[1], cd[2])}}

TableConstraints ==
  <<<<>>, <<",", "UNIQUE">> \o Paren(id), <<",", "PRIMARY", "KEY">> \o Paren(<<"IDENTIFIER", ",", "KEY">>),
    <<"FOREIGN", "KEY">> \o Paren(id) \o References,
    <<",", "CHECK">> \o Paren(<<"IDENTIFIER", ">", "?">>) \o <<",", "UNIQUE">> \o Paren(id)>>
  \o [k \in 1..5 |-> <<",", "UNIQUE">> \o Paren(id)
        \o <<"ON", "CONFLICT", <<"ROLLBACK", "ABORT", "FAIL", "IGNORE", "REPLACE">>[k]>>]

CreateTexts ==
  Family(<<Always(<<"CREATE">>), <<<<>>, <<"VIRTUAL">>>>, <<<<>>, <<"TEMP">>, <<"TEMPORARY">>>>,
           Always(<<"TABLE">>), <<<<>>, <<"IF", "NOT", "EXISTS">>>>, TableNames,
           Always(<<"(", "IDENTIFIER">>), ColumnTypes, ColumnConstraints,
           <<<<>>, <<",", "IDENTIFIER", "INT">>>>, TableConstraints, Always(<<")">>)>>)

\* A CREATE TRIGGER of the statements body.
Trigger(body) ==
  <<"CREATE", "TRIGGER", "IDENTIFIER", "BEFORE", "DELETE", "ON", "IDENTIFIER", "BEGIN">> \o body
  \o <<"END">>

TriggerTexts ==
  Family(<<Always(<<"CREATE", "TRIGGER">>), <<<<>>, <<"IF", "NOT", "EXISTS">>>>, Always(id),
           <<<<"BEFORE">>, <<"AFTER">>, <<"INSTEAD", "OF">>>>,
           <<<<"DELETE">>, <<"INSERT">>, <<"UPDATE">>>>, Always(<<"ON">>), TableNames,
           Always(<<"BEGIN", "DROP", "TABLE", "IDENTIFIER">>),
           <<<<";">>, <<>>, <<";", "PRAGMA", "?", ";">>>>, Always(<<"END">>)>>)

Insert == <<"INSERT", "INTO", "IDENTIFIER", "VALUES", "(", "?", ")">>
Drop == <<"DROP", "TABLE", "IDENTIFIER">>

ListTexts ==
  Family(<<<<Drop, Insert, SelectClause \o <<"LIMIT", "?">>>>, Always(<<";">>),
           <<Insert, Drop, SelectClause>>, <<<<>>, <<";">>, <<";">> \o Insert>>>>)
  \union {Trigger(Insert \o <<";">> \o Drop) \o <<";">> \o Drop}

\* Texts whose result holds what its destructors do not free: an order or a union that is
\* overwritten, the index of a table.
OrderBy == <<"ORDER", "BY", "IDENTIFIER">>
UnfreedTexts ==
  {Paren(SelectClause \o OrderBy) \o <<"UNION">> \o SelectClause \o OrderBy,
   SelectClause \o <<"INDEXED", "BY", "STRING">>,
   SelectClause \o <<"INDEXED", "BY", "IDENTIFIER", "AS", "STRING">>,
   Paren(SelectClause \o OrderBy) \o <<"EXCEPT">> \o SelectClause,
   Paren(SelectClause \o <<"UNION">> \o SelectClause) \o <<"UNION">> \o SelectClause,
   Paren(SelectClause \o <<"INTERSECT">> \o SelectClause) \o <<"EXCEPT", "ALL">> \o SelectClause}

\* One operator of each level, the two kinds of comparisons, and MATCH, which has no level.
InfixOps == {"OR", "AND", "=", "LIKE", "<", "+", "-", "*", "^", "CONCAT", "MATCH"}
PrefixOps == {"-", "NOT"}

OperatorTexts ==
  {<<"PRAGMA", "IDENTIFIER", op1, "IDENTIFIER", op2, "IDENTIFIER">> : op1, op2 \in InfixOps}
  \union {<<"PRAGMA", op1, "IDENTIFIER", op2, "IDENTIFIER">> : op1 \in PrefixOps, op2 \in InfixOps}
  \union {<<"PRAGMA", "IDENTIFIER", op1, op2, "IDENTIFIER">> : op1 \in InfixOps, op2 \in PrefixOps}
  \union {<<"PRAGMA", "IDENTIFIER", op, "IDENTIFIER", "ISNULL">> : op \in InfixOps}
  \union {<<"PRAGMA", op, "IDENTIFIER", "ISNULL">> : op \in PrefixOps}

\* Tests of an operand that is itself an operation, or of the operand of a prefix operator.
Tests ==
  {<<"IN">> \o Paren(id), <<"NOT", "IN">> \o Paren(id), <<"BETWEEN", "IDENTIFIER", "AND", "IDENTIFIER">>,
   <<"NOT", "LIKE", "IDENTIFIER">>, <<"IS", "NOT", "NULL">>}

\* NOT after NOT and after MATCH begins a NOT LIKE for the parser.
TestTexts ==
  {<<"PRAGMA", "IDENTIFIER", op, "IDENTIFIER">> \o test : op \in InfixOps \ {"MATCH"}, test \in Tests}
  \union {<<"PRAGMA", op, "IDENTIFIER">> \o test :
            op \in PrefixOps, test \in Tests \ {<<"NOT", "IN">> \o Paren(id)}}

\* Two comparisons of a level that does not associate.
ChainTexts == {<<"PRAGMA", "IDENTIFIER", op1, "IDENTIFIER", op2, "IDENTIFIER">> :
                 op1, op2 \in {"=", "LIKE"}} \union
              {<<"PRAGMA", "IDENTIFIER", "<", "IDENTIFIER", "<", "IDENTIFIER">>}

Repeat(n, toks) == FlattenSeq([k \in 1..n |-> toks])

\* Long texts of each kind of list, and of operators and joins that associate to the left.
LongTexts ==
  {Drop \o Repeat(20, <<";">> \o Drop),
   <<"INSERT", "INTO", "IDENTIFIER", "VALUES">> \o Paren(int \o Repeat(20, <<",", "INTVAL">>)),
   <<"PRAGMA", "IDENTIFIER">> \o Repeat(20, <<"+", "INTVAL">>),
   <<"PRAGMA", "IDENTIFIER">> \o Repeat(20, <<"OR", "IDENTIFIER">>),
   SelectClause \o Repeat(20, <<",", "IDENTIFIER">>),
   SelectClause \o Repeat(20, <<"JOIN", "IDENTIFIER", "ON", "IDENTIFIER">>),
   <<"CREATE", "TABLE", "IDENTIFIER">> \o Paren(<<"IDENTIFIER", "INT">> \o Repeat(20, <<"UNIQUE">>))}

\* Nested too deep for the stack, and not.
DeepTexts == {<<"PRAGMA">> \o Repeat(n, <<"(">>) \o id \o Repeat(n, <<")">>) : n \in {20, YYINITDEPTH}}

WellFormed == SelectTexts \union UnionTexts \union StatementTexts \union CreateTexts
              \union TriggerTexts \union ListTexts \union UnfreedTexts
              \union ConstraintTexts \union TestTexts
              \union (OperatorTexts \ ChainTexts) \union LongTexts \union DeepTexts

\* Well-formed texts with a token that may go on with one rule or begin another: NOT after a
\* DEFAULT, a REFERENCES, a NOT, a MATCH or an ESCAPE, UNIQUE or PRIMARY KEY without a comma
\* after the columns, the first ESCAPE of two. The parser goes on, and the rest begins the other.
ContestedTexts ==
  {ColumnText(<<"DEFAULT", "INTVAL", "NOT", "NULL">>), ColumnText(References \o <<"NOT", "NULL">>),
   ColumnText(<<"UNIQUE">> \o Paren(id)), ColumnText(<<"PRIMARY", "KEY">> \o Paren(id)),
   <<"PRAGMA", "NOT", "IDENTIFIER", "NOT", "IN">> \o Paren(id),
   <<"PRAGMA", "IDENTIFIER", "MATCH", "IDENTIFIER", "NOT", "IN">> \o Paren(id),
   <<"PRAGMA", "IDENTIFIER", "LIKE", "STRING", "ESCAPE", "STRING", "NOT", "IN">> \o Paren(id),
   <<"PRAGMA", "IDENTIFIER", "NOT", "LIKE", "IDENTIFIER", "NOT", "LIKE", "STRING", "ESCAPE", "STRING",
     "ESCAPE", "STRING">>}

\* Texts with a string where none can be: the lookahead itself is to be freed.
MisplacedTexts ==
  {Drop \o id, <<"INSERT", "INTO", "IDENTIFIER", "STRING">>,
   <<"INSERT", "INTO", "IDENTIFIER", "(", "IDENTIFIER", "IDENTIFIER">>,
   <<"SELECT", "IDENTIFIER", "STRING", "IDENTIFIER">>}

MCTexts == WellFormed \union ChainTexts \union MisplacedTexts

\* A well-formed text is rejected only at the token that was spoiled, or for lack of stack:
\* no conflict of the grammar and no default reduction makes the parser refuse a prefix it
\* could extend (bison_parser.y, %left to %nonassoc and the grammar rules). Where it is false,
\* on ContestedTexts, the conflict is resolved for the shift (run parser_conflict); the texts
\* of the run parser are without those. parser/Makefile:28: "Tests if the parser builds
\* correctly and doesn't contain conflicts."
OnlySpoiltTextsRejected ==
  [][pc = "parsing" /\ pc' = "aborted" /\ text \in WellFormed \union ContestedTexts =>
       yychar = Alien \/ (yychar = "EOF" /\ total_column < Len(text)) \/ Exhausted]_vars

-----------------------------------------------------------------------------
(* Precedence.                                                             *)

\* The operators from the weakest to the strongest, with the side they associate to. MATCH has
\* no place among them.
Strengths ==
  <<[side |-> "left", types |-> {"kOpOr"}], [side |-> "left", types |-> {"kOpAnd"}],
    [side |-> "right", types |-> {"kOpNot"}],
    [side |-> "none", types |-> {"kOpEquals", "kOpNotEquals", "kOpLike", "kOpILike"}],
    [side |-> "none", types |-> {"kOpLess", "kOpGreater", "kOpLessEq", "kOpGreaterEq"}],
    [side |-> "none", types |-> {"kOpIsNull"}],
    [side |-> "left", types |-> {"kOpPlus", "kOpMinus", "kOpUnaryMinus"}],
    [side |-> "left", types |-> {"kOpAsterisk", "kOpSlash", "kOpPercentage"}],
    [side |-> "left", types |-> {"kOpCaret"}], [side |-> "left", types |-> {"kOpConcat"}]>>

Strength(x) == {k \in DOMAIN Strengths : memory.heap[x].type \in Strengths[k].types}

Prefix == {"kOpNot", "kOpUnaryMinus"}
Postfix == {"kOpIsNull"}

\* The operand y may stand on a side of the operator x without parentheses.
MayStand(x, y, side) ==
  \/ {} \in {Strength(x), Strength(y)}
  \/ Max(Strength(y)) > Max(Strength(x))
  \/ Strength(y) = Strength(x) /\ Strengths[Max(Strength(x))].side = side

\* An expression without parentheses becomes the tree that the strengths and sides of its
\* operators mean, whichever conflicts bison meets on the way; and operands keep the order of
\* the text (%left to %nonassoc and expr of bison_parser.y).
TreesFollowPrecedence ==
  text \in OperatorTexts =>
    \A x \in Live(memory) :
      LET type == memory.heap[x].type
          left == IF type \in Prefix THEN {} ELSE Field(memory, x, "expr")
          right == Field(memory, x, IF type \in Prefix THEN "expr" ELSE "expr2")
          operators(S, T) == {y \in S : memory.heap[y].type \in OperatorTypes \ T}
      IN type \in OperatorTypes =>
           /\ \A y \in operators(left, Postfix) : MayStand(x, y, "left")
           /\ \A y \in operators(right, Prefix) : MayStand(x, y, "right")
           /\ \A y \in left, z \in right : y < z

-----------------------------------------------------------------------------
(* The stack.                                                              *)

Count(tokens) == Cardinality({k \in DOMAIN text : k <= total_column /\ text[k] \in tokens})

Excess(opening, closing) == Max({0, Count(opening) - Count(closing)})

\* How deep the text is nested where the parser stands.
Nesting == Excess({"("}, {")"}) + Excess({"CASE"}, {"END"}) + Excess({"JOIN"}, {"ON", "USING"})
           + Count(PrefixOps)

\* The stack, which bison does not grow, follows the nesting of the text and not its length:
\* no list, chain of operators or chain of joins exhausts it (bison_parser.y:281).
StackFollowsNesting == Len(yyss) <= 16 * (2 + Nesting)

-----------------------------------------------------------------------------
(* What is left behind.                                                    *)

\* Live objects nothing points to.
Roots == Live(memory) \ UNION {UNION {memory.heap[x].f[g] : g \in DOMAIN memory.heap[x].f}
                               : x \in Live(memory)}

\* Tokens of the pattern, one or two sets of them, have been read in this order.
Occurs(pattern) ==
  \E j, k \in {k \in DOMAIN text : k <= total_column} :
    j <= k /\ text[j] \in pattern[1] /\ (Len(pattern) > 1 => j < k /\ text[k] \in pattern[2])

SetOperators == {"UNION", "INTERSECT", "EXCEPT"}

\* What the destructors forget: the kinds of roots left by a text with the tokens.
Forgotten ==
  {<<<<{"INDEXED"}>>, {"char"}>>, <<<<{"BEGIN"}>>, Statements>>,
   <<<<{"ORDER"}, SetOperators>>, {"vector"}>>,
   <<<<SetOperators, SetOperators>>, {"SelectStatement"}>>}

LeftBy(table) == UNION {entry[2] : entry \in {entry \in table : Occurs(entry[1])}}

KindsOf(S) == {memory.heap[x].kind : x \in S}

\* Once the result of a text that parses is destroyed nothing is left but what the
\* destructors of statements.cpp are known to forget, by the token that brings it: each other
\* allocation of bison_parser.y is reached by them.
FreedOnSuccess ==
  pc = "destroyed" /\ ~result.error => KindsOf(Roots) \subseteq LeftBy(Forgotten)

\* What the %destructors forget: elements of vectors, members of column constraints and of
\* update clauses.
Abandoned ==
  {<<<<{"TABLE"}>>, {"ColumnConstraint", "TableConstraint"}>>, <<<<{"INDEX"}>>, {"IndexedColumn"}>>,
   <<<<{"DEFAULT"}>>, {"Expr"}>>, <<<<{"REFERENCES"}>>, {"ForeignKeyConstraint"}>>,
   <<<<{"REFERENCES"}, {"ON"}>>, {"ForeignKeyEvent"}>>, <<<<{"UPDATE"}>>, {"Expr", "char"}>>}

\* Nor is more left of a text that does not parse, once the parser has unwound its stack with
\* the %destructors: the elements of the vectors they do not empty, and the members of
\* column constraints and update clauses, whose destructors free none.
FreedOnError ==
  pc = "destroyed" /\ result.error => KindsOf(Roots) \subseteq LeftBy(Forgotten \union Abandoned)

-----------------------------------------------------------------------------
\* A placeholder in a limit that the limit of the union replaces, or in a DEFAULT that a
\* second one replaces.
ReplacedTexts ==
  {Paren(SelectClause \o <<"LIMIT", "?">>) \o <<"UNION">> \o SelectClause \o Limit,
   <<"CREATE", "TABLE", "IDENTIFIER", "(", "IDENTIFIER", "INT", "DEFAULT", "?", "DEFAULT",
     "INTVAL", ")">>}
=============================================================================
