---------------------------- MODULE MCSqlPrinter ----------------------------
(* Texts for SqlPrinter: at most three statements, and three placeholders. *)
EXTENDS SqlPrinter

MCRows == GrammarRows

Select == <<"SELECT", "*", "FROM", "IDENTIFIER">>
Where(condition) == Select \o <<"WHERE">> \o condition

ClauseTexts ==
  {<<"SELECT", "DISTINCT", "IDENTIFIER", "AS", "STRING", ",", "*", ",", "IDENTIFIER", ".",
     "IDENTIFIER", ",", "IDENTIFIER", "(", "INTVAL", ",", "STRING", ")", ",", "NULL", "FROM", "(">>
   \o Select \o <<")", "IDENTIFIER", "WHERE", "NOT", "?", "=", "FLOATVAL",
     "GROUP", "BY", "IDENTIFIER", "HAVING", "?", "ORDER", "BY", "?", "DESC", "LIMIT", "INTVAL">>,
   Select \o <<"GROUP", "BY", "?", "ORDER", "BY", "IDENTIFIER", ",", "?", "LIMIT", "?", ",",
               "INTVAL">>,
   Select \o <<"JOIN", "IDENTIFIER", ".", "IDENTIFIER", "AS", "IDENTIFIER", "ON", "?", ",",
               "IDENTIFIER", "UNION", "SELECT", "?", "FROM", "IDENTIFIER", "LIMIT", "?">>,
   <<"(">> \o Select \o <<")", "EXCEPT", "(", "(">> \o Select \o <<")", ")", "ORDER", "BY", "?">>,
   Select \o <<"JOIN", "IDENTIFIER", "USING", "(", "IDENTIFIER", ")">>,
   Select \o <<"LEFT", "JOIN", "(">> \o Where(<<"?">>) \o <<")", "IDENTIFIER", "ON", "?">>}

ConditionTexts ==
  {Where(<<"CASE", "?", "WHEN", "?", "THEN", "?", "END">>),
   Where(<<"CASE", "?", "WHEN", "INTVAL", "THEN", "?", "ELSE", "?", "END">>),
   Where(<<"?", "BETWEEN", "?", "AND", "?">>),
   Where(<<"IDENTIFIER", "NOT", "LIKE", "?", "ESCAPE", "?", "AND", "?">>),
   Where(<<"IDENTIFIER", "IS", "NOT", "NULL", "OR", ":", "IDENTIFIER", "ISNULL">>),
   Where(<<"IDENTIFIER", "NOT", "IN", "(", "?", ",", "IDENTIFIER", "+", "?", ")">>),
   Where(<<"IDENTIFIER", "IN", "(">> \o Where(<<"?">>) \o <<")">>),
   Where(<<"(", "SELECT", "?", "FROM", "IDENTIFIER", ")", "*", "-", "?">>)}

ListTexts ==
  {<<"CREATE", "TEMP", "TABLE", "IDENTIFIER", ".", "IDENTIFIER", "(", "IDENTIFIER", "INT",
     "DEFAULT", "?", ",", "STRING", "TEXT", "DEFAULT", "?", ")">>,
   <<"INSERT", "INTO", "IDENTIFIER", "(", "IDENTIFIER", ")", "VALUES", "(", "?", ")", ";",
     "DROP", "TABLE", "IDENTIFIER", ";", "INSERT", "INTO", "IDENTIFIER", "SELECT", "?", "FROM",
     "IDENTIFIER">>,
   <<"PRAGMA", "?", ";">> \o Where(<<"?">>) \o <<";">>,
   <<"UPDATE", "IDENTIFIER", "SET", "IDENTIFIER", "=", "?", "WHERE", "?", ";", "DELETE", "FROM",
     "IDENTIFIER", "WHERE", "?">>}

Marked == <<"SELECT", "?", "FROM", "IDENTIFIER">>
Paren(toks) == <<"(">> \o toks \o <<")">>
Limit == <<"LIMIT", "?">>

\* Set operations that give a select a union, an order and a limit: each with a placeholder or
\* none, after a select in parentheses and one without, which may have had a limit.
Firsts == {Marked, Paren(Paren(Marked))}
Limited == {Paren(Select \o Limit), Paren(Marked \o Limit)}
Seconds == {Select, Marked, Paren(Marked)}
Orders == {<<>>, <<"ORDER", "BY", "?">>}

SetTexts ==
  {first \o <<"UNION">> \o second \o order \o limit :
     first \in Firsts, second \in Seconds \ {Select}, order \in Orders, limit \in {<<>>, Limit}}
  \union {first \o <<"EXCEPT">> \o second \o order :
            first \in Limited, second \in Seconds, order \in Orders}

Placeholders(toks) == Cardinality({k \in DOMAIN toks : toks[k] = "?"})

UnionTexts == {toks \in SetTexts : Placeholders(toks) <= MaxParams}

\* Nested too deep for the stack.
DeepTexts == {<<"PRAGMA">> \o [k \in 1..YYINITDEPTH |-> "("]}

MCTexts == ClauseTexts \union ConditionTexts \union ListTexts \union UnionTexts \union DeepTexts

\* Texts that are not SQL: a join on all columns, and a comma too many.
MalformedTexts ==
  {Select \o <<"JOIN", "IDENTIFIER", "USING", "(", "*", ")">>,
   <<"CREATE", "TABLE", "IDENTIFIER", "(", "IDENTIFIER", "INT", ",", ",", "UNIQUE", "(",
     "IDENTIFIER", ")", ")">>}

\* What the printers do not expect.
SurprisingTexts ==
  {<<"SELECT", "*", ",", "?", ",", "IDENTIFIER", "FROM", "IDENTIFIER", "NATURAL", "JOIN", "IDENTIFIER">>,
   Where(<<"?", "OR", "EXISTS", "(">> \o Where(<<"?">>) \o <<")">>),
   Where(<<"?", "OR", "CASE", "WHEN", "INTVAL", "THEN", "INTVAL", "END">>),
   <<"CREATE", "VIEW", "IF", "NOT", "EXISTS", "IDENTIFIER", "(", "IDENTIFIER", ",", "IDENTIFIER", ")", "AS">>
   \o Select,
   <<"CREATE", "UNIQUE", "INDEX", "IDENTIFIER", "ON", "IDENTIFIER", "(", "IDENTIFIER", ",", "IDENTIFIER", ")">>,
   <<"CREATE", "TRIGGER", "IDENTIFIER", "AFTER", "INSERT", "ON", "IDENTIFIER", "BEGIN">>
   \o Where(<<"?">>) \o <<";", "END">>}

UndefinedTexts == MalformedTexts \union SurprisingTexts

\* A placeholder in an order, or in a union, that a set operation overwrites.
OverwrittenTexts ==
  {Paren(Select \o <<"ORDER", "BY", "?">>) \o <<"UNION">> \o Select,
   Paren(Select \o <<"UNION">> \o Marked) \o <<"UNION">> \o Select}
=============================================================================
