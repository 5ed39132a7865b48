----------------------------- MODULE SqlGrammar -----------------------------
(***************************************************************************)
(* The grammar of bison_parser.y with its semantic actions: one row per    *)
(* alternative. An action is code, a sequence of instructions of which     *)
(* the last one makes $$; without instructions $$ has no pointer: untyped  *)
(* symbols, flags, nullptr. An instruction applies op to the value `on'    *)
(* and to args, a function from members or places to values. A value is i  *)
(* for $i, -i for what the instruction i places before made, and 0 for     *)
(* null. The instructions are                                              *)
(*   K(i)              $i                                                  *)
(*   Copy              strdup of a literal                                 *)
(*   Obj(c, t, f)      new c of type t, "" if c has no types, with the     *)
(*                     members f; a member no constructor sets is listed   *)
(*                     when it gets a flag                                 *)
(*   Vec(es)           new std::vector holding es                          *)
(*   Push(p, e)        p->push_back(e)                                     *)
(*   PushIn(p, g, e)   p->g->push_back(e)                                  *)
(*   Set(p, f)         the object of p with the members f overwritten      *)
(*   Take(p, g)        p->g, a null pointer in its place                   *)
(*   Swap(p, g, e)     if e is no null pointer, delete p->g; p->g = e      *)
(*   Consume(p, v)     v, after which p is deleted                         *)
(*   CopyName(p)       strdup(p->name)                                     *)
(*   CopyGetName(p)    strdup(p->getName()) if the table p has a name      *)
(*   Both(p, q)        p and q, a qualified name                           *)
(*   Column(p, q)      new ColumnDefinition of the name p and the          *)
(*                     constraints q                                       *)
(*                                                                         *)
(* Tokens have the names of the file, without quotes; "tableName" is both  *)
(* the schema and the name of a table.                                     *)
(***************************************************************************)
EXTENDS Integers, Sequences, TLC

\* The kinds of rows: "node" but for three that do more (SqlParser).
Row(lhs, rhs, code) == [lhs |-> lhs, rhs |-> rhs, code |-> code, kind |-> "node", when |-> {}]

Special(kind, row) == [row EXCEPT !.kind = kind]

\* A row bison prefers to the other reductions of a state only before these tokens.
When(row, tokens) == [row EXCEPT !.when = tokens]

In(op, what, type, on, args) ==
  <<[op |-> op, what |-> what, type |-> type, on |-> on, args |-> args]>>

Operations == {"value", "copy", "new", "vector", "push", "pushin", "set", "take", "replace",
               "delete", "copyName", "copyGetName", "both", "column"}

None == <<>>
Null == <<>>
K(i) == In("value", "", "", i, <<>>)
Copy == In("copy", "", "", 0, <<>>)
Obj(class, type, f) == In("new", class, type, 0, f)
Vec(es) == In("vector", "", "", 0, es)
Push(p, e) == In("push", "", "", p, <<e>>)
PushIn(p, g, e) == In("pushin", g, "", p, <<e>>)
Set(p, f) == In("set", "", "", p, f)
Take(p, g) == In("take", g, "", p, <<>>)
Swap(p, g, e) == In("replace", g, "", p, <<e>>)
Consume(p, v) == In("delete", "", "", p, <<v>>)
CopyName(p) == In("copyName", "", "", p, <<>>)
CopyGetName(p) == In("copyGetName", "", "", p, <<>>)
Both(p, q) == In("both", "", "", 0, <<p, q>>)
Column(p, q) == In("column", "", "", q, [name |-> p])

\* Rows for a symbol that derives single tokens.
Tokens(lhs, toks, do) == [k \in 1..Len(toks) |-> Row(lhs, <<toks[k]>>, do)]

\* Mutant: the list grows from its last element.
ListOf_RightRecursive(lhs, elem, sep) ==
  <<Row(lhs, <<elem>>, Vec(<<1>>)),
    Row(lhs, <<elem>> \o sep \o <<lhs>>, Push(2 + Len(sep), 1))>>

\* A list separated by commas (or, with sep = <<>>, by nothing).
ListOf(lhs, elem, sep) ==
  <<Row(lhs, <<elem>>, Vec(<<1>>)),
    Row(lhs, <<lhs>> \o sep \o <<elem>>, Push(1, 2 + Len(sep)))>>

-----------------------------------------------------------------------------
InputRows ==
  <<Row("$accept", <<"input", "EOF">>, None),
    Special("input", Row("input", <<"statement_list", "opt_semicolon">>, None)),
    Special("stmt", Row("statement_list", <<"statement">>, Vec(<<1>>))),
    Special("stmt", Row("statement_list", <<"statement_list", ";", "statement">>, Push(1, 3)))>>
  \o Tokens("statement",
       <<"select_statement", "create_statement", "insert_statement", "delete_statement",
         "update_statement", "drop_statement", "pragma_statement", "alter_statement">>, K(1))

AlterPragmaRows ==
  <<Row("alter_statement", <<"ALTER", "TABLE", "table_name", "RENAME", "TO", "string_or_token">>,
      Obj("AlterStatement", "kAlterRenameTable", [tableName |-> 3, newName |-> 6])),
    Row("alter_statement", <<"ALTER", "TABLE", "table_name", "RENAME", "COLUMN",
                           "string_or_token", "TO", "string_or_token">>,
      Obj("AlterStatement", "kAlterRenameColumn",
          [tableName |-> 3, columnName |-> 6, newName |-> 8])),
    Row("alter_statement", <<"ALTER", "TABLE", "table_name", "ADD", "column_def">>,
      Obj("AlterStatement", "kAlterAddColumn", [tableName |-> 3, columnDefinition |-> 5])),
    Row("pragma_statement", <<"PRAGMA", "expr">>, Obj("PragmaStatement", "", [expr |-> 2]))>>

CreateRows ==
  <<Row("create_statement", <<"CREATE", "opt_virtual", "opt_temporary", "TABLE", "opt_not_exists",
        "table_name", "(", "column_def_commalist", "opt_coma", "opt_table_constraint_list", ")">>,
      Obj("CreateStatement", "kCreateTable",
          [isVirtual |-> 2, isTemporary |-> 3, tableName |-> 6, columns |-> 8,
           tableConstraints |-> 10])),
    Row("create_statement", <<"CREATE", "VIEW", "opt_not_exists", "table_name", "opt_column_list",
        "AS", "select_statement">>,
      Obj("CreateStatement", "kCreateView",
          [tableName |-> 4, viewColumns |-> 5, select |-> 7])),
    Row("create_statement", <<"CREATE", "opt_unique", "INDEX", "opt_not_exists", "string_or_token",
        "ON", "table_name", "(", "indexed_column_list", ")">>,
      Obj("CreateStatement", "kCreateIndex",
          [indexName |-> 5, tableName |-> 7, indexedColumns |-> 9])),
    Row("create_statement", <<"CREATE", "TRIGGER", "opt_not_exists", "string_or_token",
        "trigger_type", "trigger_event", "ON", "table_name", "BEGIN", "statement_list",
        "opt_semicolon", "END">>,
      Obj("CreateStatement", "kCreateTrigger",
          [triggerName |-> 4, triggerType |-> 5, triggerEvent |-> 6, tableName |-> 8,
           triggerStatementList |-> 10]))>>
  \o ListOf("indexed_column_list", "indexed_column", <<",">>)
  \o <<Row("indexed_column", <<"string_or_token", "opt_order_type">>,
         Obj("IndexedColumn", "", [name |-> 1])),
       Row("indexed_column", <<"string_or_token", "COLLATE", "string_or_token", "opt_order_type">>,
         Obj("IndexedColumn", "", [name |-> 1, collation |-> 3])),
       Row("opt_unique", <<"UNIQUE">>, None),
       When(Row("opt_unique", <<>>, None), {"INDEX"}),
       Row("opt_not_exists", <<"IF", "NOT", "EXISTS">>, None),
       Row("opt_not_exists", <<>>, None),
       Row("opt_virtual", <<"VIRTUAL">>, None),
       Row("opt_virtual", <<>>, None),
       Row("opt_temporary", <<"TEMP">>, None),
       Row("opt_temporary", <<"TEMPORARY">>, None),
       Row("opt_temporary", <<>>, None)>>

Constraint(type) == Obj("ColumnConstraint", type, <<>>)

ColumnRows ==
  ListOf("column_def_commalist", "column_def", <<",">>)
  \o <<Row("column_def", <<"string_or_token", "column_type", "column_constraint_list_nullable">>,
         Column(1, 3)),
       Row("column_def", <<"string_or_token", "column_type", "(", "INTVAL", ")",
                         "column_constraint_list_nullable">>,
         Column(1, 6) \o Set(-1, [typemod |-> 4])),
       Row("column_constraint_list_nullable", <<"column_constraint_list">>, K(1)),
       Row("column_constraint_list_nullable", <<>>, Vec(<<>>))>>
  \o ListOf("column_constraint_list", "column_constraint", <<>>)
  \o <<Row("column_constraint", <<"PRIMARY", "KEY">>, Constraint("PRIMARYKEY")),
       Row("column_constraint", <<"NOT", "NULL">>, Constraint("NOTNULL")),
       Row("column_constraint", <<"NOTNULL">>, Constraint("NOTNULL")),
       Row("column_constraint", <<"UNIQUE">>, Constraint("UNIQUE")),
       Row("column_constraint", <<"DEFAULT", "expr">>,
         Obj("ColumnConstraint", "DEFAULT", [expr |-> 2])),
       Row("column_constraint", <<"AUTOINCREMENT">>, Constraint("AUTOINCREMENT")),
       Row("column_constraint", <<"foreign_key_constraint">>,
         Obj("ColumnConstraint", "FOREIGNKEY", [fk |-> 1]))>>

ForeignKeyRows ==
  <<Row("foreign_key_constraint", <<"REFERENCES", "string_or_token", "opt_column_list",
        "foreign_key_event_list", "opt_foreign_key_deferrable">>,
      Obj("ForeignKeyConstraint", "", [table |-> 2, columns |-> 3, events |-> 4])),
    Row("opt_foreign_key_deferrable", <<"DEFERRABLE", "INITIALLY", "DEFERRED">>, None),
    Row("opt_foreign_key_deferrable", <<"NOT", "DEFERRABLE", "INITIALLY", "DEFERRED">>, None),
    Row("opt_foreign_key_deferrable", <<"NOT", "DEFERRABLE", "INITIALLY", "IMMEDIATE">>, None),
    Row("opt_foreign_key_deferrable", <<"NOT", "DEFERRABLE">>, None),
    Row("opt_foreign_key_deferrable", <<"DEFERRABLE", "INITIALLY", "IMMEDIATE">>, None),
    Row("opt_foreign_key_deferrable", <<"DEFERRABLE">>, None),
    Row("opt_foreign_key_deferrable", <<>>, None)>>
  \o ListOf("foreign_key_event_list", "foreign_key_event", <<>>)
  \o <<Row("foreign_key_event_list", <<>>, Null),
       Row("foreign_key_event", <<"ON", "DELETE", "foreign_key_action">>,
         Obj("ForeignKeyEvent", "kFKDelete", [action |-> 3])),
       Row("foreign_key_event", <<"ON", "UPDATE", "foreign_key_action">>,
         Obj("ForeignKeyEvent", "kFKUpdate", [action |-> 3])),
       Row("foreign_key_event", <<"MATCH", "string_or_token">>,
         Obj("ForeignKeyEvent", "kFKMatch", [match |-> 2])),
       Row("foreign_key_action", <<"SET", "NULL">>, None),
       Row("foreign_key_action", <<"SET", "DEFAULT">>, None),
       Row("foreign_key_action", <<"CASCADE">>, None),
       Row("foreign_key_action", <<"RESTRICT">>, None),
       Row("foreign_key_action", <<"NO", "ACTION">>, None)>>

SchemaTypeRows ==
  Tokens("column_type", <<"INT", "INTEGER", "LONG", "BOOLEAN", "TEXT", "BLOB", "REAL", "DOUBLE",
                          "FLOAT", "VARCHAR", "DATETIME">>, None)
  \o Tokens("trigger_type", <<"BEFORE", "AFTER">>, None)
  \o <<Row("trigger_type", <<"INSTEAD", "OF">>, None)>>
  \o Tokens("trigger_event", <<"DELETE", "INSERT", "UPDATE">>, None)

TableConstraintRows ==
  ListOf("opt_table_constraint_list", "table_constraint", <<",">>)
  \o <<Row("opt_table_constraint_list", <<>>, Null),
       Row("table_constraint", <<"FOREIGN", "KEY", "(", "ident_commalist", ")",
                               "foreign_key_constraint">>,
         Obj("TableConstraint", "kForeignKey",
             [columns |-> 4, foreignKeyConstraint |-> 6])),
       Row("table_constraint", <<"PRIMARY", "KEY", "(", "ident_commalist", ")",
                               "opt_conflict_clause">>,
         Obj("TableConstraint", "kPrimaryKey", [columns |-> 4, onConflict |-> 6])),
       Row("table_constraint", <<"UNIQUE", "(", "ident_commalist", ")", "opt_conflict_clause">>,
         Obj("TableConstraint", "kUnique", [columns |-> 3, onConflict |-> 5])),
       Row("table_constraint", <<"CHECK", "(", "expr", ")">>,
         Obj("TableConstraint", "kCheck", [expr |-> 3])),
       Row("opt_conflict_clause", <<>>, None)>>
  \o [k \in 1..5 |-> Row("opt_conflict_clause",
        <<"ON", "CONFLICT", <<"ROLLBACK", "ABORT", "FAIL", "IGNORE", "REPLACE">>[k]>>, None)]

-----------------------------------------------------------------------------
DropDeleteRows ==
  <<Row("drop_statement", <<"DROP", "TABLE", "opt_exists", "table_name">>,
      Obj("DropStatement", "kDropTable", [ifExists |-> 3, tableName |-> 4])),
    Row("drop_statement", <<"DROP", "VIEW", "opt_exists", "table_name">>,
      Obj("DropStatement", "kDropView", [ifExists |-> 3, tableName |-> 4])),
    Row("drop_statement", <<"DROP", "TRIGGER", "opt_exists", "string_or_token">>,
      Obj("DropStatement", "kDropTrigger", [ifExists |-> 3, tableName |-> 4])),
    Row("drop_statement", <<"DROP", "INDEX", "opt_exists", "string_or_token">>,
      Obj("DropStatement", "kDropIndex", [ifExists |-> 3, tableName |-> 4])),
    Row("opt_exists", <<"IF", "EXISTS">>, None),
    Row("opt_exists", <<>>, None),
    Row("delete_statement", <<"DELETE", "FROM", "table_name", "opt_where">>,
      Obj("DeleteStatement", "", [tableName |-> 3, expr |-> 4]))>>

InsertUpdateRows ==
  <<Row("insert_statement", <<"INSERT", "opt_or_replace", "INTO", "table_name", "opt_column_list",
                            "VALUES", "(", "expr_list", ")">>,
      Obj("InsertStatement", "kInsertValues",
          [orReplace |-> 2, tableName |-> 4, columns |-> 5, values |-> 8])),
    Row("insert_statement", <<"INSERT", "opt_or_replace", "INTO", "table_name", "opt_column_list",
                            "select_no_paren">>,
      Obj("InsertStatement", "kInsertSelect",
          [orReplace |-> 2, tableName |-> 4, columns |-> 5, select |-> 6])),
    Row("opt_or_replace", <<"OR", "REPLACE">>, None),
    Row("opt_or_replace", <<>>, None),
    Row("opt_column_list", <<"(", "ident_commalist", ")">>, K(2)),
    Row("opt_column_list", <<>>, Null),
    Row("update_statement", <<"UPDATE", "table_ref_name_no_alias", "SET",
                            "update_clause_commalist", "opt_where">>,
      Obj("UpdateStatement", "", [table |-> 2, updates |-> 4, where |-> 5]))>>
  \o ListOf("update_clause_commalist", "update_clause", <<",">>)
  \o <<Row("update_clause", <<"string_or_token", "=", "expr">>,
         Obj("UpdateClause", "", [column |-> 1, value |-> 3]))>>

\* Mutant: the limit of $1 is overwritten as well.
Compose_KeepsOldLimit(f, limit) == Set(1, [limit |-> limit] @@ f)

\* `$$ = $1' with the clauses after it; a limit replaces the one $1 has, which is
\* deleted, whereas order and unionSelect are overwritten.
Compose(f, limit) == Set(1, f) \o Swap(-1, "limit", limit)

SelectRows ==
  Tokens("select_statement", <<"select_with_paren", "select_no_paren">>, K(1))
  \o <<Row("select_statement", <<"select_with_paren", "set_operator", "select_paren_or_clause",
                               "opt_order", "opt_limit">>,
         Compose([unionSelect |-> 3, order |-> 4], 5)),
       Row("select_with_paren", <<"(", "select_no_paren", ")">>, K(2)),
       Row("select_with_paren", <<"(", "select_with_paren", ")">>, K(2))>>
  \o Tokens("select_paren_or_clause", <<"select_with_paren", "select_clause">>, K(1))
  \o <<Row("select_no_paren", <<"select_clause", "opt_order", "opt_limit">>,
         Compose([order |-> 2], 3)),
       Row("select_no_paren", <<"select_clause", "set_operator", "select_paren_or_clause",
                              "opt_order", "opt_limit">>,
         Compose([unionSelect |-> 3, order |-> 4], 5)),
       Row("set_operator", <<"set_type", "opt_all">>, None)>>
  \o Tokens("set_type", <<"UNION", "INTERSECT", "EXCEPT">>, None)
  \o <<Row("opt_all", <<"ALL">>, None),
       Row("opt_all", <<>>, None),
       Row("select_clause", <<"SELECT", "opt_distinct", "select_list", "from_clause", "opt_where",
                            "opt_group">>,
         Obj("SelectStatement", "",
             [selectList |-> 3, fromTable |-> 4, whereClause |-> 5, groupBy |-> 6])),
       Row("opt_distinct", <<"DISTINCT">>, None),
       Row("opt_distinct", <<>>, None),
       Row("select_list", <<"expr_list">>, K(1)),
       Row("from_clause", <<"FROM", "table_ref">>, K(2))>>

ClauseRows ==
  <<Row("opt_where", <<"WHERE", "expr">>, K(2)),
    Row("opt_where", <<>>, Null),
    Row("opt_group", <<"GROUP", "BY", "expr_list", "opt_having">>,
      Obj("GroupByDescription", "", [columns |-> 3, having |-> 4])),
    Row("opt_group", <<>>, Null),
    Row("opt_having", <<"HAVING", "expr">>, K(2)),
    Row("opt_having", <<>>, Null),
    Row("opt_order", <<"ORDER", "BY", "order_list">>, K(3)),
    Row("opt_order", <<>>, Null)>>
  \o ListOf("order_list", "order_desc", <<",">>)
  \o <<Row("order_desc", <<"expr", "COLLATE", "IDENTIFIER", "opt_order_type">>,
         Obj("OrderDescription", "", [expr |-> 1, collation |-> 3])),
       Row("order_desc", <<"expr", "opt_order_type">>,
         Obj("OrderDescription", "", [expr |-> 1]))>>
  \o Tokens("opt_order_type", <<"ASC", "DESC">>, None)
  \o <<Row("opt_order_type", <<>>, None),
       Row("opt_limit", <<"LIMIT", "expr">>, Obj("LimitDescription", "", [limit |-> 2])),
       Row("opt_limit", <<"LIMIT", "expr", "OFFSET", "expr">>,
         Obj("LimitDescription", "", [limit |-> 2, offset |-> 4])),
       Row("opt_limit", <<"LIMIT", "expr", ",", "expr">>,
         Obj("LimitDescription", "", [limit |-> 4, offset |-> 2])),
       Row("opt_limit", <<>>, Null)>>

-----------------------------------------------------------------------------
(* Expr::make...                                                           *)

makeExpr(type, f) == Obj("Expr", type, f)
makeLiteral(type) == makeExpr(type, <<>>)
makeString(name) == makeExpr("kExprLiteralString", [name |-> name])
makeOpUnary(op, e) == makeExpr(op, [expr |-> e])
makeOpBinary(l, op, r) == makeExpr(op, [expr |-> l, expr2 |-> r])
makeEscape(l, op, r, esc) == makeExpr(op, [expr |-> l, expr2 |-> r, escape |-> esc])
makeBetween(e, l, r) == Vec(<<l, r>>) \o makeExpr("kOpBetween", [expr |-> e, exprList |-> -1])
makeCaseList(e) == Vec(<<e>>) \o makeExpr("kOpCaseList", [exprList |-> -1])

\* Mutant: the arguments are swapped.
makeCaseListElement_Swapped(when, then) == makeOpBinary(then, "kOpCaseListElement", when)

makeCaseListElement(when, then) == makeOpBinary(when, "kOpCaseListElement", then)

\* The list's vector moves to the new expression.
makeCase(e, list, else) ==
  Take(list, "exprList") \o makeExpr("kOpCase", [expr |-> e, expr2 |-> else, exprList |-> -1])
  \o Consume(list, -1)

makeIn(e, in) == makeExpr("kOpIn", [expr |-> e] @@ in)
makeSelect(s) == makeExpr("kExprSelect", [select |-> s])
makeExists(s) == makeExpr("kOpExists", [select |-> s])
makeColumnRef(f) == makeExpr("kExprColumnRef", f)
makeStar(f) == makeExpr("kExprStar", f)
makeFunctionRef(name, es) == makeExpr("kExprFunctionRef", [name |-> name, exprList |-> es])
makeNamedParameter(name) == makeExpr("kExprNamedParameter", [name |-> name])

ExprRows ==
  ListOf("expr_list", "expr_alias", <<",">>)
  \o <<Row("expr_alias", <<"expr", "opt_alias">>, Set(1, [alias |-> 2]))>>
  \o Tokens("expr", <<"operand", "between_expr", "logic_expr", "exists_expr", "in_expr">>, K(1))
  \o <<Row("operand", <<"(", "expr", ")">>, K(2)),
       Row("operand", <<"(", "select_no_paren", ")">>, makeSelect(2))>>
  \o Tokens("operand", <<"scalar_expr", "unary_expr", "binary_expr", "case_expr",
                         "function_expr">>, K(1))
  \o Tokens("scalar_expr", <<"column_name", "literal">>, K(1))

\* `operand op operand', for each of the operators, a token and its opType.
Infix(lhs, ops) == [k \in 1..Len(ops) |-> Row(lhs, <<"operand", ops[k][1], "operand">>,
                                            makeOpBinary(1, ops[k][2], 3))]

Comparisons ==
  <<<<"=", "kOpEquals">>, <<"NOTEQUALS", "kOpNotEquals">>, <<"<", "kOpLess">>,
    <<">", "kOpGreater">>, <<"LESSEQ", "kOpLessEq">>, <<"GREATEREQ", "kOpGreaterEq">>>>

Operators ==
  <<<<"-", "kOpMinus">>, <<"+", "kOpPlus">>, <<"/", "kOpSlash">>, <<"*", "kOpAsterisk">>,
    <<"%", "kOpPercentage">>, <<"^", "kOpCaret">>, <<"LIKE", "kOpLike">>,
    <<"ILIKE", "kOpILike">>, <<"CONCAT", "kOpConcat">>, <<"MATCH", "kOpMatch">>>>

OperatorRows ==
  <<Row("unary_expr", <<"-", "operand">>, makeOpUnary("kOpUnaryMinus", 2)),
    Row("unary_expr", <<"NOT", "operand">>, makeOpUnary("kOpNot", 2)),
    Row("unary_expr", <<"operand", "ISNULL">>, makeOpUnary("kOpIsNull", 1)),
    Row("unary_expr", <<"operand", "IS", "NULL">>, makeOpUnary("kOpIsNull", 1)),
    Row("unary_expr", <<"operand", "IS", "NOT", "NULL">>,
      makeOpUnary("kOpIsNull", 1) \o makeOpUnary("kOpNot", -1)),
    Row("binary_expr", <<"comp_expr">>, K(1)),
    Row("binary_expr", <<"operand", "NOT", "LIKE", "operand">>,
      makeOpBinary(1, "kOpNotLike", 4)),
    Row("binary_expr", <<"operand", "LIKE", "operand", "ESCAPE", "operand">>,
      makeEscape(1, "kOpLike", 3, 5)),
    Row("binary_expr", <<"operand", "NOT", "LIKE", "operand", "ESCAPE", "operand">>,
      makeEscape(1, "kOpNotLike", 4, 6)),
    Row("binary_expr", <<"operand", "ILIKE", "operand", "ESCAPE", "operand">>,
      makeEscape(1, "kOpILike", 3, 5))>>
  \o Infix("binary_expr", Operators) \o Infix("comp_expr", Comparisons)
  \o <<Row("logic_expr", <<"expr", "AND", "expr">>, makeOpBinary(1, "kOpAnd", 3)),
       Row("logic_expr", <<"expr", "OR", "expr">>, makeOpBinary(1, "kOpOr", 3)),
       Row("between_expr", <<"operand", "BETWEEN", "operand", "AND", "operand">>,
         makeBetween(1, 3, 5))>>

NestedExprRows ==
  <<Row("in_expr", <<"operand", "IN", "(", "expr_list", ")">>, makeIn(1, [exprList |-> 4])),
    Row("in_expr", <<"operand", "NOT", "IN", "(", "expr_list", ")">>,
      makeIn(1, [exprList |-> 5]) \o makeOpUnary("kOpNot", -1)),
    Row("in_expr", <<"operand", "IN", "(", "select_no_paren", ")">>,
      makeIn(1, [select |-> 4])),
    Row("in_expr", <<"operand", "NOT", "IN", "(", "select_no_paren", ")">>,
      makeIn(1, [select |-> 5]) \o makeOpUnary("kOpNot", -1)),
    Row("in_expr", <<"operand", "IN", "(", ")">>, makeIn(1, <<>>)),
    Row("in_expr", <<"operand", "NOT", "IN", "(", ")">>,
      makeIn(1, <<>>) \o makeOpUnary("kOpNot", -1)),
    Row("case_expr", <<"CASE", "expr", "case_list", "END">>, makeCase(2, 3, 0)),
    Row("case_expr", <<"CASE", "expr", "case_list", "ELSE", "expr", "END">>,
      makeCase(2, 3, 5)),
    Row("case_expr", <<"CASE", "case_list", "END">>, makeCase(0, 2, 0)),
    Row("case_expr", <<"CASE", "case_list", "ELSE", "expr", "END">>, makeCase(0, 2, 4)),
    Row("case_list", <<"WHEN", "expr", "THEN", "expr">>,
      makeCaseListElement(2, 4) \o makeCaseList(-1)),
    Row("case_list", <<"case_list", "WHEN", "expr", "THEN", "expr">>,
      makeCaseListElement(3, 5) \o PushIn(1, "exprList", -1)),
    Row("exists_expr", <<"EXISTS", "(", "select_no_paren", ")">>, makeExists(3)),
    Row("exists_expr", <<"NOT", "EXISTS", "(", "select_no_paren", ")">>,
      makeExists(4) \o makeOpUnary("kOpNot", -1))>>

OperandRows ==
  <<Row("function_expr", <<"string_or_token", "(", ")">>, Vec(<<>>) \o makeFunctionRef(1, -1)),
    Row("function_expr", <<"string_or_token", "(", "opt_distinct", "expr_list", ")">>,
      makeFunctionRef(1, 4)),
    Row("column_name", <<"IDENTIFIER">>, makeColumnRef([name |-> 1])),
    Row("column_name", <<"IDENTIFIER", ".", "string_or_token">>,
      makeColumnRef([table |-> 1, name |-> 3])),
    Row("column_name", <<"*">>, makeStar(<<>>)),
    Row("column_name", <<"IDENTIFIER", ".", "*">>, makeStar([table |-> 1]))>>
  \o Tokens("literal", <<"string_literal", "num_literal", "null_literal", "param_expr">>, K(1))
  \o <<Row("string_literal", <<"string_or_token">>, makeString(1)),
       Row("num_literal", <<"FLOATVAL">>, makeLiteral("kExprLiteralFloat")),
       Row("num_literal", <<"int_literal">>, K(1)),
       Row("int_literal", <<"INTVAL">>, makeLiteral("kExprLiteralInt")),
       Row("null_literal", <<"NULL">>, makeLiteral("kExprLiteralNull")),
       Special("param", Row("param_expr", <<"?">>, None)),
       Row("param_expr", <<":", "IDENTIFIER">>, makeNamedParameter(2))>>

-----------------------------------------------------------------------------
TableRows ==
  <<Row("table_ref", <<"table_ref_atomic">>, K(1)),
    Row("table_ref", <<"table_ref_commalist", ",", "table_ref_atomic">>,
      Push(1, 3) \o Obj("TableRef", "kTableCrossProduct", [list |-> -1]))>>
  \o Tokens("table_ref_atomic", <<"nonjoin_table_ref_atomic", "join_clause">>, K(1))
  \o <<Row("nonjoin_table_ref_atomic", <<"table_ref_name">>, K(1)),
       Row("nonjoin_table_ref_atomic", <<"(", "select_statement", ")", "opt_alias">>,
         Obj("TableRef", "kTableSelect", [select |-> 2, alias |-> 4])),
       When(Row("table_ref_commalist", <<"table_ref_atomic">>, Vec(<<1>>)), {","}),
       When(Row("table_ref_commalist", <<"table_ref_commalist", ",", "table_ref_atomic">>,
              Push(1, 3)), {","}),
       Row("table_ref_name", <<"table_name", "opt_indexed_by", "opt_alias">>,
         Obj("TableRef", "kTableName",
             [tableName |-> 1, indexed_by |-> 2, alias |-> 3])),
       Row("indexed_by", <<"INDEXED", "BY", "IDENTIFIER">>, K(3)),
       Row("indexed_by", <<"INDEXED", "BY", "STRING">>, K(3)),
       Row("opt_indexed_by", <<"indexed_by">>, K(1)),
       Row("opt_indexed_by", <<>>, Null),
       Row("table_ref_name_no_alias", <<"table_name">>,
         Obj("TableRef", "kTableName", [tableName |-> 1])),
       Row("table_name", <<"string_or_token">>, K(1)),
       Row("table_name", <<"string_or_token", ".", "string_or_token">>, Both(1, 3)),
       Row("alias", <<"AS", "IDENTIFIER">>, K(2)),
       Row("alias", <<"AS", "STRING">>, K(2)),
       Row("alias", <<"IDENTIFIER">>, K(1)),
       Row("alias", <<"STRING">>, K(1)),
       Row("opt_alias", <<"alias">>, K(1)),
       Row("opt_alias", <<>>, Null)>>

JoinRef(f) == Obj("JoinDefinition", "", f) \o Obj("TableRef", "kTableJoin", [join |-> -1])

\* JOIN ... USING ( column ): the condition is made of copies, and the column deleted.
Using ==
  LET side(i) == CopyName(7) \o CopyGetName(i) \o makeColumnRef([name |-> -2, table |-> -1])
  IN side(1) \o side(4) \o makeOpBinary(-4, "kOpEquals", -1)
     \o JoinRef([left |-> 1, right |-> 4, condition |-> -1]) \o Consume(7, -1)

JoinRows ==
  <<Row("join_clause", <<"table_ref_atomic", "NATURAL", "JOIN", "nonjoin_table_ref_atomic">>,
      JoinRef([left |-> 1, right |-> 4])),
    Row("join_clause", <<"table_ref_atomic", "opt_join_type", "JOIN", "table_ref_atomic", "ON",
                       "join_condition">>,
      JoinRef([left |-> 1, right |-> 4, condition |-> 6])),
    Row("join_clause", <<"table_ref_atomic", "opt_join_type", "JOIN", "table_ref_atomic", "USING",
                       "(", "column_name", ")">>, Using)>>
  \o Tokens("opt_join_type", <<"INNER", "LEFT", "RIGHT", "OUTER", "FULL", "CROSS">>, None)
  \o [k \in 1..3 |-> Row("opt_join_type", <<<<"LEFT", "RIGHT", "FULL">>[k], "OUTER">>, None)]
  \o <<When(Row("opt_join_type", <<>>, None), {"JOIN"}),
       Row("join_condition", <<"expr">>, K(1))>>

MiscRows ==
  <<Row("opt_semicolon", <<";">>, None),
    Row("opt_semicolon", <<>>, None),
    Row("opt_coma", <<",">>, None),
    Row("opt_coma", <<>>, None)>>
  \o ListOf("ident_commalist", "string_or_token", <<",">>)
  \o <<When(Row("string_or_token", <<"IDENTIFIER">>, K(1)), {"("}),
       Row("string_or_token", <<"STRING">>, K(1))>>
  \o Tokens("string_or_token", <<"RECURSIVE", "TEXT", "ON", "KEY", "TEMP", "REPLACE">>, Copy)

GrammarRows ==
  InputRows \o AlterPragmaRows \o CreateRows \o ColumnRows \o ForeignKeyRows
  \o SchemaTypeRows \o TableConstraintRows \o DropDeleteRows \o InsertUpdateRows
  \o SelectRows \o ClauseRows \o ExprRows \o OperatorRows \o NestedExprRows
  \o OperandRows \o TableRows \o JoinRows \o MiscRows

-----------------------------------------------------------------------------
\* The symbols whose %destructor deletes each element and then the vector; every other
\* pointer is freed or deleted alone.
DeletedWithElements ==
  {"statement_list", "ident_commalist", "opt_column_list", "expr_list", "select_list",
   "table_ref_commalist", "opt_order", "order_list", "update_clause_commalist",
   "column_def_commalist"}

\* Mutant: sums associate to the right.
Sums_Right == [assoc |-> "right", toks |-> {"+", "-"}]

\* Mutant: sums are %nonassoc.
Sums_Nonassoc == [assoc |-> "nonassoc", toks |-> {"+", "-"}]

Sums == [assoc |-> "left", toks |-> {"+", "-"}]

\* %left, %right, %nonassoc: lowest first.
Precedence ==
  <<[assoc |-> "left", toks |-> {"OR"}],
    [assoc |-> "left", toks |-> {"AND"}],
    [assoc |-> "right", toks |-> {"NOT"}],
    [assoc |-> "nonassoc", toks |-> {"=", "NOTEQUALS", "LIKE", "ILIKE"}],
    [assoc |-> "nonassoc", toks |-> {"<", ">", "LESSEQ", "GREATEREQ"}],
    [assoc |-> "nonassoc", toks |-> {"NOTNULL"}],
    [assoc |-> "nonassoc", toks |-> {"ISNULL"}],
    [assoc |-> "nonassoc", toks |-> {"IS"}],
    Sums,
    [assoc |-> "left", toks |-> {"*", "/", "%"}],
    [assoc |-> "left", toks |-> {"^"}],
    [assoc |-> "left", toks |-> {"CONCAT"}],
    [assoc |-> "right", toks |-> {"UMINUS"}],
    [assoc |-> "left", toks |-> {"[", "]"}],
    [assoc |-> "left", toks |-> {"(", ")"}],
    [assoc |-> "left", toks |-> {"."}],
    [assoc |-> "left", toks |-> {"JOIN"}]>>
=============================================================================
