------------------------------ MODULE SqlHeap ------------------------------
(***************************************************************************)
(* The memory the parser builds its result in: AST objects, vectors and    *)
(* C strings, and the destructors of the AST classes.                      *)
(*                                                                         *)
(* An allocation is a number, larger for later allocations. A field, like  *)
(* a value on the parser's stack, is the set of allocations it points to:  *)
(* empty for a null pointer, two for a qualified table name (its schema    *)
(* and its name always share one fate), called tableName. A vector is an   *)
(* allocation of its own, whose "elems" are the pointers in it.            *)
(*                                                                         *)
(* Of the members that are no pointers an object has its type and, in the  *)
(* domain of f, those no constructor sets once they are assigned.          *)
(***************************************************************************)
EXTENDS Integers, Sequences, FiniteSets, FiniteSetsExt, TLC

NotSet == -1      \* the ival of an expression, the stringLength of a statement

\* mismatched: members holding a malloc'ed string that were freed with delete;
\* fault: the undefined behaviour met, "none" so far.
EmptyMemory == [heap |-> <<>>, next |-> 1, mismatched |-> {}, fault |-> "none"]

Faulted(m, what) == [m EXCEPT !.fault = what]

Live(m) == DOMAIN m.heap

New(m, kind, type, fields) ==
  LET object == [kind |-> kind, type |-> type, f |-> fields, n |-> NotSet]
  IN [m EXCEPT !.heap = [x \in Live(m) \union {m.next} |-> IF x = m.next THEN object ELSE @[x]],
               !.next = @ + 1]

NewString(m) == New(m, "char", "", <<>>)

Field(m, x, g) == IF x \in Live(m) /\ g \in DOMAIN m.heap[x].f THEN m.heap[x].f[g] ELSE {}

FieldsOf(m, S, g) == UNION {Field(m, x, g) : x \in S}

\* The object a pointer that is not null points to.
Pointee(p) == CHOOSE x \in p : TRUE

Member(m, p, g) == IF p = {} THEN {} ELSE Field(m, Pointee(p), g)

\* The members fields after those in f are assigned.
Assign(fields, f) ==
  [g \in DOMAIN fields \union DOMAIN f |-> IF g \in DOMAIN f THEN f[g] ELSE fields[g]]

\* The members in f of the object p points to are assigned.
SetFields(m, p, f) ==
  IF p \subseteq Live(m) /\ p # {} THEN [m EXCEPT !.heap[Pointee(p)].f = Assign(@, f)]
  ELSE Faulted(m, IF p = {} THEN "null dereference" ELSE "use after free")

PushBack(m, p, val) == SetFields(m, p, [elems |-> Member(m, p, "elems") \union val])

\* The objects in the domain of n get the numbers n.
SetNumbers(m, n) ==
  [m EXCEPT !.heap = [x \in Live(m) |-> IF x \in DOMAIN n THEN [@[x] EXCEPT !.n = n[x]] ELSE @[x]]]

Elements(m, S) == FieldsOf(m, S, "elems")

\* A vector's elements in its order, which is that of their allocation.
InOrder(S) == [k \in 1..Cardinality(S) |-> CHOOSE x \in S : Cardinality({y \in S : y <= x}) = k]

-----------------------------------------------------------------------------
(* The classes: their types and their members.                             *)

ExprTypes ==
  {"kExprLiteralFloat", "kExprLiteralString", "kExprLiteralInt", "kExprLiteralNull", "kExprStar",
   "kExprParameter", "kExprNamedParameter", "kExprColumnRef", "kExprFunctionRef", "kExprSelect"}

\* An expression of type kExprOperator has its opType here.
OperatorTypes ==
  {"kOpBetween", "kOpCase", "kOpCaseList", "kOpCaseListElement", "kOpPlus", "kOpMinus",
   "kOpAsterisk", "kOpSlash", "kOpPercentage", "kOpCaret", "kOpEquals", "kOpNotEquals", "kOpLess",
   "kOpLessEq", "kOpGreater", "kOpGreaterEq", "kOpLike", "kOpNotLike", "kOpILike", "kOpMatch",
   "kOpAnd", "kOpOr", "kOpIn", "kOpConcat", "kOpNot", "kOpUnaryMinus", "kOpIsNull", "kOpExists"}

TableTypes == {"kTableName", "kTableSelect", "kTableJoin", "kTableCrossProduct"}

SchemaTypes ==
  [ColumnConstraint |-> {"PRIMARYKEY", "NOTNULL", "UNIQUE", "DEFAULT", "AUTOINCREMENT",
                         "FOREIGNKEY"},
   TableConstraint |-> {"kPrimaryKey", "kForeignKey", "kUnique", "kCheck"},
   ForeignKeyEvent |-> {"kFKDelete", "kFKUpdate", "kFKMatch"},
   CreateStatement |-> {"kCreateTable", "kCreateView", "kCreateIndex", "kCreateTrigger"}]

Types ==
  [Expr |-> ExprTypes \union OperatorTypes,
   TableRef |-> TableTypes,
   InsertStatement |-> {"kInsertValues", "kInsertSelect"},
   DropStatement |-> {"kDropTable", "kDropIndex", "kDropView", "kDropTrigger"},
   AlterStatement |-> {"kAlterRenameTable", "kAlterRenameColumn", "kAlterAddColumn"}]
  @@ SchemaTypes

TypesOf(kind) == IF kind \in DOMAIN Types THEN Types[kind] ELSE {""}

ExprMembers == {"expr", "expr2", "exprList", "select", "name", "table", "alias", "escape"}

SelectMembers ==
  [OrderDescription |-> {"expr", "collation"},
   LimitDescription |-> {"limit", "offset"},
   GroupByDescription |-> {"columns", "having"},
   SelectStatement |-> {"fromTable", "selectList", "whereClause", "groupBy", "unionSelect",
                        "order", "limit"}]

TableMembers ==
  [TableRef |-> {"tableName", "indexed_by", "alias", "select", "list", "join"},
   JoinDefinition |-> {"left", "right", "condition"}]

CreateMembers ==
  {"isVirtual", "isTemporary", "tableName", "indexName", "indexedColumns", "columns",
   "tableConstraints", "viewColumns", "select", "triggerName", "triggerType", "triggerEvent",
   "triggerStatementList"}

SchemaMembers ==
  [ForeignKeyEvent |-> {"match", "action"},
   ForeignKeyConstraint |-> {"table", "columns", "events"},
   ColumnConstraint |-> {"expr", "fk"},
   TableConstraint |-> {"columns", "expr", "foreignKeyConstraint", "onConflict"},
   ColumnDefinition |-> {"name", "defaultVal", "typemod", "foreignKeyConstraint"},
   IndexedColumn |-> {"name", "collation"},
   CreateStatement |-> CreateMembers]

StatementMembers ==
  [DeleteStatement |-> {"tableName", "expr"},
   DropStatement |-> {"ifExists", "tableName"},
   InsertStatement |-> {"tableName", "columns", "values", "select", "orReplace"},
   PragmaStatement |-> {"type", "expr"},
   AlterStatement |-> {"tableName", "columnName", "newName", "columnDefinition"},
   UpdateClause |-> {"column", "value"},
   UpdateStatement |-> {"table", "updates", "where"}]

Members == [char |-> {}, vector |-> {"elems"}, Expr |-> ExprMembers] @@ SelectMembers
           @@ TableMembers @@ SchemaMembers @@ StatementMembers

-----------------------------------------------------------------------------
(* The destructors.                                                        *)

\* Per class, the members its destructor frees, vectors with their elements.
ExprFrees == {"expr", "expr2", "select", "name", "table", "alias", "exprList", "escape"}

SelectFrees ==
  [OrderDescription |-> {"expr", "collation"},
   LimitDescription |-> {"limit", "offset"},
   GroupByDescription |-> {"columns", "having"},
   SelectStatement |-> {"fromTable", "whereClause", "groupBy", "unionSelect", "limit",
                        "selectList", "order"}]

TableFrees ==      \* not indexed_by
  [TableRef |-> {"tableName", "alias", "select", "list", "join"},
   JoinDefinition |-> {"left", "right", "condition"}]

CreateFrees == {"tableName", "select", "indexName", "triggerName", "triggerStatementList",
                "columns", "tableConstraints", "viewColumns", "indexedColumns"}

SchemaFrees ==
  [ColumnDefinition |-> {"name", "defaultVal", "foreignKeyConstraint"},
   TableConstraint |-> {"columns", "expr", "foreignKeyConstraint"},
   ForeignKeyConstraint |-> {"table", "columns", "events"},
   ForeignKeyEvent |-> {"match"},
   IndexedColumn |-> {"name", "collation"},
   CreateStatement |-> CreateFrees]

StatementFrees ==
  [DeleteStatement |-> {"tableName", "expr"},
   DropStatement |-> {"tableName"},
   InsertStatement |-> {"tableName", "select", "columns", "values"},
   PragmaStatement |-> {"expr"},
   AlterStatement |-> {"tableName", "columnName", "newName", "columnDefinition"},
   UpdateStatement |-> {"table", "where", "updates"}]

Frees == [Expr |-> ExprFrees] @@ SelectFrees @@ TableFrees @@ SchemaFrees @@ StatementFrees

\* No destructor, or one that frees nothing.
Plain == {"char", "vector", "ColumnConstraint", "UpdateClause"}

FreedBy(kind) == IF kind \in Plain THEN {} ELSE Frees[kind]

\* Vectors deleted without their elements.
Shallow(kind) == IF kind = "CreateStatement" THEN {"triggerStatementList"} ELSE {}

\* Members holding strings of strdup or malloc to which `delete' is applied.
DeletedStrings(kind) ==
  CASE kind = "AlterStatement" -> {"tableName", "columnName", "newName"}
    [] kind = "IndexedColumn" -> {"name", "collation"}
    [] kind = "ForeignKeyConstraint" -> {"table", "columns"}
    [] kind = "TableConstraint" -> {"columns"}
    [] kind = "ForeignKeyEvent" -> {"match"}
    [] kind = "CreateStatement" -> {"indexName", "triggerName"}
    [] kind = "OrderDescription" -> {"collation"}
    [] OTHER -> {}

\* ~UpdateStatement also frees the members of its clauses, which have no destructor.
MembersOfClauses(m, clauses) == FieldsOf(m, clauses, "column") \union FieldsOf(m, clauses, "value")

\* What the destructor of x frees besides x.
Owned(m, x) ==
  LET kind == m.heap[x].kind
      members(G) == UNION {Field(m, x, g) : g \in G}
      elements == Elements(m, members(FreedBy(kind) \ Shallow(kind)))
  IN members(FreedBy(kind)) \union elements
     \union (IF kind = "UpdateStatement" THEN MembersOfClauses(m, elements) ELSE {})

\* What the destructors of T free in turn, as far as it is live.
Further(m, T) == (UNION {Owned(m, x) : x \in T}) \intersect Live(m)

\* The allocations of S, all live, and what their destructors free in turn.
Doomed(m, S) ==
  LET from[T \in SUBSET Live(m)] ==
        IF Further(m, T) \subseteq T THEN T ELSE from[T \union Further(m, T)]
  IN from[S]

\* delete (or free) of every allocation in S.
Delete(m, S) ==
  LET D == Doomed(m, S \intersect Live(m))
      freed == S \union UNION {Owned(m, x) : x \in D}
      mixed(x) == {g \in DeletedStrings(m.heap[x].kind) : Field(m, x, g) # {}}
  IN [m EXCEPT
       !.heap = [x \in Live(m) \ D |-> m.heap[x]],
       !.mismatched = @ \union UNION {{<<m.heap[x].kind, g>> : g \in mixed(x)} : x \in D},
       !.fault = IF freed \subseteq Live(m) THEN @ ELSE "double free"]

\* delete of each of the objects, in their order.
DeleteEach(m, objects) ==
  LET deleted[k \in 0..Len(objects)] ==
        IF k = 0 THEN m ELSE Delete(deleted[k - 1], {objects[k]})
  IN deleted[Len(objects)]

\* delete of each element, strings included, of the vectors in S, and of the vectors.
DeleteWithElements(m, S) ==
  LET strings == {x \in Elements(m, S) \intersect Live(m) : m.heap[x].kind = "char"}
      deleted == Delete(m, S \union Elements(m, S))
  IN IF strings = {} THEN deleted
     ELSE [deleted EXCEPT !.mismatched = @ \union {<<"vector", "elems">>}]
=============================================================================
