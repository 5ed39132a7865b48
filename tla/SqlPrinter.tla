----------------------------- MODULE SqlPrinter -----------------------------
(***************************************************************************)
(* The example program: it constructs a result, parses a text into it,     *)
(* prints the statements of a valid result with the printers of sqlhelper, *)
(* and destroys the result. The printers are recursive functions; one step *)
(* is the entry of one of them, up to the calls it makes.                  *)
(***************************************************************************)
EXTENDS SqlParser

CONSTANTS MaxBatch,    \* bound of the mapping to ParserResult: statements of the text
          MaxParams    \* bound of the mapping to ParserResult: parameters of the text

ASSUME MappingAssumption == MaxBatch \in Nat \ {0} /\ MaxParams \in Nat

VARIABLES
  agenda,    \* the calls still to be entered, in their order
  printed,   \* the calls that were entered, in their order
  handed     \* history: the statements the parse left in the result

program == <<vars, agenda, printed, handed>>

\* fn is called on p; if each, on every element of the vector p in turn.
On(fn, p) == [fn |-> fn, p |-> p, each |-> FALSE]
Each(fn, p) == [fn |-> fn, p |-> p, each |-> TRUE]

\* if (p != nullptr) ...
IfSet(p, calls) == IF p = {} THEN <<>> ELSE calls

\* The member g of the object x, a string.
PrintString(x, g) == <<On("inprint", Field(memory, x, g))>>
PrintStringIfSet(x, g) == IfSet(Field(memory, x, g), PrintString(x, g))

-----------------------------------------------------------------------------
(* The calls each printer makes on the object x.                           *)

\* Mutant: the left table is printed in place of the right one.
JoinCalls_LeftTwice(x) ==
  LET part(g) == FieldsOf(memory, Field(memory, x, "join"), g)
  IN <<On("printTableRefInfo", part("left")), On("printTableRefInfo", part("left")),
       On("printExpression", part("condition"))>>

JoinCalls(x) ==
  LET part(g) == FieldsOf(memory, Field(memory, x, "join"), g)
  IN <<On("printTableRefInfo", part("left")), On("printTableRefInfo", part("right")),
       On("printExpression", part("condition"))>>

TableRefCalls(x) ==
  LET member(g) == Field(memory, x, g)
  IN CASE memory.heap[x].type = "kTableName" -> PrintString(x, "tableName")
       [] memory.heap[x].type = "kTableSelect" ->
            <<On("printSelectStatementInfo", member("select"))>>
       [] memory.heap[x].type = "kTableJoin" -> JoinCalls(x)
       [] memory.heap[x].type = "kTableCrossProduct" ->
            <<Each("printTableRefInfo", member("list"))>>
       [] OTHER -> <<>>

\* Mutant: the second operand is printed without a test.
OperatorCalls_NoTest(x) ==
  <<On("printExpression", Field(memory, x, "expr")),
    On("printExpression", Field(memory, x, "expr2"))>>

\* The operand is printed first, whatever the operator.
OperatorCalls(x) ==
  LET member(g) == Field(memory, x, g)
  IN <<On("printExpression", member("expr"))>>
     \o IF member("expr2") # {} THEN <<On("printExpression", member("expr2"))>>
        ELSE IfSet(member("exprList"), <<Each("printExpression", member("exprList"))>>)

\* Types the switch does not know: nothing of them is printed, their alias included.
Unrecognized == {"kExprLiteralNull", "kExprNamedParameter"}

ExpressionCalls(x) ==
  LET type == memory.heap[x].type
      alias == IF type \in Unrecognized THEN <<>> ELSE PrintStringIfSet(x, "alias")
      parts ==
        CASE type \in OperatorTypes -> OperatorCalls(x)
          [] type = "kExprColumnRef" -> PrintString(x, "name") \o PrintStringIfSet(x, "table")
          [] type = "kExprLiteralString" -> PrintString(x, "name")
          [] type = "kExprFunctionRef" ->
               PrintString(x, "name") \o <<Each("printExpression", Field(memory, x, "exprList"))>>
          [] type = "kExprSelect" ->
               <<On("printSelectStatementInfo", Field(memory, x, "select"))>>
          [] OTHER -> <<>>
  IN parts \o alias

\* Of an order its first expression, of a limit not its offset.
SelectCalls(x) ==
  LET member(g) == Field(memory, x, g)
      one(fn, p) == IfSet(p, <<On(fn, p)>>)
      group(g) == FieldsOf(memory, member("groupBy"), g)
      orders == Elements(memory, member("order"))
      first == {y \in orders : \A z \in orders : y <= z}
  IN <<Each("printExpression", member("selectList"))>>
     \o one("printTableRefInfo", member("fromTable"))
     \o one("printExpression", member("whereClause"))
     \o IfSet(member("groupBy"), <<Each("printExpression", group("columns"))>>)
     \o one("printExpression", group("having"))
     \o one("printSelectStatementInfo", member("unionSelect"))
     \o IfSet(member("order"), <<On("printExpression", FieldsOf(memory, first, "expr"))>>)
     \o IfSet(member("limit"),
              <<On("printExpression", FieldsOf(memory, member("limit"), "limit"))>>)

CreateCalls(x) ==
  LET columns == Field(memory, x, "columns")
  IN PrintString(x, "tableName") \o IfSet(columns, <<Each("column", columns)>>)

\* The body of the loop over the columns.
ColumnCalls(x) ==
  LET default == Field(memory, x, "defaultVal")
  IN PrintString(x, "name") \o IfSet(default, <<On("printExpression", default)>>)

InsertCalls(x) ==
  LET columns == Field(memory, x, "columns")
  IN PrintString(x, "tableName")
     \o IfSet(columns, <<Each("inprint", columns)>>)
     \o IF memory.heap[x].type = "kInsertValues"
        THEN <<Each("printExpression", Field(memory, x, "values"))>>
        ELSE <<On("printSelectStatementInfo", Field(memory, x, "select"))>>

\* Statements of the other classes have no printer.
StatementCalls(x) ==
  CASE memory.heap[x].kind = "SelectStatement" -> <<On("printSelectStatementInfo", {x})>>
    [] memory.heap[x].kind = "InsertStatement" -> <<On("printInsertStatementInfo", {x})>>
    [] memory.heap[x].kind = "CreateStatement" -> <<On("printCreateStatementInfo", {x})>>
    [] OTHER -> <<>>

CallsOn(fn, x) ==
  CASE fn = "inprint" -> <<>>
    [] fn = "printStatementInfo" -> StatementCalls(x)
    [] fn = "printSelectStatementInfo" -> SelectCalls(x)
    [] fn = "printInsertStatementInfo" -> InsertCalls(x)
    [] fn = "printCreateStatementInfo" -> CreateCalls(x)
    [] fn = "column" -> ColumnCalls(x)
    [] fn = "printTableRefInfo" -> TableRefCalls(x) \o PrintStringIfSet(x, "alias")
    [] fn = "printExpression" -> ExpressionCalls(x)

-----------------------------------------------------------------------------
Callees(call) ==
  IF call.each THEN LET elements == InOrder(Elements(memory, call.p))
                    IN [k \in DOMAIN elements |-> On(call.fn, {elements[k]})]
  ELSE CallsOn(call.fn, Max(call.p))

\* Members printCreateStatementInfo reads, which only a CREATE TABLE sets.
Read(call) == IF call.fn = "printCreateStatementInfo" THEN {"isVirtual", "isTemporary"} ELSE {}

\* What is undefined in the entry of a call.
FaultOf(call) ==
  CASE call.p = {} -> "null dereference"
    [] ~(call.p \subseteq Live(memory)) -> "use after free"
    [] \E x \in call.p : ~(Read(call) \subseteq DOMAIN memory.heap[x].f) -> "unset member"
    [] OTHER -> "none"

ProgramInit == Init /\ agenda = <<>> /\ printed = <<>> /\ handed = <<>>

\* main up to the return of SQLParser::parse. A valid result is then printed.
ParseText ==
  /\ Call \/ Parse
  /\ agenda' = IF pc' = "accepted"
               THEN [k \in DOMAIN result'.statements |->
                       On("printStatementInfo", {result'.statements[k]})]
               ELSE <<>>
  /\ handed' = IF pc' \in {"accepted", "aborted"} THEN result'.statements ELSE <<>>
  /\ UNCHANGED printed

\* The next printer is entered.
Enter ==
  /\ pc = "accepted" /\ agenda # <<>>
  /\ LET call == Head(agenda)
         fault == FaultOf(call)
     IN IF fault = "none"
        THEN /\ agenda' = Callees(call) \o Tail(agenda)
             /\ printed' = Append(printed, call)
             /\ UNCHANGED <<memory, pc>>
        ELSE /\ memory' = Faulted(memory, fault)
             /\ pc' = "undefined"
             /\ UNCHANGED <<agenda, printed>>
  /\ UNCHANGED <<text, yychar, yylval, yyss, total_column, string_length, param_list, result,
                 handed>>

\* The result goes out of scope.
Return == agenda = <<>> /\ DestroyResult /\ UNCHANGED <<agenda, printed, handed>>

Exited == Finished /\ UNCHANGED <<agenda, printed, handed>>

ProgramNext == ParseText \/ Enter \/ Return \/ Exited

Program == ProgramInit /\ [][ProgramNext]_program

Ended == pc \in {"destroyed", "undefined"}

\* The program is one thread that waits for nothing: WF_program(ProgramNext), where ProgramNext
\* has a step to take until the program has ended, so that TLC need not evaluate its ENABLED.
FairProgram == Program /\ ([]<>Ended \/ []<><<ProgramNext>>_program)

-----------------------------------------------------------------------------
(* Properties.                                                             *)

\* sqlhelper.h:8, of printStatementInfo: "Prints a summary of the given SQLStatement."
\* Whatever statement a text builds, the actions and the printers find each pointer they follow
\* set and each member they read assigned (bison_parser.y and sqlhelper.cpp). The texts of
\* which it is false are in the run program_null; those of the run printer are without them.
PrintingIsDefined == memory.fault = "none"

\* Nothing is printed twice: the printers only meet a tree, in which no two members share an
\* object, so that their recursion ends (sqlhelper.cpp).
PrintedOnce == IsInjective(printed)

\* The program exits: no text makes the parser reduce by empty rules forever or an error
\* bring it back to where it was, and the printers return (example.cpp).
ProgramExits == <>Ended

-----------------------------------------------------------------------------
(* The parse is one step of ParserResult. Its statement k is the k-th that  *)
(* was handed to the result, and a parameter is in the statement it can be *)
(* reached from.                                                           *)

\* The live objects the members of T point to.
Pointed(m, T) ==
  (UNION {UNION {m.heap[x].f[g] : g \in DOMAIN m.heap[x].f} : x \in T}) \intersect Live(m)

\* What can be reached from the objects S.
Reached(m, S) ==
  LET from[T \in SUBSET Live(m)] ==
        IF Pointed(m, T) \subseteq T THEN T ELSE from[T \union Pointed(m, T)]
  IN from[S \intersect Live(m)]

\* The object y is in the limit of a select, x in its union or its order. A limit that a select
\* brings out of its parentheses is kept by the set operation that gives it the others.
KeptLimit(x, y) ==
  \E s \in Live(memory) :
    LET within(G) == Reached(memory, UNION {Field(memory, s, g) : g \in G})
    IN /\ Field(memory, s, "unionSelect") # {}
       /\ x \in within({"unionSelect", "order"}) /\ y \in within({"limit"})

\* A summary shows the placeholders in the order of their numbers, which is that of the text
\* (`input' of bison_parser.y): the printers visit the parts of a statement in the order they
\* are written in, but for the limit of a parenthesised select: it is written before the union
\* and the order that a set operation adds to the select, and printed after them
\* (sqlhelper.cpp:167-182).
PlaceholdersInOrder ==
  pc = "accepted" =>
    LET object(k) == Max(printed[k].p)
        marks == {k \in DOMAIN printed : memory.heap[object(k)].type = "kExprParameter"}
        number(k) == memory.heap[object(k)].n
    IN \A j, k \in marks : j < k => number(j) < number(k) \/ KeptLimit(object(j), object(k))

Parsed == pc \in {"accepted", "aborted"}

\* The place in objects of x, and of the object p is a part of.
Index(objects, x) == CHOOSE k \in DOMAIN objects : objects[k] = x
HomeOf(m, objects, p) == CHOOSE k \in DOMAIN objects : p \in Reached(m, {objects[k]})

\* A text hands over at most MaxBatch statements and MaxParams parameters.
WithinBounds == Len(handed) <= MaxBatch /\ Len(result.parameters) <= MaxParams

\* Each parameter a result is given is a live part of one of the statements it is given, in
\* their order, and a valid result has a statement: no action of a text that is accepted, or
\* is followed by an error, drops the expression of a `?' or moves it to another statement
\* (bison_parser.y), as test/prepare_tests.cpp:78 expects: "ASSERT_EQ(result.parameters()[0],
\* eq1->expr2);". It is false where a set operation overwrites the order or the union
\* of a parenthesised select and drops what they hold (run printer_union); the texts of the run
\* printer are without those.
ParametersPlaced ==
  Parsed =>
    LET parameters == result.parameters
        home(k) == HomeOf(memory, handed, parameters[k])
    IN /\ \A k \in DOMAIN parameters :
            \E j \in DOMAIN handed : parameters[k] \in Reached(memory, {handed[j]})
       /\ \A j, k \in DOMAIN parameters : j <= k => home(j) <= home(k)
       /\ pc = "accepted" => handed # <<>>

\* The variables of ParserResult.
NewResult == [statements |-> <<>>, isValid |-> FALSE, errorMsg |-> "null",
              errorPos |-> "uninitialised", parameters |-> <<>>]

TheResult ==
  [statements |-> [k \in DOMAIN result.statements |-> Index(handed, result.statements[k])],
   isValid |-> result.isValid,
   errorMsg |-> IF result.error THEN "message" ELSE "null",
   errorPos |-> IF result.error THEN "set" ELSE "uninitialised",
   parameters |-> [k \in DOMAIN result.parameters |->
                     <<HomeOf(memory, handed, result.parameters[k]),
                       memory.heap[result.parameters[k]].n>>]]

TheResults == [r \in {"result"} |-> IF Parsed THEN TheResult ELSE NewResult]

Constructed == IF pc = "parsing" \/ Parsed THEN {"result"} ELSE {}

StatementStates ==
  [k \in 1..MaxBatch |-> IF k \notin DOMAIN handed THEN "free"
                         ELSE IF handed[k] \in Live(memory) THEN "live" ELSE "deleted"]

MessageStates ==
  [m \in {"message"} |-> IF ~result.error THEN "free"
                         ELSE IF pc = "aborted" THEN "live" ELSE "deleted"]

Api ==
  INSTANCE ParserResult WITH
    Results <- {"result"}, Stmts <- 1..MaxBatch, Msgs <- {"message"}, NoMsg <- "null",
    MaxBatch <- MaxBatch, MaxParams <- MaxParams,
    results <- TheResults, alive <- Constructed, stmt <- StatementStates, msg <- MessageStates,
    client <- {}, detached <- {}, fault <- memory.fault

\* hsql_parse and the destructor implement what ParserResult says of a parse: whatever
\* reductions lead to it, the result gets the whole list of statements at once, in order and
\* as their only owner, with each placeholder in the statement that holds it (`input' of
\* bison_parser.y), and destruction deletes them.
ImplementsParserResult == Api!Spec
=============================================================================
