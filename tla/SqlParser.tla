----------------------------- MODULE SqlParser -----------------------------
(***************************************************************************)
(* hsql_parse on one text, and the destruction of its result. The parser   *)
(* is the LALR(1) automaton bison builds from the grammar, run the way     *)
(* bison runs it: a state whose only action is one reduction reduces       *)
(* before the next token is read, every other state reads it first, and a  *)
(* token without an action of its own takes the default reduction, so that *)
(* an error is found only where no reduction is left.                      *)
(*                                                                         *)
(* A text is a sequence of tokens, any of which may be spoiled: the lexer  *)
(* then delivers Alien, a token no rule accepts, or the text ends there.   *)
(* Every token is one character long.                                      *)
(***************************************************************************)
EXTENDS SqlHeap, SqlGrammar, SequencesExt

CONSTANTS Rows,         \* the rules of the grammar: SqlGrammar's GrammarRows
          Texts,        \* the texts hsql_parse is called with
          Alien,        \* a token the grammar does not use
          YYINITDEPTH   \* the cells of the parser's stack, which never grows

Nonterminals == {Rows[r].lhs : r \in DOMAIN Rows}
Terminals == (UNION {ToSet(Rows[r].rhs) : r \in DOMAIN Rows}) \ Nonterminals

\* The form of the rows.
ASSUME RowsAssumption ==
  /\ Rows \in Seq(ToSet(Rows)) /\ Rows # <<>>
  /\ \A r \in DOMAIN Rows :
       /\ Rows[r].lhs \in STRING \ {""} /\ Rows[r].rhs \in Seq(STRING \ {""})
       /\ Rows[r].kind \in {"node", "stmt", "param", "input"}
       /\ Rows[r].code \in Seq(ToSet(Rows[r].code))
       /\ \A in \in ToSet(Rows[r].code) :
            /\ in.op \in Operations /\ in.on \in Int
            /\ \A g \in DOMAIN in.args : in.args[g] \in Int
            /\ in.op \in {"push", "pushin", "replace", "delete", "both"} => 1 \in DOMAIN in.args
            /\ in.op = "both" => 2 \in DOMAIN in.args
            /\ in.op = "column" => "name" \in DOMAIN in.args

\* The first row is bison's: a text is an input and its end. Elsewhere there is neither.
ASSUME EntryAssumption ==
  /\ Rows[1].kind = "node" /\ Rows[1].rhs = <<"input", "EOF">>
  /\ "input" \in Nonterminals
  /\ \A r \in DOMAIN Rows :
       /\ Rows[r].kind = "input" <=> Rows[r].lhs = "input"
       /\ Rows[r].lhs # "EOF"
       /\ {"input", "EOF"} \intersect ToSet(Rows[r].rhs) # {} => r = 1

\* A placeholder is one token, with a row of its own.
ASSUME PlaceholderAssumption ==
  \A r \in DOMAIN Rows :
    /\ Rows[r].lhs # "?"
    /\ IF Rows[r].kind = "param" THEN Rows[r].rhs = <<"?">> ELSE "?" \notin ToSet(Rows[r].rhs)

\* The operations that leave `on' where it is.
Borrowing == {"take", "copyName", "copyGetName"}

ArgsOf(in) == {in.args[g] : g \in DOMAIN in.args}
Used(in) == ArgsOf(in) \union {in.on}
Moved(in) == IF in.op \in Borrowing THEN ArgsOf(in) ELSE Used(in)

\* Where the values of instruction t of row r are: the place of $i is i, that of what
\* instruction i makes is behind the right-hand side.
Places(r, t, values) ==
  {IF v > 0 THEN v ELSE Len(Rows[r].rhs) + t + v : v \in values \ {0}}

\* A semantic action moves a pointer once, into a field, a vector, a destructor or the value
\* of its symbol, and does not use what it has moved.
ActionsAreLinear ==
  \A r \in DOMAIN Rows : \A t \in DOMAIN Rows[r].code :
    LET in == Rows[r].code[t]
    IN /\ Used(in) \subseteq (1 - t)..Len(Rows[r].rhs)
       /\ \A g \in DOMAIN in.args : in.args[g] # 0 =>
            in.args[g] # in.on /\ \A h \in DOMAIN in.args : in.args[h] = in.args[g] => h = g
       /\ \A s \in 1..(t - 1) :
            Places(r, s, Moved(Rows[r].code[s])) \intersect Places(r, t, Used(in)) = {}

ConstraintLists == {"column_constraint_list", "column_constraint_list_nullable"}

\* The constructor of ColumnDefinition gets a vector of column constraints and nothing else,
\* and the action of input a vector (%type of bison_parser.y).
ListsAreTyped ==
  \A r \in DOMAIN Rows :
    LET row == Rows[r]
        first == row.code[1]
        list(S) == \/ first.op = "value" /\ first.on > 0 /\ row.rhs[first.on] \in S
                   \/ first.op = "vector"
                   \/ first.op = "push" /\ first.on > 0 /\ row.rhs[first.on] \in S
    IN /\ row.kind = "input" => row.rhs # <<>> /\ row.rhs[1] = "statement_list"
       /\ row.lhs \in ConstraintLists \union {"statement_list", "column_constraint"} =>
            row.kind \in {"node", "stmt"} /\ Len(row.code) = 1
       /\ row.lhs = "column_constraint" => first.op = "new" /\ first.what = "ColumnConstraint"
       /\ row.lhs = "statement_list" => list({"statement_list"})
       /\ row.lhs \in ConstraintLists =>
            /\ list(ConstraintLists)
            /\ \A g \in DOMAIN first.args :
                 first.args[g] > 0 /\ row.rhs[first.args[g]] = "column_constraint"
       /\ \A t \in DOMAIN row.code : row.code[t].op = "column" =>
            t = 1 /\ first.on > 0 /\ row.rhs[first.on] \in ConstraintLists

Statements == {"SelectStatement", "CreateStatement", "InsertStatement", "DeleteStatement",
               "UpdateStatement", "DropStatement", "PragmaStatement", "AlterStatement"}

StatementSymbols ==
  {"statement", "select_statement", "create_statement", "insert_statement", "delete_statement",
   "update_statement", "drop_statement", "pragma_statement", "alter_statement",
   "select_no_paren", "select_with_paren", "select_paren_or_clause", "select_clause"}

\* What a statement that has its length is part of: a list, or the trigger that runs it.
Carriers == {"statement", "statement_list", "create_statement"}

\* A statement symbol has a statement for its value, a new one or one that gets members. The
\* last symbol of statement_list is the statement whose length is set (stringLength in
\* bison_parser.y), and what holds such a statement only gets into more of its kind.
StatementsAreCounted ==
  /\ StatementSymbols \subseteq Nonterminals
  /\ \A r \in DOMAIN Rows :
       LET row == Rows[r]
           code == row.code
           first == code[1]
       IN /\ row.lhs \in StatementSymbols =>
               /\ row.kind = "node" /\ code # <<>>
               /\ \/ first.op = "new" /\ first.what \in Statements
                  \/ /\ first.op \in {"value", "set"} /\ first.on > 0
                     /\ row.rhs[first.on] \in StatementSymbols
               /\ \A t \in 2..Len(code) : t = 2 /\ code[t].op = "replace" /\ code[t].on = -1
          /\ row.kind = "stmt" => row.rhs # <<>> /\ Last(row.rhs) = "statement"
          /\ ToSet(row.rhs) \intersect Carriers # {} /\ row.kind # "input" =>
               /\ row.lhs \in Carriers /\ row.kind \in {"node", "stmt"}
               /\ Len(code) = 1 /\ first.op \in {"value", "new", "vector", "push"}

\* The static discipline of the actions of bison_parser.y, from which single ownership follows
\* for every text, and that each character belongs to one statement.
ASSUME ActionsAssumption == ActionsAreLinear /\ ListsAreTyped /\ StatementsAreCounted

Unread == "unread"      \* no lookahead

ASSUME TextsAssumption ==
  /\ Alien \notin Terminals \union Nonterminals \union {Unread}
  /\ Texts \subseteq Seq(Terminals \ {"EOF"})

ASSUME DepthAssumption == YYINITDEPTH \in Nat /\ YYINITDEPTH > 3

VARIABLES
  text,           \* the text being parsed
  yychar,         \* the lookahead: a token, or Unread
  yylval,         \* its string, when it has one
  yyss,           \* the parser's stack of [sym, val, items]
  memory,         \* the allocations made so far
  total_column,   \* characters the lexer has consumed
  string_length,  \* the same, since the last statement
  param_list,     \* the placeholders, in the order they were built
  result,         \* the SQLParserResult
  pc              \* "called", "parsing", "accepted", "aborted", "destroyed" or "undefined"

vars == <<text, yychar, yylval, yyss, memory, total_column, string_length, param_list,
          result, pc>>

Init ==
  /\ text \in Texts
  /\ yychar = Unread
  /\ yylval = {}
  /\ yyss = <<[sym |-> "start", val |-> {}, items |-> {<<1, 0>>}]>>
  /\ memory = EmptyMemory
  /\ total_column = 0
  /\ string_length = 0
  /\ param_list = <<>>
  /\ result = [statements |-> <<>>, parameters |-> <<>>, isValid |-> FALSE, error |-> FALSE]
  /\ pc = "called"

-----------------------------------------------------------------------------
(* The automaton. An item <<r, d>> is row r with d symbols recognised.     *)

Symbol(item) == IF item[2] < Len(Rows[item[1]].rhs) THEN Rows[item[1]].rhs[item[2] + 1] ELSE ""

\* The nonterminals a text for one in S starts with, when its first symbol is one.
FirstIn(S) ==
  {Rows[r].rhs[1] : r \in {r \in DOMAIN Rows : Rows[r].lhs \in S /\ Rows[r].rhs # <<>>}}
  \intersect Nonterminals

\* The nonterminals a text for one in S can start with: those a first symbol leads to.
Leftmost(S) ==
  LET from[T \in SUBSET Nonterminals] ==
        IF FirstIn(T) \subseteq T THEN T ELSE from[T \union FirstIn(T)]
  IN from[S]

RowsFor(N) == {r \in DOMAIN Rows : Rows[r].lhs = N}

\* The items a state has because it expects the nonterminal N.
Predicted == [N \in Nonterminals |-> UNION {RowsFor(M) \X {0} : M \in Leftmost({N})}]

Closure(items) ==
  items \union UNION {Predicted[N] : N \in {Symbol(i) : i \in items} \intersect Nonterminals}

Goto(items, symbol) == {<<i[1], i[2] + 1>> : i \in {i \in Closure(items) : Symbol(i) = symbol}}

Level(tokens) == {k \in DOMAIN Precedence : Precedence[k].toks \intersect tokens # {}}

\* A row has the precedence of its last token. Only these rows can be followed by an
\* operator of its kind.
LevelOf(r) ==
  LET toks == SelectSeq(Rows[r].rhs, LAMBDA s : s \in Terminals)
  IN IF Rows[r].lhs \in {"unary_expr", "binary_expr", "comp_expr", "logic_expr", "between_expr"}
       /\ toks # <<>>
     THEN Level({Last(toks)}) ELSE {}

\* What bison makes of a conflict between the reduction by a row of the levels lr and the
\* shift of a token of the levels lt.
Resolved(lr, lt) ==
  LET assoc == Precedence[Max(lt)].assoc
  IN IF lr = {} \/ lt = {} \/ Max(lr) < Max(lt) THEN "shift"
     ELSE IF Max(lr) > Max(lt) \/ assoc = "left" THEN "reduce"
     ELSE IF assoc = "right" THEN "shift" ELSE "error"

\* The reductions of a state that remain once bison has chosen between them.
Preferred(complete) ==
  LET wanted == {r \in complete : yychar \in Rows[r].when}
  IN IF Cardinality(complete) < 2 THEN complete
     ELSE IF wanted # {} THEN wanted ELSE {r \in complete : Rows[r].when = {}}

\* The step of the parser in a state that is at the end of the rows complete and can shift
\* shiftable; the reduction would be by the row in preferred, if there is one.
Choice(complete, shiftable, preferred) ==
  LET act(do) == [do |-> do, row |-> IF preferred = {} THEN 0 ELSE Max(preferred)]
  IN IF Cardinality(complete) = 1 /\ shiftable = {} THEN act("reduce")
     ELSE IF yychar = Unread THEN act("read")
     ELSE IF yychar \in shiftable
     THEN act(IF preferred = {} THEN "shift"
              ELSE Resolved(LevelOf(Max(preferred)), Level({yychar})))
     ELSE act(IF preferred = {} THEN "error" ELSE "reduce")

DecisionIn(state) ==
  LET complete == {i[1] : i \in {i \in state : Symbol(i) = ""}}
  IN Choice(complete, {Symbol(i) : i \in state} \intersect Terminals, Preferred(complete))

\* The step of the parser on top of its stack: [do, row].
Decision == DecisionIn(Closure(Last(yyss).items))

-----------------------------------------------------------------------------
(* The semantic actions: [m, val], the memory and the value of $$.         *)

Done(m, val) == [m |-> m, val |-> val]

\* $$ = new class(type) with the members f.
Make(m, class, type, f) == Done(New(m, class, type, f), {m.next})

\* ColumnDefinition::ColumnDefinition: the last DEFAULT and the last REFERENCES stay, the
\* constraints and their vector are deleted.
ColumnDefinition(m, name, constraints) ==
  LET C == Elements(m, constraints)
      having(g) == {c \in C : Field(m, c, g) # {}}
      kept(g) == FieldsOf(m, {c \in having(g) : \A d \in having(g) : d <= c}, g)
      dropped(g) == FieldsOf(m, C, g) \ kept(g)
  IN IF constraints = {} THEN Done(Faulted(m, "null dereference"), {})
     ELSE Make(Delete(m, dropped("expr") \union dropped("fk") \union C \union constraints),
               "ColumnDefinition", "",
               [name |-> name, defaultVal |-> kept("expr"), foreignKeyConstraint |-> kept("fk")])

\* Mutant: the object keeps the member that is taken from it.
Taken_KeepsMember(m, p, g) == Done(m, Member(m, p, g))

\* A member is moved out of the object p points to.
Taken(m, p, g) == Done(SetFields(m, p, [h \in {g} |-> {}]), Member(m, p, g))

\* An instruction of an action, on the object `on' with the values args.
Execute(m, in, on, args) ==
  CASE in.op = "value" -> Done(m, on)
    [] in.op = "copy" -> Done(NewString(m), {m.next})
    [] in.op = "new" -> Make(m, in.what, in.type, args)
    [] in.op = "vector" ->
         Make(m, "vector", "", [elems |-> UNION {args[k] : k \in DOMAIN args}])
    [] in.op = "push" -> Done(PushBack(m, on, args[1]), on)
    [] in.op = "pushin" -> Done(PushBack(m, Member(m, on, in.what), args[1]), on)
    [] in.op = "set" -> Done(SetFields(m, on, args), on)
    [] in.op = "replace" ->
         Done(IF args[1] = {} THEN m
              ELSE SetFields(Delete(m, Member(m, on, in.what)), on, [h \in {in.what} |-> args[1]]),
              on)
    [] in.op = "take" -> Taken(m, on, in.what)
    [] in.op = "delete" -> Done(Delete(m, on), args[1])
    [] in.op = "both" -> Done(m, args[1] \union args[2])
    [] in.op = "column" -> ColumnDefinition(m, args.name, on)
    [] in.op = "copyName" ->
         IF Member(m, on, "name") = {} THEN Done(Faulted(m, "null dereference"), {})
         ELSE Done(NewString(m), {m.next})
    [] in.op = "copyGetName" ->
         IF Member(m, on, "alias") \union Member(m, on, "tableName") = {} THEN Done(m, {})
         ELSE Done(NewString(m), {m.next})

\* The value v of an instruction, where regs holds $1, $2, ... and what each instruction
\* before it has made.
ValueIn(regs, v) == IF v > 0 THEN regs[v] ELSE IF v = 0 THEN {} ELSE regs[Len(regs) + 1 + v]

\* One more instruction has made done.
Extended(regs, done) == [m |-> done.m, regs |-> Append(regs, done.val)]

Step(at, in) ==
  LET value(v) == ValueIn(at.regs, v)
  IN Extended(at.regs, Execute(at.m, in, value(in.on), [g \in DOMAIN in.args |-> value(in.args[g])]))

\* The instructions of code, one after another, from the values of the right-hand side.
Run(m, code, vals) ==
  LET after[t \in 0..Len(code)] ==
        IF t = 0 THEN [m |-> m, regs |-> vals] ELSE Step(after[t - 1], code[t])
  IN after[Len(code)]

Build(m, code, vals) ==
  LET end == Run(m, code, vals) IN Done(end.m, IF code = <<>> THEN {} ELSE Last(end.regs))

-----------------------------------------------------------------------------
\* Mutant: only a string is copied.
HasString_StringsOnly(token) == token = "STRING"

\* hsql_lex: the next token of the text, Alien in its place, or the end.
HasString(token) == token \in {"IDENTIFIER", "STRING"}

ReadToken ==
  /\ \E token \in {IF total_column < Len(text) THEN text[total_column + 1] ELSE "EOF", "EOF"}
                  \union (IF total_column <= Len(text) THEN {Alien} ELSE {}) :
       LET n == IF token = "EOF" THEN 0 ELSE 1 IN
       /\ yychar' = token
       /\ yylval' = IF HasString(token) THEN {memory.next} ELSE {}
       /\ memory' = IF HasString(token) THEN NewString(memory) ELSE memory
       /\ total_column' = total_column + n
       /\ string_length' = string_length + n
  /\ UNCHANGED <<text, yyss, param_list, result, pc>>

\* Mutant: the lookahead keeps its string.
Shift_KeepsString ==
  /\ IF yychar = "EOF"
     THEN /\ pc' = "accepted"
          /\ result' = [result EXCEPT !.isValid = TRUE]
          /\ yyss' = <<>>
     ELSE /\ yyss' = Append(yyss, [sym |-> yychar, val |-> yylval,
                                   items |-> Goto(Last(yyss).items, yychar)])
          /\ UNCHANGED <<pc, result>>
  /\ yychar' = Unread
  /\ UNCHANGED <<text, yylval, memory, total_column, string_length, param_list>>

\* The EOF after input ends the parse.
Shift ==
  /\ IF yychar = "EOF"
     THEN /\ pc' = "accepted"
          /\ result' = [result EXCEPT !.isValid = TRUE]
          /\ yyss' = <<>>
     ELSE /\ yyss' = Append(yyss, [sym |-> yychar, val |-> yylval,
                                   items |-> Goto(Last(yyss).items, yychar)])
          /\ UNCHANGED <<pc, result>>
  /\ yychar' = Unread
  /\ yylval' = {}
  /\ UNCHANGED <<text, memory, total_column, string_length, param_list>>

-----------------------------------------------------------------------------
\* The stack after the reduction by row r that computes val.
Reduced(r, val) ==
  LET below == SubSeq(yyss, 1, Len(yyss) - Len(Rows[r].rhs))
  IN Append(below, [sym |-> Rows[r].lhs, val |-> val,
                    items |-> Goto(Last(below).items, Rows[r].lhs)])

Values(r) == [k \in DOMAIN Rows[r].rhs |-> yyss[Len(yyss) - Len(Rows[r].rhs) + k].val]

\* After an undefined operation nothing more is said of the program.
Proceed(m) == pc' = IF m.fault = "none" THEN pc ELSE "undefined"

\* The symbols of row r give way to b.val.
Replace(r, b) ==
  /\ memory' = b.m
  /\ yyss' = Reduced(r, b.val)
  /\ Proceed(b.m)

ReduceNode(r) ==
  /\ Rows[r].kind = "node"
  /\ Replace(r, Build(memory, Rows[r].code, Values(r)))
  /\ UNCHANGED <<text, yychar, yylval, total_column, string_length, param_list, result>>

\* Mutant: the placeholder goes to the front of the list.
ReduceParameter_Prepends(r) ==
  /\ Rows[r].kind = "param"
  /\ Replace(r, Make(memory, "Expr", "kExprParameter", <<>>))
  /\ param_list' = <<memory.next>> \o param_list
  /\ UNCHANGED <<text, yychar, yylval, total_column, string_length, result>>

\* param_expr: '?'.
ReduceParameter(r) ==
  /\ Rows[r].kind = "param"
  /\ Replace(r, Make(memory, "Expr", "kExprParameter", <<>>))
  /\ param_list' = Append(param_list, memory.next)
  /\ UNCHANGED <<text, yychar, yylval, total_column, string_length, result>>

\* What row r builds, its statement with the characters read since the one before it.
Statement(r, vals) ==
  LET b == Build(memory, Rows[r].code, vals)
  IN Done(SetNumbers(b.m, [x \in Last(vals) |-> string_length]), b.val)

\* Mutant: the counter is not reset.
ReduceStatement_NoReset(r) ==
  /\ Rows[r].kind = "stmt"
  /\ Replace(r, Statement(r, Values(r)))
  /\ UNCHANGED <<text, yychar, yylval, total_column, string_length, param_list, result>>

\* statement_list: the statement gets its length.
ReduceStatement(r) ==
  /\ Rows[r].kind = "stmt"
  /\ Replace(r, Statement(r, Values(r)))
  /\ string_length' = 0
  /\ UNCHANGED <<text, yychar, yylval, total_column, param_list, result>>

\* The parameters have their numbers, from 0.
Numbered ==
  LET index(p) == CHOOSE k \in DOMAIN param_list : param_list[k] = p
  IN SetNumbers(memory, [p \in ToSet(param_list) |-> index(p) - 1])

\* input: the statements and the numbered parameters are handed to the result.
ReduceInput(r) ==
  /\ Rows[r].kind = "input"
  /\ LET list == Values(r)[1]
         m == Delete(Numbered, list)
     IN /\ Replace(r, Done(IF ToSet(param_list) \subseteq Live(memory) THEN m
                           ELSE Faulted(m, "use after free"), {}))
        /\ result' = [result EXCEPT
                        !.statements = @ \o InOrder(Elements(memory, list)),
                        !.parameters = @ \o param_list]
  /\ UNCHANGED <<text, yychar, yylval, total_column, string_length, param_list>>

Reduce(r) == ReduceNode(r) \/ ReduceParameter(r) \/ ReduceStatement(r) \/ ReduceInput(r)

-----------------------------------------------------------------------------
\* Mutant: the %destructor of a vector deletes the vector alone.
Destruct_Shallow(m, cell) == Delete(m, cell.val)

\* The %destructor of a symbol: its string is freed, its object deleted, and the
\* elements of some vectors too.
Destruct(m, cell) == IF cell.sym \in DeletedWithElements THEN DeleteWithElements(m, cell.val)
                     ELSE Delete(m, cell.val)

\* The top of the stack first.
Unwind(m, cells) ==
  LET freed[k \in 0..Len(cells)] ==
        IF k = 0 THEN m ELSE Destruct(freed[k - 1], cells[Len(cells) + 1 - k])
  IN freed[Len(cells)]

\* Mutant: the parser starts again instead of giving up.
Abandon_Recovers(cells) ==
  /\ memory' = Unwind(memory, cells)
  /\ yyss' = <<Head(yyss)>>
  /\ yychar' = Unread
  /\ yylval' = {}
  /\ result' = [result EXCEPT !.isValid = FALSE, !.error = TRUE]
  /\ UNCHANGED <<pc, text, total_column, string_length, param_list>>

\* Mutant: the lookahead is freed and kept.
Abandon_KeepsLookahead(cells) ==
  /\ memory' = Unwind(memory, cells)
  /\ yyss' = <<>>
  /\ result' = [result EXCEPT !.isValid = FALSE, !.error = TRUE]
  /\ pc' = IF memory'.fault = "none" THEN "aborted" ELSE "undefined"
  /\ UNCHANGED <<text, yychar, yylval, total_column, string_length, param_list>>

\* yyerror, and the end of yyparse: the stack and the lookahead, in cells, are freed.
Abandon(cells) ==
  /\ memory' = Unwind(memory, cells)
  /\ yyss' = <<>>
  /\ yychar' = Unread
  /\ yylval' = {}
  /\ result' = [result EXCEPT !.isValid = FALSE, !.error = TRUE]
  /\ pc' = IF memory'.fault = "none" THEN "aborted" ELSE "undefined"
  /\ UNCHANGED <<text, total_column, string_length, param_list>>

Lookahead == [sym |-> yychar, val |-> yylval]

SyntaxError == Abandon(<<Lookahead>> \o yyss)

Exhausted == Len(yyss) >= YYINITDEPTH

\* yyexhaustedlab: "memory exhausted".
StackExhausted == Exhausted /\ Abandon(Append(yyss, Lookahead))

\* ~SQLParserResult: reset deletes the statements, one by one.
DestroyResult ==
  /\ pc \in {"accepted", "aborted"}
  /\ memory' = DeleteEach(memory, result.statements)
  /\ result' = [result EXCEPT !.statements = <<>>]
  /\ pc' = IF memory'.fault = "none" THEN "destroyed" ELSE "undefined"
  /\ UNCHANGED <<text, yychar, yylval, yyss, total_column, string_length, param_list>>

\* The client has constructed the result and calls SQLParser::parse.
Call ==
  /\ pc = "called"
  /\ pc' = "parsing"
  /\ UNCHANGED <<text, yychar, yylval, yyss, memory, total_column, string_length, param_list,
                 result>>

\* The step the automaton decides on.
Follow(step) ==
  \/ step.do = "read" /\ ReadToken
  \/ step.do = "shift" /\ Shift
  \/ step.do = "reduce" /\ Reduce(step.row)
  \/ step.do = "error" /\ SyntaxError

Parse == pc = "parsing" /\ ((~Exhausted /\ Follow(Decision)) \/ StackExhausted)

\* The program goes on with something else.
Finished == pc \in {"destroyed", "undefined"} /\ UNCHANGED vars

Next == Call \/ Parse \/ DestroyResult \/ Finished

Spec == Init /\ [][Next]_vars

-----------------------------------------------------------------------------
(* Properties.                                                             *)

\* Every value the parser and the result hold, but the placeholder lists.
Held == [k \in DOMAIN yyss |-> yyss[k].val] \o <<yylval, ToSet(result.statements)>>

\* The variables have their types.
TypeOK ==
  /\ text \in Texts
  /\ yychar \in Terminals \union {Alien, Unread}
  /\ yylval \subseteq Live(memory)
  /\ \A k \in DOMAIN yyss : /\ yyss[k].sym \in Terminals \union Nonterminals \union {"start"}
                            /\ yyss[k].items # {}
  /\ \A x \in Live(memory) :
       LET object == memory.heap[x]
       IN /\ object.kind \in DOMAIN Members /\ object.type \in TypesOf(object.kind)
          /\ DOMAIN object.f \subseteq Members[object.kind]
  /\ total_column \in 0..(Len(text) + 1)
  /\ string_length \in 0..total_column
  /\ pc \in {"called", "parsing", "accepted", "aborted", "destroyed", "undefined"}

\* Nothing that is still to be used or freed points to freed memory: not the parser's stack,
\* not the lookahead, not the result, not a member of a live object. The semantic actions
\* move vectors between objects and delete what they replace (bison_parser.y).
NoDangling ==
  /\ \A k \in DOMAIN Held : Held[k] \subseteq Live(memory)
  /\ \A x \in Live(memory) : \A g \in DOMAIN memory.heap[x].f :
       memory.heap[x].f[g] \subseteq Live(memory)

\* Two owners never share an allocation, so that the destructors, the %destructor of the
\* stack and the result free it at most once.
UniqueOwner ==
  LET held == UNION {{<<0, k, x>> : x \in Held[k]} : k \in DOMAIN Held}
      members(y) == UNION {{<<y, g, x>> : x \in Field(memory, y, g)} : g \in DOMAIN memory.heap[y].f}
      references == held \union UNION {members(y) : y \in Live(memory)}
  IN Cardinality(references) = Cardinality({r[3] : r \in references})

\* No semantic action and no destructor dereferences null. The run program_null has the texts
\* of which it is false.
NoNullDereference == memory.fault # "null dereference"

\* No action reads or writes an object, a placeholder included, after it was deleted.
NoUseAfterFree == memory.fault \notin {"use after free", "double free"}

\* Until the result goes, the lengths of the statements, those of a trigger's body
\* included, and the characters read since the last add up to what the lexer consumed.
LengthsAddUp ==
  pc \in {"parsing", "accepted"} =>
    LET ended == {x \in Live(memory) : /\ memory.heap[x].kind \in Statements
                                       /\ memory.heap[x].n # NotSet}
    IN MapThenSumSet(LAMBDA x : memory.heap[x].n, ended) + string_length = total_column

\* A valid result has one parameter for each `?' of the text, all of them live and
\* numbered in the order of the text.
ParametersNumbered ==
  pc = "accepted" =>
    LET marks == {k \in DOMAIN text : k <= total_column /\ text[k] = "?"}
        parameters == result.parameters
    IN /\ Len(parameters) = Cardinality(marks)
       /\ \A k \in DOMAIN parameters : /\ parameters[k] \in Live(memory)
                                       /\ memory.heap[parameters[k]].n = k - 1
       /\ \A j, k \in DOMAIN parameters : j < k => parameters[j] < parameters[k]

-----------------------------------------------------------------------------
(* What the repository says, and the code does not do.                     *)

\* sql_tests.cpp:222: the length of a statement ends at its semicolon.
LengthEndsAtSemicolon ==
  pc = "accepted" =>
    \A k \in 1..(Len(result.statements) - 1) :
      LET ends == MapThenSumSet(LAMBDA j : memory.heap[result.statements[j]].n, 1..k)
      IN ends \in DOMAIN text /\ text[ends] = ";"
=============================================================================
