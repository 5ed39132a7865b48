--------------------------- MODULE SqlParserProofs ---------------------------
(***************************************************************************)
(* For any grammar rows that keep the static discipline ActionsAreLinear   *)
(* and ListsAreTyped: whatever the texts, the tokens the lexer delivers in *)
(* their place and the depth of the stack, nothing that is still to be     *)
(* used is freed, and nothing is freed twice.                              *)
(***************************************************************************)
EXTENDS SqlActionProofs

-----------------------------------------------------------------------------
(* The %destructors.                                                       *)

\* f is the course of the destruction of cells, from the last one to the first.
Unwinds(f, m, cells) ==
  f = [k \in 0..Len(cells) |-> IF k = 0 THEN m ELSE Destruct(f[k - 1], cells[Len(cells) + 1 - k])]

LEMMA UnwindExists ==
  ASSUME NEW m, NEW cells, Len(cells) \in Nat
  PROVE  \E f : Unwinds(f, m, cells)
<1> DEFINE N == Len(cells)
           After(x, k) == IF k = 0 THEN m ELSE Destruct(x, cells[N + 1 - k])
           Has(n) == \E f : f = [k \in 0..n |-> After(f[k - 1], k)]
           Missing == {n \in 0..N : ~Has(n)}
<1>1. \A x : After(x, 0) = m OBVIOUS
<1>2. \A k \in 0..N : \A x : After(x, k) = IF k = 0 THEN m ELSE Destruct(x, cells[N + 1 - k])
  OBVIOUS
<1>3. N \in Nat OBVIOUS
<1> HIDE DEF After, N
<1>4. Has(0)
  <2> DEFINE f == [k \in 0..0 |-> m]
  <2>1. f = [k \in 0..0 |-> After(f[k - 1], k)] BY <1>1
  <2> QED BY <2>1
<1>5. ASSUME NEW n \in Nat, n > 0, Has(n - 1) PROVE Has(n)
  <2>1. PICK f : f = [k \in 0..n - 1 |-> After(f[k - 1], k)] BY <1>5
  <2> DEFINE g == [k \in 0..n |-> IF k = n THEN After(f[n - 1], n) ELSE f[k]]
  <2>2. ASSUME NEW k \in 0..n PROVE g[k] = After(g[k - 1], k)
    <3>1. CASE k = 0 BY <1>1, <1>5, <2>1, <3>1
    <3>2. CASE k \in 1..n - 1 BY <1>5, <2>1, <3>2
    <3>3. CASE k = n BY <1>5, <2>1, <3>3
    <3> QED BY <3>1, <3>2, <3>3
  <2>3. g = [k \in 0..n |-> After(g[k - 1], k)]
    <3>1. g = [k \in 0..n |-> g[k]] OBVIOUS
    <3> HIDE DEF g
    <3> QED BY <2>2, <3>1
  <2> QED BY <2>3
<1> HIDE DEF Has
<1>6. Missing = {}
  <2> SUFFICES ASSUME Missing # {} PROVE FALSE
    OBVIOUS
  <2>1. PICK n \in Missing : \A k \in Missing : n <= k
    <3>1. Missing \subseteq Nat OBVIOUS
    <3> QED BY <3>1, LeastNatural
  <2>2. n # 0 BY <1>4
  <2>3. n - 1 \in 0..N /\ ~(n <= n - 1) BY <1>3, <2>2
  <2>4. Has(n - 1) BY <2>1, <2>3
  <2> QED BY <1>5, <2>2, <2>4
<1>7. Has(N) BY <1>3, <1>6
<1>8. PICK f : f = [k \in 0..N |-> After(f[k - 1], k)] BY <1>7 DEF Has
<1>9. f = [k \in 0..N |-> IF k = 0 THEN m ELSE Destruct(f[k - 1], cells[N + 1 - k])]
  <2>1. [k \in 0..N |-> After(f[k - 1], k)]
          = [k \in 0..N |-> IF k = 0 THEN m ELSE Destruct(f[k - 1], cells[N + 1 - k])]
    BY <1>2
  <2> QED BY <1>8, <2>1
<1> QED BY <1>9 DEF Unwinds, N

LEMMA DestructTidy ==
  ASSUME NEW m, NEW R, Tidy(m, R), NEW cell, cell.val \subseteq R, NEW Q, Q \subseteq R \ cell.val
  PROVE  Tidy(Destruct(m, cell), Q) /\ Destruct(m, cell).fault = m.fault
<1> DEFINE S == cell.val
<1> HIDE DEF S
<1>1. S \subseteq R /\ Q \subseteq R \ S BY DEF S
<1>2. Tidy(Delete(m, S), Q) /\ Delete(m, S).fault = m.fault BY <1>1, DeleteRoots
<1>3. Tidy(DeleteWithElements(m, S), Q) /\ DeleteWithElements(m, S).fault = m.fault
  BY <1>1, DeleteWithElementsTidy
<1>4. Destruct(m, cell) = IF cell.sym \in DeletedWithElements THEN DeleteWithElements(m, S)
                          ELSE Delete(m, S)
  BY DEF Destruct, S
<1> QED BY <1>2, <1>3, <1>4

\* Cells that hold different roots can be destroyed one by one.
LEMMA UnwindTidy ==
  ASSUME NEW m, NEW R, Tidy(m, R), NEW cells, Len(cells) \in Nat,
         \A k \in 1..Len(cells) : cells[k].val \subseteq R,
         \A j, k \in 1..Len(cells) : cells[j].val \intersect cells[k].val # {} => j = k,
         NEW Q, Q \subseteq R, \A k \in 1..Len(cells) : cells[k].val \intersect Q = {}
  PROVE  Tidy(Unwind(m, cells), Q) /\ Unwind(m, cells).fault = m.fault
<1> DEFINE N == Len(cells)
           f == CHOOSE f : Unwinds(f, m, cells)
           C(k) == cells[N + 1 - k]
           Rest(k) == R \ UNION {C(j).val : j \in 1..k}
           Fine(k) == Tidy(f[k], Rest(k)) /\ f[k].fault = m.fault
           Failing == {k \in 0..N : ~Fine(k)}
<1>1. N \in Nat OBVIOUS
<1>2. Unwinds(f, m, cells) BY UnwindExists
<1>3. Unwind(m, cells) = f[N] BY Zenon DEF Unwind, Unwinds
<1>4. \A k \in 0..N : f[k] = IF k = 0 THEN m ELSE Destruct(f[k - 1], C(k)) BY <1>2 DEF Unwinds
<1>5. /\ \A k \in 1..N : C(k).val \subseteq R /\ C(k).val \intersect Q = {}
      /\ \A j, k \in 1..N : C(j).val \intersect C(k).val # {} => j = k
  <2>1. \A k \in 1..N : N + 1 - k \in 1..N /\ k \in Nat BY <1>1
  <2>2. \A k \in 1..N : C(k).val \subseteq R /\ C(k).val \intersect Q = {} BY <2>1
  <2>3. ASSUME NEW j \in 1..N, NEW k \in 1..N, C(j).val \intersect C(k).val # {} PROVE j = k
    <3>1. N + 1 - j = N + 1 - k BY <2>1, <2>3
    <3>2. j \in Nat /\ k \in Nat /\ N \in Nat BY <1>1
    <3> HIDE DEF N
    <3> QED BY <3>1, <3>2
  <2> QED BY <2>2, <2>3
<1> HIDE DEF f, N, C
<1>6. Fine(0)
  <2>1. Rest(0) = R /\ f[0] = m BY <1>1, <1>4
  <2> QED BY <2>1
<1>7. ASSUME NEW k \in 1..N, Fine(k - 1) PROVE Fine(k)
  <2>1. f[k] = Destruct(f[k - 1], C(k)) BY <1>1, <1>4
  <2>2. C(k).val \subseteq Rest(k - 1)
    <3>1. \A j \in 1..(k - 1) : j \in 1..N /\ j # k BY <1>1
    <3> QED BY <1>5, <3>1
  <2>3. Rest(k) \subseteq Rest(k - 1) \ C(k).val BY <1>1
  <2> DEFINE n == f[k - 1]
             P == Rest(k - 1)
             S == Rest(k)
             cell == C(k)
  <2>4. Tidy(n, P) /\ n.fault = m.fault BY <1>7
  <2>5. cell.val \subseteq P /\ S \subseteq P \ cell.val /\ f[k] = Destruct(n, cell)
    BY <2>1, <2>2, <2>3
  <2> HIDE DEF n, P, S, cell
  <2>6. Tidy(Destruct(n, cell), S) /\ Destruct(n, cell).fault = n.fault BY <2>4, <2>5, DestructTidy
  <2>7. Tidy(f[k], S) /\ f[k].fault = m.fault BY <2>4, <2>5, <2>6
  <2> QED BY <2>7 DEF S
<1> HIDE DEF Fine
<1>8. Failing = {}
  <2> SUFFICES ASSUME Failing # {} PROVE FALSE
    OBVIOUS
  <2>1. PICK k \in Failing : \A j \in Failing : k <= j
    <3>1. Failing \subseteq Nat OBVIOUS
    <3> QED BY <3>1, LeastNatural
  <2>2. k \in 1..N BY <1>1, <1>6
  <2>3. k - 1 \in 0..N /\ ~(k <= k - 1) BY <1>1, <2>2
  <2>4. Fine(k - 1) BY <2>1, <2>3
  <2> QED BY <1>7, <2>2, <2>4
<1>9. Fine(N) BY <1>1, <1>8
<1>10. Q \subseteq Rest(N) BY <1>5
<1>11. Tidy(f[N], Q)
  <2> HIDE DEF Rest
  <2> QED BY <1>9, <1>10, Forget DEF Fine
<1> QED BY <1>3, <1>9, <1>11 DEF Fine

-----------------------------------------------------------------------------
(* The automaton: the symbols on the stack are those its items have seen.  *)

Symbols == Terminals \union Nonterminals \union {"start"}

Cells == [sym : Symbols, val : SUBSET Nat, items : SUBSET (Nat \X Nat)]

\* Item i of the cell k: the cells up to k have the symbols that i has recognised.
Seen(stack, k, i) ==
  /\ i[1] \in DOMAIN Rows /\ i[2] \in Nat
  /\ i[2] < k /\ i[2] <= Len(Rows[i[1]].rhs)
  /\ \A j \in 1..i[2] : stack[k - i[2] + j].sym = Rows[i[1]].rhs[j]

StackFits(stack) ==
  /\ stack \in Seq(Cells)
  /\ \A k \in 1..Len(stack) : \A i \in stack[k].items : Seen(stack, k, i)

LEMMA RowsFacts == Len(Rows) \in Nat \ {0} /\ DOMAIN Rows = 1..Len(Rows)
<1> DEFINE S == ToSet(Rows)
<1>1. Rows \in Seq(S) /\ Rows # <<>> BY RowsAssumption
<1> HIDE DEF S
<1>2. Len(Rows) \in Nat /\ DOMAIN Rows = 1..Len(Rows) BY <1>1
<1>3. Len(Rows) # 0 BY <1>1
<1> QED BY <1>2, <1>3

LEMMA CellFacts ==
  ASSUME NEW stack, stack \in Seq(Cells)
  PROVE  /\ Len(stack) \in Nat /\ DOMAIN stack = 1..Len(stack)
         /\ \A k \in 1..Len(stack) : /\ stack[k].sym \in Symbols /\ stack[k].val \in SUBSET Nat
                                    /\ stack[k].items \subseteq Nat \X Nat
<1>1. Len(stack) \in Nat /\ DOMAIN stack = 1..Len(stack) /\ \A k \in 1..Len(stack) : stack[k] \in Cells
  OBVIOUS
<1>2. \A c \in Cells : c.sym \in Symbols /\ c.val \in SUBSET Nat /\ c.items \subseteq Nat \X Nat
  BY DEF Cells
<1> QED BY <1>1, <1>2

\* The items of a state are those of its kernel and rows of which nothing has been seen.
LEMMA ClosureFacts ==
  ASSUME NEW items, NEW i \in Closure(items), i \notin items
  PROVE  i[1] \in DOMAIN Rows /\ i[2] = 0 /\ i \in Nat \X Nat
<1>1. PICK N \in Nonterminals : i \in Predicted[N] BY DEF Closure
<1>2. PICK M : i \in RowsFor(M) \X {0} BY <1>1 DEF Predicted
<1>3. i[1] \in DOMAIN Rows /\ i[2] = 0 BY <1>2 DEF RowsFor
<1>4. i \in Nat \X Nat BY <1>2, RowsFacts DEF RowsFor
<1> QED BY <1>3, <1>4

\* What an item at the end of its row expects.
NoSymbol == ""

\* What an item expects next.
LEMMA SymbolFacts ==
  ASSUME NEW i, i[1] \in DOMAIN Rows, i[2] \in Nat, i[2] <= Len(Rows[i[1]].rhs)
  PROVE  /\ Symbol(i) = NoSymbol => i[2] = Len(Rows[i[1]].rhs)
         /\ Symbol(i) # NoSymbol => i[2] < Len(Rows[i[1]].rhs) /\ Symbol(i) = Rows[i[1]].rhs[i[2] + 1]
<1> DEFINE n == Len(Rows[i[1]].rhs)
           rhs == Rows[i[1]].rhs
           S == STRING \ {""}
<1>1. n \in Nat BY RowFacts
<1>2. rhs \in Seq(S) BY RowFacts
<1> HIDE DEF S
<1>3. Symbol(i) = IF i[2] < n THEN rhs[i[2] + 1] ELSE NoSymbol
  BY Zenon DEF Symbol, NoSymbol
<1>4. i[2] < n => rhs[i[2] + 1] # NoSymbol
  <2> SUFFICES ASSUME i[2] < n PROVE rhs[i[2] + 1] # NoSymbol
    OBVIOUS
  <2>1. i[2] + 1 \in 1..n BY <1>1
  <2>2. rhs[i[2] + 1] \in S BY <1>2, <2>1
  <2> QED BY <2>2, Zenon DEF S, NoSymbol
<1> HIDE DEF rhs, n
<1>5. i[2] <= n /\ i[2] \in Nat BY DEF n
<1>6. Symbol(i) = NoSymbol => i[2] = n BY <1>1, <1>3, <1>4, <1>5
<1>7. Symbol(i) # NoSymbol => i[2] < n /\ Symbol(i) = rhs[i[2] + 1] BY <1>3
<1> QED BY <1>6, <1>7 DEF n, rhs

\* One more symbol on the stack.
LEMMA GotoFits ==
  ASSUME NEW stack, StackFits(stack), stack # <<>>,
         NEW sym, sym \in Symbols, sym # NoSymbol, NEW val, val \in SUBSET Nat
  PROVE  LET new == Append(stack, [sym |-> sym, val |-> val, items |-> Goto(Last(stack).items, sym)])
         IN StackFits(new)
<1> DEFINE items == Last(stack).items
           cell == [sym |-> sym, val |-> val, items |-> Goto(items, sym)]
           new == Append(stack, cell)
           n == Len(stack)
<1>1. stack \in Seq(Cells) /\ n = Len(stack) BY DEF StackFits
<1>2. n \in Nat /\ n # 0 /\ Last(stack) = stack[n]
  <2>1. n \in Nat BY <1>1, CellFacts
  <2>2. n # 0 BY <1>1
  <2>3. Last(stack) = stack[n] BY DEF Last
  <2> QED BY <2>1, <2>2, <2>3
<1> HIDE DEF n
<1>3. items = stack[n].items /\ items \subseteq Nat \X Nat
  <2>1. n \in 1..Len(stack) BY <1>1, <1>2
  <2>2. stack[n].items \subseteq Nat \X Nat BY <1>1, <2>1, CellFacts
  <2> QED BY <1>2, <2>2
<1>4. ASSUME NEW i \in Closure(items)
      PROVE  Seen(stack, n, i) /\ i \in Nat \X Nat
  <2>1. CASE i \in items
    <3>1. n \in 1..Len(stack) BY <1>1, <1>2
    <3> QED BY <1>3, <2>1, <3>1 DEF StackFits
  <2>2. CASE i \notin items
    <3>1. i[1] \in DOMAIN Rows /\ i[2] = 0 /\ i \in Nat \X Nat BY <2>2, ClosureFacts
    <3>2. Len(Rows[i[1]].rhs) \in Nat BY <3>1, RowFacts
    <3> QED BY <1>2, <3>1, <3>2 DEF Seen
  <2> QED BY <2>1, <2>2
<1>5. cell \in Cells
  <2>1. \A i \in Closure(items) : i[1] \in Nat /\ i[2] + 1 \in Nat BY <1>4
  <2>2. Goto(items, sym) \subseteq Nat \X Nat BY <2>1 DEF Goto
  <2> QED BY <2>2 DEF Cells
<1>6. cell.sym = sym /\ cell.items = Goto(items, sym) OBVIOUS
<1> HIDE DEF cell, items
<1>7. /\ new \in Seq(Cells) /\ Len(new) = n + 1 /\ new[n + 1] = cell
      /\ \A k \in 1..n : new[k] = stack[k]
  BY <1>1, <1>5
<1> HIDE DEF new
<1>8. ASSUME NEW k \in 1..n, NEW i \in new[k].items PROVE Seen(new, k, i)
  <2>1. Seen(stack, k, i) BY <1>1, <1>7, <1>8 DEF StackFits
  <2>2. \A j \in 1..i[2] : k - i[2] + j \in 1..n BY <1>2, <2>1 DEF Seen
  <2> QED BY <1>7, <2>1, <2>2 DEF Seen
<1>9. ASSUME NEW i \in Goto(items, sym) PROVE Seen(new, n + 1, i)
  <2>1. PICK o \in Closure(items) : Symbol(o) = sym /\ i = <<o[1], o[2] + 1>> BY DEF Goto
  <2> DEFINE d == o[2]
             rhs == Rows[o[1]].rhs
  <2>2. Seen(stack, n, o) BY <1>4, <2>1
  <2>3. /\ o[1] \in DOMAIN Rows /\ d \in Nat /\ d < n /\ d <= Len(rhs)
        /\ \A j \in 1..d : stack[n - d + j].sym = rhs[j]
    BY <2>2 DEF Seen
  <2>4. d < Len(rhs) /\ sym = rhs[d + 1] BY <2>1, <2>3, SymbolFacts
  <2>5. i[1] = o[1] /\ i[2] = d + 1 BY <2>1
  <2>6. Len(rhs) \in Nat BY <2>3, RowFacts
  <2> HIDE DEF d, rhs
  <2>7. ASSUME NEW j \in 1..(d + 1) PROVE new[(n + 1) - (d + 1) + j].sym = rhs[j]
    <3>1. CASE j = d + 1
      <4>1. (n + 1) - (d + 1) + j = n + 1 BY <1>2, <2>3, <3>1
      <4> QED BY <1>6, <1>7, <2>4, <3>1, <4>1
    <3>2. CASE j \in 1..d
      <4>1. (n + 1) - (d + 1) + j = n - d + j /\ n - d + j \in 1..n BY <1>2, <2>3, <3>2
      <4> QED BY <1>7, <2>3, <3>2, <4>1
    <3> QED BY <2>3, <3>1, <3>2
  <2>8. d + 1 <= Len(rhs) /\ d + 1 < n + 1 /\ d + 1 \in Nat BY <1>2, <2>3, <2>4, <2>6
  <2> QED BY <2>3, <2>5, <2>7, <2>8 DEF Seen, rhs
<1>10. \A k \in 1..(n + 1) : k \in 1..n \/ k = n + 1 BY <1>2
<1>11. StackFits(new)
  <2>1. ASSUME NEW k \in 1..Len(new), NEW i \in new[k].items PROVE Seen(new, k, i)
    <3>1. CASE k \in 1..n BY <1>8, <2>1, <3>1
    <3>2. CASE k = n + 1 BY <1>6, <1>7, <1>9, <2>1, <3>2
    <3> QED BY <1>7, <1>10, <3>1, <3>2
  <2> QED BY <1>7, <2>1 DEF StackFits
<1> QED BY <1>11 DEF new, cell, items

\* The right-hand side of row r is on top of the stack.
OnTop(stack, r) ==
  /\ r \in DOMAIN Rows /\ Len(Rows[r].rhs) < Len(stack)
  /\ \A j \in 1..Len(Rows[r].rhs) :
       stack[Len(stack) - Len(Rows[r].rhs) + j].sym = Rows[r].rhs[j]

LEMMA TopFacts ==
  ASSUME StackFits(yyss), yyss # <<>>
  PROVE  /\ Len(yyss) \in Nat \ {0}
         /\ \A i \in Closure(Last(yyss).items) : Seen(yyss, Len(yyss), i)
<1> DEFINE n == Len(yyss)
<1>1. yyss \in Seq(Cells) BY DEF StackFits
<1>2. n \in Nat \ {0} /\ Last(yyss) = yyss[n]
  <2>1. n \in Nat BY <1>1, CellFacts
  <2>2. n # 0 BY <1>1
  <2>3. Last(yyss) = yyss[n] BY DEF Last
  <2> QED BY <2>1, <2>2, <2>3
<1>3. n = Len(yyss) OBVIOUS
<1> HIDE DEF n
<1>4. ASSUME NEW i \in Closure(Last(yyss).items) PROVE Seen(yyss, n, i)
  <2>1. CASE i \in Last(yyss).items
    <3>1. n \in 1..Len(yyss) BY <1>2, <1>3
    <3> QED BY <1>2, <2>1, <3>1 DEF StackFits
  <2>2. CASE i \notin Last(yyss).items
    <3>1. i[1] \in DOMAIN Rows /\ i[2] = 0 BY <2>2, ClosureFacts
    <3>2. Len(Rows[i[1]].rhs) \in Nat BY <3>1, RowFacts
    <3> QED BY <1>2, <3>1, <3>2 DEF Seen
  <2> QED BY <2>1, <2>2
<1> QED BY <1>2, <1>4 DEF n

\* Only a row is reduced whose right-hand side is on top of the stack, only a token is
\* shifted, and only a token that was used is followed by the next one.
LEMMA DecisionFacts ==
  ASSUME StackFits(yyss), yyss # <<>>
  PROVE  /\ Decision.do = "reduce" =>
              /\ OnTop(yyss, Decision.row)
              /\ \E i \in Closure(Last(yyss).items) : i[1] = Decision.row /\ Symbol(i) = NoSymbol
         /\ Decision.do = "shift" =>
              yychar \in Terminals /\ \E i \in Closure(Last(yyss).items) : Symbol(i) = yychar
         /\ Decision.do = "read" => yychar = Unread
<1> DEFINE state == Closure(Last(yyss).items)
           complete == {i[1] : i \in {i \in state : Symbol(i) = NoSymbol}}
           shiftable == {Symbol(i) : i \in state} \intersect Terminals
           preferred == Preferred(complete)
           row == IF preferred = {} THEN 0 ELSE Max(preferred)
           resolved == Resolved(LevelOf(Max(preferred)), Level({yychar}))
           do == IF Cardinality(complete) = 1 /\ shiftable = {} THEN "reduce"
                 ELSE IF yychar = Unread THEN "read"
                 ELSE IF yychar \in shiftable THEN IF preferred = {} THEN "shift" ELSE resolved
                 ELSE IF preferred = {} THEN "error" ELSE "reduce"
<1>1. Decision = [do |-> do, row |-> row]
  BY Zenon DEF Decision, DecisionIn, Choice, NoSymbol
<1>2. \A r \in complete : OnTop(yyss, r)
  <2> SUFFICES ASSUME NEW i \in state, Symbol(i) = NoSymbol PROVE OnTop(yyss, i[1])
    OBVIOUS
  <2>1. Seen(yyss, Len(yyss), i) BY TopFacts
  <2>2. i[2] = Len(Rows[i[1]].rhs) BY <2>1, SymbolFacts DEF Seen
  <2> QED BY <2>1, <2>2 DEF Seen, OnTop
<1>3. preferred \subseteq complete /\ (Cardinality(complete) = 1 => preferred = complete)
  <2> HIDE DEF complete
  <2> QED BY DEF Preferred
<1>4. Cardinality(complete) = 1 => complete # {}
  <2> HIDE DEF complete
  <2> QED BY FS_EmptySet
<1>5. preferred # {} => row \in complete
  <2> HIDE DEF complete, preferred
  <2>2. Len(Rows) \in Nat BY RowsFacts
  <2>1. complete \subseteq 0..Len(Rows)
    <3>1. \A r \in complete : r \in 1..Len(Rows) BY <1>2, RowsFacts DEF OnTop
    <3> QED BY <2>2, <3>1
  <2>3. preferred \subseteq 0..Len(Rows) BY <1>3, <2>1
  <2>4. preferred # {} => Max(preferred) \in preferred BY <2>2, <2>3, GreatestNatural
  <2> QED BY <1>3, <2>4
<1>6. Decision.do = do /\ Decision.row = row
  <2> HIDE DEF do, row
  <2> QED BY <1>1
<1>10. resolved \in {"shift", "reduce", "error"} BY Zenon DEF Resolved
<1> HIDE DEF state, complete, preferred, row, resolved, shiftable
<1>7. do = "reduce" => preferred # {} \/ (yychar \in shiftable /\ preferred # {})
  BY <1>3, <1>4
<1>8. do = "shift" => yychar \in shiftable BY <1>3, <1>4, <1>10
<1>9. do = "read" => yychar = Unread BY <1>10
<1> HIDE DEF do
<1>11. Decision.do = "reduce" => \E i \in state : i[1] = Decision.row /\ Symbol(i) = NoSymbol
  BY <1>5, <1>6, <1>7 DEF complete
<1>12. Decision.do = "shift" => yychar \in Terminals /\ \E i \in state : Symbol(i) = yychar
  BY <1>6, <1>8 DEF shiftable
<1> QED BY <1>2, <1>5, <1>6, <1>7, <1>9, <1>11, <1>12 DEF state

\* The cells that a reduction by row r leaves, and their number.
Left(r) == Len(yyss) - Len(Rows[r].rhs)

LEMMA LeftFacts ==
  ASSUME StackFits(yyss), NEW r, OnTop(yyss, r)
  PROVE  /\ r \in DOMAIN Rows /\ Len(yyss) \in Nat
         /\ Left(r) \in Nat /\ Left(r) > 0 /\ Left(r) + Len(Rows[r].rhs) = Len(yyss)
         /\ Left(r) <= Len(yyss) /\ \A k \in 1..Left(r) : k \in 1..Len(yyss)
<1> DEFINE n == Len(yyss)
           w == Len(Rows[r].rhs)
<1>1. n \in Nat BY CellFacts DEF StackFits
<1>2. r \in DOMAIN Rows /\ w < n BY DEF OnTop
<1>3. w \in Nat BY <1>2, RowFacts
<1>4. Left(r) = n - w BY DEF Left
<1> HIDE DEF n, w
<1>5. Left(r) \in Nat /\ Left(r) > 0 /\ Left(r) + w = n /\ Left(r) <= n BY <1>1, <1>2, <1>3, <1>4
<1>6. \A k \in 1..Left(r) : k \in 1..n BY <1>1, <1>5
<1> QED BY <1>1, <1>2, <1>5, <1>6 DEF n, w

\* The cells below the right-hand side.
LEMMA BelowFits ==
  ASSUME NEW stack, StackFits(stack), NEW n \in Nat, n <= Len(stack),
         NEW below, below = SubSeq(stack, 1, n)
  PROVE  StackFits(below) /\ Len(below) = n /\ \A k \in 1..n : below[k] = stack[k]
<1>1. stack \in Seq(Cells) /\ Len(stack) \in Nat BY CellFacts DEF StackFits
<1>2. below \in Seq(Cells) /\ Len(below) = n /\ \A k \in 1..n : below[k] = stack[k]
  BY <1>1
<1>3. ASSUME NEW k \in 1..n, NEW i \in below[k].items PROVE Seen(below, k, i)
  <2>1. Seen(stack, k, i) BY <1>1, <1>2, <1>3 DEF StackFits
  <2>2. \A j \in 1..i[2] : k - i[2] + j \in 1..n BY <2>1 DEF Seen
  <2> QED BY <1>2, <2>1, <2>2 DEF Seen
<1> QED BY <1>2, <1>3 DEF StackFits

\* The stack after a reduction.
LEMMA ReducedFits ==
  ASSUME StackFits(yyss), NEW r, OnTop(yyss, r), NEW val \in SUBSET Nat,
         NEW new, new = Reduced(r, val)
  PROVE  /\ StackFits(new) /\ Len(new) = Left(r) + 1
         /\ \A k \in 1..Left(r) : new[k] = yyss[k]
         /\ new[Left(r) + 1].sym = Rows[r].lhs /\ new[Left(r) + 1].val = val
<1> DEFINE n == Left(r)
           below == SubSeq(yyss, 1, n)
           sym == Rows[r].lhs
           cell == [sym |-> sym, val |-> val, items |-> Goto(Last(below).items, sym)]
<1>1. n \in Nat /\ n > 0 /\ n <= Len(yyss) /\ n = Left(r) /\ r \in DOMAIN Rows BY LeftFacts
<1>2. new = Append(below, cell) BY Zenon DEF Reduced, Left
<1>3. sym \in Symbols /\ sym # NoSymbol
  <2>1. sym \in STRING \ {""} BY <1>1, RowFacts
  <2>2. sym # NoSymbol BY <2>1, Zenon DEF NoSymbol
  <2>3. sym \in Symbols BY <1>1 DEF Symbols, Nonterminals
  <2> QED BY <2>2, <2>3
<1>7. cell.sym = sym /\ cell.val = val OBVIOUS
<1> HIDE DEF n
<1>4. StackFits(below) /\ Len(below) = n /\ \A k \in 1..n : below[k] = yyss[k]
  BY <1>1, BelowFits
<1>5. below # <<>> BY <1>1, <1>4
<1> HIDE DEF below, sym
<1>6. StackFits(Append(below, cell)) BY <1>3, <1>4, <1>5, GotoFits
<1>8. /\ Len(Append(below, cell)) = n + 1 /\ Append(below, cell)[n + 1] = cell
      /\ \A k \in 1..n : Append(below, cell)[k] = below[k]
  <2> HIDE DEF cell
  <2>1. below \in Seq(Cells) BY <1>4 DEF StackFits
  <2> QED BY <1>1, <1>4, <2>1
<1> HIDE DEF cell
<1> QED BY <1>1, <1>2, <1>4, <1>6, <1>7, <1>8 DEF sym

-----------------------------------------------------------------------------
(* The inductive invariant.                                                *)

\* What the first n cells of a stack hold.
ValuesOf(stack, n) == UNION {stack[k].val : k \in 1..n}

Distinct(list) == list \in Seq(Nat) /\ \A j, k \in 1..Len(list) : list[j] = list[k] => j = k

\* What the cells of a stack, a lookahead and a list of statements hold has no other owner.
Owners(m, stack, look, list) ==
  /\ Tidy(m, ValuesOf(stack, Len(stack)) \union look \union ToSet(list))
  /\ \A j, k \in 1..Len(stack) : stack[j].val \intersect stack[k].val # {} => j = k
  /\ \A k \in 1..Len(stack) : stack[k].val \intersect (look \union ToSet(list)) = {}
  /\ look \intersect ToSet(list) = {}
  /\ Distinct(list)

\* Every cell holds what its symbol promises.
CellsTyped(m, stack) == \A k \in 1..Len(stack) : Typed(m, stack[k].sym, stack[k].val)

ResultForm ==
  result = [statements |-> result.statements, parameters |-> result.parameters,
            isValid |-> result.isValid, error |-> result.error]

\* While the program is defined nothing has gone wrong; the only use of freed memory is that
\* of a placeholder.
FaultFits ==
  /\ pc # "undefined" => memory.fault = "none"
  /\ \/ memory.fault \in {"none", "null dereference"}
     \/ memory.fault = "use after free" /\ ~(ToSet(param_list) \subseteq Live(memory))

IInv ==
  /\ StackFits(yyss)
  /\ CellsTyped(memory, yyss)
  /\ Owners(memory, yyss, yylval, result.statements)
  /\ yylval # {} => HasString(yychar)
  /\ ResultForm
  /\ pc \in {"called", "parsing"} => yyss # <<>>
  /\ pc \in {"accepted", "aborted"} => yyss = <<>>
  /\ FaultFits

\* vals are the values on top of the stack, those of the right-hand side of row r.
AreOnTop(vals, r) ==
  /\ AreValues(vals, r) /\ Len(vals) = Len(Rows[r].rhs) /\ Len(vals) \in Nat
  /\ DOMAIN Rows[r].rhs = 1..Len(vals)
  /\ \A p \in 1..Len(vals) : /\ Left(r) + p \in 1..Len(yyss) /\ ~(Left(r) + p \in 1..Left(r))
                             /\ vals[p] = yyss[Left(r) + p].val
                             /\ yyss[Left(r) + p].sym = Rows[r].rhs[p]

LEMMA ValuesFacts ==
  ASSUME StackFits(yyss), NEW r, OnTop(yyss, r), NEW vals, vals = Values(r)
  PROVE  AreOnTop(vals, r)
<1> DEFINE w == Len(Rows[r].rhs)
           n == Len(yyss)
           S == SUBSET Nat
<1>1. /\ r \in DOMAIN Rows /\ n \in Nat /\ Left(r) \in Nat /\ Left(r) + w = n /\ w \in Nat
      /\ DOMAIN Rows[r].rhs = 1..w /\ Left(r) = n - w
  BY LeftFacts, RowFacts DEF Left
<1>2. vals = [k \in 1..w |-> yyss[n - w + k].val] BY <1>1 DEF Values
<1>3. \A j \in 1..w : yyss[n - w + j].sym = Rows[r].rhs[j] BY DEF OnTop
<1>4. \A k \in 1..n : yyss[k].val \in S BY CellFacts DEF StackFits
<1> HIDE DEF w, n, S
<1>5. \A k \in 1..w : /\ n - w + k = Left(r) + k /\ Left(r) + k \in 1..n
                      /\ ~(Left(r) + k \in 1..Left(r))
  BY <1>1
<1>6. \A p \in 1..w : /\ vals[p] = yyss[Left(r) + p].val /\ yyss[Left(r) + p].sym = Rows[r].rhs[p]
                      /\ vals[p] \in S
  BY <1>2, <1>3, <1>4, <1>5
<1>7. vals \in Seq(S) /\ Len(vals) = w
  <2>1. vals = [k \in 1..w |-> vals[k]] BY <1>2
  <2>2. vals \in [1..w -> S] BY <1>6, <2>1
  <2> QED BY <1>1, <2>2
<1> QED BY <1>1, <1>5, <1>6, <1>7 DEF AreOnTop, AreValues, w, n, S

\* Different values, of which none is in O.
Apart(vals, O) ==
  /\ \A p \in 1..Len(vals) : vals[p] \intersect O = {}
  /\ \A p, q \in 1..Len(vals) : vals[p] \intersect vals[q] # {} => p = q
  /\ \A R : (\A x \in R : x \in O \/ \E p \in 1..Len(vals) : x \in vals[p]) => Tidy(memory, R)

\* What stays below is none of the lookahead or of the result.
LEMMA BelowApart ==
  ASSUME StackFits(yyss), NEW list, Owners(memory, yyss, yylval, list), NEW r, OnTop(yyss, r)
  PROVE  ValuesOf(yyss, Left(r)) \intersect (yylval \union ToSet(list)) = {}
<1>1. \A k \in 1..Left(r) : k \in 1..Len(yyss) BY LeftFacts
<1>2. \A k \in 1..Len(yyss) : yyss[k].val \intersect (yylval \union ToSet(list)) = {}
  BY DEF Owners
<1> QED BY <1>1, <1>2 DEF ValuesOf

\* The right-hand side holds none of what stays below, of the lookahead or of the result.
LEMMA ValuesApart ==
  ASSUME StackFits(yyss), NEW list, Owners(memory, yyss, yylval, list),
         NEW r, OnTop(yyss, r), NEW vals, vals = Values(r),
         NEW O, O = ValuesOf(yyss, Left(r)) \union yylval \union ToSet(list)
  PROVE  Apart(vals, O)
<1> DEFINE N == Len(vals)
           all == ValuesOf(yyss, Len(yyss)) \union yylval \union ToSet(list)
<1>1. /\ N \in Nat /\ Left(r) \in Nat /\ Len(yyss) \in Nat /\ Left(r) <= Len(yyss)
      /\ \A p \in 1..N : /\ Left(r) + p \in 1..Len(yyss) /\ ~(Left(r) + p \in 1..Left(r))
                         /\ vals[p] = yyss[Left(r) + p].val
  BY ValuesFacts, LeftFacts DEF AreOnTop
<1>2. /\ Tidy(memory, all)
      /\ \A j, k \in 1..Len(yyss) : yyss[j].val \intersect yyss[k].val # {} => j = k
      /\ \A k \in 1..Len(yyss) : yyss[k].val \intersect (yylval \union ToSet(list)) = {}
  BY DEF Owners
<1> HIDE DEF N
<1>3. \A k \in 1..Left(r) : k \in 1..Len(yyss) BY <1>1
<1>4. ASSUME NEW p \in 1..N PROVE vals[p] \intersect O = {}
  <2> DEFINE i == Left(r) + p
  <2>1. i \in 1..Len(yyss) /\ ~(i \in 1..Left(r)) /\ vals[p] = yyss[i].val BY <1>1
  <2> HIDE DEF i
  <2>2. yyss[i].val \intersect (yylval \union ToSet(list)) = {} BY <1>2, <2>1
  <2>3. ASSUME NEW x \in ValuesOf(yyss, Left(r)) PROVE x \notin yyss[i].val
    <3>1. PICK k \in 1..Left(r) : x \in yyss[k].val BY DEF ValuesOf
    <3>2. k \in 1..Len(yyss) /\ k # i BY <1>3, <2>1
    <3>3. yyss[i].val \intersect yyss[k].val = {} BY <1>2, <2>1, <3>2
    <3> QED BY <3>1, <3>3
  <2> QED BY <2>1, <2>2, <2>3
<1>5. \A p, q \in 1..N : vals[p] \intersect vals[q] # {} => p = q
  <2> SUFFICES ASSUME NEW p \in 1..N, NEW q \in 1..N, vals[p] \intersect vals[q] # {} PROVE p = q
    OBVIOUS
  <2>1. Left(r) + p = Left(r) + q BY <1>1, <1>2
  <2> QED BY <1>1, <2>1
<1>6. O \subseteq all /\ \A p \in 1..N : vals[p] \subseteq all
  <2>1. O \subseteq all BY <1>1, <1>3 DEF ValuesOf
  <2>2. \A p \in 1..N : vals[p] \subseteq all BY <1>1 DEF ValuesOf
  <2> HIDE DEF all
  <2> QED BY <2>1, <2>2
<1> HIDE DEF all
<1>7. ASSUME NEW R, \A x \in R : x \in O \/ \E p \in 1..N : x \in vals[p] PROVE Tidy(memory, R)
  <2>1. R \subseteq all BY <1>6, <1>7
  <2> QED BY <1>2, <2>1, Forget
<1> QED BY <1>4, <1>5, <1>7 DEF N, Apart

\* The value of a reduction takes its place on the stack.
LEMMA Pushed ==
  ASSUME StackFits(yyss), CellsTyped(memory, yyss),
         NEW old, Owners(memory, yyss, yylval, old),
         NEW r, OnTop(yyss, r), NEW B, B = ValuesOf(yyss, Left(r)),
         NEW list, Distinct(list), ToSet(list) \intersect (B \union yylval) = {},
         NEW m, NEW val, Tidy(m, B \union yylval \union ToSet(list) \union val),
         val \intersect (B \union yylval \union ToSet(list)) = {},
         Kept(memory, m, B), Typed(m, Rows[r].lhs, val),
         NEW new, new = Reduced(r, val)
  PROVE  /\ StackFits(new) /\ CellsTyped(m, new) /\ new # <<>>
         /\ Owners(m, new, yylval, list)
<1> DEFINE n == Left(r)
<1>1. n \in Nat /\ n <= Len(yyss) /\ n = Left(r) /\ Len(yyss) \in Nat BY LeftFacts
<1>2. val \in SUBSET Nat
  <2>1. val \subseteq Live(m) BY DEF Tidy
  <2>2. Live(m) \subseteq Nat BY DEF Tidy, IsMemory
  <2> QED BY <2>1, <2>2
<1>3. /\ StackFits(new) /\ Len(new) = n + 1 /\ \A k \in 1..n : new[k] = yyss[k]
      /\ new[n + 1].sym = Rows[r].lhs /\ new[n + 1].val = val
  BY <1>2, ReducedFits
<1> HIDE DEF n
<1>4. \A k \in 1..Len(new) : (k \in 1..n /\ k \in 1..Len(yyss)) \/ k = n + 1 BY <1>1, <1>3
<1>5. \A k \in 1..n : yyss[k].val \subseteq B BY <1>1 DEF ValuesOf
<1>6. CellsTyped(m, new)
  <2> SUFFICES ASSUME NEW k \in 1..Len(new) PROVE Typed(m, new[k].sym, new[k].val)
    BY DEF CellsTyped
  <2>1. CASE k \in 1..n /\ k \in 1..Len(yyss)
    <3>1. Typed(memory, yyss[k].sym, yyss[k].val) BY <2>1 DEF CellsTyped
    <3>2. yyss[k].val \subseteq B BY <1>5, <2>1
    <3>3. Typed(m, yyss[k].sym, yyss[k].val) BY <3>1, <3>2, TypedKept
    <3> QED BY <1>3, <2>1, <3>3
  <2>2. CASE k = n + 1 BY <1>3, <2>2
  <2> QED BY <1>4, <2>1, <2>2
<1>7. ValuesOf(new, Len(new)) = B \union val
  <2>1. ASSUME NEW x \in ValuesOf(new, Len(new)) PROVE x \in B \union val
    <3>1. PICK k \in 1..Len(new) : x \in new[k].val BY DEF ValuesOf
    <3> QED BY <1>3, <1>4, <1>5, <3>1
  <2>2. ASSUME NEW x \in B PROVE x \in ValuesOf(new, Len(new))
    <3>1. PICK k \in 1..n : x \in yyss[k].val BY <1>1 DEF ValuesOf
    <3>2. k \in 1..Len(new) /\ new[k].val = yyss[k].val BY <1>1, <1>3
    <3> QED BY <3>1, <3>2 DEF ValuesOf
  <2>3. val \subseteq ValuesOf(new, Len(new))
    <3>1. n + 1 \in 1..Len(new) BY <1>1, <1>3
    <3> QED BY <1>3, <3>1 DEF ValuesOf
  <2> QED BY <2>1, <2>2, <2>3
<1>8. \A j, k \in 1..Len(new) : new[j].val \intersect new[k].val # {} => j = k
  <2> SUFFICES ASSUME NEW j \in 1..Len(new), NEW k \in 1..Len(new),
                      new[j].val \intersect new[k].val # {}
               PROVE  j = k
    OBVIOUS
  <2>1. CASE j \in 1..n /\ k \in 1..n
    <3>1. new[j].val = yyss[j].val /\ new[k].val = yyss[k].val BY <1>3, <2>1
    <3>2. j \in 1..Len(yyss) /\ k \in 1..Len(yyss) BY <1>1, <2>1
    <3> QED BY <2>1, <3>1, <3>2 DEF Owners
  <2>2. CASE j = n + 1 /\ k \in 1..n
    <3>1. new[j].val = val /\ new[k].val \subseteq B BY <1>3, <1>5, <2>2
    <3> QED BY <3>1
  <2>3. CASE j \in 1..n /\ k = n + 1
    <3>1. new[k].val = val /\ new[j].val \subseteq B BY <1>3, <1>5, <2>3
    <3> QED BY <3>1
  <2> QED BY <1>4, <2>1, <2>2, <2>3
<1>9. \A k \in 1..Len(new) : new[k].val \intersect (yylval \union ToSet(list)) = {}
  <2> SUFFICES ASSUME NEW k \in 1..Len(new)
               PROVE  new[k].val \intersect (yylval \union ToSet(list)) = {}
    OBVIOUS
  <2>1. CASE k \in 1..n /\ k \in 1..Len(yyss)
    <3>1. new[k].val = yyss[k].val /\ new[k].val \subseteq B BY <1>3, <1>5, <2>1
    <3>2. yyss[k].val \intersect (yylval \union ToSet(old)) = {} BY <2>1 DEF Owners
    <3> QED BY <3>1, <3>2
  <2>2. CASE k = n + 1 BY <1>3, <2>2
  <2> QED BY <1>4, <2>1, <2>2
<1>10. Tidy(m, ValuesOf(new, Len(new)) \union yylval \union ToSet(list))
  <2>1. ValuesOf(new, Len(new)) \union yylval \union ToSet(list)
          = B \union yylval \union ToSet(list) \union val
    BY <1>7
  <2> QED BY <2>1
<1>11. yylval \intersect ToSet(list) = {} OBVIOUS
<1>12. new # <<>> BY <1>1, <1>3
<1> QED BY <1>3, <1>6, <1>8, <1>9, <1>10, <1>11, <1>12 DEF Owners

-----------------------------------------------------------------------------
(* The reductions.                                                         *)

\* What the action of a row makes of the top of the stack.
LEMMA Built ==
  ASSUME ActionsAreLinear, ListsAreTyped, StackFits(yyss), CellsTyped(memory, yyss),
         NEW list, Owners(memory, yyss, yylval, list),
         NEW r, OnTop(yyss, r), Rows[r].kind \in {"node", "stmt"},
         NEW O, O = ValuesOf(yyss, Left(r)) \union yylval \union ToSet(list),
         NEW b, b = Build(memory, Rows[r].code, Values(r))
  PROVE  /\ Tidy(b.m, O \union b.val) /\ b.val \intersect O = {}
         /\ Kept(memory, b.m, O) /\ b.m.fault \in {memory.fault, "null dereference"}
         /\ Typed(b.m, Rows[r].lhs, b.val)
<1> DEFINE vals == Values(r)
<1>1. vals = Values(r) OBVIOUS
<1>2. b = Made(r, memory, vals) BY DEF Made
<1> HIDE DEF vals
<1>3. /\ AreValues(vals, r) /\ Len(vals) = Len(Rows[r].rhs) /\ Len(vals) \in Nat
      /\ DOMAIN Rows[r].rhs = 1..Len(vals)
      /\ \A p \in 1..Len(vals) : /\ Left(r) + p \in 1..Len(yyss)
                                 /\ vals[p] = yyss[Left(r) + p].val
                                 /\ yyss[Left(r) + p].sym = Rows[r].rhs[p]
  BY <1>1, ValuesFacts DEF AreOnTop
<1> DEFINE all == O \union UNION {vals[p] : p \in 1..Len(vals)}
<1>12. all = O \union UNION {vals[p] : p \in 1..Len(vals)} OBVIOUS
<1> HIDE DEF all
<1>4. /\ \A p \in 1..Len(vals) : vals[p] \intersect O = {}
      /\ \A p, q \in 1..Len(vals) : vals[p] \intersect vals[q] # {} => p = q
      /\ Tidy(memory, all)
  <2>1. \A x \in all : x \in O \/ \E p \in 1..Len(vals) : x \in vals[p] BY <1>12
  <2>2. Apart(vals, O) BY <1>1, ValuesApart
  <2> QED BY <2>1, <2>2 DEF Apart
<1>5. \A p \in 1..Len(vals) : Typed(memory, Rows[r].rhs[p], vals[p])
  <2> SUFFICES ASSUME NEW p \in 1..Len(vals) PROVE Typed(memory, Rows[r].rhs[p], vals[p])
    OBVIOUS
  <2>1. Typed(memory, yyss[Left(r) + p].sym, yyss[Left(r) + p].val) BY <1>3 DEF CellsTyped
  <2> QED BY <1>3, <2>1
<1>6. r \in DOMAIN Rows BY LeftFacts
<1>7. \A k \in DOMAIN Rows[r].rhs :
        Rows[r].rhs[k] \in ConstraintLists => IsConstraintList(memory, vals[k])
  BY <1>3, <1>5 DEF Typed
<1>8. Sound(memory, Made(r, memory, vals), O, {})
  <2>1. Tidy(memory, O \union UNION {vals[p] : p \in 1..Len(vals)}) BY <1>4, <1>12
  <2>2. AreValues(vals, r) BY <1>3
  <2>3. /\ \A p \in 1..Len(vals) : vals[p] \intersect O = {}
        /\ \A p, q \in 1..Len(vals) : vals[p] \intersect vals[q] # {} => p = q
    BY <1>4
  <2> QED BY <1>6, <1>7, <2>1, <2>2, <2>3, BuildSound, SMTT(30)
<1>9. Typed(b.m, Rows[r].lhs, b.val)
  <2>1. \A p \in 1..Len(vals) : vals[p] \subseteq all BY <1>12
  <2> QED BY <1>2, <1>3, <1>4, <1>5, <1>6, <2>1, BuildTyped
<1>10. /\ Tidy(b.m, O \union {} \union b.val) /\ b.val \intersect (O \union {}) = {}
       /\ Kept(memory, b.m, O) /\ b.m.fault \in {memory.fault, "null dereference"}
  BY <1>2, <1>8 DEF Sound
<1>11. O \union {} \union b.val = O \union b.val /\ O \union {} = O OBVIOUS
<1> QED BY <1>9, <1>10, <1>11

\* MadeWell says what Built proves: the form that a proof with many facts around it finds again.
MadeWell(list, r, O, b) ==
  /\ Tidy(b.m, O \union b.val) /\ b.val \intersect O = {}
  /\ Kept(memory, b.m, O) /\ b.m.fault \in {memory.fault, "null dereference"}
  /\ Typed(b.m, Rows[r].lhs, b.val)

LEMMA BuiltWell ==
  ASSUME ActionsAreLinear, ListsAreTyped, StackFits(yyss), CellsTyped(memory, yyss),
         NEW list, Owners(memory, yyss, yylval, list),
         NEW r, OnTop(yyss, r), Rows[r].kind \in {"node", "stmt"},
         NEW O, O = ValuesOf(yyss, Left(r)) \union yylval \union ToSet(list),
         NEW b, b = Build(memory, Rows[r].code, Values(r))
  PROVE  MadeWell(list, r, O, b)
BY Built DEF MadeWell

\* A reduction that leaves the result as it is keeps the invariant.
LEMMA ReplaceKeeps ==
  ASSUME IInv, NEW r, OnTop(yyss, r),
         NEW O, O = ValuesOf(yyss, Left(r)) \union yylval \union ToSet(result.statements),
         NEW m, NEW val, Tidy(m, O \union val), val \intersect O = {}, Kept(memory, m, O),
         m.fault \in {memory.fault, "null dereference"}, Typed(m, Rows[r].lhs, val),
         Replace(r, Done(m, val)), pc = "parsing",
         yychar' = yychar, yylval' = yylval, result' = result
  PROVE  IInv'
<1> DEFINE B == ValuesOf(yyss, Left(r))
           list == result.statements
           new == Reduced(r, val)
<1>1. /\ memory' = m /\ yyss' = new /\ pc' \in {pc, "undefined"}
      /\ m.fault # "none" => pc' = "undefined"
  BY DoneParts DEF Replace, Proceed
<1>2. /\ StackFits(yyss) /\ CellsTyped(memory, yyss) /\ Owners(memory, yyss, yylval, list)
      /\ yylval # {} => HasString(yychar)
      /\ ResultForm /\ memory.fault = "none"
  BY DEF IInv, FaultFits
<1>3. /\ Distinct(list) /\ ToSet(list) \intersect (B \union yylval) = {}
      /\ B \subseteq O
  <2>1. Distinct(list) /\ yylval \intersect ToSet(list) = {} BY <1>2 DEF Owners
  <2>2. B \intersect (yylval \union ToSet(list)) = {} BY <1>2, BelowApart
  <2>3. B \subseteq O OBVIOUS
  <2> QED BY <2>1, <2>2, <2>3
<1>4. O = B \union yylval \union ToSet(list) /\ B = ValuesOf(yyss, Left(r)) /\ new = Reduced(r, val)
      /\ list = result.statements
  OBVIOUS
<1> HIDE DEF B, list, new
<1>5. /\ StackFits(new) /\ CellsTyped(m, new) /\ new # <<>>
      /\ Owners(m, new, yylval, list)
  <2>1. Kept(memory, m, B) BY <1>3, KeptFewer
  <2>2. Tidy(m, B \union yylval \union ToSet(list) \union val) BY <1>4
  <2>3. val \intersect (B \union yylval \union ToSet(list)) = {} BY <1>4
  <2> QED BY <1>2, <1>3, <1>4, <2>1, <2>2, <2>3, Pushed
<1>6. ResultForm' BY <1>2 DEF ResultForm
<1>7. yylval' # {} => HasString(yychar)' BY <1>2 DEF HasString
<1>8. StackFits(yyss)' BY <1>1, <1>5
<1>9. CellsTyped(memory, yyss)' BY <1>1, <1>5
<1>10. Owners(memory, yyss, yylval, result.statements)' BY <1>1, <1>4, <1>5
<1>11. FaultFits' BY <1>1, <1>2 DEF FaultFits
<1> QED BY <1>1, <1>2, <1>5, <1>6, <1>7, <1>8, <1>9, <1>10, <1>11 DEF IInv

\* Only rows for nodes have values of a promised class.
LEMMA OthersTyped ==
  ASSUME ListsAreTyped, NEW r \in DOMAIN Rows, Rows[r].kind \notin {"node", "stmt"}, NEW m, NEW val
  PROVE  Typed(m, Rows[r].lhs, val)
<1>1. Rows[r].lhs \notin ConstraintLists \union {"statement_list", "column_constraint"}
  BY DEF ListsAreTyped
<1> QED BY <1>1 DEF Typed

\* The memory without the right-hand side.
LEMMA RestTidy ==
  ASSUME IInv, NEW r, OnTop(yyss, r),
         NEW O, O = ValuesOf(yyss, Left(r)) \union yylval \union ToSet(result.statements)
  PROVE  Tidy(memory, O)
<1> DEFINE vals == Values(r)
           list == result.statements
<1>1. vals = Values(r) /\ list = result.statements OBVIOUS
<1>2. StackFits(yyss) /\ Owners(memory, yyss, yylval, list) BY DEF IInv
<1> HIDE DEF vals, list
<1>3. Apart(vals, O) BY <1>1, <1>2, ValuesApart
<1>4. \A x \in O : x \in O \/ \E p \in 1..Len(vals) : x \in vals[p] OBVIOUS
<1> QED BY <1>3, <1>4 DEF Apart

LEMMA ReduceNodeKeeps ==
  ASSUME ActionsAreLinear, ListsAreTyped, IInv, NEW r, OnTop(yyss, r), pc = "parsing", ReduceNode(r)
  PROVE  IInv'
<1> DEFINE O == ValuesOf(yyss, Left(r)) \union yylval \union ToSet(result.statements)
           b == Build(memory, Rows[r].code, Values(r))
<1>1. O = ValuesOf(yyss, Left(r)) \union yylval \union ToSet(result.statements)
      /\ b = Build(memory, Rows[r].code, Values(r))
  OBVIOUS
<1>2. Rows[r].kind = "node" /\ Replace(r, b) BY DEF ReduceNode
<1>3. b = Done(b.m, b.val) BY Zenon DEF Build, Done
<1>4. yychar' = yychar /\ yylval' = yylval /\ result' = result BY DEF ReduceNode
<1> HIDE DEF O, b
<1>5. /\ Tidy(b.m, O \union b.val) /\ b.val \intersect O = {}
      /\ Kept(memory, b.m, O) /\ b.m.fault \in {memory.fault, "null dereference"}
      /\ Typed(b.m, Rows[r].lhs, b.val)
  BY <1>1, <1>2, Built DEF IInv
<1>6. Replace(r, Done(b.m, b.val)) BY <1>2, <1>3
<1> QED BY <1>1, <1>4, <1>5, <1>6, ReplaceKeeps

LEMMA ReduceStatementKeeps ==
  ASSUME ActionsAreLinear, ListsAreTyped, IInv, NEW r, OnTop(yyss, r), pc = "parsing",
         ReduceStatement(r)
  PROVE  IInv'
<1> DEFINE O == ValuesOf(yyss, Left(r)) \union yylval \union ToSet(result.statements)
           b == Build(memory, Rows[r].code, Values(r))
           n == [x \in Last(Values(r)) |-> string_length]
           m == SetNumbers(b.m, n)
<1>1. O = ValuesOf(yyss, Left(r)) \union yylval \union ToSet(result.statements)
      /\ b = Build(memory, Rows[r].code, Values(r)) /\ m = SetNumbers(b.m, n)
  OBVIOUS
<1>2. Rows[r].kind = "stmt" /\ Replace(r, Statement(r, Values(r))) BY DEF ReduceStatement
<1>3. Statement(r, Values(r)) = Done(m, b.val) BY Zenon DEF Statement
<1>4. yychar' = yychar /\ yylval' = yylval /\ result' = result BY DEF ReduceStatement
<1> HIDE DEF O, b, n, m
<1>5. /\ Tidy(b.m, O \union b.val) /\ b.val \intersect O = {}
      /\ Kept(memory, b.m, O) /\ b.m.fault \in {memory.fault, "null dereference"}
      /\ Typed(b.m, Rows[r].lhs, b.val)
  BY <1>1, <1>2, Built DEF IInv
<1> DEFINE R == O \union b.val
<1>6. Tidy(b.m, R) /\ O \subseteq R /\ b.val \subseteq R BY <1>5
<1> HIDE DEF R
<1>7. Tidy(m, R) /\ Kept(b.m, m, R) /\ m.fault = b.m.fault BY <1>1, <1>6, SetNumbersTidy
<1>8. Typed(m, Rows[r].lhs, b.val) BY <1>5, <1>6, <1>7, TypedKept
<1>9. Kept(memory, m, O)
  <2>1. Kept(b.m, m, O) BY <1>6, <1>7, KeptFewer
  <2> QED BY <1>5, <2>1, KeptTwice
<1>10. Replace(r, Done(m, b.val)) BY <1>2, <1>3
<1>11. Tidy(m, O \union b.val) /\ m.fault \in {memory.fault, "null dereference"} BY <1>5, <1>7 DEF R
<1> QED BY <1>1, <1>4, <1>5, <1>8, <1>9, <1>10, <1>11, ReplaceKeeps

LEMMA ReduceParameterKeeps ==
  ASSUME ListsAreTyped, IInv, NEW r, OnTop(yyss, r), pc = "parsing", ReduceParameter(r)
  PROVE  IInv'
<1> DEFINE O == ValuesOf(yyss, Left(r)) \union yylval \union ToSet(result.statements)
           m == New(memory, "Expr", "kExprParameter", <<>>)
           val == {memory.next}
<1>1. O = ValuesOf(yyss, Left(r)) \union yylval \union ToSet(result.statements)
      /\ m = New(memory, "Expr", "kExprParameter", <<>>) /\ val = {memory.next}
  OBVIOUS
<1>2. Rows[r].kind = "param" /\ Replace(r, Done(m, val)) BY DEF ReduceParameter, Make
<1>3. yychar' = yychar /\ yylval' = yylval /\ result' = result BY DEF ReduceParameter
<1> HIDE DEF O, m, val
<1>4. Tidy(memory, O) BY <1>1, RestTidy
<1>5. memory.next \notin O
  <2>1. IsMemory(memory) /\ O \subseteq Live(memory) BY <1>4 DEF Tidy
  <2> QED BY <2>1, NewMemory
<1>6. Tidy(m, O \union val)
  <2> DEFINE Q == O \union val
             f == <<>>
  <2>1. Q \subseteq O \union {memory.next} BY <1>1
  <2>2. DOMAIN f = {} OBVIOUS
  <2>3. m = New(memory, "Expr", "kExprParameter", f) BY <1>1
  <2> HIDE DEF Q, f
  <2>4. Tidy(m, Q) BY <1>4, <2>1, <2>2, <2>3, NewTidy
  <2> QED BY <2>4 DEF Q
<1>7. Kept(memory, m, O) BY <1>1, <1>4, NewKeeps
<1>8. m.fault = memory.fault BY <1>1, <1>4, NewFault DEF Tidy
<1>9. Typed(m, Rows[r].lhs, val)
  <2>1. r \in DOMAIN Rows BY DEF OnTop
  <2> QED BY <1>2, <2>1, OthersTyped
<1>10. val \intersect O = {} BY <1>1, <1>5
<1> QED BY <1>1, <1>2, <1>3, <1>6, <1>7, <1>8, <1>9, <1>10, ReplaceKeeps

\* From m to new the elements E of a vector have become roots like those of O.
Freed(m, new, O, E) ==
  /\ Kept(m, new, O) /\ new.fault = m.fault /\ E \intersect O = {} /\ E \subseteq Live(m)

\* The vector of the statements is deleted, and they are not.
LEMMA Handed ==
  ASSUME NEW m, NEW R, Tidy(m, R), NEW list, list \subseteq R,
         \A x \in list : m.heap[x].kind = "vector",
         NEW O, O \subseteq R \ list,
         NEW E, E = Elements(m, list), NEW new, new = Delete(m, list), NEW Q, Q = O \union E
  PROVE  Tidy(new, Q) /\ Freed(m, new, O, E)
<1> DEFINE D == Doomed(m, list)
<1>1. IsMemory(m) /\ R \subseteq Live(m) /\ list \subseteq Live(m) BY DEF Tidy
<1>2. \A z \in E : \E y \in list : z \in Field(m, y, "elems") BY DEF Elements, FieldsOf
<1>3. E \subseteq Live(m) \ R BY <1>2, TidyFields
<1>4. new.fault = m.fault /\ list \subseteq D BY <1>1, DeleteMemory
<1>5. Kept(m, new, O) /\ O \intersect D = {}
  <2>1. \A x \in O : \A g : Field(m, x, g) \intersect list = {} BY TidyFields
  <2> QED BY <1>1, <2>1, DeleteKeeps
<1>6. ASSUME NEW z \in E PROVE z \notin D
  <2>1. PICK y \in list : z \in Field(m, y, "elems") BY <1>2
  <2>2. z \notin list BY <1>3
  <2>3. m.heap[y].kind \in Plain BY <2>1 DEF Plain
  <2>4. \A x : y \notin Owned(m, x) BY <2>1, RootHasNoOwner
  <2> QED BY <1>1, <2>1, <2>2, <2>3, <2>4, SparedByPlain
<1> HIDE DEF D
<1>7. Q \subseteq Live(m) \ D BY <1>1, <1>3, <1>5, <1>6
<1>8. \A z \in list : z \in R \/ \E x \in D : \E g : z \in Field(m, x, g) OBVIOUS
<1>9. \A z \in Q : z \in R \/ \E x \in D : \E g : z \in Field(m, x, g) BY <1>2, <1>4
<1>10. Tidy(Delete(m, list), Q) BY <1>1, <1>7, <1>8, <1>9, DeleteTidy DEF D
<1> QED BY <1>3, <1>4, <1>5, <1>10 DEF Freed

\* Two lists of different numbers, one after the other.
LEMMA Appended ==
  ASSUME NEW old, Distinct(old), NEW S, S \subseteq Nat, S \intersect ToSet(old) = {},
         NEW ord \in Seq(S), \A j, k \in 1..Len(ord) : ord[j] = ord[k] => j = k
  PROVE  Distinct(old \o ord) /\ ToSet(old \o ord) \subseteq ToSet(old) \union S
<1> DEFINE N == Len(old)
           M == Len(ord)
           new == old \o ord
<1>1. old \in Seq(Nat) /\ N \in Nat /\ M \in Nat /\ ord \in Seq(Nat)
  <2>1. old \in Seq(Nat) BY DEF Distinct
  <2>2. M \in Nat /\ ord = [k \in 1..M |-> ord[k]] /\ \A k \in 1..M : ord[k] \in S OBVIOUS
  <2>3. \A k \in 1..M : ord[k] \in Nat BY <2>2
  <2> HIDE DEF M
  <2>4. ord \in [1..M -> Nat] BY <2>2, <2>3
  <2>5. ord \in Seq(Nat) BY <2>2, <2>4
  <2> QED BY <2>1, <2>2, <2>5
<1>2. /\ new \in Seq(Nat) /\ Len(new) = N + M
      /\ \A k \in 1..N + M : new[k] = IF k <= N THEN old[k] ELSE ord[k - N]
  BY <1>1
<1>3. \A k \in 1..N : old[k] \in ToSet(old) BY <1>1 DEF ToSet
<1>4. \A k \in 1..M : ord[k] \in S OBVIOUS
<1>5. \A j, k \in 1..N : old[j] = old[k] => j = k BY DEF Distinct
<1>6. \A j, k \in 1..M : ord[j] = ord[k] => j = k OBVIOUS
<1>7. DOMAIN new = 1..(N + M) BY <1>2
<1> HIDE DEF N, M, new
<1>8. \A k \in 1..N + M : \/ k \in 1..N /\ new[k] = old[k] /\ new[k] \in ToSet(old)
                          \/ k - N \in 1..M /\ new[k] = ord[k - N] /\ new[k] \in S
  BY <1>1, <1>2, <1>3, <1>4
<1>9. ASSUME NEW j \in 1..(N + M), NEW k \in 1..(N + M), new[j] = new[k] PROVE j = k
  <2>1. CASE j \in 1..N /\ new[j] = old[j] /\ new[j] \in ToSet(old)
    <3>1. k \in 1..N /\ new[k] = old[k] BY <1>8, <1>9, <2>1
    <3> QED BY <1>5, <1>9, <2>1, <3>1
  <2>2. CASE j - N \in 1..M /\ new[j] = ord[j - N] /\ new[j] \in S
    <3>1. k - N \in 1..M /\ new[k] = ord[k - N] BY <1>8, <1>9, <2>2
    <3>2. j - N = k - N BY <1>6, <1>9, <2>2, <3>1
    <3> QED BY <1>1, <3>2
  <2> QED BY <1>8, <2>1, <2>2
<1>10. Distinct(new) BY <1>2, <1>9 DEF Distinct
<1>11. ToSet(new) \subseteq ToSet(old) \union S
  <2>1. ToSet(new) = {new[k] : k \in 1..(N + M)} BY <1>7 DEF ToSet
  <2> QED BY <1>8, <2>1
<1> QED BY <1>10, <1>11 DEF new

LEMMA ReduceInputKeeps ==
  ASSUME ListsAreTyped, IInv, NEW r, OnTop(yyss, r), pc = "parsing", ReduceInput(r)
  PROVE  IInv'
<1> DEFINE B == ValuesOf(yyss, Left(r))
           old == result.statements
           O == B \union yylval \union ToSet(old)
           vals == Values(r)
           v == vals[1]
           N == Numbered
           E == Elements(memory, v)
           ord == InOrder(E)
           list == old \o ord
           d == Delete(N, v)
           m == IF ToSet(param_list) \subseteq Live(memory) THEN d ELSE Faulted(d, "use after free")
           new == Reduced(r, {})
<1>1. /\ B = ValuesOf(yyss, Left(r)) /\ old = result.statements
      /\ O = B \union yylval \union ToSet(old) /\ vals = Values(r) /\ E = Elements(memory, v)
      /\ d = Delete(N, v) /\ ord = InOrder(E) /\ new = Reduced(r, {}) /\ list = old \o ord
      /\ v = vals[1]
  OBVIOUS
<1>2. /\ StackFits(yyss) /\ CellsTyped(memory, yyss) /\ Owners(memory, yyss, yylval, old)
      /\ yylval # {} => HasString(yychar)
      /\ ResultForm /\ memory.fault = "none"
  BY DEF IInv, FaultFits
<1>3. Rows[r].kind = "input" /\ Replace(r, Done(m, {})) BY Zenon DEF ReduceInput
<1>4. /\ memory' = m /\ yyss' = new /\ pc' \in {pc, "undefined"}
      /\ m.fault # "none" => pc' = "undefined"
  <2> HIDE DEF m
  <2> QED BY <1>3, DoneParts DEF Replace, Proceed
<1>5. /\ yychar' = yychar /\ yylval' = yylval
      /\ result' = [result EXCEPT !.statements = list, !.parameters = @ \o param_list]
      /\ param_list' = param_list
  BY DEF ReduceInput
<1> HIDE DEF new
<1>6. \E nums : N = SetNumbers(memory, nums) BY Zenon DEF Numbered
<1> HIDE DEF B, old, O, v, vals, N, E, ord, list, d
<1>7. Apart(vals, O) BY <1>1, <1>2, ValuesApart
<1>8. /\ 1 \in 1..Len(vals) /\ 1 \in DOMAIN Rows[r].rhs /\ Rows[r].rhs[1] = "statement_list"
      /\ v = yyss[Left(r) + 1].val /\ Left(r) + 1 \in 1..Len(yyss)
      /\ yyss[Left(r) + 1].sym = "statement_list"
  <2>1. r \in DOMAIN Rows BY DEF OnTop
  <2>2. Rows[r].rhs # <<>> /\ Rows[r].rhs[1] = "statement_list" BY <1>3, <2>1 DEF ListsAreTyped
  <2>3. /\ AreValues(vals, r) /\ Len(vals) = Len(Rows[r].rhs) /\ Len(vals) \in Nat
        /\ DOMAIN Rows[r].rhs = 1..Len(vals)
        /\ \A p \in 1..Len(vals) : /\ Left(r) + p \in 1..Len(yyss) /\ vals[p] = yyss[Left(r) + p].val
                                   /\ yyss[Left(r) + p].sym = Rows[r].rhs[p]
    <3>1. AreOnTop(vals, r) BY <1>1, <1>2, ValuesFacts
    <3> QED BY <3>1 DEF AreOnTop
  <2>4. Len(vals) # 0
    <3> DEFINE S == STRING \ {""}
    <3>1. Rows[r].rhs \in Seq(S) BY <2>1, RowFacts
    <3> HIDE DEF S
    <3> QED BY <2>2, <2>3, <3>1
  <2>5. 1 \in 1..Len(vals) BY <2>3, <2>4
  <2> QED BY <1>1, <2>2, <2>3, <2>5
<1>9. \A x \in v : memory.heap[x].kind = "vector"
  <2>1. Typed(memory, "statement_list", v) BY <1>2, <1>8 DEF CellsTyped
  <2> QED BY <2>1 DEF Typed
<1> DEFINE R == O \union v
<1>10. Tidy(memory, R) /\ v \subseteq R /\ O \subseteq R \ v
  <2>1. \A x \in R : x \in O \/ \E p \in 1..Len(vals) : x \in vals[p] BY <1>1, <1>8
  <2>2. v \intersect O = {} BY <1>1, <1>7, <1>8 DEF Apart
  <2>3. Tidy(memory, R)
    <3> HIDE DEF R
    <3> QED BY <1>7, <2>1 DEF Apart
  <2> QED BY <2>2, <2>3
<1> HIDE DEF R
<1>11. /\ Tidy(N, R) /\ Kept(memory, N, R) /\ N.fault = memory.fault /\ Live(N) = Live(memory)
       /\ \A x, g : Field(N, x, g) = Field(memory, x, g)
       /\ \A x \in Live(memory) : N.heap[x].kind = memory.heap[x].kind
  <2>1. PICK nums : N = SetNumbers(memory, nums) BY <1>6
  <2> QED BY <1>10, <2>1, SetNumbersTidy
<1>12. R \subseteq Live(memory) /\ Live(memory) \subseteq Nat /\ IsMemory(memory)
  BY <1>10 DEF Tidy, IsMemory
<1>13. \A x \in v : N.heap[x].kind = "vector" BY <1>9, <1>10, <1>11, <1>12
<1>14. E = Elements(N, v)
  <2>1. Elements(N, v) = Elements(memory, v) BY <1>11 DEF Elements, FieldsOf
  <2> QED BY <1>1, <2>1
<1>15. /\ Tidy(d, O \union E) /\ Kept(N, d, O) /\ d.fault = N.fault
       /\ E \intersect O = {} /\ E \subseteq Live(N)
  <2> DEFINE S == O \union E
  <2>1. S = O \union E OBVIOUS
  <2> HIDE DEF S
  <2>2. Tidy(d, S) /\ Freed(N, d, O, E)
    <3>1. Tidy(N, R) /\ v \subseteq R /\ O \subseteq R \ v /\ d = Delete(N, v)
      BY <1>1, <1>10, <1>11
    <3> QED BY <1>13, <1>14, <2>1, <3>1, Handed
  <2> QED BY <2>1, <2>2 DEF Freed
<1>16. Distinct(list) /\ ToSet(list) \subseteq ToSet(old) \union E
  <2>1. E \subseteq Nat /\ IsFiniteSet(E)
    <3>1. IsFiniteSet(Live(memory)) BY <1>12, LiveFinite
    <3> QED BY <1>11, <1>12, <1>15, <3>1, FS_Subset
  <2>2. ord \in Seq(E) /\ \A j, k \in 1..Len(ord) : ord[j] = ord[k] => j = k
    BY <1>1, <2>1, InOrderType
  <2>3. E \intersect ToSet(old) = {} BY <1>1, <1>15
  <2>4. Distinct(old) BY <1>2 DEF Owners
  <2> QED BY <1>1, <2>1, <2>2, <2>3, <2>4, Appended
<1>17. /\ Tidy(m, O \union E) /\ Kept(d, m, O \union E) /\ Live(m) = Live(d)
       /\ \/ m.fault = memory.fault
          \/ m.fault = "use after free" /\ ~(ToSet(param_list) \subseteq Live(memory))
  <2> DEFINE S == O \union E
  <2>1. Tidy(d, S) BY <1>15
  <2> HIDE DEF S
  <2>2. CASE m = d BY <1>11, <1>15, <2>1, <2>2, KeptSame DEF S
  <2>3. CASE m = Faulted(d, "use after free") /\ ~(ToSet(param_list) \subseteq Live(memory))
    <3> DEFINE what == "use after free"
    <3>1. m = Faulted(d, what) BY <2>3
    <3> HIDE DEF what, m
    <3>2. Tidy(m, S) /\ m.fault = what /\ m.heap = d.heap BY <2>1, <3>1, FaultedTidy
    <3>3. Kept(d, m, S) BY <2>1, <3>1, FaultedKeeps
    <3>4. Live(m) = Live(d) BY <3>2 DEF Live
    <3> QED BY <2>3, <3>2, <3>3, <3>4 DEF S, what
  <2> QED BY <2>2, <2>3
<1> HIDE DEF m
<1>18. /\ Tidy(m, B \union yylval \union ToSet(list) \union {})
       /\ ToSet(list) \intersect (B \union yylval) = {}
  <2>1. B \intersect (yylval \union ToSet(old)) = {} BY <1>1, <1>2, BelowApart
  <2>2. yylval \intersect ToSet(old) = {} BY <1>2 DEF Owners
  <2>3. ToSet(list) \intersect (B \union yylval) = {} BY <1>1, <1>15, <1>16, <2>1, <2>2
  <2> DEFINE S == O \union E
             Q == B \union yylval \union ToSet(list) \union {}
  <2>4. Tidy(m, S) BY <1>17
  <2>5. Q \subseteq S BY <1>1, <1>16
  <2> HIDE DEF S, Q
  <2>6. Tidy(m, Q) BY <2>4, <2>5, Forget
  <2> QED BY <2>3, <2>6 DEF Q
<1>19. Kept(memory, m, B)
  <2> DEFINE S == O \union E
  <2>1. B \subseteq O /\ B \subseteq R /\ B \subseteq S BY <1>1, <1>10
  <2>2. Kept(d, m, S) BY <1>17
  <2> HIDE DEF S
  <2>3. Kept(memory, N, B) /\ Kept(N, d, B) /\ Kept(d, m, B) BY <1>11, <1>15, <2>1, <2>2, KeptFewer
  <2> QED BY <2>3, KeptTwice
<1> DEFINE none == {}
<1>20. /\ none = {} /\ none \intersect (B \union yylval \union ToSet(list)) = {}
       /\ Tidy(m, B \union yylval \union ToSet(list) \union none) /\ new = Reduced(r, none)
  BY <1>1, <1>18
<1> HIDE DEF none
<1>21. Typed(m, Rows[r].lhs, none)
  <2>1. r \in DOMAIN Rows BY DEF OnTop
  <2> QED BY <1>3, <2>1, OthersTyped
<1>22. /\ StackFits(new) /\ CellsTyped(m, new) /\ new # <<>>
       /\ Owners(m, new, yylval, list)
  BY <1>1, <1>2, <1>16, <1>18, <1>19, <1>20, <1>21, Pushed
<1>23. result'.statements = list /\ ResultForm' BY <1>2, <1>5 DEF ResultForm
<1>24. (yylval # {} => HasString(yychar))' BY <1>2, <1>5 DEF HasString
<1>25. Owners(memory, yyss, yylval, result.statements)' BY <1>4, <1>5, <1>22, <1>23
<1>26. StackFits(yyss)' /\ CellsTyped(memory, yyss)' BY <1>4, <1>22
<1>27. FaultFits'
  <2>1. v \subseteq Live(N) BY <1>10, <1>11, <1>12
  <2>2. Live(d) \subseteq Live(N) BY <1>1, <1>11, <2>1, DeleteMemory
  <2>3. Live(memory') \subseteq Live(memory) BY <1>4, <1>11, <1>17, <2>2
  <2> QED BY <1>2, <1>4, <1>5, <1>17, <2>3 DEF FaultFits
<1> QED BY <1>4, <1>22, <1>23, <1>24, <1>25, <1>26, <1>27 DEF IInv

-----------------------------------------------------------------------------
(* The other steps.                                                        *)

\* The string of a token is new.
LEMMA ReadTokenKeeps == ASSUME IInv, pc = "parsing", ReadToken PROVE IInv'
<1> DEFINE list == result.statements
           vals == ValuesOf(yyss, Len(yyss))
           R == vals \union yylval \union ToSet(list)
<1>1. /\ StackFits(yyss) /\ CellsTyped(memory, yyss) /\ Owners(memory, yyss, yylval, list)
      /\ ResultForm /\ memory.fault = "none" /\ yyss # <<>>
  BY DEF IInv, FaultFits
<1>2. /\ yyss' = yyss /\ result' = result /\ pc' = pc BY DEF ReadToken
<1>3. Tidy(memory, R) BY <1>1 DEF Owners
<1>4. vals \subseteq R /\ ToSet(list) \subseteq R /\ R \subseteq Live(memory)
  <2>1. R \subseteq Live(memory) BY <1>3 DEF Tidy
  <2> QED BY <2>1
<1>5. \A k \in 1..Len(yyss) : yyss[k].val \subseteq vals BY DEF ValuesOf
<1>6. \/ yylval' = {} /\ memory' = memory
      \/ /\ yylval' = {memory.next} /\ memory' = NewString(memory)
         /\ HasString(yychar')
  BY DEF ReadToken
<1> HIDE DEF list, vals, R
<1>7. Tidy(memory', vals \union yylval' \union ToSet(list)) /\ Kept(memory, memory', vals)
      /\ memory'.fault = memory.fault /\ yylval' \intersect R = {}
  <2>1. CASE yylval' = {} /\ memory' = memory
    <3> DEFINE Q == vals \union yylval' \union ToSet(list)
    <3>1. Q \subseteq R BY <1>4, <2>1
    <3> HIDE DEF Q
    <3>2. Tidy(memory, Q) BY <1>3, <3>1, Forget
    <3>3. Kept(memory, memory, vals) BY KeptSame
    <3> QED BY <2>1, <3>2, <3>3 DEF Q
  <2>2. CASE yylval' = {memory.next} /\ memory' = NewString(memory)
    <3> DEFINE Q == vals \union yylval' \union ToSet(list)
               P == R \union {memory.next}
               new == NewString(memory)
    <3>1. IsMemory(memory) BY <1>3 DEF Tidy
    <3>2. Tidy(new, P) BY <1>3, NewStringTidy
    <3>3. Kept(memory, new, R) /\ new.fault = memory.fault /\ memory.next \notin Live(memory)
      <4>1. \E kind, type, f : new = New(memory, kind, type, f) BY Zenon DEF NewString
      <4> HIDE DEF new
      <4>2. PICK kind, type, f : new = New(memory, kind, type, f) BY <4>1
      <4>3. Kept(memory, new, R) BY <1>3, <4>2, NewKeeps
      <4>4. new.fault = memory.fault BY <3>1, <4>2, NewFault
      <4>5. memory.next \notin Live(memory) BY <3>1, NewMemory
      <4> QED BY <4>3, <4>4, <4>5
    <3>4. Q \subseteq P BY <1>4, <2>2
    <3>6. yylval' \intersect R = {} BY <1>4, <2>2, <3>3
    <3> HIDE DEF P, Q, new
    <3>5. Tidy(new, Q) BY <3>2, <3>4, Forget
    <3>7. Kept(memory, new, vals) BY <1>4, <3>3, KeptFewer
    <3> QED BY <2>2, <3>3, <3>5, <3>6, <3>7 DEF Q, new
  <2> QED BY <1>6, <2>1, <2>2
<1>8. CellsTyped(memory', yyss)
  <2> SUFFICES ASSUME NEW k \in 1..Len(yyss) PROVE Typed(memory', yyss[k].sym, yyss[k].val)
    BY DEF CellsTyped
  <2>1. Typed(memory, yyss[k].sym, yyss[k].val) /\ yyss[k].val \subseteq vals
    BY <1>1, <1>5 DEF CellsTyped
  <2> QED BY <1>7, <2>1, TypedKept
<1>9. Owners(memory', yyss, yylval', list)
  <2>1. \A k \in 1..Len(yyss) : yyss[k].val \intersect (yylval' \union ToSet(list)) = {}
    <3>1. \A k \in 1..Len(yyss) : yyss[k].val \intersect (yylval \union ToSet(list)) = {}
      BY <1>1 DEF Owners
    <3> QED BY <1>4, <1>5, <1>7, <3>1
  <2>2. yylval' \intersect ToSet(list) = {} BY <1>4, <1>7
  <2> QED BY <1>1, <1>7, <2>1, <2>2 DEF Owners, vals
<1>10. ResultForm' BY <1>1, <1>2 DEF ResultForm
<1>11. (yylval # {} => HasString(yychar))' BY <1>6 DEF HasString
<1>12. Owners(memory, yyss, yylval, result.statements)' BY <1>2, <1>9 DEF list
<1>13. CellsTyped(memory, yyss)' /\ StackFits(yyss)' BY <1>1, <1>2, <1>8
<1>14. FaultFits' BY <1>1, <1>7 DEF FaultFits
<1> QED BY <1>1, <1>2, <1>10, <1>11, <1>12, <1>13, <1>14 DEF IInv

\* The roots of an emptier parser.
LEMMA EmptyStack ==
  ASSUME NEW m, NEW list, Distinct(list), NEW look, look \intersect ToSet(list) = {},
         NEW R, Tidy(m, R), look \union ToSet(list) \subseteq R
  PROVE  StackFits(<<>>) /\ CellsTyped(m, <<>>) /\ Owners(m, <<>>, look, list)
<1> DEFINE none == <<>>
<1>1. none \in Seq(Cells) /\ Len(none) = 0 OBVIOUS
<1> HIDE DEF none
<1>2. 1..Len(none) = {} BY <1>1
<1>3. StackFits(none) /\ CellsTyped(m, none) BY <1>1, <1>2 DEF StackFits, CellsTyped
<1>4. ValuesOf(none, Len(none)) = {} BY <1>2 DEF ValuesOf
<1> DEFINE Q == ValuesOf(none, Len(none)) \union look \union ToSet(list)
<1>5. Q \subseteq R BY <1>4
<1> HIDE DEF Q
<1>6. Tidy(m, Q) BY <1>5, Forget
<1>7. Owners(m, none, look, list) BY <1>2, <1>6 DEF Owners, Q
<1> QED BY <1>3, <1>7 DEF none

\* A token is shifted, or ends the parse.
LEMMA ShiftKeeps == ASSUME IInv, pc = "parsing", yychar \in Terminals, Shift PROVE IInv'
<1> DEFINE list == result.statements
           n == Len(yyss)
           vals == ValuesOf(yyss, n)
           R == vals \union yylval \union ToSet(list)
<1>1. /\ StackFits(yyss) /\ CellsTyped(memory, yyss) /\ Owners(memory, yyss, yylval, list)
      /\ yylval # {} => HasString(yychar)
      /\ ResultForm /\ memory.fault = "none" /\ yyss # <<>>
  BY DEF IInv, FaultFits
<1>2. yylval' = {} /\ memory' = memory /\ (yylval # {} => HasString(yychar))'
  BY DEF Shift, HasString
<1>3. Tidy(memory, R) /\ Distinct(list) BY <1>1 DEF Owners
<1>6. FaultFits' BY <1>1, <1>2 DEF FaultFits
<1>4. CASE yychar = "EOF"
  <2>1. /\ yyss' = <<>> /\ pc' = "accepted"
        /\ result' = [result EXCEPT !.isValid = TRUE]
    BY <1>4 DEF Shift
  <2>2. result'.statements = list /\ ResultForm' BY <1>1, <2>1 DEF ResultForm
  <2> DEFINE look == {}
  <2>3. look \union ToSet(list) \subseteq R /\ look \intersect ToSet(list) = {} /\ look = {} OBVIOUS
  <2> HIDE DEF R, list, look
  <2>4. StackFits(<<>>) /\ CellsTyped(memory, <<>>) /\ Owners(memory, <<>>, look, list)
    BY <1>3, <2>3, EmptyStack
  <2>5. Owners(memory, yyss, yylval, result.statements)' BY <1>2, <2>1, <2>2, <2>3, <2>4
  <2>6. StackFits(yyss)' /\ CellsTyped(memory, yyss)' BY <1>2, <2>1, <2>4
  <2> QED BY <1>1, <1>2, <1>6, <2>1, <2>2, <2>5, <2>6 DEF IInv
<1>5. CASE yychar # "EOF"
  <2> DEFINE new == Append(yyss, [sym |-> yychar, val |-> yylval,
                                  items |-> Goto(Last(yyss).items, yychar)])
  <2>1. yyss' = new /\ pc' = pc /\ result' = result BY <1>5 DEF Shift
  <2>2. yychar \in Symbols /\ yychar # NoSymbol
    <3>1. PICK r \in DOMAIN Rows : yychar \in ToSet(Rows[r].rhs) BY DEF Terminals
    <3> DEFINE S == STRING \ {""}
    <3>2. Rows[r].rhs \in Seq(S) BY RowFacts
    <3> HIDE DEF S
    <3>3. yychar \in S BY <3>1, <3>2 DEF ToSet
    <3>4. yychar # NoSymbol BY <3>3, Zenon DEF S, NoSymbol
    <3> QED BY <3>4 DEF Symbols
  <2>3. yylval \in SUBSET Nat /\ R \subseteq Live(memory)
    <3>1. R \subseteq Live(memory) /\ Live(memory) \subseteq Nat BY <1>3 DEF Tidy, IsMemory
    <3> QED BY <3>1
  <2>4. StackFits(new) BY <1>1, <2>2, <2>3, GotoFits
  <2>5. /\ Len(new) = n + 1 /\ new[n + 1].sym = yychar /\ new[n + 1].val = yylval
        /\ n \in Nat /\ \A k \in 1..n : new[k] = yyss[k]
    <3>1. yyss \in Seq(Cells) /\ n \in Nat BY <1>1, CellFacts DEF StackFits
    <3> QED BY <3>1
  <2> HIDE DEF new, vals, R
  <2>6. \A k \in 1..Len(new) : k \in 1..n \/ k = n + 1 BY <2>5
  <2>7. CellsTyped(memory, new)
    <3>1. Typed(memory, yychar, yylval)
      <4>1. yylval = {} \/ yychar \in {"IDENTIFIER", "STRING"} BY <1>1 DEF HasString
      <4> QED BY <4>1 DEF Typed, IsConstraintList, ConstraintLists
    <3>2. \A k \in 1..n : Typed(memory, yyss[k].sym, yyss[k].val) BY <1>1 DEF CellsTyped
    <3> QED BY <2>5, <2>6, <3>1, <3>2 DEF CellsTyped
  <2>8. ValuesOf(new, Len(new)) = vals \union yylval
    <3>1. ASSUME NEW x \in ValuesOf(new, Len(new)) PROVE x \in vals \union yylval
      <4>1. PICK k \in 1..Len(new) : x \in new[k].val BY DEF ValuesOf
      <4> QED BY <2>5, <2>6, <4>1 DEF ValuesOf, vals
    <3>2. ASSUME NEW x \in vals PROVE x \in ValuesOf(new, Len(new))
      <4>1. PICK k \in 1..n : x \in yyss[k].val BY DEF ValuesOf, vals
      <4>2. k \in 1..Len(new) /\ new[k] = yyss[k] BY <2>5
      <4> QED BY <4>1, <4>2 DEF ValuesOf
    <3>3. yylval \subseteq ValuesOf(new, Len(new))
      <4>1. n + 1 \in 1..Len(new) BY <2>5
      <4> QED BY <2>5, <4>1 DEF ValuesOf
    <3> QED BY <3>1, <3>2, <3>3
  <2>9. /\ \A j, k \in 1..n : yyss[j].val \intersect yyss[k].val # {} => j = k
        /\ \A k \in 1..n : yyss[k].val \intersect (yylval \union ToSet(list)) = {}
        /\ yylval \intersect ToSet(list) = {}
    BY <1>1 DEF Owners
  <2> HIDE DEF n, list
  <2>10. \A j, k \in 1..Len(new) : new[j].val \intersect new[k].val # {} => j = k
    <3> SUFFICES ASSUME NEW j \in 1..Len(new), NEW k \in 1..Len(new),
                        new[j].val \intersect new[k].val # {}
                 PROVE  j = k
      OBVIOUS
    <3>1. CASE j \in 1..n /\ k \in 1..n BY <2>5, <2>9, <3>1
    <3>2. CASE j = n + 1 /\ k \in 1..n BY <2>5, <2>9, <3>2
    <3>3. CASE j \in 1..n /\ k = n + 1 BY <2>5, <2>9, <3>3
    <3> QED BY <2>6, <3>1, <3>2, <3>3
  <2> DEFINE look == {}
  <2>11. \A k \in 1..Len(new) : new[k].val \intersect (look \union ToSet(list)) = {}
    BY <2>5, <2>6, <2>9
  <2> DEFINE Q == ValuesOf(new, Len(new)) \union look \union ToSet(list)
  <2>12. Q = R BY <2>8 DEF R
  <2>15. look = {} /\ look \intersect ToSet(list) = {} OBVIOUS
  <2> HIDE DEF Q, look
  <2>13. Tidy(memory, Q) BY <1>3, <2>12
  <2>14. Owners(memory, new, look, list) BY <1>3, <2>10, <2>11, <2>13, <2>15 DEF Owners, Q
  <2>16. Owners(memory, yyss, yylval, result.statements)' BY <1>2, <2>1, <2>14, <2>15 DEF list
  <2>17. StackFits(yyss)' /\ CellsTyped(memory, yyss)' BY <1>2, <2>1, <2>4, <2>7
  <2>18. ResultForm' BY <1>1, <2>1 DEF ResultForm
  <2>19. yyss' # <<>> BY <2>1, <2>5
  <2> QED BY <1>1, <1>2, <1>6, <2>1, <2>16, <2>17, <2>18, <2>19 DEF IInv
<1> QED BY <1>4, <1>5

\* cells are those of the stack and the lookahead.
Abandoned(cells) ==
  /\ Len(cells) \in Nat
  /\ \A k \in 1..Len(cells) :
       \/ cells[k].val = yylval
       \/ \E i \in 1..Len(yyss) : cells[k].val = yyss[i].val
  /\ \A j, k \in 1..Len(cells) : cells[j].val \intersect cells[k].val # {} => j = k

\* The stack with one more value on top of it or below it.
LEMMA OneMore ==
  ASSUME IInv, NEW cells, NEW d \in {0, 1}, NEW top, Len(cells) = Len(yyss) + 1,
         top = IF d = 0 THEN Len(yyss) + 1 ELSE 1, cells[top].val = yylval,
         \A k \in 1..Len(yyss) : cells[k + d] = yyss[k]
  PROVE  Abandoned(cells)
<1> DEFINE n == Len(yyss)
<1>1. /\ n \in Nat /\ n = Len(yyss) BY CellFacts DEF IInv, StackFits
<1>2. /\ \A j, k \in 1..n : yyss[j].val \intersect yyss[k].val # {} => j = k
      /\ \A k \in 1..n : yyss[k].val \intersect yylval = {}
  BY DEF IInv, Owners
<1> HIDE DEF n
<1>3. \A k \in 1..Len(cells) : k = top \/ (k # top /\ k - d \in 1..n /\ cells[k] = yyss[k - d])
  <2> SUFFICES ASSUME NEW k \in 1..(n + 1), k # top PROVE k - d \in 1..n /\ cells[k] = yyss[k - d]
    BY <1>1
  <2>1. k - d \in 1..n /\ k - d + d = k BY <1>1
  <2> QED BY <1>1, <2>1
<1>4. ASSUME NEW j \in 1..Len(cells), NEW k \in 1..Len(cells),
             cells[j].val \intersect cells[k].val # {}
      PROVE  j = k
  <2>1. CASE j # top /\ k # top
    <3>1. j - d \in 1..n /\ k - d \in 1..n /\ cells[j] = yyss[j - d] /\ cells[k] = yyss[k - d]
      BY <1>3, <2>1
    <3>2. j - d = k - d BY <1>2, <1>4, <3>1
    <3> QED BY <1>1, <3>2
  <2>2. CASE j = top /\ k # top BY <1>2, <1>3, <1>4, <2>2
  <2>3. CASE j # top /\ k = top BY <1>2, <1>3, <1>4, <2>3
  <2>4. CASE j = top /\ k = top BY <2>4
  <2> QED BY <2>1, <2>2, <2>3, <2>4
<1>5. \A k \in 1..Len(cells) : \/ cells[k].val = yylval
                               \/ \E i \in 1..Len(yyss) : cells[k].val = yyss[i].val
  BY <1>1, <1>3
<1> QED BY <1>1, <1>4, <1>5 DEF Abandoned

\* The parse is given up: what the stack and the lookahead hold is freed, and the statements
\* of the result are not.
LEMMA AbandonKeeps ==
  ASSUME IInv, pc = "parsing", NEW cells, Abandoned(cells), Abandon(cells)
  PROVE  IInv'
<1> DEFINE list == result.statements
           vals == ValuesOf(yyss, Len(yyss))
           R == vals \union yylval \union ToSet(list)
           S == ToSet(list)
           new == Unwind(memory, cells)
           look == {}
<1>1. /\ StackFits(yyss) /\ Owners(memory, yyss, yylval, list)
      /\ ResultForm /\ memory.fault = "none"
  BY DEF IInv, FaultFits
<1>2. /\ memory' = new /\ yyss' = <<>> /\ yylval' = look /\ pc' \in {"aborted", "undefined"}
      /\ result' = [result EXCEPT !.isValid = FALSE, !.error = TRUE]
  BY DEF Abandon
<1>3. Tidy(memory, R) /\ Distinct(list) BY <1>1 DEF Owners
<1>4. S = ToSet(list) /\ S \subseteq R /\ yylval \subseteq R OBVIOUS
<1>5. \A i \in 1..Len(yyss) : yyss[i].val \subseteq R /\ yyss[i].val \intersect S = {}
  BY <1>1 DEF ValuesOf, Owners
<1>6. yylval \intersect S = {} BY <1>1 DEF Owners
<1>7. look = {} /\ look \union ToSet(list) \subseteq S /\ look \intersect ToSet(list) = {} OBVIOUS
<1> HIDE DEF R, S, new, vals, look
<1>8. Tidy(new, S) /\ new.fault = memory.fault
  <2>1. \A k \in 1..Len(cells) : cells[k].val \subseteq R /\ cells[k].val \intersect S = {}
    BY <1>4, <1>5, <1>6 DEF Abandoned
  <2> QED BY <1>3, <1>4, <2>1, UnwindTidy DEF Abandoned, new
<1>9. result'.statements = list /\ ResultForm' BY <1>1, <1>2 DEF ResultForm
<1> HIDE DEF list
<1>10. StackFits(<<>>) /\ CellsTyped(new, <<>>) /\ Owners(new, <<>>, look, list)
  BY <1>3, <1>7, <1>8, EmptyStack
<1>11. StackFits(yyss)' /\ CellsTyped(memory, yyss)' BY <1>2, <1>10
<1>12. Owners(memory, yyss, yylval, result.statements)' BY <1>2, <1>9, <1>10
<1>13. (yylval # {} => HasString(yychar))' BY <1>2, <1>7
<1>14. FaultFits' BY <1>1, <1>2, <1>8 DEF FaultFits
<1> QED BY <1>1, <1>2, <1>9, <1>11, <1>12, <1>13, <1>14 DEF IInv

LEMMA SyntaxErrorKeeps == ASSUME IInv, pc = "parsing", SyntaxError PROVE IInv'
<1> DEFINE cells == <<Lookahead>> \o yyss
           S == Cells \union {Lookahead}
<1>1. yyss \in Seq(Cells) BY DEF IInv, StackFits
<1>2. yyss \in Seq(S) /\ Lookahead \in S /\ Len(yyss) \in Nat
  <2>1. Cells \subseteq S OBVIOUS
  <2> HIDE DEF S
  <2> QED BY <1>1, <2>1, SeqMonotonic, CellFacts DEF S
<1> HIDE DEF S
<1>3. /\ Len(cells) = Len(yyss) + 1 /\ cells[1] = Lookahead
      /\ \A k \in 1..Len(yyss) : cells[k + 1] = yyss[k]
  BY <1>2
<1>4. Lookahead.val = yylval BY DEF Lookahead
<1>5. Abandon(cells) BY DEF SyntaxError
<1> HIDE DEF cells
<1>6. Abandoned(cells) BY <1>3, <1>4, OneMore
<1> QED BY <1>5, <1>6, AbandonKeeps

LEMMA StackExhaustedKeeps == ASSUME IInv, pc = "parsing", StackExhausted PROVE IInv'
<1> DEFINE cells == Append(yyss, Lookahead)
           S == Cells \union {Lookahead}
<1>1. yyss \in Seq(Cells) BY DEF IInv, StackFits
<1>2. yyss \in Seq(S) /\ Lookahead \in S /\ Len(yyss) \in Nat
  <2>1. Cells \subseteq S OBVIOUS
  <2> HIDE DEF S
  <2> QED BY <1>1, <2>1, SeqMonotonic, CellFacts DEF S
<1> HIDE DEF S
<1>3. /\ Len(cells) = Len(yyss) + 1 /\ cells[Len(yyss) + 1] = Lookahead
      /\ \A k \in 1..Len(yyss) : cells[k] = yyss[k]
  BY <1>2
<1>4. Lookahead.val = yylval BY DEF Lookahead
<1>5. Abandon(cells) BY DEF StackExhausted
<1> HIDE DEF cells
<1>6. \A k \in 1..Len(yyss) : cells[k + 0] = yyss[k] BY <1>2, <1>3
<1>7. Abandoned(cells) BY <1>3, <1>4, <1>6, OneMore
<1> QED BY <1>5, <1>7, AbandonKeeps

\* The statements are deleted one by one.
LEMMA DestroyResultKeeps == ASSUME IInv, DestroyResult PROVE IInv'
<1> DEFINE list == result.statements
           vals == ValuesOf(yyss, Len(yyss))
           R == vals \union yylval \union ToSet(list)
           new == DeleteEach(memory, list)
           none == <<>>
<1>1. /\ StackFits(yyss) /\ Owners(memory, yyss, yylval, list)
      /\ ResultForm /\ memory.fault = "none" /\ yyss = <<>>
      /\ yylval # {} => HasString(yychar)
  BY DEF IInv, FaultFits, DestroyResult
<1>2. /\ memory' = new /\ yyss' = yyss /\ yylval' = yylval /\ yychar' = yychar
      /\ result' = [result EXCEPT !.statements = none] /\ pc' \in {"destroyed", "undefined"}
  BY DEF DestroyResult
<1>3. Tidy(memory, R) /\ Distinct(list) /\ yylval \intersect ToSet(list) = {} BY <1>1 DEF Owners
<1>4. yylval \subseteq R /\ ToSet(list) \subseteq R OBVIOUS
<1>5. Distinct(none) /\ ToSet(none) = {} BY DEF Distinct, ToSet
<1>6. list \in Seq(R) /\ \A k \in 1..Len(list) : list[k] \notin yylval
  <2>1. list \in Seq(Nat) BY <1>3 DEF Distinct
  <2>2. Len(list) \in Nat /\ DOMAIN list = 1..Len(list) BY <2>1
  <2>3. \A k \in 1..Len(list) : list[k] \in ToSet(list) BY <2>2 DEF ToSet
  <2>4. list = [k \in 1..Len(list) |-> list[k]] BY <2>1
  <2> HIDE DEF R, list
  <2>5. \A k \in 1..Len(list) : list[k] \in R /\ list[k] \notin yylval BY <1>3, <1>4, <2>3
  <2>6. list \in [1..Len(list) -> R] BY <2>4, <2>5
  <2>7. list \in Seq(R) BY <2>2, <2>6
  <2> QED BY <2>5, <2>7
<1> HIDE DEF R, list, new, none, vals
<1>7. Tidy(new, yylval) /\ new.fault = memory.fault BY <1>3, <1>4, <1>6, DeleteEachTidy DEF Distinct, new
<1>8. result'.statements = none /\ ResultForm' BY <1>1, <1>2 DEF ResultForm
<1>9. yylval \union ToSet(none) \subseteq yylval /\ yylval \intersect ToSet(none) = {} BY <1>5
<1>10. StackFits(<<>>) /\ CellsTyped(new, <<>>) /\ Owners(new, <<>>, yylval, none)
  BY <1>5, <1>7, <1>9, EmptyStack
<1>11. StackFits(yyss)' /\ CellsTyped(memory, yyss)' BY <1>1, <1>2, <1>10
<1>12. Owners(memory, yyss, yylval, result.statements)' BY <1>1, <1>2, <1>8, <1>10
<1>13. (yylval # {} => HasString(yychar))' BY <1>1, <1>2 DEF HasString
<1>14. FaultFits' BY <1>1, <1>2, <1>7 DEF FaultFits
<1> QED BY <1>1, <1>2, <1>8, <1>11, <1>12, <1>13, <1>14 DEF IInv

-----------------------------------------------------------------------------
(* The invariant of every behaviour.                                       *)

LEMMA InitIInv == Init => IInv
<1> SUFFICES ASSUME Init PROVE IInv
  OBVIOUS
<1> DEFINE start == {<<1, 0>>}
           none == <<>>
           look == {}
           cell == [sym |-> "start", val |-> look, items |-> start]
<1>1. /\ yyss = <<cell>> /\ yylval = look /\ memory = EmptyMemory /\ pc = "called"
      /\ result = [statements |-> none, parameters |-> none, isValid |-> FALSE, error |-> FALSE]
  BY DEF Init
<1>3. cell.val = look /\ cell.items = {<<1, 0>>} /\ cell.sym = "start" OBVIOUS
<1>2. cell \in Cells
  <2> DEFINE name == "start"
             P == SUBSET (Nat \X Nat)
             V == SUBSET Nat
  <2>1. name \in Symbols BY DEF Symbols
  <2>2. start \in P
    <3>1. <<1, 0>> \in Nat \X Nat OBVIOUS
    <3> QED BY <3>1, Zenon
  <2>5. look \in V BY Zenon
  <2>3. Cells = [sym : Symbols, val : V, items : P] BY DEF Cells
  <2>4. cell = [sym |-> name, val |-> look, items |-> start] OBVIOUS
  <2> HIDE DEF start, look, name, P, V, cell
  <2> QED BY <2>1, <2>2, <2>3, <2>4, <2>5
<1>4. look = {} /\ none \in Seq(Nat) /\ Len(none) = 0 /\ ToSet(none) = {} BY DEF ToSet
<1> HIDE DEF cell, none, look
<1>5. /\ yyss \in Seq(Cells) /\ Len(yyss) = 1 /\ yyss # <<>>
      /\ \A k \in 1..Len(yyss) : k = 1 /\ yyss[k] = cell
  BY <1>1, <1>2
<1>6. StackFits(yyss)
  <2>1. ASSUME NEW i, i = <<1, 0>> PROVE Seen(yyss, 1, i)
    <3>1. 1 \in DOMAIN Rows BY RowsFacts
    <3>2. Len(Rows[1].rhs) \in Nat BY <3>1, RowFacts
    <3>3. i[1] = 1 /\ i[2] = 0 BY <2>1
    <3> QED BY <3>1, <3>2, <3>3 DEF Seen
  <2> QED BY <1>3, <1>5, <2>1 DEF StackFits
<1>7. CellsTyped(memory, yyss) BY <1>3, <1>4, <1>5 DEF CellsTyped, Typed, IsConstraintList
<1>8. Owners(memory, yyss, yylval, none)
  <2> DEFINE R == ValuesOf(yyss, Len(yyss)) \union yylval \union ToSet(none)
  <2>1. R = {} BY <1>1, <1>3, <1>4, <1>5 DEF ValuesOf
  <2> HIDE DEF R
  <2>2. Tidy(memory, R) BY <1>1, <2>1, EmptyMemoryIsTidy
  <2> QED BY <1>1, <1>3, <1>4, <1>5, <2>2 DEF Owners, Distinct, R
<1>9. result.statements = none /\ ResultForm BY <1>1 DEF ResultForm
<1>10. FaultFits
  <2>1. memory.fault = "none" BY <1>1 DEF EmptyMemory
  <2> QED BY <2>1 DEF FaultFits
<1> QED BY <1>1, <1>4, <1>5, <1>6, <1>7, <1>8, <1>9, <1>10 DEF IInv

LEMMA NextIInv == ASSUME ActionsAreLinear, ListsAreTyped, IInv, [Next]_vars PROVE IInv'
<1>1. CASE Call
  <2>1. /\ UNCHANGED <<yychar, yylval, yyss, memory, result>> /\ pc = "called" /\ pc' = "parsing"
    BY <1>1 DEF Call
  <2>2. param_list' = param_list BY <1>1 DEF Call
  <2> QED BY <2>1, <2>2 DEF IInv, ResultForm, HasString, FaultFits
<1>2. CASE Parse
  <2>1. pc = "parsing" BY <1>2 DEF Parse
  <2>2. StackFits(yyss) /\ yyss # <<>> BY <2>1 DEF IInv
  <2> DEFINE step == Decision
  <2>3. /\ step.do = "reduce" => OnTop(yyss, step.row)
        /\ step.do = "shift" => yychar \in Terminals
    BY <2>2, DecisionFacts
  <2> HIDE DEF step
  <2>4. CASE Follow(step)
    <3>1. CASE ReadToken BY <2>1, <3>1, ReadTokenKeeps
    <3>2. CASE step.do = "shift" /\ Shift BY <2>1, <2>3, <3>2, ShiftKeeps
    <3>3. CASE step.do = "reduce" /\ Reduce(step.row)
      <4> DEFINE r == step.row
      <4>1. OnTop(yyss, r) BY <2>3, <3>3
      <4>2. ReduceNode(r) \/ ReduceParameter(r) \/ ReduceStatement(r) \/ ReduceInput(r)
        BY <3>3 DEF Reduce
      <4> HIDE DEF r
      <4>3. CASE ReduceNode(r) BY <2>1, <4>1, <4>3, ReduceNodeKeeps
      <4>4. CASE ReduceParameter(r) BY <2>1, <4>1, <4>4, ReduceParameterKeeps
      <4>5. CASE ReduceStatement(r) BY <2>1, <4>1, <4>5, ReduceStatementKeeps
      <4>6. CASE ReduceInput(r) BY <2>1, <4>1, <4>6, ReduceInputKeeps
      <4> QED BY <4>2, <4>3, <4>4, <4>5, <4>6
    <3>4. CASE SyntaxError BY <2>1, <3>4, SyntaxErrorKeeps
    <3> QED BY <2>4, <3>1, <3>2, <3>3, <3>4 DEF Follow
  <2>5. CASE StackExhausted BY <2>1, <2>5, StackExhaustedKeeps
  <2> QED BY <1>2, <2>4, <2>5 DEF Parse, step
<1>3. CASE DestroyResult BY <1>3, DestroyResultKeeps
<1>4. CASE UNCHANGED vars BY <1>4 DEF vars, IInv, ResultForm, HasString, FaultFits
<1> QED BY <1>1, <1>2, <1>3, <1>4 DEF Next, Finished

\* The invariant holds in every state.
THEOREM Invariant == Spec => []IInv
<1>1. Init => IInv BY InitIInv
<1>2. IInv /\ [Next]_vars => IInv' BY ActionsAssumption, NextIInv
<1> QED BY <1>1, <1>2, PTL DEF Spec

\* Held in terms of its parts.
LEMMA HeldFacts ==
  ASSUME IInv
  PROVE  LET n == Len(yyss)
         IN /\ n \in Nat /\ DOMAIN Held = 1..(n + 2)
            /\ \A k \in 1..n : Held[k] = yyss[k].val
            /\ Held[n + 1] = yylval /\ Held[n + 2] = ToSet(result.statements)
<1> DEFINE n == Len(yyss)
           list == ToSet(result.statements)
           vals == [k \in 1..n |-> yyss[k].val]
           rest == <<yylval, list>>
<1>1. n \in Nat /\ DOMAIN yyss = 1..n BY CellFacts DEF IInv, StackFits
<1>2. Held = vals \o rest BY <1>1 DEF Held
<1>3. Tidy(memory, ValuesOf(yyss, n) \union yylval \union list) BY DEF IInv, Owners
<1> DEFINE S == SUBSET Nat
<1>4. yylval \in S /\ list \in S
  <2>1. ValuesOf(yyss, n) \union yylval \union list \subseteq Live(memory) BY <1>3 DEF Tidy
  <2>2. Live(memory) \subseteq Nat BY <1>3 DEF Tidy, IsMemory
  <2> QED BY <2>1, <2>2
<1>5. \A k \in 1..n : yyss[k].val \in S BY <1>1, CellFacts DEF IInv, StackFits
<1> HIDE DEF n, list, S
<1>6. vals \in Seq(S) /\ Len(vals) = n
  <2>1. vals \in [1..n -> S] BY <1>5
  <2> QED BY <1>1, <2>1
<1>7. rest \in Seq(S) /\ Len(rest) = 2 /\ rest[1] = yylval /\ rest[2] = list BY <1>4
<1>8. \A k \in 1..n : vals[k] = yyss[k].val OBVIOUS
<1> HIDE DEF vals, rest
<1>9. /\ Held \in Seq(S) /\ Len(Held) = n + 2
      /\ \A k \in 1..(n + 2) : Held[k] = IF k <= n THEN vals[k] ELSE rest[k - n]
  <2>1. /\ vals \o rest \in Seq(S) /\ Len(vals \o rest) = Len(vals) + Len(rest)
        /\ \A k \in 1..Len(vals) + Len(rest) :
             (vals \o rest)[k] = IF k <= Len(vals) THEN vals[k] ELSE rest[k - Len(vals)]
    BY <1>6, <1>7, ConcatProperties
  <2> QED BY <1>2, <1>6, <1>7, <2>1
<1>10. DOMAIN Held = 1..(n + 2) BY <1>9
<1>11. \A k \in 1..n : Held[k] = yyss[k].val BY <1>1, <1>8, <1>9
<1>12. Held[n + 1] = yylval /\ Held[n + 2] = list BY <1>1, <1>7, <1>9
<1> QED BY <1>1, <1>10, <1>11, <1>12 DEF n, list

\* What is held is live, and held once.
LEMMA HeldApart ==
  ASSUME IInv
  PROVE  /\ \A k \in DOMAIN Held : Held[k] \subseteq Live(memory)
         /\ \A k \in DOMAIN Held : \A x, g : Held[k] \intersect Field(memory, x, g) = {}
         /\ \A j, k \in DOMAIN Held : Held[j] \intersect Held[k] # {} => j = k
<1> DEFINE n == Len(yyss)
           list == ToSet(result.statements)
           R == ValuesOf(yyss, n) \union yylval \union list
<1>1. /\ n \in Nat /\ DOMAIN Held = 1..(n + 2)
      /\ \A k \in 1..n : Held[k] = yyss[k].val
      /\ Held[n + 1] = yylval /\ Held[n + 2] = list
  BY HeldFacts
<1>2. /\ Tidy(memory, R)
      /\ \A j, k \in 1..n : yyss[j].val \intersect yyss[k].val # {} => j = k
      /\ \A k \in 1..n : yyss[k].val \intersect (yylval \union list) = {}
      /\ yylval \intersect list = {}
  BY DEF IInv, Owners
<1>3. \A k \in 1..n : yyss[k].val \subseteq R BY DEF ValuesOf
<1>4. yylval \subseteq R /\ list \subseteq R OBVIOUS
<1> HIDE DEF n, list, R
<1>5. \A k \in DOMAIN Held : k \in 1..n \/ k = n + 1 \/ k = n + 2 BY <1>1
<1>6. \A k \in DOMAIN Held : Held[k] \subseteq R BY <1>1, <1>3, <1>4, <1>5
<1>7. R \subseteq Live(memory) BY <1>2 DEF Tidy
<1>8. \A x, g : R \intersect Field(memory, x, g) = {} BY <1>2, TidyFields
<1>9. ASSUME NEW j \in DOMAIN Held, NEW k \in DOMAIN Held, Held[j] \intersect Held[k] # {}
      PROVE  j = k
  <2>1. CASE j \in 1..n /\ k \in 1..n BY <1>1, <1>2, <1>9, <2>1
  <2>2. CASE j \in 1..n /\ k \notin 1..n BY <1>1, <1>2, <1>5, <1>9, <2>2
  <2>3. CASE j \notin 1..n /\ k \in 1..n BY <1>1, <1>2, <1>5, <1>9, <2>3
  <2>4. CASE j \notin 1..n /\ k \notin 1..n BY <1>1, <1>2, <1>5, <1>9, <2>4
  <2> QED BY <2>1, <2>2, <2>3, <2>4
<1> QED BY <1>6, <1>7, <1>8, <1>9

LEMMA InvariantNoDangling == IInv => NoDangling
<1> SUFFICES ASSUME IInv PROVE NoDangling
  OBVIOUS
<1>1. \A k \in DOMAIN Held : Held[k] \subseteq Live(memory) BY HeldApart
<1>2. \E R : Tidy(memory, R) BY DEF IInv, Owners
<1>3. \A x \in Live(memory) : \A g \in DOMAIN memory.heap[x].f :
        memory.heap[x].f[g] \subseteq Live(memory)
  BY <1>2 DEF Tidy
<1> QED BY <1>1, <1>3 DEF NoDangling

\* References that point to different allocations are as many as the allocations.
LEMMA OnePerTarget ==
  ASSUME NEW refs, NEW L, IsFiniteSet(L), \A r \in refs : r[3] \in L,
         \A r, s \in refs : r[3] = s[3] => r = s
  PROVE  Cardinality(refs) = Cardinality({r[3] : r \in refs})
<1> DEFINE T == {r[3] : r \in refs}
           f == [r \in refs |-> r[3]]
<1>1. T \subseteq L OBVIOUS
<1>2. IsFiniteSet(T) BY <1>1, FS_Subset
<1>3. f \in Bijection(refs, T) BY DEF Bijection, Injection, Surjection, IsInjective
<1> HIDE DEF T, f
<1>4. f \in Injection(refs, T) /\ f \in Surjection(refs, T) BY <1>3 DEF Bijection
<1>5. Cardinality(refs) = Cardinality(T) BY <1>2, <1>4, FS_Injection
<1> QED BY <1>5 DEF T

LEMMA InvariantUniqueOwner == IInv => UniqueOwner
<1> SUFFICES ASSUME IInv PROVE UniqueOwner
  OBVIOUS
<1> DEFINE held == UNION {{<<0, k, x>> : x \in Held[k]} : k \in DOMAIN Held}
           members(y) == UNION {{<<y, g, x>> : x \in Field(memory, y, g)} : g \in DOMAIN memory.heap[y].f}
           refs == held \union UNION {members(y) : y \in Live(memory)}
           L == Live(memory)
           IsHeld(r) == \E k \in DOMAIN Held : \E x \in Held[k] : r = <<0, k, x>>
           IsMember(r) == \E y \in Live(memory) : \E g : \E x \in Field(memory, y, g) : r = <<y, g, x>>
<1>1. \A r \in refs : IsHeld(r) \/ IsMember(r)
  <2>1. \A r \in held : IsHeld(r) OBVIOUS
  <2>2. \A y \in Live(memory) : \A r \in members(y) : IsMember(r) OBVIOUS
  <2> HIDE DEF IsHeld, IsMember, held, members
  <2> QED BY <2>1, <2>2
<1>2. PICK R : Tidy(memory, R) BY DEF IInv, Owners
<1>3. IsFiniteSet(L) BY <1>2, LiveFinite DEF Tidy
<1>4. /\ \A x, g : Field(memory, x, g) \subseteq L
      /\ \A x, g, y, h, z : z \in Field(memory, x, g) /\ z \in Field(memory, y, h) => x = y /\ g = h
  <2>1. \A x, g : Field(memory, x, g) \subseteq L \ R BY <1>2, TidyFields
  <2>2. \A x, g, y, h, z : z \in Field(memory, x, g) /\ z \in Field(memory, y, h) => x = y /\ g = h
    BY <1>2, TidyFields
  <2> QED BY <2>1, <2>2
<1>5. /\ \A k \in DOMAIN Held : Held[k] \subseteq L
      /\ \A k \in DOMAIN Held : \A x, g : Held[k] \intersect Field(memory, x, g) = {}
      /\ \A j, k \in DOMAIN Held : Held[j] \intersect Held[k] # {} => j = k
  BY HeldApart
<1>6. UniqueOwner = (Cardinality(refs) = Cardinality({r[3] : r \in refs})) BY Zenon DEF UniqueOwner
<1> HIDE DEF refs, L
<1>7. \A r \in refs : r[3] \in L BY <1>1, <1>4, <1>5
<1>8. ASSUME NEW r \in refs, NEW s \in refs, r[3] = s[3] PROVE r = s
  <2>1. CASE IsHeld(r) /\ IsHeld(s)
    <3>1. PICK j \in DOMAIN Held : \E x \in Held[j] : r = <<0, j, x>> BY <2>1
    <3>2. PICK k \in DOMAIN Held : \E x \in Held[k] : s = <<0, k, x>> BY <2>1
    <3>3. r = <<0, j, r[3]>> /\ r[3] \in Held[j] BY <3>1
    <3>4. s = <<0, k, s[3]>> /\ s[3] \in Held[k] BY <3>2
    <3>5. j = k BY <1>5, <1>8, <3>3, <3>4
    <3> QED BY <1>8, <3>3, <3>4, <3>5
  <2>2. CASE IsMember(r) /\ IsMember(s)
    <3>1. PICK u \in Live(memory) : \E g : \E x \in Field(memory, u, g) : r = <<u, g, x>> BY <2>2
    <3>2. PICK g : \E x \in Field(memory, u, g) : r = <<u, g, x>> BY <3>1
    <3>3. PICK v \in Live(memory) : \E h : \E x \in Field(memory, v, h) : s = <<v, h, x>> BY <2>2
    <3>4. PICK h : \E x \in Field(memory, v, h) : s = <<v, h, x>> BY <3>3
    <3>5. r = <<u, g, r[3]>> /\ r[3] \in Field(memory, u, g) BY <3>2
    <3>6. s = <<v, h, s[3]>> /\ s[3] \in Field(memory, v, h) BY <3>4
    <3>7. u = v /\ g = h BY <1>4, <1>8, <3>5, <3>6
    <3> QED BY <1>8, <3>5, <3>6, <3>7
  <2>3. CASE IsHeld(r) /\ IsMember(s)
    <3>1. PICK k \in DOMAIN Held : r[3] \in Held[k] BY <2>3
    <3>2. \E y, g : s[3] \in Field(memory, y, g) BY <2>3
    <3> QED BY <1>5, <1>8, <3>1, <3>2
  <2>4. CASE IsMember(r) /\ IsHeld(s)
    <3>1. PICK k \in DOMAIN Held : s[3] \in Held[k] BY <2>4
    <3>2. \E y, g : r[3] \in Field(memory, y, g) BY <2>4
    <3> QED BY <1>5, <1>8, <3>1, <3>2
  <2> QED BY <1>1, <2>1, <2>2, <2>3, <2>4
<1>9. Cardinality(refs) = Cardinality({r[3] : r \in refs}) BY <1>3, <1>7, <1>8, OnePerTarget
<1> QED BY <1>6, <1>9

\* Nothing that is still to be used or freed is freed (bison_parser.y, the destructors of
\* statements.cpp and Expr.cpp, ~SQLParserResult): for every text, all rows that keep the
\* static discipline of ActionsAssumption, and every depth of the stack.
THEOREM NeverDangling == Spec => []NoDangling
<1>1. Spec => []IInv BY Invariant
<1>2. IInv => NoDangling BY InvariantNoDangling
<1> QED BY <1>1, <1>2, PTL

\* Every allocation has one owner at most: a cell of the stack, the lookahead, the result or
\* a member of a live object.
THEOREM OneOwner == Spec => []UniqueOwner
<1>1. Spec => []IInv BY Invariant
<1>2. IInv => UniqueOwner BY InvariantUniqueOwner
<1> QED BY <1>1, <1>2, PTL

\* No semantic action, %destructor or destructor frees what is freed already.
THEOREM NeverFreedTwice == Spec => [](memory.fault # "double free")
<1>1. Spec => []IInv BY Invariant
<1>2. IInv => memory.fault # "double free" BY DEF IInv, FaultFits
<1> QED BY <1>1, <1>2, PTL

\* The only freed memory that is ever used is that of a placeholder of an expression that a
\* semantic action deleted: no action, no destructor and no client uses any other.
THEOREM OnlyPlaceholdersDangle == Spec => [](memory.fault = "use after free" => ~(ToSet(param_list) \subseteq Live(memory)))
<1>1. Spec => []IInv BY Invariant
<1>2. IInv => (memory.fault = "use after free" => ~(ToSet(param_list) \subseteq Live(memory)))
  BY DEF IInv, FaultFits
<1> QED BY <1>1, <1>2, PTL
==============================================================================
