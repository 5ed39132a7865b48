------------------------ MODULE SqlPlaceholderProofs ------------------------
(***************************************************************************)
(* For every text: a valid result has one parameter for each `?', in the   *)
(* order of the text, with its number and not yet deleted.                 *)
(***************************************************************************)
EXTENDS SqlParserProofs

-----------------------------------------------------------------------------
(* The memory grows: allocations do not come back and keep their class.    *)

\* What new has of the allocations of m, m has, and its class is the same.
Grew(m, new) ==
  /\ IsMemory(new) /\ m.next <= new.next
  /\ \A x \in Live(new) : x < m.next => x \in Live(m) /\ new.heap[x].kind = m.heap[x].kind

LEMMA GrewSame == ASSUME NEW m, IsMemory(m) PROVE Grew(m, m)
<1>1. m.next \in Nat BY DEF IsMemory
<1> QED BY <1>1 DEF Grew

LEMMA GrewTwice ==
  ASSUME NEW m, IsMemory(m), NEW n, Grew(m, n), NEW k, Grew(n, k)
  PROVE  Grew(m, k)
<1>1. /\ m.next \in Nat /\ n.next \in Nat /\ k.next \in Nat /\ m.next <= n.next /\ n.next <= k.next
      /\ Live(k) \subseteq Nat /\ IsMemory(k)
  BY DEF Grew, IsMemory
<1>2. m.next <= k.next BY <1>1
<1>3. ASSUME NEW x \in Live(k), x < m.next
      PROVE  x \in Live(m) /\ k.heap[x].kind = m.heap[x].kind
  <2>1. x < n.next BY <1>1, <1>3
  <2>2. x \in Live(n) /\ k.heap[x].kind = n.heap[x].kind BY <2>1 DEF Grew
  <2> QED BY <1>3, <2>2 DEF Grew
<1> QED BY <1>1, <1>2, <1>3 DEF Grew

LEMMA NewNext ==
  ASSUME NEW m, NEW kind, NEW type, NEW fields, IsMemory(m)
  PROVE  New(m, kind, type, fields).next = m.next + 1
BY DEF New, IsMemory

LEMMA NewGrew ==
  ASSUME NEW m, IsMemory(m), NEW kind, NEW type, NEW fields, NEW new, new = New(m, kind, type, fields)
  PROVE  Grew(m, new)
<1> DEFINE made == New(m, kind, type, fields)
<1>1. /\ IsMemory(made) /\ m.next \notin Live(m) /\ Live(made) = Live(m) \union {m.next}
      /\ \A x \in Live(m) : made.heap[x] = m.heap[x]
      /\ made.heap[m.next] = [kind |-> kind, type |-> type, f |-> fields, n |-> NotSet]
  BY NewMemory
<1>2. made.next = m.next + 1 /\ new = made BY NewNext
<1> HIDE DEF made
<1>3. m.next \in Nat BY DEF IsMemory
<1> QED BY <1>1, <1>2, <1>3 DEF Grew

LEMMA StringGrew ==
  ASSUME NEW m, IsMemory(m), NEW new, new = NewString(m)
  PROVE  Grew(m, new)
<1>1. \E kind, type, f : new = New(m, kind, type, f) BY Zenon DEF NewString
<1> QED BY <1>1, NewGrew

LEMMA FaultedGrew ==
  ASSUME NEW m, IsMemory(m), NEW what, NEW new, new = Faulted(m, what)
  PROVE  Grew(m, new)
<1>2. new = [heap |-> m.heap, next |-> m.next, mismatched |-> m.mismatched, fault |-> what]
  BY DEF Faulted, IsMemory
<1>3. new.heap = m.heap /\ new.next = m.next
      /\ new = [heap |-> new.heap, next |-> new.next, mismatched |-> new.mismatched,
                fault |-> new.fault]
  BY <1>2
<1>4. Live(new) = Live(m) BY <1>3 DEF Live
<1>5. IsMemory(new) BY <1>3, <1>4 DEF IsMemory
<1>6. m.next \in Nat BY DEF IsMemory
<1> QED BY <1>3, <1>4, <1>5, <1>6 DEF Grew

LEMMA SetGrew ==
  ASSUME NEW m, IsMemory(m), NEW p, NEW f, NEW new, new = SetFields(m, p, f)
  PROVE  Grew(m, new)
<1>1. CASE p \subseteq Live(m) /\ p # {}
  <2>1. /\ IsMemory(new) /\ Live(new) = Live(m) /\ new.next = m.next
        /\ \A y \in Live(m) : new.heap[y].kind = m.heap[y].kind
    BY <1>1, SetMemory
  <2>2. m.next \in Nat BY DEF IsMemory
  <2> QED BY <2>1, <2>2 DEF Grew
<1>2. CASE ~(p \subseteq Live(m) /\ p # {})
  <2>1. \E what : new = Faulted(m, what) BY <1>2, Zenon DEF SetFields
  <2> QED BY <2>1, FaultedGrew
<1> QED BY <1>1, <1>2

\* What delete of S leaves, in any memory.
Leaves(m, S, new) ==
  /\ IsMemory(new) /\ new.next = m.next
  /\ Live(new) = Live(m) \ Doomed(m, S \intersect Live(m))
  /\ \A x \in Live(new) : new.heap[x] = m.heap[x]

LEMMA DeleteLeaves == ASSUME NEW m, IsMemory(m), NEW S PROVE Leaves(m, S, Delete(m, S))
<1> DEFINE D == Doomed(m, S \intersect Live(m))
           h == [x \in Live(m) \ D |-> m.heap[x]]
           new == Delete(m, S)
<1>1. \E M, what : new = [m EXCEPT !.heap = h, !.mismatched = M, !.fault = what]
  BY Zenon DEF Delete
<1>2. PICK M, what : new = [m EXCEPT !.heap = h, !.mismatched = M, !.fault = what] BY <1>1
<1> HIDE DEF h, new
<1>3. new = [heap |-> h, next |-> m.next, mismatched |-> M, fault |-> what] BY <1>2 DEF IsMemory
<1>4. /\ new.heap = h /\ new.next = m.next
      /\ new = [heap |-> new.heap, next |-> new.next, mismatched |-> new.mismatched,
                fault |-> new.fault]
  BY <1>3
<1>5. Live(new) = Live(m) \ D BY <1>4 DEF Live, h
<1> HIDE DEF D
<1>6. \A x \in Live(new) : new.heap[x] = m.heap[x] BY <1>4, <1>5 DEF h
<1>7. IsMemory(new)
  <2>1. new.heap = [x \in Live(new) |-> new.heap[x]] BY <1>4, <1>5 DEF h
  <2> QED BY <1>4, <1>5, <1>6, <2>1 DEF IsMemory
<1> QED BY <1>4, <1>5, <1>6, <1>7 DEF Leaves, D, new

LEMMA DeleteGrew ==
  ASSUME NEW m, IsMemory(m), NEW S, NEW new, new = Delete(m, S)
  PROVE  Grew(m, new)
<1>1. Leaves(m, S, new) BY DeleteLeaves
<1>2. m.next \in Nat BY DEF IsMemory
<1> DEFINE D == Doomed(m, S \intersect Live(m))
<1>3. /\ IsMemory(new) /\ new.next = m.next /\ Live(new) = Live(m) \ D
      /\ \A x \in Live(new) : new.heap[x] = m.heap[x]
  BY <1>1, Zenon DEF Leaves
<1> HIDE DEF D
<1> QED BY <1>2, <1>3 DEF Grew

LEMMA SetNumbersGrew ==
  ASSUME NEW m, NEW R, Tidy(m, R), NEW n, NEW new, new = SetNumbers(m, n)
  PROVE  Grew(m, new)
<1>1. /\ Tidy(new, R) /\ new.next = m.next /\ Live(new) = Live(m)
      /\ \A x \in Live(m) : new.heap[x].kind = m.heap[x].kind
  BY SetNumbersTidy
<1>2. m.next \in Nat BY DEF Tidy, IsMemory
<1> QED BY <1>1, <1>2 DEF Grew, Tidy

-----------------------------------------------------------------------------
(* The semantic actions.                                                   *)

LEMMA ColumnGrew ==
  ASSUME NEW m, IsMemory(m), NEW name, NEW on, NEW new, new = ColumnDefinition(m, name, on).m
  PROVE  Grew(m, new)
<1>1. CASE on = {}
  <2>1. \E what, val : ColumnDefinition(m, name, on) = Done(Faulted(m, what), val)
    BY <1>1, Zenon DEF ColumnDefinition
  <2>2. \E what : new = Faulted(m, what) BY <2>1, DoneParts
  <2> QED BY <2>2, FaultedGrew
<1>2. CASE on # {}
  <2>1. \E S, class, type, f : ColumnDefinition(m, name, on) = Make(Delete(m, S), class, type, f)
    BY <1>2, Zenon DEF ColumnDefinition
  <2>2. PICK S, class, type, f : ColumnDefinition(m, name, on) = Make(Delete(m, S), class, type, f)
    BY <2>1
  <2> DEFINE n == Delete(m, S)
  <2>3. Grew(m, n) BY DeleteGrew
  <2> HIDE DEF n
  <2>4. new = New(n, class, type, f) BY <2>2, DoneParts DEF Make, n
  <2>5. Grew(n, new) BY <2>3, <2>4, NewGrew DEF Grew
  <2> QED BY <2>3, <2>5, GrewTwice
<1> QED BY <1>1, <1>2

LEMMA ExecuteGrew ==
  ASSUME NEW m, IsMemory(m), NEW in, in.op \in Operations, NEW on, NEW args,
         NEW done, done = Execute(m, in, on, args)
  PROVE  Grew(m, done.m)
<1>1. \/ \E val : done = Done(m, val)
      \/ \E val : done = Done(NewString(m), val)
      \/ \E class, type, f : done = Make(m, class, type, f)
      \/ \E p, f, val : done = Done(SetFields(m, p, f), val)
      \/ \E S, p, f, val : done = Done(SetFields(Delete(m, S), p, f), val)
      \/ \E S, val : done = Done(Delete(m, S), val)
      \/ \E what, val : done = Done(Faulted(m, what), val)
      \/ \E name : done = ColumnDefinition(m, name, on)
  <2>1. CASE in.op \in {"value", "both"} BY <2>1, Zenon DEF Execute
  <2>2. CASE in.op = "copy" BY <2>2, Zenon DEF Execute
  <2>3. CASE in.op \in {"new", "vector"} BY <2>3, Zenon DEF Execute
  <2>4. CASE in.op \in {"push", "pushin"} BY <2>4, Zenon DEF Execute, PushBack
  <2>5. CASE in.op = "set" BY <2>5, Zenon DEF Execute
  <2>6. CASE in.op = "replace"
    <3>1. CASE args[1] = {} BY <2>6, <3>1, Zenon DEF Execute
    <3>2. CASE args[1] # {} BY <2>6, <3>2, Zenon DEF Execute
    <3> QED BY <3>1, <3>2
  <2>7. CASE in.op = "take" BY <2>7, Zenon DEF Execute, Taken
  <2>8. CASE in.op = "delete" BY <2>8, Zenon DEF Execute
  <2>9. CASE in.op = "column" BY <2>9, Zenon DEF Execute
  <2>10. CASE in.op = "copyName" BY <2>10, Zenon DEF Execute
  <2>11. CASE in.op = "copyGetName" BY <2>11, Zenon DEF Execute
  <2> QED BY <2>1, <2>2, <2>3, <2>4, <2>5, <2>6, <2>7, <2>8, <2>9, <2>10, <2>11 DEF Operations
<1>2. ASSUME NEW val, done = Done(m, val) PROVE Grew(m, done.m)
  BY <1>2, DoneParts, GrewSame
<1>3. ASSUME NEW val, done = Done(NewString(m), val) PROVE Grew(m, done.m)
  <2>1. done.m = NewString(m) BY <1>3, DoneParts
  <2> QED BY <2>1, StringGrew
<1>4. ASSUME NEW class, NEW type, NEW f, done = Make(m, class, type, f) PROVE Grew(m, done.m)
  <2>1. done.m = New(m, class, type, f) BY <1>4, DoneParts DEF Make
  <2> QED BY <2>1, NewGrew
<1>5. ASSUME NEW p, NEW f, NEW val, done = Done(SetFields(m, p, f), val) PROVE Grew(m, done.m)
  <2>1. done.m = SetFields(m, p, f) BY <1>5, DoneParts
  <2> QED BY <2>1, SetGrew
<1>6. ASSUME NEW S, NEW p, NEW f, NEW val, done = Done(SetFields(Delete(m, S), p, f), val)
      PROVE  Grew(m, done.m)
  <2> DEFINE n == Delete(m, S)
  <2>1. done.m = SetFields(n, p, f) BY <1>6, DoneParts
  <2>2. Grew(m, n) BY DeleteGrew
  <2> HIDE DEF n
  <2>3. Grew(n, done.m) BY <2>1, <2>2, SetGrew DEF Grew
  <2> QED BY <2>2, <2>3, GrewTwice
<1>7. ASSUME NEW S, NEW val, done = Done(Delete(m, S), val) PROVE Grew(m, done.m)
  <2>1. done.m = Delete(m, S) BY <1>7, DoneParts
  <2> QED BY <2>1, DeleteGrew
<1>8. ASSUME NEW what, NEW val, done = Done(Faulted(m, what), val) PROVE Grew(m, done.m)
  <2>1. done.m = Faulted(m, what) BY <1>8, DoneParts
  <2> QED BY <2>1, FaultedGrew
<1>9. ASSUME NEW name, done = ColumnDefinition(m, name, on) PROVE Grew(m, done.m)
  BY <1>9, ColumnGrew
<1> QED BY <1>1, <1>2, <1>3, <1>4, <1>5, <1>6, <1>7, <1>8, <1>9

LEMMA BuildGrew ==
  ASSUME NEW r \in DOMAIN Rows, NEW m, IsMemory(m), NEW vals,
         NEW b, b = Build(m, Rows[r].code, vals)
  PROVE  Grew(m, b.m)
<1> DEFINE N == Len(Rows[r].code)
           code == Rows[r].code
<1>1. N \in Nat /\ DOMAIN code = 1..N BY RowFacts
<1>2. PICK f : Course(f, m, code, vals) BY <1>1, RunIs
<1> DEFINE Fine(t) == Grew(m, f[t].m)
           Failing == {t \in 0..N : ~Fine(t)}
<1>3. Fine(0)
  <2>1. f[0].m = m BY <1>2 DEF Course
  <2> QED BY <2>1, GrewSame
<1>4. ASSUME NEW t \in 1..N, Fine(t - 1) PROVE Fine(t)
  <2> DEFINE at == f[t - 1]
             in == code[t]
             on == ValueIn(at.regs, in.on)
             args == [g \in DOMAIN in.args |-> ValueIn(at.regs, in.args[g])]
             done == Execute(at.m, in, on, args)
  <2>1. f[t] = Step(at, in) BY <1>2 DEF Course
  <2>2. Step(at, in).m = done.m BY DEF Step, Extended
  <2>3. in.op \in Operations BY InstructionFacts
  <2>4. Grew(m, at.m) BY <1>4
  <2>5. done = Execute(at.m, in, on, args) OBVIOUS
  <2> HIDE DEF at, in, on, args, done
  <2>6. Grew(at.m, done.m) BY <2>3, <2>4, <2>5, ExecuteGrew DEF Grew
  <2>7. Grew(m, done.m) BY <2>4, <2>6, GrewTwice
  <2> QED BY <2>1, <2>2, <2>7
<1> HIDE DEF Fine, N
<1>5. Failing = {}
  <2> SUFFICES ASSUME Failing # {} PROVE FALSE
    OBVIOUS
  <2>1. PICK k \in Failing : \A j \in Failing : k <= j
    <3>1. Failing \subseteq Nat OBVIOUS
    <3> QED BY <3>1, LeastNatural
  <2>2. k \in 1..N BY <1>1, <1>3
  <2>3. k - 1 \in 0..N /\ ~(k <= k - 1) BY <1>1, <2>2
  <2>4. Fine(k - 1) BY <2>1, <2>3
  <2> QED BY <1>4, <2>2, <2>4
<1>6. Fine(N) BY <1>1, <1>5
<1>7. b.m = Run(m, code, vals).m
  <2>1. \E val : b = Done(Run(m, code, vals).m, val) BY Zenon DEF Build
  <2> QED BY <2>1, DoneParts
<1> QED BY <1>2, <1>6, <1>7 DEF Fine, N, Course

-----------------------------------------------------------------------------
(* The deletion of a vector, and the numbers of the parameters.            *)

\* What frees nothing is deleted alone.
LEMMA PlainDoomed ==
  ASSUME NEW m, NEW S, S \subseteq Live(m), \A x \in S : m.heap[x].kind \in Plain
  PROVE  Doomed(m, S) = S
<1> DEFINE f == CHOOSE f : f = [T \in SUBSET Live(m) |->
                  IF Further(m, T) \subseteq T THEN T ELSE f[T \union Further(m, T)]]
<1>1. Doomed(m, S) = f[S] BY DEF Doomed
<1>2. f = [T \in SUBSET Live(m) |-> IF Further(m, T) \subseteq T THEN T ELSE f[T \union Further(m, T)]]
  BY DoomedExists, Zenon
<1> HIDE DEF f
<1>3. Further(m, S) = {}
  <2>1. \A x \in S : Owned(m, x) = {} BY PlainOwnsNothing
  <2> QED BY <2>1, FurtherIsOwned
<1>4. S \in SUBSET Live(m) OBVIOUS
<1> QED BY <1>1, <1>2, <1>3, <1>4

LEMMA NumberIs ==
  ASSUME NEW m, IsMemory(m), NEW n, NEW x \in Live(m), x \in DOMAIN n
  PROVE  SetNumbers(m, n).heap[x].n = n[x]
<1> DEFINE numbered(y) == IF y \in DOMAIN n THEN [m.heap[y] EXCEPT !.n = n[y]] ELSE m.heap[y]
           h == [y \in Live(m) |-> numbered(y)]
           o == m.heap[x]
           num == n[x]
<1>1. SetNumbers(m, n) = [m EXCEPT !.heap = h] BY DEF SetNumbers
<1>2. h[x] = numbered(x) OBVIOUS
<1>3. numbered(x) = [o EXCEPT !.n = num] OBVIOUS
<1>4. o = [kind |-> o.kind, type |-> o.type, f |-> o.f, n |-> o.n] BY DEF IsMemory
<1> HIDE DEF numbered, h, o, num
<1>5. [o EXCEPT !.n = num].n = num BY <1>4
<1>6. SetNumbers(m, n).heap = h BY <1>1 DEF IsMemory
<1> QED BY <1>2, <1>3, <1>5, <1>6 DEF num

-----------------------------------------------------------------------------
(* The automaton around a placeholder and at the end of the text.          *)

\* Every state but the first has seen a symbol. A placeholder is reduced before anything is
\* put on top of it, and nothing is put on top of input.
StackAdvances(stack) ==
  /\ stack[1].sym = "start"
  /\ \A k \in 2..Len(stack) : \A i \in stack[k].items : i[2] > 0
  /\ \A k \in 1..Len(stack) : stack[k].sym \in {"?", "input"} => k = Len(stack)

LEMMA NamesFacts == NoSymbol \notin Nonterminals /\ "EOF" \notin Nonterminals
<1> DEFINE end == "EOF"
<1>1. \A r \in DOMAIN Rows : Rows[r].lhs # NoSymbol
  <2> TAKE r \in DOMAIN Rows
  <2>1. Rows[r].lhs \in STRING \ {""} BY RowFacts
  <2> QED BY <2>1, Zenon DEF NoSymbol
<1>2. \A r \in DOMAIN Rows : Rows[r].lhs # end BY EntryAssumption
<1> HIDE DEF end
<1>3. NoSymbol \notin Nonterminals /\ end \notin Nonterminals BY <1>1, <1>2 DEF Nonterminals
<1> QED BY <1>3 DEF end

\* A state that expects no nonterminal is its kernel.
LEMMA KernelOnly ==
  ASSUME NEW items, \A i \in items : Symbol(i) \notin Nonterminals
  PROVE  Closure(items) = items
<1>1. {Symbol(i) : i \in items} \intersect Nonterminals = {} OBVIOUS
<1> QED BY <1>1 DEF Closure

\* The items of a kernel have just seen the symbol on top.
LEMMA KernelSeen ==
  ASSUME StackFits(yyss), yyss # <<>>, StackAdvances(yyss), Last(yyss).sym # "start",
         NEW i \in Last(yyss).items
  PROVE  /\ i[1] \in DOMAIN Rows /\ i[2] \in DOMAIN Rows[i[1]].rhs
         /\ Rows[i[1]].rhs[i[2]] = Last(yyss).sym
         /\ i[2] \in Nat /\ i[2] <= Len(Rows[i[1]].rhs)
<1> DEFINE n == Len(yyss)
           w == Len(Rows[i[1]].rhs)
           d == i[2]
<1>1. n \in Nat \ {0} /\ Last(yyss) = yyss[n]
  <2>1. n \in Nat \ {0} BY TopFacts
  <2> QED BY <2>1 DEF Last
<1>2. n # 1 BY <1>1 DEF StackAdvances
<1>3. n \in 2..n /\ n \in 1..n
  <2> HIDE DEF n
  <2> QED BY <1>1, <1>2
<1>4. d > 0 BY <1>1, <1>3 DEF StackAdvances
<1>5. Seen(yyss, n, i) BY <1>1, <1>3 DEF StackFits
<1>6. /\ i[1] \in DOMAIN Rows /\ d \in Nat /\ d <= w
      /\ \A j \in 1..d : yyss[n - d + j].sym = Rows[i[1]].rhs[j]
  BY <1>5 DEF Seen
<1>7. w \in Nat /\ DOMAIN Rows[i[1]].rhs = 1..w BY <1>6, RowFacts
<1> HIDE DEF n, w, d
<1>8. d \in 1..d /\ n - d + d = n /\ d \in 1..w BY <1>1, <1>4, <1>6, <1>7
<1>9. yyss[n - d + d].sym = Rows[i[1]].rhs[d] BY <1>6, <1>8
<1> QED BY <1>1, <1>6, <1>7, <1>8, <1>9 DEF d, w

\* On top of a placeholder there is nothing to do but to reduce it.
LEMMA AfterPlaceholder ==
  ASSUME StackFits(yyss), yyss # <<>>, StackAdvances(yyss), Last(yyss).sym = "?",
         NEW i \in Closure(Last(yyss).items)
  PROVE  Rows[i[1]].kind = "param" /\ Symbol(i) = NoSymbol
<1>1. ASSUME NEW j \in Last(yyss).items
      PROVE  Rows[j[1]].kind = "param" /\ Symbol(j) = NoSymbol
  <2>1. /\ j[1] \in DOMAIN Rows /\ j[2] \in DOMAIN Rows[j[1]].rhs
        /\ Rows[j[1]].rhs[j[2]] = "?"
        /\ j[2] \in Nat /\ j[2] <= Len(Rows[j[1]].rhs)
    BY KernelSeen
  <2>2. "?" \in ToSet(Rows[j[1]].rhs) BY <2>1 DEF ToSet
  <2>3. Rows[j[1]].kind = "param" /\ Rows[j[1]].rhs = <<"?">>
    BY <2>1, <2>2, PlaceholderAssumption
  <2>4. Len(Rows[j[1]].rhs) = 1 /\ j[2] = 1 BY <2>1, <2>3
  <2>5. Symbol(j) = NoSymbol BY <2>1, <2>4, SymbolFacts
  <2> QED BY <2>3, <2>5
<1>2. \A j \in Last(yyss).items : Symbol(j) \notin Nonterminals BY <1>1, NamesFacts
<1>3. Closure(Last(yyss).items) = Last(yyss).items BY <1>2, KernelOnly
<1> QED BY <1>1, <1>3

\* After an input only the end of the text is accepted.
LEMMA AfterInput ==
  ASSUME StackFits(yyss), yyss # <<>>, StackAdvances(yyss), Last(yyss).sym = "input",
         NEW i \in Closure(Last(yyss).items)
  PROVE  Symbol(i) = "EOF" /\ Symbol(i) # NoSymbol
<1>1. ASSUME NEW j \in Last(yyss).items PROVE Symbol(j) = "EOF" /\ Symbol(j) # NoSymbol
  <2>1. /\ j[1] \in DOMAIN Rows /\ j[2] \in DOMAIN Rows[j[1]].rhs
        /\ Rows[j[1]].rhs[j[2]] = "input"
        /\ j[2] \in Nat /\ j[2] <= Len(Rows[j[1]].rhs)
    BY KernelSeen
  <2>2. "input" \in ToSet(Rows[j[1]].rhs) BY <2>1 DEF ToSet
  <2>3. Rows[j[1]].rhs = <<"input", "EOF">> BY <2>1, <2>2, EntryAssumption
  <2>4. /\ Len(Rows[j[1]].rhs) = 2 /\ j[2] \in 1..2
        /\ Rows[j[1]].rhs[1] = "input" /\ Rows[j[1]].rhs[2] = "EOF"
    BY <2>1, <2>3
  <2>5. j[2] = 1 BY <2>1, <2>4
  <2>6. Symbol(j) # NoSymbol BY <2>1, <2>4, <2>5, SymbolFacts
  <2>7. Symbol(j) = Rows[j[1]].rhs[j[2] + 1] BY <2>1, <2>6, SymbolFacts
  <2> QED BY <2>4, <2>5, <2>6, <2>7
<1>2. \A j \in Last(yyss).items : Symbol(j) \notin Nonterminals BY <1>1, NamesFacts
<1>3. Closure(Last(yyss).items) = Last(yyss).items BY <1>2, KernelOnly
<1> QED BY <1>1, <1>3

\* The end of the text is accepted after an input only.
LEMMA BeforeEnd ==
  ASSUME StackFits(yyss), yyss # <<>>, NEW i \in Closure(Last(yyss).items), Symbol(i) = "EOF",
         Symbol(i) # NoSymbol
  PROVE  Last(yyss).sym = "input"
<1> DEFINE n == Len(yyss)
<1>1. n \in Nat \ {0} /\ Seen(yyss, n, i) BY TopFacts
<1>2. /\ i[1] \in DOMAIN Rows /\ i[2] \in Nat /\ i[2] <= Len(Rows[i[1]].rhs)
      /\ \A j \in 1..i[2] : yyss[n - i[2] + j].sym = Rows[i[1]].rhs[j]
  BY <1>1 DEF Seen
<1>3. i[2] < Len(Rows[i[1]].rhs) /\ Rows[i[1]].rhs[i[2] + 1] = "EOF" BY <1>2, SymbolFacts
<1>4. DOMAIN Rows[i[1]].rhs = 1..Len(Rows[i[1]].rhs) /\ Len(Rows[i[1]].rhs) \in Nat BY <1>2, RowFacts
<1>5. "EOF" \in ToSet(Rows[i[1]].rhs)
  <2>1. i[2] + 1 \in DOMAIN Rows[i[1]].rhs BY <1>2, <1>3, <1>4
  <2> QED BY <1>3, <2>1 DEF ToSet
<1>6. Rows[i[1]].rhs = <<"input", "EOF">> BY <1>2, <1>5, EntryAssumption
<1>7. /\ Len(Rows[i[1]].rhs) = 2 /\ Rows[i[1]].rhs[1] = "input" /\ Rows[i[1]].rhs[2] = "EOF"
  BY <1>6
<1>8. i[2] = 1 BY <1>2, <1>3, <1>7
<1> HIDE DEF n
<1>9. yyss[n - i[2] + 1].sym = "input" /\ n - i[2] + 1 = n BY <1>1, <1>2, <1>7, <1>8
<1> QED BY <1>9 DEF Last, n

\* What can be on top of the stack of a reduction.
LEMMA ReductionFacts ==
  ASSUME StackFits(yyss), yyss # <<>>, StackAdvances(yyss), Decision.do = "reduce"
  PROVE  /\ OnTop(yyss, Decision.row)
         /\ Last(yyss).sym # "input"
         /\ Last(yyss).sym = "?" <=> Rows[Decision.row].kind = "param"
<1> DEFINE r == Decision.row
<1>1. OnTop(yyss, r) BY DecisionFacts
<1>2. PICK i \in Closure(Last(yyss).items) : i[1] = r /\ Symbol(i) = NoSymbol BY DecisionFacts
<1> HIDE DEF r
<1>3. Last(yyss).sym # "input" BY <1>2, AfterInput
<1>4. Last(yyss).sym = "?" => Rows[r].kind = "param" BY <1>2, AfterPlaceholder
<1>5. Rows[r].kind = "param" => Last(yyss).sym = "?"
  <2> SUFFICES ASSUME Rows[r].kind = "param" PROVE Last(yyss).sym = "?"
    OBVIOUS
  <2> DEFINE n == Len(yyss)
  <2>1. r \in DOMAIN Rows /\ \A j \in 1..Len(Rows[r].rhs) :
          yyss[n - Len(Rows[r].rhs) + j].sym = Rows[r].rhs[j]
    BY <1>1 DEF OnTop
  <2>2. Rows[r].rhs = <<"?">> BY <2>1, PlaceholderAssumption
  <2>3. Len(Rows[r].rhs) = 1 /\ Rows[r].rhs[1] = "?" BY <2>2
  <2>4. n \in Nat \ {0} BY TopFacts
  <2> HIDE DEF n
  <2>5. n - 1 + 1 = n BY <2>4
  <2>6. yyss[n].sym = "?" BY <2>1, <2>3, <2>5
  <2> QED BY <2>6 DEF Last, n
<1> QED BY <1>1, <1>3, <1>4, <1>5 DEF r

\* What can be on top of the stack of a shift.
LEMMA ShiftFacts ==
  ASSUME StackFits(yyss), yyss # <<>>, StackAdvances(yyss), Decision.do = "shift"
  PROVE  /\ yychar \in Terminals /\ Last(yyss).sym # "?"
         /\ yychar = "EOF" <=> Last(yyss).sym = "input"
<1>1. PICK i \in Closure(Last(yyss).items) : Symbol(i) = yychar BY DecisionFacts
<1>2. yychar \in Terminals BY DecisionFacts
<1>3. yychar # NoSymbol
  <2>1. PICK r \in DOMAIN Rows : yychar \in ToSet(Rows[r].rhs) BY <1>2 DEF Terminals
  <2> DEFINE S == STRING \ {""}
  <2>2. Rows[r].rhs \in Seq(S) BY RowFacts
  <2> HIDE DEF S
  <2>3. yychar \in S BY <2>1, <2>2 DEF ToSet
  <2> QED BY <2>3, Zenon DEF S, NoSymbol
<1>4. Last(yyss).sym # "?" BY <1>1, <1>3, AfterPlaceholder
<1>5. yychar = "EOF" => Last(yyss).sym = "input" BY <1>1, <1>3, BeforeEnd
<1>6. Last(yyss).sym = "input" => yychar = "EOF" BY <1>1, AfterInput
<1> QED BY <1>2, <1>4, <1>5, <1>6

\* One more symbol on a stack without placeholders and input.
LEMMA PushAdvances ==
  ASSUME NEW stack, stack \in Seq(Cells), Len(stack) > 0, StackAdvances(stack),
         \A k \in 1..Len(stack) : stack[k].sym \notin {"?", "input"},
         NEW cell, cell.items = Goto(Last(stack).items, cell.sym),
         NEW new, new = Append(stack, cell)
  PROVE  StackAdvances(new) /\ Last(new) = cell /\ Len(new) = Len(stack) + 1
<1> DEFINE n == Len(stack)
<1>1. n \in Nat /\ n > 0 /\ Last(stack) = stack[n]
  <2>1. n \in Nat BY CellFacts
  <2> QED BY <2>1 DEF Last
<1>2. Len(new) = n + 1 /\ new[n + 1] = cell /\ \A k \in 1..n : new[k] = stack[k]
  OBVIOUS
<1>3. n = Len(stack) OBVIOUS
<1> HIDE DEF n
<1>4. ASSUME NEW i \in cell.items PROVE i[2] > 0
  <2>1. PICK o \in Closure(Last(stack).items) : i = <<o[1], o[2] + 1>> BY <1>4 DEF Goto
  <2>2. o \in Nat \X Nat
    <3>1. CASE o \in Last(stack).items
      <4>1. n \in 1..Len(stack) BY <1>1, <1>3
      <4>2. stack[n].items \subseteq Nat \X Nat BY <4>1, CellFacts
      <4> QED BY <1>1, <3>1, <4>2
    <3>2. CASE o \notin Last(stack).items BY <3>2, ClosureFacts
    <3> QED BY <3>1, <3>2
  <2>3. o[2] \in Nat /\ i[2] = o[2] + 1 BY <2>1, <2>2
  <2> QED BY <2>3
<1>5. new[1].sym = "start"
  <2>1. 1 \in 1..n BY <1>1
  <2> QED BY <1>2, <2>1 DEF StackAdvances
<1>6. ASSUME NEW k \in 2..Len(new), NEW i \in new[k].items PROVE i[2] > 0
  <2>1. CASE k = n + 1 BY <1>2, <1>4, <1>6, <2>1
  <2>2. CASE k # n + 1
    <3>1. k \in 2..n /\ k \in 1..n BY <1>1, <1>2, <2>2
    <3> QED BY <1>2, <1>3, <1>6, <3>1 DEF StackAdvances
  <2> QED BY <2>1, <2>2
<1>7. ASSUME NEW k \in 1..Len(new), new[k].sym \in {"?", "input"} PROVE k = Len(new)
  <2>1. CASE k \in 1..n BY <1>2, <1>3, <1>7, <2>1
  <2> QED BY <1>1, <1>2, <2>1
<1>8. Last(new) = cell BY <1>2 DEF Last
<1> QED BY <1>2, <1>3, <1>5, <1>6, <1>7, <1>8 DEF StackAdvances

\* The stack after a reduction.
LEMMA ReducedAdvances ==
  ASSUME StackFits(yyss), yyss # <<>>, StackAdvances(yyss), NEW r, OnTop(yyss, r),
         Last(yyss).sym # "input", Last(yyss).sym = "?" => Rows[r].kind = "param",
         NEW val, NEW new, new = Reduced(r, val)
  PROVE  StackAdvances(new) /\ Last(new).sym = Rows[r].lhs
<1> DEFINE n == Left(r)
           below == SubSeq(yyss, 1, n)
           cell == [sym |-> Rows[r].lhs, val |-> val, items |-> Goto(Last(below).items, Rows[r].lhs)]
<1>1. /\ r \in DOMAIN Rows /\ Len(yyss) \in Nat /\ n \in Nat /\ n > 0 /\ n <= Len(yyss)
      /\ n + Len(Rows[r].rhs) = Len(yyss)
  BY LeftFacts
<1>2. new = Append(below, cell) BY Zenon DEF Reduced, Left
<1>3. cell.sym = Rows[r].lhs /\ cell.items = Goto(Last(below).items, cell.sym) OBVIOUS
<1>4. Last(yyss).sym = "?" => n # Len(yyss)
  <2> SUFFICES ASSUME Last(yyss).sym = "?" PROVE n # Len(yyss)
    OBVIOUS
  <2>1. Rows[r].rhs = <<"?">> BY <1>1, PlaceholderAssumption
  <2>2. Len(Rows[r].rhs) = 1 BY <2>1
  <2> HIDE DEF n
  <2> QED BY <1>1, <2>2
<1>5. n = Left(r) OBVIOUS
<1> HIDE DEF n
<1>6. /\ StackFits(below) /\ Len(below) = n /\ \A k \in 1..n : below[k] = yyss[k]
  BY <1>1, BelowFits
<1> HIDE DEF below, cell
<1>7. \A k \in 1..n : yyss[k].sym \notin {"?", "input"}
  <2> SUFFICES ASSUME NEW k \in 1..n, yyss[k].sym \in {"?", "input"} PROVE FALSE
    OBVIOUS
  <2>1. k \in 1..Len(yyss) BY <1>1
  <2>2. k = Len(yyss) BY <2>1 DEF StackAdvances
  <2>3. n = Len(yyss) BY <1>1, <2>2
  <2>4. yyss[k] = Last(yyss) BY <2>2 DEF Last
  <2> QED BY <1>4, <2>3, <2>4
<1>8. StackAdvances(below)
  <2>1. below[1].sym = "start"
    <3>1. 1 \in 1..n BY <1>1
    <3> QED BY <1>6, <3>1 DEF StackAdvances
  <2>2. ASSUME NEW k \in 2..n PROVE \A i \in below[k].items : i[2] > 0
    <3>1. k \in 1..n /\ k \in 2..Len(yyss) BY <1>1
    <3> QED BY <1>6, <3>1 DEF StackAdvances
  <2> QED BY <1>6, <1>7, <2>1, <2>2 DEF StackAdvances
<1>9. below \in Seq(Cells) /\ Len(below) > 0 BY <1>1, <1>6 DEF StackFits
<1>10. \A k \in 1..Len(below) : below[k].sym \notin {"?", "input"} BY <1>6, <1>7
<1>11. StackAdvances(new) /\ Last(new) = cell BY <1>2, <1>3, <1>8, <1>9, <1>10, PushAdvances
<1> QED BY <1>3, <1>11

-----------------------------------------------------------------------------
(* The invariant of the placeholders.                                      *)

\* The placeholders among the characters read so far.
Marks == {k \in DOMAIN text : k <= total_column /\ text[k] = "?"}

\* How many placeholders a symbol is that no parameter has been built for.
One(sym) == IF sym = "?" THEN 1 ELSE 0

Increasing(list) == \A j, k \in 1..Len(list) : j < k => list[j] < list[k]

\* The allocations in list are those of expressions, as far as they are live.
Expressions(m, list) ==
  \A k \in 1..Len(list) :
    list[k] < m.next /\ (list[k] \in Live(m) => m.heap[list[k]].kind = "Expr")

\* All of list is live, and has the numbers from 0.
AllNumbered(m, list) ==
  \A k \in 1..Len(list) : list[k] \in Live(m) /\ m.heap[list[k]].n = k - 1

\* Each `?' read is in param_list, on top of the stack or the lookahead.
Counted ==
  yychar # Alien => Len(param_list) + One(Last(yyss).sym) + One(yychar) = Cardinality(Marks)

AtInput == pc \in {"called", "parsing"} /\ Last(yyss).sym = "input"

PInv ==
  /\ text \in Texts /\ total_column \in Nat
  /\ param_list \in Seq(Nat) /\ Increasing(param_list)
  /\ pc \in {"called", "parsing"} =>
       /\ StackAdvances(yyss) /\ Expressions(memory, param_list) /\ Counted
       /\ Last(yyss).sym # "input" => result.parameters = <<>>
  /\ pc = "accepted" => Len(param_list) = Cardinality(Marks)
  /\ pc = "accepted" \/ AtInput =>
       result.parameters = param_list /\ AllNumbered(memory, param_list)

LEMMA GrewExpressions ==
  ASSUME NEW m, IsMemory(m), NEW new, Grew(m, new), NEW list \in Seq(Nat), Expressions(m, list)
  PROVE  Expressions(new, list)
<1>1. m.next \in Nat /\ new.next \in Nat /\ m.next <= new.next BY DEF Grew, IsMemory
<1>2. \A k \in 1..Len(list) : list[k] \in Nat OBVIOUS
<1> SUFFICES ASSUME NEW k \in 1..Len(list)
             PROVE  /\ list[k] < new.next
                    /\ list[k] \in Live(new) => new.heap[list[k]].kind = "Expr"
  BY DEF Expressions
<1>3. list[k] < m.next /\ (list[k] \in Live(m) => m.heap[list[k]].kind = "Expr") BY DEF Expressions
<1>4. list[k] < new.next BY <1>1, <1>2, <1>3
<1>5. list[k] \in Live(new) => list[k] \in Live(m) /\ new.heap[list[k]].kind = m.heap[list[k]].kind
  BY <1>3 DEF Grew
<1> QED BY <1>3, <1>4, <1>5

LEMMA MemoryIs == ASSUME IInv PROVE IsMemory(memory)
BY DEF IInv, Owners, Tidy

LEMMA InitPInv == Init => PInv
<1> SUFFICES ASSUME Init PROVE PInv
  OBVIOUS
<1> DEFINE none == <<>>
           start == {<<1, 0>>}
           cell == [sym |-> "start", val |-> {}, items |-> start]
<1>1. /\ text \in Texts /\ total_column = 0 /\ param_list = none /\ yyss = <<cell>> /\ pc = "called"
      /\ yychar = Unread /\ result.parameters = none
  BY DEF Init
<1>2. cell.sym = "start" OBVIOUS
<1>3. none \in Seq(Nat) /\ Len(none) = 0 OBVIOUS
<1> HIDE DEF cell
<1>4. Len(yyss) = 1 /\ yyss[1] = cell /\ Last(yyss) = cell BY <1>1 DEF Last
<1>5. StackAdvances(yyss)
  <2>1. \A k \in 2..Len(yyss) : FALSE BY <1>4
  <2>2. \A k \in 1..Len(yyss) : k = Len(yyss) BY <1>4
  <2> QED BY <1>2, <1>4, <2>1, <2>2 DEF StackAdvances
<1>6. Marks = {}
  <2>1. text \in Seq(Terminals) BY <1>1, TextsAssumption
  <2>2. \A k \in DOMAIN text : ~(k <= total_column) BY <1>1, <2>1
  <2> QED BY <2>2 DEF Marks
<1>7. Cardinality(Marks) = 0 BY <1>6, FS_EmptySet
<1>8. Counted
  <2>1. One(Last(yyss).sym) = 0 /\ One(yychar) = 0 BY <1>1, <1>2, <1>4 DEF One, Unread
  <2> QED BY <1>1, <1>3, <1>7, <2>1 DEF Counted
<1> HIDE DEF none
<1>9. Increasing(param_list) /\ Expressions(memory, param_list)
  <2>1. 1..Len(param_list) = {} BY <1>1, <1>3
  <2> QED BY <2>1 DEF Increasing, Expressions
<1>10. Last(yyss).sym # "input" BY <1>2, <1>4
<1> QED BY <1>1, <1>3, <1>5, <1>8, <1>9, <1>10 DEF PInv, AtInput, none

\* A text has no end and no Alien in it, and its positions are numbers.
LEMMA TextFacts ==
  ASSUME text \in Texts
  PROVE  /\ Len(text) \in Nat /\ DOMAIN text = 1..Len(text)
         /\ \A k \in DOMAIN text : text[k] \in Terminals /\ text[k] # "EOF" /\ text[k] # Alien
<1> DEFINE S == Terminals \ {"EOF"}
<1>1. text \in Seq(S) BY TextsAssumption
<1>2. \A x \in S : x \in Terminals /\ x # "EOF" /\ x # Alien BY TextsAssumption
<1> HIDE DEF S
<1>3. Len(text) \in Nat /\ DOMAIN text = 1..Len(text) /\ \A k \in DOMAIN text : text[k] \in S
  BY <1>1
<1> QED BY <1>2, <1>3

\* The next character is a placeholder or it is not.
LEMMA MarksNext ==
  ASSUME text \in Texts, total_column \in Nat, total_column < Len(text),
         total_column' = total_column + 1, text' = text
  PROVE  Cardinality(Marks') = Cardinality(Marks) + One(text[total_column + 1])
<1> DEFINE n == total_column + 1
<1>1. n \in DOMAIN text /\ n \notin Marks
  <2>1. n \in 1..Len(text) BY TextFacts
  <2> QED BY <2>1, TextFacts DEF Marks
<1>2. IsFiniteSet(Marks)
  <2>1. Marks \subseteq 1..Len(text) BY TextFacts DEF Marks
  <2>2. IsFiniteSet(1..Len(text)) BY TextFacts, FS_Interval
  <2> QED BY <2>1, <2>2, FS_Subset
<1>3. Cardinality(Marks) \in Nat BY <1>2, FS_CardinalityType
<1>4. \A k \in DOMAIN text : k <= total_column' <=> k <= total_column \/ k = n
  <2>1. \A k \in DOMAIN text : k \in Nat BY TextFacts
  <2> QED BY <2>1
<1>5. Marks' = {k \in DOMAIN text : k <= total_column' /\ text[k] = "?"} BY DEF Marks
<1> HIDE DEF n
<1>6. CASE text[n] = "?"
  <2>1. Marks' = Marks \union {n} BY <1>1, <1>4, <1>5, <1>6 DEF Marks
  <2>2. Cardinality(Marks') = Cardinality(Marks) + 1 BY <1>1, <1>2, <2>1, FS_AddElement
  <2> QED BY <1>6, <2>2 DEF One, n
<1>7. CASE text[n] # "?"
  <2>1. Marks' = Marks BY <1>4, <1>5, <1>7 DEF Marks
  <2>2. One(text[n]) = 0 BY <1>7 DEF One
  <2> QED BY <1>3, <2>1, <2>2 DEF n
<1> QED BY <1>6, <1>7

LEMMA SameMarks == ASSUME text' = text, total_column' = total_column PROVE Marks' = Marks
BY DEF Marks

LEMMA StringNumbered ==
  ASSUME NEW m, IsMemory(m), NEW new, new = NewString(m), NEW list, AllNumbered(m, list)
  PROVE  AllNumbered(new, list)
<1>1. PICK kind, type, f : new = New(m, kind, type, f) BY Zenon DEF NewString
<1> DEFINE made == New(m, kind, type, f)
<1>2. /\ IsMemory(made) /\ m.next \notin Live(m) /\ Live(made) = Live(m) \union {m.next}
      /\ \A x \in Live(m) : made.heap[x] = m.heap[x]
      /\ made.heap[m.next] = [kind |-> kind, type |-> type, f |-> f, n |-> NotSet]
  BY NewMemory
<1>3. new = made BY <1>1
<1> HIDE DEF made
<1> QED BY <1>2, <1>3 DEF AllNumbered

\* A placeholder is the next character, or it is not.
LEMMA ReadTokenAdvances ==
  ASSUME IInv, PInv, pc = "parsing", yychar = Unread, ReadToken
  PROVE  PInv'
<1>1. /\ text' = text /\ yyss' = yyss /\ param_list' = param_list /\ result' = result /\ pc' = pc
  BY DEF ReadToken
<1>2. IsMemory(memory) BY MemoryIs
<1>3. /\ \/ memory' = memory
         \/ memory' = NewString(memory)
      /\ \/ yychar' = Alien /\ total_column' = total_column + 1
         \/ yychar' = "EOF" /\ total_column' = total_column + 0
         \/ /\ total_column < Len(text) /\ yychar' = text[total_column + 1]
            /\ total_column' = total_column + 1
  <2>1. PICK token \in {IF total_column < Len(text) THEN text[total_column + 1] ELSE "EOF", "EOF"}
                       \union (IF total_column <= Len(text) THEN {Alien} ELSE {}) :
          /\ yychar' = token
          /\ memory' = IF HasString(token) THEN NewString(memory) ELSE memory
          /\ total_column' = total_column + (IF token = "EOF" THEN 0 ELSE 1)
    BY DEF ReadToken
  <2>2. text \in Texts /\ total_column \in Nat BY DEF PInv
  <2>3. Alien # "EOF"
    <3>1. 1 \in DOMAIN Rows BY RowsFacts
    <3>2. Rows[1].rhs = <<"input", "EOF">> BY EntryAssumption
    <3> DEFINE end == "EOF"
               seen == ToSet(Rows[1].rhs)
    <3>3. end \in seen BY <3>2 DEF ToSet
    <3>4. end \notin Nonterminals BY NamesFacts
    <3>5. Alien \notin Terminals BY TextsAssumption
    <3> DEFINE all == UNION {ToSet(Rows[r].rhs) : r \in DOMAIN Rows}
    <3>6. Terminals = all \ Nonterminals BY DEF Terminals
    <3>7. \E r \in DOMAIN Rows : end \in ToSet(Rows[r].rhs) BY <3>1, <3>3
    <3> HIDE DEF end, seen
    <3>8. end \in all BY <3>7
    <3> HIDE DEF all
    <3>9. end \in Terminals BY <3>4, <3>6, <3>8
    <3> QED BY <3>5, <3>9 DEF end
  <2>4. total_column < Len(text) => text[total_column + 1] # "EOF"
    <3> SUFFICES ASSUME total_column < Len(text) PROVE text[total_column + 1] # "EOF"
      OBVIOUS
    <3>1. total_column + 1 \in DOMAIN text BY <2>2, TextFacts
    <3> QED BY <2>2, <3>1, TextFacts
  <2>5. memory' = memory \/ memory' = NewString(memory) BY <2>1
  <2>6. \/ token = Alien
        \/ token = "EOF"
        \/ total_column < Len(text) /\ token = text[total_column + 1]
    BY <2>1
  <2> QED BY <2>1, <2>3, <2>4, <2>5, <2>6
<1>4. /\ text \in Texts /\ total_column \in Nat
      /\ param_list \in Seq(Nat) /\ Increasing(param_list)
      /\ StackAdvances(yyss) /\ Expressions(memory, param_list) /\ Counted
      /\ Last(yyss).sym # "input" => result.parameters = <<>>
      /\ AtInput => result.parameters = param_list /\ AllNumbered(memory, param_list)
  BY DEF PInv
<1>5. Grew(memory, memory') BY <1>2, <1>3, GrewSame, StringGrew
<1>6. Expressions(memory', param_list) BY <1>2, <1>4, <1>5, GrewExpressions
<1>7. AllNumbered(memory, param_list) => AllNumbered(memory', param_list)
  BY <1>2, <1>3, StringNumbered
<1>8. total_column' \in Nat BY <1>3, <1>4
<1>9. Counted'
  <2> DEFINE count == Len(param_list) + One(Last(yyss).sym)
  <2>1. yychar # Alien BY TextsAssumption
  <2>2. One(yychar) = 0 BY DEF One, Unread
  <2>3. Len(param_list) \in Nat /\ One(Last(yyss).sym) \in {0, 1} BY <1>4 DEF One
  <2>4. Cardinality(Marks) = count BY <1>4, <2>1, <2>2, <2>3 DEF Counted
  <2>5. Counted' = (yychar' # Alien => count + One(yychar') = Cardinality(Marks'))
    BY <1>1 DEF Counted, One
  <2> HIDE DEF count
  <2>6. CASE yychar' = Alien BY <2>5, <2>6
  <2>7. CASE yychar' = "EOF" /\ total_column' = total_column + 0
    <3>1. Marks' = Marks BY <1>1, <1>4, <2>7, SameMarks
    <3>2. One(yychar') = 0 BY <2>7 DEF One
    <3>3. count \in Nat BY <2>3 DEF count
    <3>4. Cardinality(Marks') = count BY <2>4, <3>1
    <3>5. count + One(yychar') = count BY <3>2, <3>3
    <3> QED BY <2>5, <3>4, <3>5
  <2>8. CASE /\ total_column < Len(text) /\ yychar' = text[total_column + 1]
             /\ total_column' = total_column + 1
    <3>1. Cardinality(Marks') = Cardinality(Marks) + One(text[total_column + 1])
      BY <1>1, <1>4, <2>8, MarksNext
    <3>2. One(yychar') = One(text[total_column + 1]) BY <2>8
    <3> QED BY <2>4, <2>5, <3>1, <3>2
  <2> QED BY <1>3, <2>6, <2>7, <2>8
<1>10. AtInput' = AtInput BY <1>1 DEF AtInput
<1> QED BY <1>1, <1>4, <1>6, <1>7, <1>8, <1>9, <1>10 DEF PInv

\* A placeholder moves onto the stack, or the end of the text ends the parse.
LEMMA ShiftAdvances ==
  ASSUME IInv, PInv, pc = "parsing", Decision.do = "shift", Shift
  PROVE  PInv'
<1> DEFINE top == Last(yyss).sym
<1>1. StackFits(yyss) /\ yyss # <<>> /\ ResultForm BY DEF IInv
<1>2. /\ text \in Texts /\ total_column \in Nat
      /\ param_list \in Seq(Nat) /\ Increasing(param_list)
      /\ StackAdvances(yyss) /\ Expressions(memory, param_list) /\ Counted
      /\ top # "input" => result.parameters = <<>>
      /\ top = "input" => result.parameters = param_list /\ AllNumbered(memory, param_list)
  BY DEF PInv, AtInput
<1>3. yychar \in Terminals /\ top # "?" /\ (yychar = "EOF" <=> top = "input")
  BY <1>1, <1>2, ShiftFacts
<1>4. /\ text' = text /\ memory' = memory /\ total_column' = total_column
      /\ param_list' = param_list /\ yychar' = Unread
  BY DEF Shift
<1>5. Marks' = Marks BY <1>4, SameMarks
<1>6. Cardinality(Marks) = Len(param_list) + One(yychar)
  <2>1. yychar # Alien BY <1>3, TextsAssumption
  <2>2. One(top) = 0 BY <1>3 DEF One
  <2>3. Len(param_list) \in Nat BY <1>2
  <2>4. Len(param_list) + One(top) + One(yychar) = Cardinality(Marks) BY <1>2, <2>1 DEF Counted
  <2>5. Len(param_list) + One(top) = Len(param_list) BY <2>2, <2>3
  <2> QED BY <2>4, <2>5
<1>7. CASE yychar = "EOF"
  <2>1. pc' = "accepted" /\ result' = [result EXCEPT !.isValid = TRUE] BY <1>7 DEF Shift
  <2>2. result'.parameters = result.parameters BY <1>1, <2>1 DEF ResultForm
  <2>3. One(yychar) = 0 /\ Len(param_list) \in Nat BY <1>2, <1>7 DEF One
  <2>4. Cardinality(Marks)' = Len(param_list) BY <1>5, <1>6, <2>3
  <2> QED BY <1>2, <1>3, <1>4, <1>7, <2>1, <2>2, <2>4 DEF PInv, AtInput
<1>8. CASE yychar # "EOF"
  <2> DEFINE cell == [sym |-> yychar, val |-> yylval, items |-> Goto(Last(yyss).items, yychar)]
             new == Append(yyss, cell)
  <2>1. yyss' = new /\ pc' = pc /\ result' = result BY <1>8 DEF Shift
  <2>2. cell.sym = yychar /\ cell.items = Goto(Last(yyss).items, cell.sym) /\ new = Append(yyss, cell)
    OBVIOUS
  <2> HIDE DEF cell, new
  <2>3. yyss \in Seq(Cells) /\ Len(yyss) > 0
    <3>1. Len(yyss) \in Nat \ {0} BY <1>1, TopFacts
    <3> QED BY <1>1, <3>1 DEF StackFits
  <2>4. \A k \in 1..Len(yyss) : yyss[k].sym \notin {"?", "input"}
    <3> SUFFICES ASSUME NEW k \in 1..Len(yyss), yyss[k].sym \in {"?", "input"} PROVE FALSE
      OBVIOUS
    <3>1. k = Len(yyss) BY <1>2 DEF StackAdvances
    <3>2. top = yyss[k].sym BY <3>1 DEF Last
    <3> QED BY <1>3, <1>8, <3>2
  <2>5. StackAdvances(new) /\ Last(new) = cell BY <1>2, <2>2, <2>3, <2>4, PushAdvances
  <2>6. yychar # "input" BY <1>3, EntryAssumption DEF Terminals
  <2>7. Last(yyss)'.sym = yychar /\ StackAdvances(yyss)' BY <2>1, <2>2, <2>5
  <2>8. Counted'
    <3>1. One(Last(yyss)'.sym) = One(yychar) BY <2>7
    <3>2. One(yychar') = 0 BY <1>4 DEF One, Unread
    <3>3. Len(param_list) \in Nat /\ One(yychar) \in {0, 1} BY <1>2 DEF One
    <3>4. Len(param_list) + One(yychar) + 0 = Cardinality(Marks) BY <1>6, <3>3
    <3> QED BY <1>4, <1>5, <3>1, <3>2, <3>4 DEF Counted
  <2>9. result.parameters = <<>> BY <1>2, <1>3, <1>8
  <2> QED BY <1>2, <1>4, <2>1, <2>6, <2>7, <2>8, <2>9 DEF PInv, AtInput
<1> QED BY <1>7, <1>8

\* A reduction that makes no placeholder and hands over nothing.
LEMMA ReplaceAdvances ==
  ASSUME IInv, PInv, pc = "parsing", Decision.do = "reduce", NEW r, r = Decision.row,
         Rows[r].kind \in {"node", "stmt"},
         NEW m, Grew(memory, m), NEW val, Replace(r, Done(m, val)),
         text' = text, yychar' = yychar, total_column' = total_column,
         param_list' = param_list, result' = result
  PROVE  PInv'
<1> DEFINE top == Last(yyss).sym
           new == Reduced(r, val)
<1>1. StackFits(yyss) /\ yyss # <<>> BY DEF IInv
<1>2. /\ text \in Texts /\ total_column \in Nat
      /\ param_list \in Seq(Nat) /\ Increasing(param_list)
      /\ StackAdvances(yyss) /\ Expressions(memory, param_list) /\ Counted
      /\ top # "input" => result.parameters = <<>>
  BY DEF PInv, AtInput
<1>3. OnTop(yyss, r) /\ top # "input" /\ (top = "?" <=> Rows[r].kind = "param")
  BY <1>1, <1>2, ReductionFacts
<1>4. /\ memory' = m /\ yyss' = new /\ pc' \in {"parsing", "undefined"}
  BY DoneParts DEF Replace, Proceed
<1>5. StackAdvances(new) /\ Last(new).sym = Rows[r].lhs
  <2>1. new = Reduced(r, val) OBVIOUS
  <2> HIDE DEF new
  <2> QED BY <1>1, <1>2, <1>3, <2>1, ReducedAdvances
<1>6. r \in DOMAIN Rows BY <1>3 DEF OnTop
<1>7. Rows[r].lhs # "?" /\ Rows[r].lhs # "input"
  BY <1>6, PlaceholderAssumption, EntryAssumption
<1> HIDE DEF new
<1>8. Marks' = Marks BY SameMarks
<1>9. Last(yyss)'.sym = Rows[r].lhs /\ StackAdvances(yyss)' BY <1>4, <1>5
<1>10. Counted'
  <2>1. One(Last(yyss)'.sym) = One(top) BY <1>3, <1>7, <1>9 DEF One
  <2> QED BY <1>2, <1>8, <2>1 DEF Counted
<1>11. Expressions(memory', param_list) BY <1>2, <1>4, MemoryIs, GrewExpressions
<1> QED BY <1>2, <1>3, <1>4, <1>7, <1>9, <1>10, <1>11 DEF PInv, AtInput

LEMMA ReduceNodeAdvances ==
  ASSUME IInv, PInv, pc = "parsing", Decision.do = "reduce", NEW r, r = Decision.row, ReduceNode(r)
  PROVE  PInv'
<1> DEFINE b == Build(memory, Rows[r].code, Values(r))
           vals == Values(r)
<1>1. Rows[r].kind = "node" /\ Replace(r, b) BY DEF ReduceNode
<1>2. b = Done(b.m, b.val) BY Zenon DEF Build, Done
<1>3. /\ text' = text /\ yychar' = yychar /\ total_column' = total_column
      /\ param_list' = param_list /\ result' = result
  BY DEF ReduceNode
<1>4. b = Build(memory, Rows[r].code, vals) OBVIOUS
<1> HIDE DEF b, vals
<1>5. r \in DOMAIN Rows
  <2>1. OnTop(yyss, r) BY ReductionFacts DEF IInv, PInv
  <2> QED BY <2>1 DEF OnTop
<1>6. Grew(memory, b.m) BY <1>4, <1>5, MemoryIs, BuildGrew
<1>7. Replace(r, Done(b.m, b.val)) BY <1>1, <1>2
<1> QED BY <1>1, <1>3, <1>6, <1>7, ReplaceAdvances

LEMMA StatementGrew ==
  ASSUME ActionsAreLinear, ListsAreTyped, IInv, NEW r, OnTop(yyss, r), ReduceStatement(r)
  PROVE  \E m, val : Grew(memory, m) /\ Replace(r, Done(m, val))
<1> DEFINE O == ValuesOf(yyss, Left(r)) \union yylval \union ToSet(result.statements)
           b == Build(memory, Rows[r].code, Values(r))
           n == [x \in Last(Values(r)) |-> string_length]
           m == SetNumbers(b.m, n)
<1>1. /\ O = ValuesOf(yyss, Left(r)) \union yylval \union ToSet(result.statements)
      /\ b = Build(memory, Rows[r].code, Values(r)) /\ m = SetNumbers(b.m, n)
  OBVIOUS
<1>2. Rows[r].kind = "stmt" /\ Replace(r, Statement(r, Values(r))) BY DEF ReduceStatement
<1>3. Statement(r, Values(r)) = Done(m, b.val) BY Zenon DEF Statement
<1> HIDE DEF O, b, n, m
<1>4. /\ Tidy(b.m, O \union b.val) /\ b.val \intersect O = {}
      /\ Kept(memory, b.m, O) /\ b.m.fault \in {memory.fault, "null dereference"}
      /\ Typed(b.m, Rows[r].lhs, b.val)
  <2> DEFINE list == result.statements
  <2>1. /\ StackFits(yyss) /\ CellsTyped(memory, yyss) /\ Owners(memory, yyss, yylval, list)
        /\ O = ValuesOf(yyss, Left(r)) \union yylval \union ToSet(list)
    BY <1>1 DEF IInv
  <2>2. b = Build(memory, Rows[r].code, Values(r)) /\ Rows[r].kind \in {"node", "stmt"}
    BY <1>1, <1>2
  <2> HIDE DEF list
  <2>3. MadeWell(list, r, O, b) BY <2>1, <2>2, BuiltWell
  <2> QED BY <2>3 DEF MadeWell
<1>5. r \in DOMAIN Rows BY DEF OnTop
<1>6. Grew(memory, b.m) BY <1>1, <1>5, MemoryIs, BuildGrew
<1> DEFINE R == O \union b.val
<1>7. Tidy(b.m, R) BY <1>4
<1> HIDE DEF R
<1>8. Grew(b.m, m) BY <1>1, <1>7, SetNumbersGrew
<1>9. Grew(memory, m) BY <1>6, <1>8, MemoryIs, GrewTwice
<1> QED BY <1>2, <1>3, <1>9

LEMMA ReduceStatementAdvances ==
  ASSUME ActionsAreLinear, ListsAreTyped, IInv, PInv, pc = "parsing", Decision.do = "reduce",
         NEW r, r = Decision.row, ReduceStatement(r)
  PROVE  PInv'
<1>1. /\ Rows[r].kind = "stmt"
      /\ text' = text /\ yychar' = yychar /\ total_column' = total_column
      /\ param_list' = param_list /\ result' = result
  BY DEF ReduceStatement
<1>2. OnTop(yyss, r) BY ReductionFacts DEF IInv, PInv
<1>3. PICK m, val : Grew(memory, m) /\ Replace(r, Done(m, val)) BY <1>2, StatementGrew
<1> QED BY <1>1, <1>3, ReplaceAdvances

\* The placeholder on top of the stack becomes the last of param_list.
LEMMA ReduceParameterAdvances ==
  ASSUME IInv, PInv, pc = "parsing", Decision.do = "reduce", NEW r, r = Decision.row,
         ReduceParameter(r)
  PROVE  PInv'
<1> DEFINE top == Last(yyss).sym
           fields == <<>>
           m == New(memory, "Expr", "kExprParameter", fields)
           val == {memory.next}
           new == Reduced(r, val)
           list == param_list
           longer == Append(list, memory.next)
<1>1. StackFits(yyss) /\ yyss # <<>> /\ IsMemory(memory) BY MemoryIs DEF IInv
<1>2. /\ text \in Texts /\ total_column \in Nat
      /\ list \in Seq(Nat) /\ Increasing(list)
      /\ StackAdvances(yyss) /\ Expressions(memory, list) /\ Counted
      /\ top # "input" => result.parameters = <<>>
  BY DEF PInv, AtInput
<1>3. Rows[r].kind = "param" /\ Replace(r, Done(m, val)) BY DEF ReduceParameter, Make
<1>4. OnTop(yyss, r) /\ top = "?" BY <1>1, <1>2, <1>3, ReductionFacts
<1>5. /\ text' = text /\ yychar' = yychar /\ total_column' = total_column
      /\ param_list' = longer /\ result' = result
  BY DEF ReduceParameter
<1>6. m = New(memory, "Expr", "kExprParameter", fields) /\ new = Reduced(r, val)
  OBVIOUS
<1>7. /\ IsMemory(m) /\ memory.next \notin Live(memory)
      /\ Live(m) = Live(memory) \union {memory.next}
      /\ \A x \in Live(memory) : m.heap[x] = memory.heap[x]
      /\ m.heap[memory.next]
           = [kind |-> "Expr", type |-> "kExprParameter", f |-> fields, n |-> NotSet]
  BY <1>1, NewMemory
<1> HIDE DEF m, new, val, fields
<1>8. /\ memory' = m /\ yyss' = new /\ pc' \in {"parsing", "undefined"}
  BY <1>3, <1>6, DoneParts DEF Replace, Proceed
<1>9. StackAdvances(new) /\ Last(new).sym = Rows[r].lhs
  BY <1>1, <1>2, <1>3, <1>4, <1>6, ReducedAdvances
<1>10. Rows[r].lhs # "?" /\ Rows[r].lhs # "input"
  <2>1. r \in DOMAIN Rows BY <1>4 DEF OnTop
  <2> QED BY <1>3, <2>1, PlaceholderAssumption, EntryAssumption
<1>11. memory.next \in Nat /\ m.next = memory.next + 1
  BY <1>1, <1>6, NewNext DEF IsMemory
<1>12. Len(list) \in Nat /\ \A k \in 1..Len(list) : list[k] \in Nat /\ list[k] < memory.next
  BY <1>2 DEF Expressions
<1>13. /\ longer \in Seq(Nat) /\ Len(longer) = Len(list) + 1
       /\ longer[Len(list) + 1] = memory.next
       /\ \A k \in 1..Len(list) : longer[k] = list[k]
  BY <1>2, <1>11
<1> HIDE DEF list, longer
<1>14. \A k \in 1..Len(longer) : k \in 1..Len(list) \/ k = Len(list) + 1 BY <1>12, <1>13
<1>15. Increasing(longer)
  <2> SUFFICES ASSUME NEW j \in 1..Len(longer), NEW k \in 1..Len(longer), j < k
               PROVE  longer[j] < longer[k]
    BY DEF Increasing
  <2>1. j \in 1..Len(list) BY <1>12, <1>13
  <2>2. CASE k \in 1..Len(list) BY <1>2, <1>13, <2>1, <2>2 DEF Increasing
  <2>3. CASE k = Len(list) + 1 BY <1>12, <1>13, <2>1, <2>3
  <2> QED BY <1>14, <2>2, <2>3
<1>16. Expressions(m, longer)
  <2>1. Grew(memory, m) BY <1>1, <1>6, NewGrew
  <2>2. Expressions(m, list) BY <1>1, <1>2, <2>1, GrewExpressions
  <2>3. m.heap[memory.next].kind = "Expr" BY <1>7
  <2> SUFFICES ASSUME NEW k \in 1..Len(longer)
               PROVE  /\ longer[k] < m.next
                      /\ longer[k] \in Live(m) => m.heap[longer[k]].kind = "Expr"
    BY DEF Expressions
  <2>4. CASE k \in 1..Len(list) BY <1>13, <2>2, <2>4 DEF Expressions
  <2>5. CASE k = Len(list) + 1 BY <1>11, <1>13, <2>3, <2>5
  <2> QED BY <1>14, <2>4, <2>5
<1>17. Marks' = Marks BY <1>5, SameMarks
<1>18. Last(yyss)'.sym = Rows[r].lhs /\ StackAdvances(yyss)' BY <1>8, <1>9
<1>19. Counted'
  <2>1. One(Last(yyss)'.sym) = 0 /\ One(top) = 1 BY <1>4, <1>10, <1>18 DEF One
  <2>2. Len(longer) + 0 = Len(list) + 1 BY <1>12, <1>13
  <2> QED BY <1>2, <1>5, <1>17, <2>1, <2>2 DEF Counted, list
<1> QED BY <1>2, <1>4, <1>5, <1>8, <1>10, <1>13, <1>15, <1>16, <1>18, <1>19 DEF PInv, AtInput

\* The vector that the action of input deletes.
LEMMA InputVector ==
  ASSUME ListsAreTyped, IInv, NEW r, OnTop(yyss, r), Rows[r].kind = "input",
         NEW v, v = Values(r)[1]
  PROVE  v \subseteq Live(memory) /\ \A x \in v : memory.heap[x].kind = "vector"
<1> DEFINE vals == Values(r)
           list == result.statements
           i == Left(r) + 1
<1>1. StackFits(yyss) /\ CellsTyped(memory, yyss) /\ Owners(memory, yyss, yylval, list)
  BY DEF IInv
<1>2. AreOnTop(vals, r) BY <1>1, ValuesFacts
<1> HIDE DEF vals
<1>3. r \in DOMAIN Rows BY DEF OnTop
<1>4. Rows[r].rhs # <<>> /\ Rows[r].rhs[1] = "statement_list" BY <1>3 DEF ListsAreTyped
<1>5. Len(vals) = Len(Rows[r].rhs) /\ Len(vals) \in Nat BY <1>2 DEF AreOnTop
<1>6. Len(vals) # 0
  <2> DEFINE S == STRING \ {""}
  <2>1. Rows[r].rhs \in Seq(S) BY <1>3, RowFacts
  <2> HIDE DEF S
  <2> QED BY <1>4, <1>5, <2>1
<1>7. 1 \in 1..Len(vals) BY <1>5, <1>6
<1>8. i \in 1..Len(yyss) /\ vals[1] = yyss[i].val /\ yyss[i].sym = "statement_list"
  BY <1>2, <1>4, <1>7 DEF AreOnTop
<1>9. v = yyss[i].val BY <1>8 DEF vals
<1> HIDE DEF i, list
<1>10. Typed(memory, "statement_list", v) BY <1>1, <1>8, <1>9 DEF CellsTyped
<1>11. v \subseteq Live(memory)
  <2>1. v \subseteq ValuesOf(yyss, Len(yyss)) BY <1>8, <1>9 DEF ValuesOf
  <2> DEFINE all == ValuesOf(yyss, Len(yyss)) \union yylval \union ToSet(list)
  <2>2. Tidy(memory, all) BY <1>1 DEF Owners
  <2>3. v \subseteq all BY <2>1
  <2> HIDE DEF all
  <2> QED BY <2>2, <2>3 DEF Tidy
<1> QED BY <1>10, <1>11 DEF Typed

\* Live placeholders keep the numbers of their places.
LEMMA PlacesNumbered ==
  ASSUME IsMemory(memory), param_list \in Seq(Nat), Increasing(param_list),
         ToSet(param_list) \subseteq Live(memory),
         NEW new, new = Numbered
  PROVE  \A k \in 1..Len(param_list) : new.heap[param_list[k]].n = k - 1
<1> DEFINE list == param_list
           index(p) == CHOOSE k \in DOMAIN param_list : param_list[k] = p
           nums == [p \in ToSet(list) |-> index(p) - 1]
<1>1. new = SetNumbers(memory, nums) BY DEF Numbered
<1>2. Len(list) \in Nat /\ DOMAIN list = 1..Len(list) /\ \A k \in 1..Len(list) : list[k] \in Nat
  OBVIOUS
<1> SUFFICES ASSUME NEW k \in 1..Len(list) PROVE new.heap[list[k]].n = k - 1
  OBVIOUS
<1> DEFINE p == list[k]
<1>3. p \in ToSet(list) /\ p \in Live(memory) BY <1>2 DEF ToSet
<1>4. index(p) = k
  <2>1. k \in DOMAIN list /\ list[k] = p BY <1>2
  <2>2. index(p) \in DOMAIN list /\ list[index(p)] = p BY <2>1
  <2> HIDE DEF index, list
  <2>3. \A i \in 1..Len(list) : list[i] = list[k] => i = k
    <3> SUFFICES ASSUME NEW i \in 1..Len(list), list[i] = list[k], i # k PROVE FALSE
      OBVIOUS
    <3>1. i < k \/ k < i BY <1>2
    <3>2. list[i] < list[k] \/ list[k] < list[i] BY <3>1 DEF Increasing, list
    <3>3. list[i] \in Nat /\ list[k] \in Nat BY <1>2
    <3> QED BY <3>2, <3>3
  <2> QED BY <1>2, <2>2, <2>3
<1>5. nums[p] = k - 1 /\ p \in DOMAIN nums BY <1>3, <1>4
<1> HIDE DEF nums, p
<1>6. SetNumbers(memory, nums).heap[p].n = nums[p] BY <1>3, <1>5, NumberIs
<1> QED BY <1>1, <1>5, <1>6 DEF p

\* The numbered parameters survive the deletion of the vector of statements.
LEMMA HandedNumbered ==
  ASSUME ListsAreTyped, IInv, NEW r, OnTop(yyss, r), Rows[r].kind = "input",
         param_list \in Seq(Nat), Increasing(param_list), Expressions(memory, param_list),
         ToSet(param_list) \subseteq Live(memory),
         NEW v, v = Values(r)[1], NEW new, new = Delete(Numbered, v)
  PROVE  Expressions(new, param_list) /\ AllNumbered(new, param_list)
<1> DEFINE N == Numbered
           list == param_list
<1>1. N = Numbered /\ new = Delete(N, v) OBVIOUS
<1>2. \E nums : N = SetNumbers(memory, nums) BY Zenon DEF Numbered
<1>3. v \subseteq Live(memory) /\ \A x \in v : memory.heap[x].kind = "vector" BY InputVector
<1>4. PICK R : Tidy(memory, R) BY DEF IInv, Owners
<1> HIDE DEF N
<1>5. PICK nums : N = SetNumbers(memory, nums) BY <1>2
<1>6. /\ Tidy(N, R) /\ Live(N) = Live(memory)
      /\ \A x \in Live(memory) : N.heap[x].kind = memory.heap[x].kind
  BY <1>4, <1>5, SetNumbersTidy
<1>7. Grew(memory, N) BY <1>4, <1>5, SetNumbersGrew
<1>8. IsMemory(N) /\ IsMemory(memory) BY <1>4, <1>6 DEF Tidy
<1>9. Grew(N, new) BY <1>1, <1>8, DeleteGrew
<1>10. Expressions(new, list)
  <2>1. Grew(memory, new) BY <1>7, <1>8, <1>9, GrewTwice
  <2> QED BY <1>8, <2>1, GrewExpressions
<1>11. /\ Live(new) = Live(N) \ v
       /\ \A x \in Live(new) : new.heap[x] = N.heap[x]
  <2>1. v \subseteq Live(N) /\ v \intersect Live(N) = v BY <1>3, <1>6
  <2>2. \A x \in v : N.heap[x].kind \in Plain BY <1>3, <1>6 DEF Plain
  <2>3. Doomed(N, v) = v BY <2>1, <2>2, PlainDoomed
  <2>4. Leaves(N, v, new) BY <1>1, <1>8, DeleteLeaves
  <2> QED BY <2>1, <2>3, <2>4 DEF Leaves
<1>12. \A k \in 1..Len(list) : N.heap[list[k]].n = k - 1
  BY <1>1, <1>8, PlacesNumbered
<1>13. ASSUME NEW k \in 1..Len(list) PROVE list[k] \in Live(N) /\ list[k] \notin v
  <2>1. list[k] \in ToSet(list) BY DEF ToSet
  <2>2. list[k] \in Live(memory) BY <2>1
  <2>3. memory.heap[list[k]].kind = "Expr" BY <2>2 DEF Expressions
  <2> QED BY <1>3, <1>6, <2>2, <2>3
<1>14. AllNumbered(new, list)
  <2> HIDE DEF list
  <2> QED BY <1>11, <1>12, <1>13 DEF AllNumbered
<1> QED BY <1>10, <1>14

\* The parameters are handed to the result.
LEMMA ReduceInputAdvances ==
  ASSUME ListsAreTyped, IInv, PInv, pc = "parsing", Decision.do = "reduce",
         NEW r, r = Decision.row, ReduceInput(r)
  PROVE  PInv'
<1> DEFINE top == Last(yyss).sym
           val == {}
           v == Values(r)[1]
           d == Delete(Numbered, v)
           m == IF ToSet(param_list) \subseteq Live(memory) THEN d ELSE Faulted(d, "use after free")
           new == Reduced(r, val)
           more == InOrder(Elements(memory, v))
<1>1. /\ StackFits(yyss) /\ yyss # <<>> /\ ResultForm /\ IsMemory(memory) BY MemoryIs DEF IInv
<1>2. /\ text \in Texts /\ total_column \in Nat
      /\ param_list \in Seq(Nat) /\ Increasing(param_list)
      /\ StackAdvances(yyss) /\ Expressions(memory, param_list) /\ Counted
      /\ top # "input" => result.parameters = <<>>
  BY DEF PInv, AtInput
<1>3. Rows[r].kind = "input" /\ Replace(r, Done(m, val)) BY Zenon DEF ReduceInput
<1>4. OnTop(yyss, r) /\ top # "input" /\ top # "?" BY <1>1, <1>2, <1>3, ReductionFacts
<1>5. /\ text' = text /\ yychar' = yychar /\ total_column' = total_column
      /\ param_list' = param_list
      /\ result' = [result EXCEPT !.statements = @ \o more, !.parameters = @ \o param_list]
  BY DEF ReduceInput
<1>6. v = Values(r)[1] /\ d = Delete(Numbered, v) /\ new = Reduced(r, val) OBVIOUS
<1> HIDE DEF v, d, new, val, more
<1>7. /\ memory' = m /\ yyss' = new
      /\ pc' = "undefined" \/ (pc' = "parsing" /\ m.fault = "none")
  <2> HIDE DEF m
  <2> QED BY <1>3, <1>6, DoneParts DEF Replace, Proceed
<1>8. r \in DOMAIN Rows BY <1>4 DEF OnTop
<1>9. Rows[r].lhs = "input" BY <1>3, <1>8, EntryAssumption
<1>10. StackAdvances(new) /\ Last(new).sym = "input"
  <2>1. top = "?" => Rows[r].kind = "param" BY <1>4
  <2> QED BY <1>1, <1>2, <1>4, <1>6, <1>9, <2>1, ReducedAdvances
<1>11. CASE pc' = "undefined" BY <1>2, <1>5, <1>11 DEF PInv, AtInput
<1>12. CASE pc' = "parsing" /\ m.fault = "none"
  <2>1. ToSet(param_list) \subseteq Live(memory)
    <3> SUFFICES ASSUME m = Faulted(d, "use after free") PROVE FALSE
      OBVIOUS
    <3>1. IsMemory(d)
      <4>1. \E nums : Numbered = SetNumbers(memory, nums) BY Zenon DEF Numbered
      <4>2. PICK R : Tidy(memory, R) BY DEF IInv, Owners
      <4>3. Tidy(Numbered, R) BY <4>1, <4>2, SetNumbersTidy
      <4>4. Leaves(Numbered, v, d) BY <1>6, <4>3, DeleteLeaves DEF Tidy
      <4> QED BY <4>4 DEF Leaves
    <3> HIDE DEF m
    <3>2. m.fault = "use after free" BY <3>1 DEF Faulted, IsMemory
    <3> QED BY <1>12, <3>2
  <2>2. m = d BY <2>1
  <2> HIDE DEF m
  <2>3. Expressions(d, param_list) /\ AllNumbered(d, param_list)
    BY <1>2, <1>3, <1>4, <1>6, <2>1, HandedNumbered
  <2>4. result'.parameters = param_list
    <3>1. result'.parameters = result.parameters \o param_list BY <1>1, <1>5 DEF ResultForm
    <3>2. result.parameters = <<>> BY <1>2, <1>4
    <3>3. <<>> \o param_list = param_list BY <1>2, ConcatEmptySeq
    <3> QED BY <3>1, <3>2, <3>3
  <2>5. Last(yyss)'.sym = "input" /\ StackAdvances(yyss)' BY <1>7, <1>10
  <2>6. Marks' = Marks BY <1>5, SameMarks
  <2>7. Counted'
    <3>1. One(Last(yyss)'.sym) = One(top) BY <1>4, <2>5 DEF One
    <3> QED BY <1>2, <1>5, <2>6, <3>1 DEF Counted
  <2> QED BY <1>2, <1>5, <1>7, <1>12, <2>2, <2>3, <2>4, <2>5, <2>7 DEF PInv, AtInput
<1> QED BY <1>7, <1>11, <1>12

\* Nothing is promised of the parameters of a parse that has ended otherwise.
LEMMA EndedAdvances ==
  ASSUME PInv, text' = text, total_column' = total_column, param_list' = param_list,
         pc' \in {"aborted", "destroyed", "undefined"}
  PROVE  PInv'
BY DEF PInv, AtInput

LEMMA AbandonAdvances == ASSUME PInv, NEW cells, Abandon(cells) PROVE PInv'
<1>1. /\ text' = text /\ total_column' = total_column /\ param_list' = param_list
      /\ pc' \in {"aborted", "destroyed", "undefined"}
  BY DEF Abandon
<1> QED BY <1>1, EndedAdvances

LEMMA NextPInv ==
  ASSUME ActionsAreLinear, ListsAreTyped, IInv, PInv, [Next]_vars
  PROVE  PInv'
<1>1. CASE Call
  <2>1. /\ UNCHANGED <<text, yychar, yyss, memory, total_column, param_list, result>>
        /\ pc = "called" /\ pc' = "parsing"
    BY <1>1 DEF Call
  <2> QED BY <2>1 DEF PInv, AtInput, Counted, Marks
<1>2. CASE Parse
  <2> DEFINE step == Decision
  <2>1. pc = "parsing" /\ step = Decision BY <1>2 DEF Parse
  <2>2. step.do = "read" => yychar = Unread BY <2>1, DecisionFacts DEF IInv
  <2> HIDE DEF step
  <2>3. CASE Follow(step)
    <3>1. CASE step.do = "read" /\ ReadToken BY <2>1, <2>2, <3>1, ReadTokenAdvances
    <3>2. CASE step.do = "shift" /\ Shift BY <2>1, <3>2, ShiftAdvances
    <3>3. CASE step.do = "reduce" /\ Reduce(step.row)
      <4> DEFINE r == step.row
      <4>1. ReduceNode(r) \/ ReduceParameter(r) \/ ReduceStatement(r) \/ ReduceInput(r)
        BY <3>3 DEF Reduce
      <4>2. Decision.do = "reduce" /\ r = Decision.row BY <2>1, <3>3
      <4> HIDE DEF r
      <4>3. CASE ReduceNode(r) BY <2>1, <4>2, <4>3, ReduceNodeAdvances
      <4>4. CASE ReduceParameter(r) BY <2>1, <4>2, <4>4, ReduceParameterAdvances
      <4>5. CASE ReduceStatement(r) BY <2>1, <4>2, <4>5, ReduceStatementAdvances
      <4>6. CASE ReduceInput(r) BY <2>1, <4>2, <4>6, ReduceInputAdvances
      <4> QED BY <4>1, <4>3, <4>4, <4>5, <4>6
    <3>4. CASE step.do = "error" /\ SyntaxError
      <4>1. \E cells : Abandon(cells) BY <3>4 DEF SyntaxError
      <4> QED BY <4>1, AbandonAdvances
    <3> QED BY <2>3, <3>1, <3>2, <3>3, <3>4 DEF Follow
  <2>4. CASE StackExhausted
    <3>1. \E cells : Abandon(cells) BY <2>4 DEF StackExhausted
    <3> QED BY <3>1, AbandonAdvances
  <2> QED BY <1>2, <2>3, <2>4 DEF Parse, step
<1>3. CASE DestroyResult
  <2>1. /\ text' = text /\ total_column' = total_column /\ param_list' = param_list
        /\ pc' \in {"aborted", "destroyed", "undefined"}
    BY <1>3 DEF DestroyResult
  <2> QED BY <2>1, EndedAdvances
<1>4. CASE UNCHANGED vars
  <2>1. UNCHANGED <<text, yychar, yyss, memory, total_column, param_list, result, pc>>
    BY <1>4 DEF vars
  <2> QED BY <2>1 DEF PInv, AtInput, Counted, Marks
<1> QED BY <1>1, <1>2, <1>3, <1>4 DEF Next, Finished

LEMMA InvariantParameters == PInv => ParametersNumbered
<1> SUFFICES ASSUME PInv, pc = "accepted" PROVE ParametersNumbered
  BY DEF ParametersNumbered
<1>1. /\ param_list \in Seq(Nat) /\ Increasing(param_list)
      /\ Len(param_list) = Cardinality(Marks)
      /\ result.parameters = param_list /\ AllNumbered(memory, param_list)
  BY DEF PInv
<1>2. DOMAIN param_list = 1..Len(param_list) BY <1>1
<1> QED BY <1>1, <1>2 DEF ParametersNumbered, Marks, Increasing, AllNumbered

\* A valid result has one parameter for each `?' of the text, live and numbered in the order
\* of the text (bison_parser.y, param_expr and input): for every text, every tokens the lexer
\* delivers in its place, all rows that keep the static discipline and every depth of the
\* stack, and although the semantic actions delete expressions on the way.
THEOREM ParametersComplete == Spec => []ParametersNumbered
<1>1. Init => IInv /\ PInv BY InitIInv, InitPInv
<1>2. (IInv /\ PInv) /\ [Next]_vars => (IInv /\ PInv)'
  BY ActionsAssumption, NextIInv, NextPInv
<1>3. IInv /\ PInv => ParametersNumbered BY InvariantParameters
<1> QED BY <1>1, <1>2, <1>3, PTL DEF Spec
=============================================================================
