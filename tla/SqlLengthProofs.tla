-------------------------- MODULE SqlLengthProofs --------------------------
(***************************************************************************)
(* For every text: the lengths of the statements and the characters read   *)
(* since the last one add up to what the lexer has consumed.               *)
(***************************************************************************)
EXTENDS SqlPlaceholderProofs

-----------------------------------------------------------------------------
(* A sealed part of the memory: the rest does not point into it, so that   *)
(* operations on the rest leave it as it is.                               *)

Sealed(m, R) == R \subseteq Live(m) /\ \A x, g : x \notin R => Field(m, x, g) \intersect R = {}

\* An object keeps its number, and a new one has none.
Even(m, new) ==
  \A x \in Live(new) : new.heap[x].n = IF x < m.next THEN m.heap[x].n ELSE NotSet

\* From m to new the sealed part R has not changed, and no number was set.
Spared(m, R, new) ==
  /\ Grew(m, new) /\ Even(m, new)
  /\ Sealed(new, R) /\ \A x \in R : new.heap[x] = m.heap[x]

\* A destructor of what is not in the sealed part frees nothing in it.
LEMMA OwnedSealed ==
  ASSUME NEW m, NEW R, Sealed(m, R), NEW x, x \notin R
  PROVE  Owned(m, x) \intersect R = {}
<1> DEFINE kind == m.heap[x].kind
           members(G) == UNION {Field(m, x, g) : g \in G}
           elements == Elements(m, members(FreedBy(kind) \ Shallow(kind)))
           clauses == IF kind = "UpdateStatement" THEN MembersOfClauses(m, elements) ELSE {}
<1>1. Owned(m, x) = members(FreedBy(kind)) \union elements \union clauses BY DEF Owned
<1>2. \A G : members(G) \intersect R = {} BY DEF Sealed
<1>3. \A S, g : S \intersect R = {} => FieldsOf(m, S, g) \intersect R = {} BY DEF Sealed, FieldsOf
<1>4. elements \intersect R = {}
  <2> DEFINE S == members(FreedBy(kind) \ Shallow(kind))
  <2>1. S \intersect R = {} BY <1>2
  <2>2. elements = FieldsOf(m, S, "elems") BY DEF Elements
  <2> HIDE DEF S, elements
  <2> QED BY <1>3, <2>1, <2>2
<1> HIDE DEF elements
<1>5. clauses \intersect R = {}
  <2> DEFINE C == FieldsOf(m, elements, "column")
             V == FieldsOf(m, elements, "value")
  <2>1. C \intersect R = {} /\ V \intersect R = {} BY <1>3, <1>4
  <2>2. clauses = C \union V \/ clauses = {} BY DEF MembersOfClauses
  <2> HIDE DEF C, V, clauses
  <2> QED BY <2>1, <2>2
<1> DEFINE first == members(FreedBy(kind))
<1>6. first \intersect R = {} BY <1>2
<1> HIDE DEF members, clauses, first
<1> QED BY <1>1, <1>4, <1>5, <1>6 DEF first

\* Nor does what it frees in turn.
LEMMA DoomedSealed ==
  ASSUME NEW m, IsMemory(m), NEW R, Sealed(m, R), NEW S, S \subseteq Live(m) \ R
  PROVE  Doomed(m, S) \intersect R = {}
<1> DEFINE L == Live(m)
           F == [T \in SUBSET L |-> Further(m, T)]
           f == CHOOSE f : f = [T \in SUBSET L |->
                  IF Further(m, T) \subseteq T THEN T ELSE f[T \union Further(m, T)]]
           U == L \ R
<1>1. Doomed(m, S) = f[S] BY DEF Doomed
<1>2. \A T : Further(m, T) = {z \in L : \E x \in T : z \in Owned(m, x)}
  BY FurtherIsOwned
<1>3. F \in [SUBSET L -> SUBSET L] BY <1>2
<1>4. \A T \in SUBSET L : F[T] = {z \in L : \E x \in T : z \in Owned(m, x)} BY <1>2
<1>5. IsFiniteSet(L) BY LiveFinite
<1>6. Saturates(f, F, L)
  <2>1. \A T \in SUBSET L : F[T] = Further(m, T) OBVIOUS
  <2>2. f = [T \in SUBSET L |-> IF Further(m, T) \subseteq T THEN T ELSE f[T \union Further(m, T)]]
    BY DoomedExists, Zenon
  <2> HIDE DEF f, F, L
  <2> QED BY <2>1, <2>2 DEF Saturates
<1> HIDE DEF F, f
<1>7. \A T \in SUBSET U : F[T] \subseteq U
  <2> TAKE T \in SUBSET U
  <2>1. F[T] = {z \in L : \E x \in T : z \in Owned(m, x)} BY <1>4
  <2>2. \A x \in T : Owned(m, x) \intersect R = {} BY OwnedSealed
  <2> QED BY <2>1, <2>2
<1>8. U \in SUBSET L /\ S \in SUBSET U OBVIOUS
<1>9. f[S] \subseteq U
  <2> HIDE DEF U, L
  <2> QED BY <1>3, <1>5, <1>6, <1>7, <1>8, SaturationLeast, ZenonT(30)
<1> QED BY <1>1, <1>9

LEMMA SparedSame ==
  ASSUME NEW m, IsMemory(m), NEW R, Sealed(m, R)
  PROVE  Spared(m, R, m)
<1>1. \A x \in Live(m) : x < m.next BY DEF IsMemory
<1> QED BY <1>1, GrewSame DEF Spared, Even

LEMMA SparedTwice ==
  ASSUME NEW m, IsMemory(m), NEW R, NEW n, Spared(m, R, n), NEW k, Spared(n, R, k)
  PROVE  Spared(m, R, k)
<1>1. Grew(m, n) /\ Grew(n, k) /\ Grew(m, k) BY GrewTwice DEF Spared
<1>2. /\ m.next \in Nat /\ n.next \in Nat /\ m.next <= n.next
      /\ \A x \in Live(k) : x \in Nat
      /\ \A x \in Live(k) : x < n.next => x \in Live(n)
  BY <1>1 DEF Grew, IsMemory
<1>3. Even(m, k)
  <2> SUFFICES ASSUME NEW x \in Live(k)
               PROVE  k.heap[x].n = IF x < m.next THEN m.heap[x].n ELSE NotSet
    BY DEF Even
  <2>1. k.heap[x].n = IF x < n.next THEN n.heap[x].n ELSE NotSet BY DEF Spared, Even
  <2>2. x < n.next => n.heap[x].n = IF x < m.next THEN m.heap[x].n ELSE NotSet
    BY <1>2 DEF Spared, Even
  <2>3. x < m.next => x < n.next BY <1>2
  <2> QED BY <2>1, <2>2, <2>3
<1> QED BY <1>1, <1>3 DEF Spared

LEMMA NewSpared ==
  ASSUME NEW m, IsMemory(m), NEW R, Sealed(m, R), NEW kind, NEW type, NEW fields,
         \A g \in DOMAIN fields : fields[g] \intersect R = {},
         NEW new, new = New(m, kind, type, fields)
  PROVE  Spared(m, R, new) /\ m.next \notin R
<1>1. Grew(m, new) BY NewGrew
<1>2. /\ m.next \notin Live(m) /\ Live(new) = Live(m) \union {m.next}
      /\ \A x \in Live(m) : new.heap[x] = m.heap[x]
      /\ new.heap[m.next] = [kind |-> kind, type |-> type, f |-> fields, n |-> NotSet]
  BY NewMemory
<1>3. \A g : Field(new, m.next, g) = IF g \in DOMAIN fields THEN fields[g] ELSE {} BY NewObject
<1>4. m.next \in Nat /\ \A x \in Live(m) : x < m.next BY DEF IsMemory
<1>5. Even(m, new) BY <1>2, <1>4 DEF Even
<1>6. \A x \in Live(m) : \A g : Field(new, x, g) = Field(m, x, g) BY <1>2 DEF Field
<1>7. \A x : x \notin Live(new) => \A g : Field(new, x, g) = {} BY DEF Field
<1>8. Sealed(new, R)
  <2> SUFFICES ASSUME NEW x, NEW g, x \notin R PROVE Field(new, x, g) \intersect R = {}
    BY <1>2 DEF Sealed
  <2>1. CASE x = m.next BY <1>3, <2>1
  <2>2. CASE x \in Live(m) BY <1>6, <2>2 DEF Sealed
  <2>3. CASE x \notin Live(new) BY <1>7, <2>3
  <2> QED BY <1>2, <2>1, <2>2, <2>3
<1> QED BY <1>1, <1>2, <1>5, <1>8 DEF Spared, Sealed

LEMMA StringSpared ==
  ASSUME NEW m, IsMemory(m), NEW R, Sealed(m, R), NEW new, new = NewString(m)
  PROVE  Spared(m, R, new) /\ m.next \notin R
<1> DEFINE none == <<>>
<1>1. \E kind, type : new = New(m, kind, type, none) BY Zenon DEF NewString
<1>2. \A g \in DOMAIN none : none[g] \intersect R = {} OBVIOUS
<1> HIDE DEF none
<1> QED BY <1>1, <1>2, NewSpared

LEMMA FaultedSpared ==
  ASSUME NEW m, IsMemory(m), NEW R, Sealed(m, R), NEW what, NEW new, new = Faulted(m, what)
  PROVE  Spared(m, R, new)
<1>1. Grew(m, new) BY FaultedGrew
<1>2. new.heap = m.heap BY DEF Faulted, IsMemory
<1>3. Live(new) = Live(m) /\ \A x, g : Field(new, x, g) = Field(m, x, g) BY <1>2 DEF Live, Field
<1>4. \A x \in Live(m) : x < m.next BY DEF IsMemory
<1>5. Even(m, new) BY <1>2, <1>3, <1>4 DEF Even
<1> QED BY <1>1, <1>2, <1>3, <1>5 DEF Spared, Sealed

\* The number of an object stays when its members are assigned.
LEMMA SetNumber ==
  ASSUME NEW m, IsMemory(m), NEW p, NEW f, p \subseteq Live(m), p # {}
  PROVE  \A y \in Live(m) : SetFields(m, p, f).heap[y].n = m.heap[y].n
<1> DEFINE new == SetFields(m, p, f)
           x == Pointee(p)
           o == m.heap[x]
           given == Assign(o.f, f)
<1>1. x \in Live(m) /\ \A y \in Live(m) \ {x} : new.heap[y] = m.heap[y] BY SetMemory
<1>2. new = [m EXCEPT !.heap[x].f = given] BY DEF SetFields
<1>3. o = [kind |-> o.kind, type |-> o.type, f |-> o.f, n |-> o.n] BY <1>1 DEF IsMemory
<1>4. m.heap = [y \in Live(m) |-> m.heap[y]] BY DEF IsMemory
<1>5. new.heap[x] = [o EXCEPT !.f = given]
  <2>1. m = [heap |-> m.heap, next |-> m.next, mismatched |-> m.mismatched, fault |-> m.fault]
    BY DEF IsMemory
  <2> HIDE DEF given, new, x
  <2>2. new.heap = [m.heap EXCEPT ![x].f = given] BY <1>2, <2>1
  <2> QED BY <1>1, <1>4, <2>2
<1> HIDE DEF new, given
<1>6. new.heap[x].n = o.n
  <2> HIDE DEF o
  <2> QED BY <1>3, <1>5
<1> HIDE DEF x
<1> QED BY <1>1, <1>6 DEF new, o

LEMMA SetSpared ==
  ASSUME NEW m, IsMemory(m), NEW R, Sealed(m, R), NEW p, p \intersect R = {},
         NEW f, \A g \in DOMAIN f : f[g] \intersect R = {}, NEW new, new = SetFields(m, p, f)
  PROVE  Spared(m, R, new)
<1>1. CASE p \subseteq Live(m) /\ p # {}
  <2>1. Grew(m, new) BY SetGrew
  <2> DEFINE x == Pointee(p)
  <2>2. /\ x \in p /\ Live(new) = Live(m)
        /\ \A y \in Live(m) \ {x} : new.heap[y] = m.heap[y]
        /\ \A y, g : Field(new, y, g) = IF y = x /\ g \in DOMAIN f THEN f[g] ELSE Field(m, y, g)
    BY <1>1, SetMemory
  <2> HIDE DEF x
  <2>3. \A y \in Live(m) : new.heap[y].n = m.heap[y].n BY <1>1, SetNumber
  <2>4. \A y \in Live(m) : y < m.next BY DEF IsMemory
  <2>5. Even(m, new) BY <2>2, <2>3, <2>4 DEF Even
  <2>6. Sealed(new, R) BY <2>2 DEF Sealed
  <2> QED BY <2>1, <2>2, <2>5, <2>6 DEF Spared, Sealed
<1>2. CASE ~(p \subseteq Live(m) /\ p # {})
  <2>1. \E what : new = Faulted(m, what) BY <1>2, Zenon DEF SetFields
  <2> QED BY <2>1, FaultedSpared
<1> QED BY <1>1, <1>2

LEMMA DeleteSpared ==
  ASSUME NEW m, IsMemory(m), NEW R, Sealed(m, R), NEW S, S \intersect R = {},
         NEW new, new = Delete(m, S)
  PROVE  Spared(m, R, new)
<1> DEFINE D == Doomed(m, S \intersect Live(m))
<1>1. /\ Live(new) = Live(m) \ D
      /\ \A x \in Live(new) : new.heap[x] = m.heap[x]
  <2>1. Leaves(m, S, new) BY DeleteLeaves
  <2> QED BY <2>1, Zenon DEF Leaves
<1>2. D \intersect R = {}
  <2>1. S \intersect Live(m) \subseteq Live(m) \ R OBVIOUS
  <2> QED BY <2>1, DoomedSealed
<1> HIDE DEF D
<1>3. Grew(m, new) BY DeleteGrew
<1>4. \A x \in Live(m) : x < m.next BY DEF IsMemory
<1>5. Even(m, new) BY <1>1, <1>4 DEF Even
<1>6. \A x, g : Field(new, x, g) = IF x \in Live(new) THEN Field(m, x, g) ELSE {}
  BY <1>1 DEF Field
<1> QED BY <1>1, <1>2, <1>3, <1>5, <1>6 DEF Spared, Sealed

-----------------------------------------------------------------------------
(* The semantic actions leave the sealed part.                             *)

\* An object that points out of the sealed part into the rest.
LEMMA MemberSealed ==
  ASSUME NEW m, NEW R, Sealed(m, R), NEW p, p \intersect R = {}, NEW g
  PROVE  Member(m, p, g) \intersect R = {}
<1>1. CASE p = {} BY <1>1 DEF Member
<1>2. CASE p # {}
  <2>1. Pointee(p) \in p BY <1>2 DEF Pointee
  <2>2. Member(m, p, g) = Field(m, Pointee(p), g) BY <1>2 DEF Member
  <2> QED BY <2>1, <2>2 DEF Sealed
<1> QED BY <1>1, <1>2

LEMMA MakeSpared ==
  ASSUME NEW m, IsMemory(m), NEW R, Sealed(m, R), NEW class, NEW type, NEW f,
         \A g \in DOMAIN f : f[g] \intersect R = {}, NEW done, done = Make(m, class, type, f)
  PROVE  Spared(m, R, done.m) /\ done.val \intersect R = {}
<1>1. done.m = New(m, class, type, f) /\ done.val = {m.next} BY DoneParts DEF Make
<1>2. Spared(m, R, done.m) /\ m.next \notin R BY <1>1, NewSpared
<1> QED BY <1>1, <1>2

LEMMA ColumnSpared ==
  ASSUME NEW m, IsMemory(m), NEW R, Sealed(m, R), NEW name, name \intersect R = {},
         NEW on, on \intersect R = {}, NEW done, done = ColumnDefinition(m, name, on)
  PROVE  Spared(m, R, done.m) /\ done.val \intersect R = {}
<1> DEFINE C == Elements(m, on)
           having(g) == {c \in C : Field(m, c, g) # {}}
           kept(g) == FieldsOf(m, {c \in having(g) : \A d \in having(g) : d <= c}, g)
           dropped(g) == FieldsOf(m, C, g) \ kept(g)
           default == kept("expr")
           fk == kept("fk")
           S == dropped("expr") \union dropped("fk") \union C \union on
           n == Delete(m, S)
           fields == [name |-> name, defaultVal |-> default, foreignKeyConstraint |-> fk]
<1>1. \A T, g : T \intersect R = {} => FieldsOf(m, T, g) \intersect R = {} BY DEF Sealed, FieldsOf
<1>2. C \intersect R = {} BY <1>1 DEF Elements
<1>3. ASSUME NEW g PROVE kept(g) \intersect R = {} /\ dropped(g) \intersect R = {}
  <2> DEFINE T == {c \in having(g) : \A d \in having(g) : d <= c}
  <2>1. T \intersect R = {} BY <1>2
  <2>2. kept(g) = FieldsOf(m, T, g) OBVIOUS
  <2> HIDE DEF T, C
  <2>3. FieldsOf(m, T, g) \intersect R = {} /\ FieldsOf(m, C, g) \intersect R = {} BY <1>1, <1>2, <2>1
  <2> HIDE DEF kept
  <2> QED BY <2>2, <2>3
<1>4. CASE on = {}
  <2>1. done = Done(Faulted(m, "null dereference"), {}) BY <1>4 DEF ColumnDefinition
  <2>2. done.m = Faulted(m, "null dereference") /\ done.val = {} BY <2>1, DoneParts
  <2> QED BY <2>2, FaultedSpared
<1>5. CASE on # {}
  <2>1. done = Make(n, "ColumnDefinition", "", fields) BY <1>5, Zenon DEF ColumnDefinition
  <2>2. default \intersect R = {} /\ fk \intersect R = {} /\ S \intersect R = {}
    <3>1. dropped("expr") \intersect R = {} /\ dropped("fk") \intersect R = {} BY <1>3
    <3>2. default \intersect R = {} /\ fk \intersect R = {} BY <1>3
    <3> HIDE DEF dropped, C, default, fk
    <3> QED BY <1>2, <3>1, <3>2
  <2> HIDE DEF S, default, fk
  <2>3. Spared(m, R, n) BY <2>2, DeleteSpared
  <2> HIDE DEF n
  <2>4. \A g \in DOMAIN fields : fields[g] \intersect R = {} BY <2>2
  <2> HIDE DEF fields
  <2>5. IsMemory(n) /\ Sealed(n, R) BY <2>3 DEF Spared, Grew
  <2>6. Spared(n, R, done.m) /\ done.val \intersect R = {} BY <2>1, <2>4, <2>5, MakeSpared, Zenon
  <2> QED BY <2>3, <2>6, SparedTwice
<1> QED BY <1>4, <1>5

LEMMA ExecuteSpared ==
  ASSUME NEW m, IsMemory(m), NEW R, Sealed(m, R), NEW in, in.op \in Operations,
         NEW on, on \intersect R = {}, NEW args, \A g \in DOMAIN args : args[g] \intersect R = {},
         in.op \in {"push", "pushin", "replace", "delete", "both"} => 1 \in DOMAIN args,
         in.op = "both" => 2 \in DOMAIN args,
         in.op = "column" => "name" \in DOMAIN args,
         NEW done, done = Execute(m, in, on, args)
  PROVE  Spared(m, R, done.m) /\ done.val \intersect R = {}
<1>1. ASSUME NEW n, NEW val, done = Done(n, val), Spared(m, R, n), val \intersect R = {}
      PROVE  Spared(m, R, done.m) /\ done.val \intersect R = {}
  <2>1. done.m = n /\ done.val = val BY <1>1, DoneParts
  <2> QED BY <1>1, <2>1
<1>2. Spared(m, R, m) BY SparedSame
<1>3. CASE in.op = "value"
  <2>1. done = Done(m, on) BY <1>3 DEF Execute
  <2> QED BY <1>1, <1>2, <2>1
<1>4. CASE in.op = "copy"
  <2>1. done = Done(NewString(m), {m.next}) BY <1>4 DEF Execute
  <2>2. Spared(m, R, NewString(m)) /\ m.next \notin R BY StringSpared
  <2>3. {m.next} \intersect R = {} BY <2>2
  <2> QED BY <1>1, <2>1, <2>2, <2>3
<1>5. CASE in.op = "new"
  <2>1. done = Make(m, in.what, in.type, args) BY <1>5 DEF Execute
  <2> QED BY <2>1, MakeSpared
<1>6. CASE in.op = "vector"
  <2> DEFINE all == UNION {args[k] : k \in DOMAIN args}
             f == [elems |-> all]
  <2>1. done = Make(m, "vector", "", f) BY <1>6, Zenon DEF Execute
  <2>2. all \intersect R = {} OBVIOUS
  <2> HIDE DEF all
  <2>3. \A g \in DOMAIN f : f[g] \intersect R = {} BY <2>2
  <2> HIDE DEF f
  <2> QED BY <2>1, <2>3, MakeSpared, Zenon
<1>7. ASSUME NEW p, p \intersect R = {}, 1 \in DOMAIN args
      PROVE  Spared(m, R, PushBack(m, p, args[1]))
  <2> DEFINE all == Member(m, p, "elems") \union args[1]
             f == [elems |-> all]
  <2>1. PushBack(m, p, args[1]) = SetFields(m, p, f) BY DEF PushBack
  <2>2. Member(m, p, "elems") \intersect R = {} BY <1>7, MemberSealed
  <2>3. all \intersect R = {} BY <1>7, <2>2
  <2> HIDE DEF all
  <2>4. \A g \in DOMAIN f : f[g] \intersect R = {} BY <2>3
  <2> HIDE DEF f
  <2> QED BY <1>7, <2>1, <2>4, SetSpared
<1>8. CASE in.op = "push"
  <2>1. done = Done(PushBack(m, on, args[1]), on) BY <1>8 DEF Execute
  <2> QED BY <1>1, <1>7, <1>8, <2>1
<1>9. CASE in.op = "pushin"
  <2>1. done = Done(PushBack(m, Member(m, on, in.what), args[1]), on) BY <1>9 DEF Execute
  <2>2. Member(m, on, in.what) \intersect R = {} BY MemberSealed
  <2>3. Spared(m, R, PushBack(m, Member(m, on, in.what), args[1])) BY <1>7, <1>9, <2>2
  <2> QED BY <1>1, <2>1, <2>3
<1>10. CASE in.op = "set"
  <2>1. done = Done(SetFields(m, on, args), on) BY <1>10 DEF Execute
  <2>2. Spared(m, R, SetFields(m, on, args)) BY SetSpared
  <2> QED BY <1>1, <2>1, <2>2
<1>11. CASE in.op = "take"
  <2> DEFINE f == [h \in {in.what} |-> {}]
  <2>1. done = Done(SetFields(m, on, f), Member(m, on, in.what)) BY <1>11, Zenon DEF Execute, Taken
  <2>2. \A g \in DOMAIN f : f[g] \intersect R = {} OBVIOUS
  <2> HIDE DEF f
  <2>3. Spared(m, R, SetFields(m, on, f)) BY <2>2, SetSpared
  <2>4. Member(m, on, in.what) \intersect R = {} BY MemberSealed
  <2> QED BY <1>1, <2>1, <2>3, <2>4
<1>12. CASE in.op = "replace"
  <2> DEFINE old == Member(m, on, in.what)
             n == Delete(m, old)
             v == args[1]
             f == [h \in {in.what} |-> v]
  <2>1. v \intersect R = {} BY <1>12
  <2>2. CASE v = {}
    <3>1. done = Done(m, on) BY <1>12, <2>2, Zenon DEF Execute
    <3> QED BY <1>1, <1>2, <3>1
  <2>3. CASE v # {}
    <3>1. done = Done(SetFields(n, on, f), on) BY <1>12, <2>3, Zenon DEF Execute
    <3>2. old \intersect R = {} BY MemberSealed
    <3> HIDE DEF old
    <3>3. Spared(m, R, n) BY <3>2, DeleteSpared
    <3> HIDE DEF n, v
    <3>4. \A g \in DOMAIN f : f[g] \intersect R = {} BY <2>1
    <3> HIDE DEF f
    <3>5. IsMemory(n) /\ Sealed(n, R) BY <3>3 DEF Spared, Grew
    <3>6. Spared(n, R, SetFields(n, on, f)) BY <3>4, <3>5, SetSpared
    <3>7. Spared(m, R, SetFields(n, on, f)) BY <3>3, <3>6, SparedTwice
    <3> QED BY <1>1, <3>1, <3>7
  <2> QED BY <2>2, <2>3
<1>13. CASE in.op = "delete"
  <2>1. done = Done(Delete(m, on), args[1]) BY <1>13 DEF Execute
  <2>2. Spared(m, R, Delete(m, on)) BY DeleteSpared
  <2> QED BY <1>1, <1>13, <2>1, <2>2
<1>14. CASE in.op = "both"
  <2>1. done = Done(m, args[1] \union args[2]) BY <1>14 DEF Execute
  <2>2. args[1] \intersect R = {} /\ args[2] \intersect R = {} BY <1>14
  <2>3. (args[1] \union args[2]) \intersect R = {} BY <2>2
  <2> QED BY <1>1, <1>2, <2>1, <2>3
<1>15. CASE in.op = "column"
  <2>1. done = ColumnDefinition(m, args.name, on) BY <1>15 DEF Execute
  <2>2. args.name \intersect R = {} BY <1>15
  <2> QED BY <2>1, <2>2, ColumnSpared
<1>16. CASE in.op \in {"copyName", "copyGetName"}
  <2>1. \/ done = Done(NewString(m), {m.next})
        \/ \E what : done = Done(Faulted(m, what), {})
        \/ done = Done(m, {})
    <3>1. CASE in.op = "copyName" BY <3>1, Zenon DEF Execute
    <3>2. CASE in.op = "copyGetName" BY <3>2, Zenon DEF Execute
    <3> QED BY <1>16, <3>1, <3>2
  <2>2. Spared(m, R, NewString(m)) /\ {m.next} \intersect R = {}
    <3>1. Spared(m, R, NewString(m)) /\ m.next \notin R BY StringSpared
    <3> QED BY <3>1
  <2>3. \A what : Spared(m, R, Faulted(m, what)) BY FaultedSpared
  <2> QED BY <1>1, <1>2, <2>1, <2>2, <2>3
<1> QED
  BY <1>3, <1>4, <1>5, <1>6, <1>8, <1>9, <1>10, <1>11, <1>12, <1>13, <1>14, <1>15, <1>16
  DEF Operations

\* n values, none of which points into the sealed part R.
AreClear(regs, n, R) ==
  /\ \E U : regs \in Seq(U)
  /\ n \in Nat /\ Len(regs) = n
  /\ \A k \in 1..n : regs[k] \intersect R = {}

LEMMA LastAppended ==
  ASSUME NEW regs, \E U : regs \in Seq(U), NEW val, NEW new, new = Append(regs, val)
  PROVE  Last(new) = val
<1>1. PICK U : regs \in Seq(U) OBVIOUS
<1>2. Len(regs) \in Nat /\ Len(new) = Len(regs) + 1 /\ new[Len(regs) + 1] = val BY <1>1
<1> QED BY <1>2 DEF Last

LEMMA AppendClear ==
  ASSUME NEW regs, NEW n, NEW R, AreClear(regs, n, R), NEW val, val \intersect R = {},
         NEW new, new = Append(regs, val)
  PROVE  AreClear(new, n + 1, R)
<1>1. PICK U : regs \in Seq(U) BY DEF AreClear
<1> DEFINE V == U \union {val}
<1>2. regs \in Seq(V)
  <2>1. regs \in [1..Len(regs) -> U] /\ Len(regs) \in Nat BY <1>1
  <2>2. regs \in [1..Len(regs) -> V] BY <2>1
  <2> QED BY <2>1, <2>2
<1>3. val \in V OBVIOUS
<1> HIDE DEF V
<1>4. n \in Nat /\ Len(regs) = n BY DEF AreClear
<1>5. /\ new \in Seq(V) /\ Len(new) = n + 1 /\ new[n + 1] = val
      /\ \A k \in 1..n : new[k] = regs[k]
  BY <1>2, <1>3, <1>4
<1>6. \A k \in 1..(n + 1) : new[k] \intersect R = {} BY <1>4, <1>5 DEF AreClear
<1> QED BY <1>4, <1>5, <1>6 DEF AreClear

\* The operands of an instruction.
OperandIn(at, in) == ValueIn(at.regs, in.on)
OperandsIn(at, in) == [g \in DOMAIN in.args |-> ValueIn(at.regs, in.args[g])]

LEMMA StepIs ==
  ASSUME NEW at, NEW in, NEW done, done = Execute(at.m, in, OperandIn(at, in), OperandsIn(at, in))
  PROVE  Step(at, in).m = done.m /\ Step(at, in).regs = Append(at.regs, done.val)
BY DEF Step, Extended, OperandIn, OperandsIn

\* One more instruction.
LEMMA StepSpared ==
  ASSUME ActionsAreLinear, NEW r \in DOMAIN Rows, NEW t \in 1..Len(Rows[r].code),
         NEW m, IsMemory(m), NEW R, NEW at, Spared(m, R, at.m),
         AreClear(at.regs, Len(Rows[r].rhs) + (t - 1), R)
  PROVE  LET new == Step(at, Rows[r].code[t])
         IN Spared(m, R, new.m) /\ AreClear(new.regs, Len(Rows[r].rhs) + t, R)
<1> DEFINE in == Rows[r].code[t]
           w == Len(Rows[r].rhs)
           n == w + (t - 1)
           on == OperandIn(at, in)
           args == OperandsIn(at, in)
           done == Execute(at.m, in, on, args)
           new == Step(at, in)
<1>1. w \in Nat /\ t \in Nat /\ t > 0 /\ n \in Nat /\ n + 1 = w + t
  <2>1. w \in Nat /\ t \in Nat /\ t > 0 BY CountFacts
  <2> HIDE DEF w
  <2> QED BY <2>1
<1>2. ASSUME NEW v \in Used(in) PROVE ValueIn(at.regs, v) \intersect R = {}
  <2>1. v \in (1 - t)..w BY CountFacts DEF ActionsAreLinear
  <2>2. Len(at.regs) = n /\ \A k \in 1..n : at.regs[k] \intersect R = {} BY DEF AreClear
  <2> HIDE DEF w, n
  <2>3. CASE v = 0 BY <2>3 DEF ValueIn
  <2>4. CASE v > 0
    <3>1. v \in 1..n BY <1>1, <2>1, <2>4 DEF n
    <3> QED BY <2>2, <2>4, <3>1 DEF ValueIn
  <2>5. CASE v < 0
    <3>1. n + 1 + v \in 1..n BY <1>1, <2>1, <2>5
    <3>2. ValueIn(at.regs, v) = at.regs[n + 1 + v] BY <2>1, <2>2, <2>5 DEF ValueIn
    <3> QED BY <2>2, <3>1, <3>2
  <2> QED BY <2>1, <2>3, <2>4, <2>5
<1>3. /\ in.op \in Operations
      /\ in.op \in {"push", "pushin", "replace", "delete", "both"} => 1 \in DOMAIN in.args
      /\ in.op = "both" => 2 \in DOMAIN in.args
      /\ in.op = "column" => "name" \in DOMAIN in.args
  BY InstructionFacts
<1>4. on \intersect R = {}
  <2>1. in.on \in Used(in) BY DEF Used
  <2> QED BY <1>2, <2>1 DEF OperandIn
<1>5. DOMAIN args = DOMAIN in.args /\ \A g \in DOMAIN args : args[g] \intersect R = {}
  <2>1. DOMAIN args = DOMAIN in.args /\ \A g \in DOMAIN in.args : args[g] = ValueIn(at.regs, in.args[g])
    BY DEF OperandsIn
  <2>2. \A g \in DOMAIN in.args : in.args[g] \in Used(in) BY DEF Used, ArgsOf
  <2> HIDE DEF args, in
  <2> QED BY <1>2, <2>1, <2>2
<1>6. new.m = done.m /\ new.regs = Append(at.regs, done.val) BY StepIs
<1>7. IsMemory(at.m) /\ Sealed(at.m, R) BY DEF Spared, Grew
<1>8. Spared(at.m, R, done.m) /\ done.val \intersect R = {}
  <2> HIDE DEF in, on, args
  <2> QED BY <1>3, <1>4, <1>5, <1>7, ExecuteSpared
<1> HIDE DEF in, on, args, done, n, w
<1>9. Spared(m, R, new.m)
  <2> HIDE DEF new
  <2> QED BY <1>6, <1>8, SparedTwice
<1>10. AreClear(new.regs, n + 1, R)
  <2> HIDE DEF new
  <2> DEFINE regs == at.regs
             val == done.val
             longer == new.regs
  <2>1. AreClear(regs, n, R) BY DEF n, w
  <2>2. longer = Append(regs, val) /\ val \intersect R = {} BY <1>6, <1>8
  <2> HIDE DEF regs, val, longer
  <2>3. AreClear(longer, n + 1, R) BY <2>1, <2>2, AppendClear
  <2> QED BY <2>3 DEF longer
<1> QED BY <1>1, <1>9, <1>10 DEF in, w

\* All instructions of a row, each from the outcome of the one before it.
LEMMA CourseSpared ==
  ASSUME ActionsAreLinear, NEW r \in DOMAIN Rows, NEW m, IsMemory(m), NEW R, Sealed(m, R),
         NEW vals, AreClear(vals, Len(Rows[r].rhs), R), NEW f, Course(f, m, Rows[r].code, vals)
  PROVE  \A t \in 0..Len(Rows[r].code) :
           Spared(m, R, f[t].m) /\ AreClear(f[t].regs, Len(Rows[r].rhs) + t, R)
<1> DEFINE N == Len(Rows[r].code)
           w == Len(Rows[r].rhs)
           code == Rows[r].code
           Fine(t) == Spared(m, R, f[t].m) /\ AreClear(f[t].regs, w + t, R)
           Failing == {t \in 0..N : ~Fine(t)}
<1>1. N \in Nat /\ DOMAIN code = 1..N /\ w \in Nat BY RowFacts
<1>2. Fine(0)
  <2>1. f[0].m = m /\ f[0].regs = vals BY DEF Course
  <2>2. w + 0 = w BY <1>1
  <2>3. Spared(m, R, m) BY SparedSame
  <2> HIDE DEF w
  <2> QED BY <2>1, <2>2, <2>3 DEF w
<1>3. ASSUME NEW t \in 1..N, Fine(t - 1) PROVE Fine(t)
  <2>1. f[t] = Step(f[t - 1], code[t]) BY DEF Course
  <2> DEFINE at == f[t - 1]
  <2>2. Spared(m, R, at.m) /\ AreClear(at.regs, w + (t - 1), R) BY <1>3
  <2> HIDE DEF at
  <2>3. Spared(m, R, Step(at, code[t]).m) /\ AreClear(Step(at, code[t]).regs, w + t, R)
    BY <2>2, StepSpared
  <2> QED BY <2>1, <2>3 DEF at
<1> HIDE DEF Fine, N
<1>4. Failing = {}
  <2> SUFFICES ASSUME Failing # {} PROVE FALSE
    OBVIOUS
  <2>1. PICK k \in Failing : \A j \in Failing : k <= j
    <3>1. Failing \subseteq Nat OBVIOUS
    <3> QED BY <3>1, LeastNatural
  <2>2. k \in 1..N BY <1>1, <1>2
  <2>3. k - 1 \in 0..N /\ ~(k <= k - 1) BY <1>1, <2>2
  <2>4. Fine(k - 1) BY <2>1, <2>3
  <2> QED BY <1>3, <2>2, <2>4
<1>5. \A t \in 0..N : Fine(t) BY <1>4
<1> QED BY <1>5 DEF Fine, N, w

\* What the row makes is the outcome of its last instruction, the one with number N.
Outcome(b, f, N) ==
  /\ b.m = f[N].m
  /\ N = 0 => b.val = {}
  /\ N # 0 => b.val = Last(f[N].regs)

LEMMA MadeIs ==
  ASSUME NEW r \in DOMAIN Rows, NEW m, NEW vals, NEW f, Course(f, m, Rows[r].code, vals),
         NEW b, b = Made(r, m, vals)
  PROVE  Outcome(b, f, Len(Rows[r].code))
<1> DEFINE code == Rows[r].code
           N == Len(code)
           end == Run(m, code, vals)
           val == IF code = <<>> THEN {} ELSE Last(end.regs)
<1>1. N \in Nat BY RowFacts
<1>2. end = f[N] BY DEF Course
<1>3. b = Done(end.m, val) BY Zenon DEF Made, Build
<1>4. b.m = end.m /\ b.val = val BY <1>3, DoneParts
<1>5. N = 0 <=> code = <<>>
  <2>1. code \in Seq(ToSet(code)) BY RowsAssumption
  <2> HIDE DEF code
  <2> QED BY <2>1
<1> HIDE DEF code, end, N
<1> QED BY <1>2, <1>4, <1>5 DEF Outcome, N, code

\* A row whose values are outside the sealed part.
LEMMA BuildSpared ==
  ASSUME ActionsAreLinear, NEW r \in DOMAIN Rows, NEW m, IsMemory(m), NEW R, Sealed(m, R),
         NEW vals, AreClear(vals, Len(Rows[r].rhs), R), NEW b, b = Made(r, m, vals)
  PROVE  Spared(m, R, b.m) /\ b.val \intersect R = {}
<1> DEFINE N == Len(Rows[r].code)
           w == Len(Rows[r].rhs)
           code == Rows[r].code
<1>1. N \in Nat /\ w \in Nat BY RowFacts
<1>2. PICK f : Course(f, m, code, vals) BY <1>1, RunIs
<1>3. Spared(m, R, f[N].m) /\ AreClear(f[N].regs, w + N, R)
  <2>1. \A t \in 0..N : Spared(m, R, f[t].m) /\ AreClear(f[t].regs, w + t, R)
    BY <1>2, CourseSpared
  <2>2. N \in 0..N BY <1>1
  <2> HIDE DEF N, w
  <2> QED BY <2>1, <2>2
<1>4. Outcome(b, f, N) BY <1>2, MadeIs
<1>5. N # 0 => Last(f[N].regs) \intersect R = {}
  <2> SUFFICES ASSUME N # 0 PROVE Last(f[N].regs) \intersect R = {}
    OBVIOUS
  <2> HIDE DEF N, w
  <2>1. w + N \in 1..(w + N) BY <1>1
  <2>2. Last(f[N].regs) = f[N].regs[w + N] BY <1>3 DEF Last, AreClear
  <2> QED BY <1>3, <2>1, <2>2 DEF AreClear
<1> HIDE DEF N
<1>6. b.m = f[N].m /\ b.val \intersect R = {} BY <1>4, <1>5 DEF Outcome
<1> QED BY <1>3, <1>6

-----------------------------------------------------------------------------
(* The symbols that stand for a statement.                                 *)

\* p points to a statement without a length, as long as this is not deleted.
IsStatement(m, p) ==
  \E x \in Nat : /\ p = {x} /\ x < m.next
                 /\ x \in Live(m) => m.heap[x].kind \in Statements /\ m.heap[x].n = NotSet

LEMMA StatementStays ==
  ASSUME NEW m, IsMemory(m), NEW p, IsStatement(m, p), NEW R, NEW new, Spared(m, R, new)
  PROVE  IsStatement(new, p)
<1>1. PICK x \in Nat :
        /\ p = {x} /\ x < m.next
        /\ x \in Live(m) => m.heap[x].kind \in Statements /\ m.heap[x].n = NotSet
  BY DEF IsStatement
<1>2. Grew(m, new) /\ Even(m, new) BY DEF Spared
<1>3. m.next \in Nat /\ new.next \in Nat /\ m.next <= new.next BY <1>2 DEF Grew, IsMemory
<1>4. x < new.next BY <1>1, <1>3
<1>5. x \in Live(new) => new.heap[x].kind \in Statements /\ new.heap[x].n = NotSet
  BY <1>1, <1>2 DEF Grew, Even
<1> QED BY <1>1, <1>4, <1>5 DEF IsStatement

\* An instruction that makes a statement, or gives members to one.
LEMMA ExecuteStatement ==
  ASSUME NEW m, IsMemory(m), NEW in, in.op \in Operations, NEW on, NEW args,
         \/ in.op = "new" /\ in.what \in Statements
         \/ in.op \in {"value", "set"} /\ IsStatement(m, on),
         NEW done, done = Execute(m, in, on, args), NEW R, Spared(m, R, done.m)
  PROVE  IsStatement(done.m, done.val)
<1>1. CASE in.op = "new" /\ in.what \in Statements
  <2> DEFINE class == in.what
             type == in.type
             new == New(m, class, type, args)
  <2>1. done = Make(m, class, type, args) BY <1>1 DEF Execute
  <2>2. done.m = new /\ done.val = {m.next} BY <2>1, DoneParts DEF Make
  <2>3. new.heap[m.next] = [kind |-> class, type |-> type, f |-> args, n |-> NotSet]
    BY NewMemory
  <2>4. new.next = m.next + 1 /\ m.next \in Nat BY NewNext DEF IsMemory
  <2> HIDE DEF new, class, type
  <2>5. new.heap[m.next].kind = class /\ new.heap[m.next].n = NotSet BY <2>3
  <2> QED BY <1>1, <2>2, <2>4, <2>5 DEF IsStatement, class
<1>2. CASE in.op \in {"value", "set"} /\ IsStatement(m, on)
  <2>1. \E n : done = Done(n, on)
    <3>1. CASE in.op = "value" BY <3>1, Zenon DEF Execute
    <3>2. CASE in.op = "set" BY <3>2, Zenon DEF Execute
    <3> QED BY <1>2, <3>1, <3>2
  <2>2. done.val = on BY <2>1, DoneParts
  <2> QED BY <1>2, <2>2, StatementStays
<1> QED BY <1>1, <1>2

\* The action of a symbol that stands for a statement.
LEMMA StatementMade ==
  ASSUME ActionsAreLinear, StatementsAreCounted, NEW r \in DOMAIN Rows,
         Rows[r].lhs \in StatementSymbols, NEW m, IsMemory(m), NEW vals, AreValues(vals, r),
         \A p \in 1..Len(vals) : Rows[r].rhs[p] \in StatementSymbols => IsStatement(m, vals[p]),
         NEW b, b = Made(r, m, vals)
  PROVE  IsStatement(b.m, b.val)
<1> DEFINE code == Rows[r].code
           first == code[1]
           N == Len(code)
           w == Len(Rows[r].rhs)
           none == {}
<1>1. N \in Nat /\ w \in Nat /\ DOMAIN code = 1..N /\ DOMAIN Rows[r].rhs = 1..w
      /\ code \in Seq(ToSet(code))
  BY RowFacts, RowsAssumption
<1>2. /\ N # 0
      /\ \/ first.op = "new" /\ first.what \in Statements
         \/ first.op \in {"value", "set"} /\ first.on > 0 /\ Rows[r].rhs[first.on] \in StatementSymbols
      /\ \A t \in 2..N : t = 2 /\ code[t].op = "replace" /\ code[t].on = -1
  <2>1. /\ code # <<>>
        /\ \/ first.op = "new" /\ first.what \in Statements
           \/ first.op \in {"value", "set"} /\ first.on > 0 /\ Rows[r].rhs[first.on] \in StatementSymbols
        /\ \A t \in 2..N : t = 2 /\ code[t].op = "replace" /\ code[t].on = -1
    BY DEF StatementsAreCounted
  <2> HIDE DEF code
  <2>2. N # 0 BY <1>1, <2>1
  <2> QED BY <2>1, <2>2
<1>3. PICK f : Course(f, m, code, vals) BY <1>1, RunIs
<1>4. \A t \in 0..N : Spared(m, none, f[t].m) /\ AreClear(f[t].regs, w + t, none)
  <2>1. Sealed(m, none) BY DEF Sealed
  <2>2. vals \in Seq(SUBSET Nat) /\ Len(vals) = w BY DEF AreValues
  <2>3. AreClear(vals, w, none)
    <3>1. \E U : vals \in Seq(U) BY <2>2
    <3> HIDE DEF w
    <3> QED BY <1>1, <2>2, <3>1 DEF AreClear
  <2> HIDE DEF none
  <2> QED BY <1>3, <2>1, <2>3, CourseSpared
<1> HIDE DEF none
<1>5. f[0] = [m |-> m, regs |-> vals] /\ \A t \in 1..N : f[t] = Step(f[t - 1], code[t])
  BY <1>3 DEF Course
<1>6. N = 1 \/ N = 2
  <2> HIDE DEF N, code
  <2>1. N \in 2..N => N = 2 BY <1>2
  <2> QED BY <1>1, <1>2, <2>1
<1>7. IsStatement(f[1].m, Last(f[1].regs))
  <2> DEFINE at == [m |-> m, regs |-> vals]
             on == OperandIn(at, first)
             args == OperandsIn(at, first)
             done == Execute(m, first, on, args)
  <2>1. at.m = m /\ at.regs = vals OBVIOUS
  <2>2. f[1] = Step(at, first)
    <3>1. 1 \in 1..N /\ 1 - 1 = 0 BY <1>6
    <3> HIDE DEF N, code
    <3> QED BY <1>5, <3>1
  <2>3. f[1].m = done.m /\ f[1].regs = Append(vals, done.val) BY <2>1, <2>2, StepIs
  <2>4. Last(f[1].regs) = done.val
    <3>1. \E U : vals \in Seq(U) BY DEF AreValues
    <3> DEFINE val == done.val
               regs == f[1].regs
    <3>2. regs = Append(vals, val) BY <2>3
    <3> HIDE DEF regs, val
    <3>3. Last(regs) = val BY <3>1, <3>2, LastAppended
    <3> QED BY <3>3 DEF regs, val
  <2>5. Spared(m, none, done.m)
    <3>1. 1 \in 0..N BY <1>6
    <3> HIDE DEF N, w
    <3> QED BY <1>4, <2>3, <3>1
  <2>6. first.op \in Operations
    <3>1. 1 \in 1..Len(Rows[r].code) BY <1>6
    <3> QED BY <3>1, InstructionFacts
  <2>7. first.op \in {"value", "set"} => IsStatement(m, on)
    <3> SUFFICES ASSUME first.op \in {"value", "set"} PROVE IsStatement(m, on)
      OBVIOUS
    <3>1. first.on > 0 /\ Rows[r].rhs[first.on] \in StatementSymbols BY <1>2
    <3>2. first.on \in 1..Len(vals)
      <4>1. 1 \in DOMAIN code /\ Len(vals) = w BY <1>1, <1>6 DEF AreValues
      <4>2. Used(first) \subseteq (1 - 1)..w BY <4>1 DEF ActionsAreLinear
      <4>3. first.on \in Used(first) BY DEF Used
      <4> HIDE DEF first, w
      <4> QED BY <1>1, <3>1, <4>1, <4>2, <4>3
    <3>3. on = vals[first.on] BY <2>1, <3>1 DEF OperandIn, ValueIn
    <3> QED BY <3>1, <3>2, <3>3
  <2> HIDE DEF on, args, first
  <2>8. \/ first.op = "new" /\ first.what \in Statements
        \/ first.op \in {"value", "set"} /\ IsStatement(m, on)
    BY <1>2, <2>7
  <2>9. IsStatement(done.m, done.val) BY <2>5, <2>6, <2>8, ExecuteStatement
  <2> QED BY <2>3, <2>4, <2>9
<1>8. Outcome(b, f, N) BY <1>3, MadeIs
<1>9. CASE N = 1
  <2> HIDE DEF N
  <2>1. b.m = f[1].m /\ b.val = Last(f[1].regs) BY <1>8, <1>9 DEF Outcome
  <2> QED BY <1>7, <2>1
<1>10. CASE N = 2
  <2> DEFINE in == code[2]
             at == f[1]
             on == OperandIn(at, in)
             args == OperandsIn(at, in)
             done == Execute(at.m, in, on, args)
  <2>1. in.op = "replace" /\ in.on = -1 BY <1>2, <1>10
  <2>2. f[2] = Step(at, in)
    <3>1. 2 \in 1..N /\ 2 - 1 = 1 BY <1>10
    <3> HIDE DEF N, code
    <3> QED BY <1>5, <3>1
  <2>3. f[2].m = done.m /\ f[2].regs = Append(at.regs, done.val) BY <2>2, StepIs
  <2>4. done.val = on
    <3>1. \E n : done = Done(n, on) BY <2>1, Zenon DEF Execute
    <3> QED BY <3>1, DoneParts
  <2>5. AreClear(at.regs, w + 1, none) /\ Spared(m, none, at.m)
    <3>1. 1 \in 0..N BY <1>6
    <3> HIDE DEF N, w
    <3> QED BY <1>4, <3>1
  <2>6. on = Last(at.regs)
    <3> DEFINE regs == at.regs
    <3>1. on = regs[Len(regs) + 1 + (-1)] BY <2>1 DEF OperandIn, ValueIn
    <3>2. Len(regs) = w + 1 BY <2>5 DEF AreClear
    <3> HIDE DEF regs, w, on
    <3>3. Len(regs) + 1 + (-1) = Len(regs) BY <1>1, <3>2
    <3> QED BY <3>1, <3>3 DEF Last, regs
  <2>7. Last(f[2].regs) = done.val
    <3> DEFINE regs == at.regs
               val == done.val
               longer == f[2].regs
    <3>1. longer = Append(regs, val) BY <2>3
    <3>2. \E U : regs \in Seq(U) BY <2>5 DEF AreClear
    <3> HIDE DEF regs, val, longer
    <3>3. Last(longer) = val BY <3>1, <3>2, LastAppended
    <3> QED BY <3>3 DEF longer, val
  <2>8. Spared(at.m, none, done.m)
    <3>1. 2 \in 1..N /\ 2 \in 0..N BY <1>10
    <3>2. in.op \in Operations
      <4> HIDE DEF done
      <4> QED BY <3>1, InstructionFacts
    <3>3. IsMemory(at.m) /\ Sealed(at.m, none) BY <2>5 DEF Spared, Grew
    <3>4. on \intersect none = {} /\ \A g \in DOMAIN args : args[g] \intersect none = {}
      BY DEF none
    <3>5. /\ in.op \in {"push", "pushin", "replace", "delete", "both"} => 1 \in DOMAIN in.args
          /\ in.op # "both" /\ in.op # "column"
      BY <2>1, <3>1, InstructionFacts
    <3>6. 1 \in DOMAIN args BY <2>1, <3>5 DEF OperandsIn
    <3> HIDE DEF in, at, on, args
    <3> QED BY <2>1, <3>2, <3>3, <3>4, <3>5, <3>6, ExecuteSpared
  <2>9. b.m = f[2].m /\ b.val = Last(f[2].regs)
    <3> HIDE DEF N
    <3> QED BY <1>8, <1>10 DEF Outcome
  <2>10. IsMemory(at.m) BY <2>5 DEF Spared, Grew
  <2>11. IsStatement(at.m, on) BY <1>7, <2>6
  <2> HIDE DEF done, on, at
  <2>12. IsStatement(done.m, on) BY <2>8, <2>10, <2>11, StatementStays
  <2> QED BY <2>3, <2>4, <2>7, <2>9, <2>12
<1> QED BY <1>6, <1>9, <1>10

-----------------------------------------------------------------------------
(* What holds the measured statements only gets into more of its kind.     *)

\* All that vals hold.
AllOf(vals) == UNION {vals[p] : p \in 1..Len(vals)}

\* The memory new has all that m has, and what was made, and the objects outside V have the
\* members they had.
Carried(m, new, val, V) ==
  /\ Live(m) \subseteq Live(new) /\ Live(new) \subseteq Live(m) \union val
  /\ val \subseteq Live(new) /\ val \intersect Live(m) \subseteq V
  /\ \A x \in Live(m) \ V : \A g : Field(new, x, g) = Field(m, x, g)

LEMMA NewLive ==
  ASSUME NEW m, IsMemory(m), NEW kind, NEW type, NEW fields, NEW new,
         new = New(m, kind, type, fields)
  PROVE  /\ m.next \notin Live(m) /\ Live(new) = Live(m) \union {m.next}
         /\ \A x \in Live(m) : new.heap[x] = m.heap[x]
<1>1. /\ m.next \notin Live(m) /\ Live(new) = Live(m) \union {m.next}
      /\ \A x \in Live(m) : new.heap[x] = m.heap[x]
      /\ new.heap[m.next] = [kind |-> kind, type |-> type, f |-> fields, n |-> NotSet]
  BY NewMemory
<1> QED BY <1>1

\* The instructions of the rows that take a carrier.
LEMMA ExecuteCarries ==
  ASSUME NEW m, NEW V, Tidy(m, V), NEW in, in.op \in {"value", "new", "vector", "push"},
         NEW on, on \subseteq V, NEW args, NEW done, done = Execute(m, in, on, args)
  PROVE  Carried(m, done.m, done.val, V)
<1>1. IsMemory(m) /\ V \subseteq Live(m) BY DEF Tidy
<1>2. CASE in.op = "value"
  <2>1. done = Done(m, on) BY <1>2 DEF Execute
  <2>2. done.m = m /\ done.val = on BY <2>1, DoneParts
  <2> QED BY <1>1, <2>2 DEF Carried
<1>3. CASE in.op \in {"new", "vector"}
  <2>1. \E class, type, f : done = Make(m, class, type, f) BY <1>3, Zenon DEF Execute
  <2>2. PICK class, type, f : done = Make(m, class, type, f) BY <2>1
  <2> DEFINE new == New(m, class, type, f)
  <2>3. done.m = new /\ done.val = {m.next} BY <2>2, DoneParts DEF Make
  <2>4. /\ m.next \notin Live(m) /\ Live(new) = Live(m) \union {m.next}
        /\ \A x \in Live(m) : new.heap[x] = m.heap[x]
    <3>1. new = New(m, class, type, f) OBVIOUS
    <3> HIDE DEF new
    <3> QED BY <1>1, <3>1, NewLive
  <2> HIDE DEF new
  <2>5. \A x \in Live(m) : \A g : Field(new, x, g) = Field(m, x, g) BY <2>4 DEF Field
  <2> QED BY <2>3, <2>4, <2>5 DEF Carried
<1>4. CASE in.op = "push"
  <2> DEFINE f == [elems |-> Member(m, on, "elems") \union args[1]]
             new == SetFields(m, on, f)
  <2>1. done = Done(new, on) BY <1>4, Zenon DEF Execute, PushBack
  <2>2. done.m = new /\ done.val = on BY <2>1, DoneParts
  <2> HIDE DEF f
  <2>3. Live(new) = Live(m) /\ \A x \in Live(m) \ V : \A g : Field(new, x, g) = Field(m, x, g)
    <3>1. CASE on = {}
      <4>1. \E what : new = Faulted(m, what) BY <3>1, Zenon DEF SetFields
      <4>2. new.heap = m.heap BY <4>1, FaultedTidy
      <4> HIDE DEF new
      <4> QED BY <4>2 DEF Live, Field
    <3>2. CASE on # {}
      <4> DEFINE x == Pointee(on)
      <4>1. on \subseteq Live(m) BY <1>1
      <4>2. /\ x \in on /\ Live(new) = Live(m)
            /\ \A y, g : Field(new, y, g) = IF y = x /\ g \in DOMAIN f THEN f[g] ELSE Field(m, y, g)
        BY <1>1, <3>2, <4>1, SetMemory
      <4> HIDE DEF x, new
      <4> QED BY <4>2
    <3> QED BY <3>1, <3>2
  <2> HIDE DEF new
  <2> QED BY <1>1, <2>2, <2>3 DEF Carried
<1> QED BY <1>2, <1>3, <1>4

\* What is carried joins the sealed part.
LEMMA CarriedSealed ==
  ASSUME NEW m, NEW V, Tidy(m, V), NEW R, Sealed(m, R), NEW new, NEW val, Carried(m, new, val, V)
  PROVE  Sealed(new, R \union V \union val)
<1> DEFINE Q == R \union V \union val
<1>1. V \subseteq Live(m) /\ \A x, g : Field(m, x, g) \subseteq Live(m) \ V
  BY TidyFields DEF Tidy
<1>2. Q \subseteq Live(new) BY <1>1 DEF Carried, Sealed
<1>3. ASSUME NEW x, NEW g, x \notin Q PROVE Field(new, x, g) \intersect Q = {}
  <2>1. CASE x \in Live(m)
    <3>1. Field(new, x, g) = Field(m, x, g) BY <1>3, <2>1 DEF Carried
    <3>2. Field(m, x, g) \intersect R = {} BY <1>3 DEF Sealed
    <3> QED BY <1>1, <3>1, <3>2 DEF Carried
  <2>2. CASE x \notin Live(m)
    <3>1. x \notin Live(new) BY <1>3, <2>2 DEF Carried
    <3> QED BY <3>1 DEF Field
  <2> QED BY <2>1, <2>2
<1> QED BY <1>2, <1>3 DEF Sealed

LEMMA BuildCarries ==
  ASSUME ActionsAreLinear, StatementsAreCounted, NEW r \in DOMAIN Rows, Rows[r].kind # "input",
         ToSet(Rows[r].rhs) \intersect Carriers # {}, NEW m, NEW vals, AreValues(vals, r),
         Tidy(m, AllOf(vals)), NEW b, b = Made(r, m, vals)
  PROVE  Carried(m, b.m, b.val, AllOf(vals))
<1> DEFINE in == Rows[r].code[1]
           on == ValueIn(vals, in.on)
           args == ArgumentsIn(vals, in)
           V == AllOf(vals)
<1>1. Len(Rows[r].code) = 1 /\ in.op \in {"value", "new", "vector", "push"}
  BY DEF StatementsAreCounted
<1>2. Only(r, in, vals, on, args) BY <1>1 DEF Only
<1> DEFINE done == Execute(m, in, on, args)
<1>3. /\ Same(b, done)
      /\ \A v \in Used(in) : v \in 0..Len(vals) /\ ValueIn(vals, v) = IF v = 0 THEN {} ELSE vals[v]
  BY <1>2, BuildOfOne
<1>4. on \subseteq V
  <2>1. in.on \in Used(in) BY DEF Used
  <2>2. in.on \in 0..Len(vals) /\ on = IF in.on = 0 THEN {} ELSE vals[in.on] BY <1>3, <2>1
  <2>3. Len(vals) \in Nat BY RowFacts DEF AreValues
  <2> HIDE DEF in, on
  <2>4. in.on # 0 => in.on \in 1..Len(vals) BY <2>2, <2>3
  <2> QED BY <2>2, <2>4 DEF AllOf
<1> HIDE DEF in, on, args, V
<1>5. Carried(m, done.m, done.val, V) BY <1>1, <1>4, ExecuteCarries DEF V
<1>6. b.m = done.m /\ b.val = done.val BY <1>3 DEF Same
<1> QED BY <1>5, <1>6 DEF V

-----------------------------------------------------------------------------
(* The sum of the lengths.                                                 *)

\* The numbers of the objects in S together.
Total(m, S) == MapThenSumSet(LAMBDA x : m.heap[x].n, S)

\* Its element that is added first.
Some(S) == CHOOSE x \in S : TRUE

\* Of subsets of a finite set one is within no other.
LEMMA LeastSubset ==
  ASSUME NEW S, IsFiniteSet(S), NEW B, B \subseteq SUBSET S, B # {}
  PROVE  \E C \in B : \A D \in B : D \subseteq C => D = C
<1> DEFINE R == StrictSubsetOrdering(S)
<1>1. IsWellFoundedOn(R, SUBSET S)
  <2>1. FiniteSubsetsOf(S) = SUBSET S BY FS_FiniteSubsetsOfFinite
  <2>2. IsWellFoundedOn(R, FiniteSubsetsOf(S)) BY FS_StrictSubsetOrderingWellFounded
  <2> HIDE DEF R
  <2> QED BY <2>1, <2>2
<1>2. PICK C \in B : \A D \in B : ~(<<D, C>> \in R)
  <2> HIDE DEF R
  <2> QED BY <1>1, WFMin
<1>3. ASSUME NEW D \in B, D \subseteq C PROVE D = C
  <2>1. D # C => <<D, C>> \in R BY <1>3 DEF StrictSubsetOrdering
  <2> QED BY <1>2, <2>1
<1> QED BY <1>3

\* f adds up the numbers of the subsets of S.
Adds(f, m, S) ==
  f = [T \in SUBSET S |-> IF T = {} THEN 0 ELSE m.heap[Some(T)].n + f[T \ {Some(T)}]]

LEMMA TotalIs == \A m, S : Total(m, S) = (CHOOSE f : Adds(f, m, S))[S]
BY DEF Total, MapThenSumSet, MapThenFoldSet, Adds, Some

\* The sum is that of the first number and of the rest.
Unfolds(m, S) == Total(m, S) = IF S = {} THEN 0 ELSE m.heap[Some(S)].n + Total(m, S \ {Some(S)})

LEMMA SomeIsIn == ASSUME NEW S, S # {} PROVE Some(S) \in S
BY DEF Some

LEMMA UnfoldsNext ==
  ASSUME NEW m, NEW S, IsFiniteSet(S), \A T \in SUBSET S : T # S => Unfolds(m, T)
  PROVE  Unfolds(m, S)
<1> DEFINE first(T) == m.heap[Some(T)].n
           rest(T) == T \ {Some(T)}
           g == [T \in SUBSET S |-> IF T = S /\ S # {} THEN first(S) + Total(m, rest(S))
                                    ELSE IF T = {} THEN 0 ELSE Total(m, T)]
           f == CHOOSE f : Adds(f, m, S)
<1>1. \A T \in SUBSET S : rest(T) \in SUBSET S /\ (T # {} => rest(T) # S /\ rest(T) # T)
  <2> TAKE T \in SUBSET S
  <2>1. T # {} => Some(T) \in T BY SomeIsIn
  <2> QED BY <2>1
<1>2. Total(m, {}) = 0 \/ S = {}
  <2>1. S # {} => Unfolds(m, {}) OBVIOUS
  <2> QED BY <2>1 DEF Unfolds
<1>3. ASSUME NEW T \in SUBSET S
      PROVE  g[T] = IF T = {} THEN 0 ELSE first(T) + g[rest(T)]
  <2>1. CASE T = {} BY <2>1
  <2>2. CASE T # {}
    <3>1. rest(T) \in SUBSET S /\ rest(T) # S BY <1>1, <2>2
    <3>2. g[rest(T)] = Total(m, rest(T))
      <4> DEFINE U == rest(T)
      <4>1. g[U] = IF U = {} THEN 0 ELSE Total(m, U) BY <3>1
      <4>2. S # {} BY <2>2
      <4> HIDE DEF U, g
      <4> QED BY <1>2, <4>1, <4>2 DEF U
    <3>3. g[T] = first(T) + Total(m, rest(T))
      <4>1. CASE T = S BY <2>2, <4>1
      <4>2. CASE T # S
        <5>1. Unfolds(m, T) BY <4>2
        <5>2. g[T] = Total(m, T) BY <2>2, <4>2
        <5> HIDE DEF g
        <5> QED BY <2>2, <5>1, <5>2 DEF Unfolds
      <4> QED BY <4>1, <4>2
    <3> HIDE DEF g, first, rest
    <3> QED BY <2>2, <3>2, <3>3
  <2> QED BY <2>1, <2>2
<1>4. Adds(g, m, S)
  <2>1. g = [T \in SUBSET S |-> g[T]] OBVIOUS
  <2> HIDE DEF g
  <2> QED BY <1>3, <2>1 DEF Adds
<1>5. Adds(f, m, S)
  <2> HIDE DEF g
  <2> QED BY <1>4, Zenon
<1> HIDE DEF f, g
<1>6. ASSUME NEW T \in SUBSET S PROVE f[T] = IF T = {} THEN 0 ELSE first(T) + f[rest(T)]
  BY <1>5 DEF Adds
<1> DEFINE Wrong == {T \in SUBSET S : T # S /\ f[T] # Total(m, T)}
<1> HIDE DEF first, rest
<1>7. Wrong = {}
  <2> SUFFICES ASSUME Wrong # {} PROVE FALSE
    OBVIOUS
  <2>1. PICK C \in Wrong : \A D \in Wrong : D \subseteq C => D = C
    <3>1. Wrong \subseteq SUBSET S OBVIOUS
    <3> HIDE DEF Wrong
    <3> QED BY <3>1, LeastSubset
  <2>2. C \in SUBSET S /\ C # S /\ f[C] # Total(m, C) OBVIOUS
  <2>3. Total(m, C) = IF C = {} THEN 0 ELSE first(C) + Total(m, rest(C))
    BY <2>2 DEF Unfolds, first, rest
  <2>4. C # {} BY <1>6, <2>2, <2>3
  <2>5. rest(C) \in SUBSET S /\ rest(C) # S /\ rest(C) \subseteq C /\ rest(C) # C
    BY <1>1, <2>2, <2>4 DEF rest
  <2>6. f[rest(C)] = Total(m, rest(C)) BY <2>1, <2>5
  <2> QED BY <1>6, <2>2, <2>3, <2>4, <2>6
<1>8. \A T \in SUBSET S : T # S => f[T] = Total(m, T) BY <1>7
<1>9. Total(m, S) = f[S] BY TotalIs DEF f
<1>10. S \in SUBSET S OBVIOUS
<1>11. S # {} => f[rest(S)] = Total(m, rest(S)) BY <1>1, <1>8, <1>10
<1> QED BY <1>6, <1>9, <1>10, <1>11 DEF Unfolds, first, rest

LEMMA TotalUnfolds == ASSUME NEW m, NEW S, IsFiniteSet(S) PROVE \A T \in SUBSET S : Unfolds(m, T)
<1> DEFINE Wrong == {T \in SUBSET S : ~Unfolds(m, T)}
<1> SUFFICES ASSUME Wrong # {} PROVE FALSE
  OBVIOUS
<1>1. PICK C \in Wrong : \A D \in Wrong : D \subseteq C => D = C
  <2>1. Wrong \subseteq SUBSET S OBVIOUS
  <2> HIDE DEF Wrong
  <2> QED BY <2>1, LeastSubset
<1>2. C \in SUBSET S /\ ~Unfolds(m, C) OBVIOUS
<1>3. \A T \in SUBSET C : T # C => Unfolds(m, T) BY <1>1, <1>2
<1>4. IsFiniteSet(C) BY <1>2, FS_Subset
<1> QED BY <1>2, <1>3, <1>4, UnfoldsNext

\* Any element can be added first.
LEMMA TotalRemove ==
  ASSUME NEW m, NEW S, IsFiniteSet(S), \A x \in S : m.heap[x].n \in Nat
  PROVE  /\ Total(m, S) \in Nat
         /\ \A x \in S : Total(m, S) = m.heap[x].n + Total(m, S \ {x})
<1> DEFINE num(x) == m.heap[x].n
           Right(T) == /\ Total(m, T) \in Nat
                       /\ \A x \in T : Total(m, T) = num(x) + Total(m, T \ {x})
           Wrong == {T \in SUBSET S : ~Right(T)}
<1>1. \A T \in SUBSET S : Total(m, T) = IF T = {} THEN 0 ELSE num(Some(T)) + Total(m, T \ {Some(T)})
  BY TotalUnfolds DEF Unfolds
<1>2. \A x \in S : num(x) \in Nat OBVIOUS
<1> HIDE DEF num
<1>3. Wrong = {}
  <2> SUFFICES ASSUME Wrong # {} PROVE FALSE
    OBVIOUS
  <2>1. PICK C \in Wrong : \A D \in Wrong : D \subseteq C => D = C
    <3>1. Wrong \subseteq SUBSET S OBVIOUS
    <3> HIDE DEF Wrong
    <3> QED BY <3>1, LeastSubset
  <2>2. C \in SUBSET S /\ ~Right(C) OBVIOUS
  <2>3. \A T \in SUBSET C : T # C => Right(T)
    <3> HIDE DEF Right
    <3> QED BY <2>1, <2>2
  <2>4. CASE C = {}
    <3>1. Total(m, C) = 0 BY <1>1, <2>4
    <3> QED BY <2>2, <2>4, <3>1
  <2>5. CASE C # {}
    <3> DEFINE d == Some(C)
               U == C \ {d}
    <3>1. d \in C BY <2>5, SomeIsIn
    <3>2. Total(m, C) = num(d) + Total(m, U) BY <1>1, <2>2, <2>5
    <3> HIDE DEF d
    <3>3. U \in SUBSET C /\ U # C BY <3>1
    <3>4. /\ Total(m, U) \in Nat
          /\ \A x \in U : Total(m, U) = num(x) + Total(m, U \ {x})
      BY <2>3, <3>3
    <3>5. num(d) \in Nat BY <1>2, <2>2, <3>1
    <3>6. ASSUME NEW x \in C PROVE Total(m, C) = num(x) + Total(m, C \ {x})
      <4>1. CASE x = d BY <3>2, <4>1
      <4>2. CASE x # d
        <5> DEFINE V == C \ {x}
                   W == U \ {x}
        <5>1. x \in U /\ d \in V /\ V \in SUBSET C /\ V # C /\ V \ {d} = W BY <3>1, <4>2
        <5>2. Total(m, U) = num(x) + Total(m, W) BY <3>4, <5>1
        <5>3. Total(m, V) = num(d) + Total(m, V \ {d}) /\ Total(m, V) \in Nat BY <2>3, <5>1
        <5>4. Right(W)
          <6>1. W \in SUBSET C /\ W # C BY <5>1
          <6> HIDE DEF Right, W
          <6> QED BY <2>3, <6>1
        <5>5. Total(m, W) \in Nat /\ num(x) \in Nat BY <1>2, <2>2, <5>4
        <5>6. Total(m, V) = num(d) + Total(m, W) BY <5>1, <5>3
        <5> HIDE DEF V, W, U
        <5> QED BY <3>2, <3>5, <5>2, <5>5, <5>6 DEF V
      <4> QED BY <4>1, <4>2
    <3>7. Total(m, C) \in Nat
      <4> HIDE DEF U
      <4> QED BY <3>2, <3>4, <3>5
    <3> QED BY <2>2, <3>6, <3>7
  <2> QED BY <2>4, <2>5
<1>4. Right(S) BY <1>3
<1> QED BY <1>4 DEF num

\* The sum depends on the numbers alone.
LEMMA TotalSame ==
  ASSUME NEW m, NEW k, NEW S, IsFiniteSet(S), \A x \in S : k.heap[x].n = m.heap[x].n
  PROVE  Total(k, S) = Total(m, S)
<1> DEFINE Wrong == {T \in SUBSET S : Total(k, T) # Total(m, T)}
<1>1. Wrong = {}
  <2> SUFFICES ASSUME Wrong # {} PROVE FALSE
    OBVIOUS
  <2>1. PICK C \in Wrong : \A D \in Wrong : D \subseteq C => D = C
    <3>1. Wrong \subseteq SUBSET S OBVIOUS
    <3> HIDE DEF Wrong
    <3> QED BY <3>1, LeastSubset
  <2>2. C \in SUBSET S /\ Total(k, C) # Total(m, C) OBVIOUS
  <2>3. Unfolds(m, C) /\ Unfolds(k, C) BY <2>2, TotalUnfolds
  <2>4. C # {} BY <2>2, <2>3 DEF Unfolds
  <2> DEFINE d == Some(C)
  <2>5. d \in C BY <2>4, SomeIsIn
  <2>6. C \ {d} \in SUBSET S /\ C \ {d} \subseteq C /\ C \ {d} # C BY <2>2, <2>5
  <2>7. Total(k, C \ {d}) = Total(m, C \ {d}) BY <2>1, <2>6
  <2>8. k.heap[d].n = m.heap[d].n BY <2>2, <2>5
  <2> QED BY <2>2, <2>3, <2>4, <2>7, <2>8 DEF Unfolds
<1>2. S \in SUBSET S OBVIOUS
<1> QED BY <1>1, <1>2

-----------------------------------------------------------------------------
(* The measured statements.                                                *)

\* The live statements that have their length.
Measured(m) == {x \in Live(m) : m.heap[x].kind \in Statements /\ m.heap[x].n # NotSet}

\* The same statements are measured in new, with the same lengths.
AsMeasured(m, new) ==
  /\ Measured(new) = Measured(m)
  /\ \A x \in Measured(m) : new.heap[x].n = m.heap[x].n

\* A measured statement is lost only with its deletion.
LEMMA MeasuredSame ==
  ASSUME NEW m, IsMemory(m), NEW new, Grew(m, new), Even(m, new), Measured(m) \subseteq Live(new)
  PROVE  AsMeasured(m, new)
<1>1. \A x \in Live(m) : x < m.next BY DEF IsMemory
<1>2. \A x \in Live(new) : x < m.next => x \in Live(m) /\ new.heap[x].kind = m.heap[x].kind
  BY DEF Grew
<1>3. \A x \in Live(new) : new.heap[x].n = IF x < m.next THEN m.heap[x].n ELSE NotSet BY DEF Even
<1>4. ASSUME NEW x \in Measured(new) PROVE x \in Measured(m) /\ new.heap[x].n = m.heap[x].n
  <2>1. x \in Live(new) /\ new.heap[x].kind \in Statements /\ new.heap[x].n # NotSet
    BY DEF Measured
  <2>2. x < m.next BY <1>3, <2>1
  <2> QED BY <1>2, <1>3, <2>1, <2>2 DEF Measured
<1>5. ASSUME NEW x \in Measured(m) PROVE x \in Measured(new)
  <2>1. x \in Live(m) /\ m.heap[x].kind \in Statements /\ m.heap[x].n # NotSet BY DEF Measured
  <2>2. x < m.next /\ x \in Live(new) BY <1>1, <2>1
  <2> QED BY <1>2, <1>3, <2>1, <2>2 DEF Measured
<1> QED BY <1>4, <1>5 DEF AsMeasured

\* Those of a sealed part stay.
LEMMA MeasuredSpared ==
  ASSUME NEW m, IsMemory(m), NEW R, Measured(m) \subseteq R, NEW new, Spared(m, R, new)
  PROVE  AsMeasured(m, new)
<1>1. Measured(m) \subseteq Live(new) BY DEF Spared, Sealed
<1> QED BY <1>1, MeasuredSame DEF Spared

\* The lengths of the measured statements and the characters read since add up.
Adding(m, length, column) ==
  /\ length \in Nat
  /\ \A x \in Measured(m) : m.heap[x].n \in Nat
  /\ Total(m, Measured(m)) + length = column

LEMMA MeasuredFinite == ASSUME NEW m, IsMemory(m) PROVE IsFiniteSet(Measured(m))
<1>1. Measured(m) \subseteq Live(m) BY DEF Measured
<1> QED BY <1>1, LiveFinite, FS_Subset

LEMMA AddingSame ==
  ASSUME NEW m, IsMemory(m), NEW length, NEW column, Adding(m, length, column),
         NEW new, AsMeasured(m, new)
  PROVE  Adding(new, length, column)
<1> DEFINE S == Measured(m)
<1>1. IsFiniteSet(S) BY MeasuredFinite
<1>2. Measured(new) = S /\ \A x \in S : new.heap[x].n = m.heap[x].n BY DEF AsMeasured
<1>3. /\ length \in Nat /\ Total(m, S) + length = column
      /\ \A x \in S : m.heap[x].n \in Nat
  BY DEF Adding
<1> HIDE DEF S
<1>4. Total(new, S) = Total(m, S) BY <1>1, <1>2, TotalSame
<1>5. \A x \in S : new.heap[x].n \in Nat BY <1>2, <1>3
<1> QED BY <1>2, <1>3, <1>4, <1>5 DEF Adding

\* More characters are read.
LEMMA AddingMore ==
  ASSUME NEW m, IsMemory(m), NEW length, NEW column, Adding(m, length, column), NEW n \in Nat
  PROVE  Adding(m, length + n, column + n)
<1> DEFINE S == Measured(m)
           total == Total(m, S)
<1>1. IsFiniteSet(S) BY MeasuredFinite
<1>2. length \in Nat /\ total + length = column /\ \A x \in S : m.heap[x].n \in Nat BY DEF Adding
<1> HIDE DEF S
<1>3. total \in Nat BY <1>1, <1>2, TotalRemove
<1> HIDE DEF total
<1>4. length + n \in Nat /\ total + (length + n) = column + n BY <1>2, <1>3
<1> QED BY <1>2, <1>4 DEF Adding, total, S

\* The statement x gets the characters read so far as its length.
LEMMA AddingOne ==
  ASSUME NEW m, IsMemory(m), NEW length, NEW column, Adding(m, length, column),
         NEW x, x \notin Measured(m),
         NEW new, IsMemory(new), Measured(new) = Measured(m) \union {x}, new.heap[x].n = length,
         \A y \in Measured(m) : new.heap[y].n = m.heap[y].n
  PROVE  Adding(new, 0, column)
<1> DEFINE S == Measured(m)
           T == Measured(new)
<1>1. IsFiniteSet(S) /\ IsFiniteSet(T) BY MeasuredFinite
<1>2. length \in Nat /\ Total(m, S) + length = column /\ \A y \in S : m.heap[y].n \in Nat
  BY DEF Adding
<1>3. T = S \union {x} /\ T \ {x} = S /\ x \in T OBVIOUS
<1>4. \A y \in S : new.heap[y].n = m.heap[y].n OBVIOUS
<1> HIDE DEF S, T
<1>5. \A y \in T : new.heap[y].n \in Nat BY <1>2, <1>3, <1>4
<1>6. Total(new, S) = Total(m, S) BY <1>1, <1>4, TotalSame
<1>7. Total(new, T) \in Nat /\ Total(new, T) = new.heap[x].n + Total(new, T \ {x})
  BY <1>1, <1>3, <1>5, TotalRemove
<1>8. Total(m, S) \in Nat BY <1>1, <1>2, TotalRemove
<1>9. Total(new, T) + 0 = column
  <2> DEFINE a == Total(new, T)
             c == Total(m, S)
  <2>1. a = length + c /\ a \in Nat /\ c \in Nat /\ c + length = column
    BY <1>2, <1>3, <1>6, <1>7, <1>8
  <2> HIDE DEF a, c
  <2>2. a + 0 = column BY <1>2, <2>1
  <2> QED BY <2>2 DEF a
<1> QED BY <1>5, <1>9 DEF Adding, T

-----------------------------------------------------------------------------
(* The stack above the measured statements.                                *)

\* The cells of statement symbols hold statements without a length.
StatementsHeld(m, stack) ==
  \A k \in 1..Len(stack) : stack[k].sym \in StatementSymbols => IsStatement(m, stack[k].val)

\* The measured statements are in R, into which carriers point and nothing else does.
Separate(m, stack, look, R) ==
  /\ Sealed(m, R) /\ Measured(m) \subseteq R /\ look \intersect R = {}
  /\ \A k \in 1..Len(stack) : stack[k].sym \notin Carriers => stack[k].val \intersect R = {}

\* The stack after a reduction by row r.
LEMMA HeldReduced ==
  ASSUME StackFits(yyss), NEW r, OnTop(yyss, r), StatementsHeld(memory, yyss), IsMemory(memory),
         NEW R, NEW m, Spared(memory, R, m), NEW val \in SUBSET Nat,
         Rows[r].lhs \in StatementSymbols => IsStatement(m, val),
         NEW new, new = Reduced(r, val)
  PROVE  StatementsHeld(m, new)
<1>1. /\ Len(new) = Left(r) + 1 /\ \A k \in 1..Left(r) : new[k] = yyss[k]
      /\ new[Left(r) + 1].sym = Rows[r].lhs /\ new[Left(r) + 1].val = val
  BY ReducedFits
<1>2. Left(r) \in Nat /\ \A k \in 1..Left(r) : k \in 1..Len(yyss) BY LeftFacts
<1> SUFFICES ASSUME NEW k \in 1..Len(new), new[k].sym \in StatementSymbols
             PROVE  IsStatement(m, new[k].val)
  BY DEF StatementsHeld
<1>3. CASE k = Left(r) + 1 BY <1>1, <1>3
<1>4. CASE k \in 1..Left(r)
  <2>1. new[k] = yyss[k] /\ k \in 1..Len(yyss) BY <1>1, <1>2, <1>4
  <2>2. IsStatement(memory, yyss[k].val) BY <2>1 DEF StatementsHeld
  <2>3. IsStatement(m, yyss[k].val) BY <2>2, StatementStays
  <2> QED BY <2>1, <2>3
<1> QED BY <1>1, <1>2, <1>3, <1>4

\* When what the row makes has nothing of R, R stays separate.
LEMMA SeparateReduced ==
  ASSUME StackFits(yyss), NEW r, OnTop(yyss, r), NEW look, NEW R, NEW m, NEW val \in SUBSET Nat,
         Sealed(m, R), Measured(m) \subseteq R, look \intersect R = {},
         \A k \in 1..Left(r) : yyss[k].sym \notin Carriers => yyss[k].val \intersect R = {},
         Rows[r].lhs \notin Carriers => val \intersect R = {},
         NEW new, new = Reduced(r, val)
  PROVE  Separate(m, new, look, R)
<1>1. /\ Len(new) = Left(r) + 1 /\ \A k \in 1..Left(r) : new[k] = yyss[k]
      /\ new[Left(r) + 1].sym = Rows[r].lhs /\ new[Left(r) + 1].val = val
  BY ReducedFits
<1>2. Left(r) \in Nat BY LeftFacts
<1>3. ASSUME NEW k \in 1..Len(new), new[k].sym \notin Carriers PROVE new[k].val \intersect R = {}
  <2>1. CASE k = Left(r) + 1 BY <1>1, <1>3, <2>1
  <2>2. CASE k \in 1..Left(r) BY <1>1, <1>3, <2>2
  <2> QED BY <1>1, <1>2, <2>1, <2>2
<1> QED BY <1>3 DEF Separate

\* What holds of the memory m and the stack after a reduction.
Measuring(m, stack, look, length, column) ==
  /\ StatementsHeld(m, stack)
  /\ \E R : Separate(m, stack, look, R)
  /\ Adding(m, length, column)

\* A row that makes a value outside the sealed part.
LEMMA SparedReduced ==
  ASSUME StackFits(yyss), IsMemory(memory), NEW r, OnTop(yyss, r),
         NEW R, Separate(memory, yyss, yylval, R), StatementsHeld(memory, yyss),
         NEW length, NEW column, Adding(memory, length, column),
         NEW m, Spared(memory, R, m), NEW val \in SUBSET Nat, val \intersect R = {},
         Rows[r].lhs \in StatementSymbols => IsStatement(m, val),
         NEW new, new = Reduced(r, val)
  PROVE  Measuring(m, new, yylval, length, column)
<1>1. StatementsHeld(m, new) BY HeldReduced
<1>2. /\ Sealed(memory, R) /\ Measured(memory) \subseteq R /\ yylval \intersect R = {}
      /\ \A k \in 1..Len(yyss) : yyss[k].sym \notin Carriers => yyss[k].val \intersect R = {}
  BY DEF Separate
<1>3. AsMeasured(memory, m) BY <1>2, MeasuredSpared
<1>4. Adding(m, length, column) BY <1>3, AddingSame
<1>5. Sealed(m, R) /\ Measured(m) \subseteq R BY <1>2, <1>3 DEF Spared, AsMeasured
<1>6. \A k \in 1..Left(r) : yyss[k].sym \notin Carriers => yyss[k].val \intersect R = {}
  BY <1>2, LeftFacts
<1>7. Separate(m, new, yylval, R) BY <1>2, <1>5, <1>6, SeparateReduced
<1> QED BY <1>1, <1>4, <1>7 DEF Measuring

\* The values of a row without a carrier.
LEMMA ValuesClear ==
  ASSUME StackFits(yyss), NEW r, OnTop(yyss, r), NEW m, NEW look, NEW R,
         Separate(m, yyss, look, R), ToSet(Rows[r].rhs) \intersect Carriers = {},
         NEW vals, vals = Values(r)
  PROVE  AreClear(vals, Len(Rows[r].rhs), R)
<1>1. AreOnTop(vals, r) BY ValuesFacts
<1>2. /\ vals \in Seq(SUBSET Nat) /\ Len(vals) = Len(Rows[r].rhs) /\ Len(vals) \in Nat
      /\ DOMAIN Rows[r].rhs = 1..Len(vals)
      /\ \A p \in 1..Len(vals) : /\ Left(r) + p \in 1..Len(yyss)
                                 /\ vals[p] = yyss[Left(r) + p].val
                                 /\ yyss[Left(r) + p].sym = Rows[r].rhs[p]
  BY <1>1 DEF AreOnTop, AreValues
<1>3. ASSUME NEW p \in 1..Len(vals) PROVE vals[p] \intersect R = {}
  <2>1. Rows[r].rhs[p] \in ToSet(Rows[r].rhs) BY <1>2 DEF ToSet
  <2>2. yyss[Left(r) + p].sym \notin Carriers BY <1>2, <2>1
  <2> QED BY <1>2, <2>2 DEF Separate
<1> QED BY <1>2, <1>3 DEF AreClear

\* The right-hand side has nothing of what stays, in the form a proof with many facts around
\* it finds again.
LEMMA RightApart ==
  ASSUME IInv, NEW r, OnTop(yyss, r), NEW vals, vals = Values(r)
  PROVE  /\ AreOnTop(vals, r) /\ Tidy(memory, AllOf(vals)) /\ AllOf(vals) \intersect yylval = {}
         /\ \A k \in 1..Left(r) : AllOf(vals) \intersect yyss[k].val = {}
<1> DEFINE list == result.statements
           O == ValuesOf(yyss, Left(r)) \union yylval \union ToSet(list)
<1>1. /\ StackFits(yyss) /\ Owners(memory, yyss, yylval, list)
      /\ O = ValuesOf(yyss, Left(r)) \union yylval \union ToSet(list)
  BY DEF IInv
<1> HIDE DEF list, O
<1>2. Apart(vals, O) BY <1>1, ValuesApart
<1>3. AreOnTop(vals, r) BY <1>1, ValuesFacts
<1> DEFINE V == AllOf(vals)
<1>4. \A x \in V : \E p \in 1..Len(vals) : x \in vals[p] BY DEF AllOf
<1>5. V \intersect O = {} BY <1>2, <1>4 DEF Apart
<1> HIDE DEF V
<1>6. Tidy(memory, V) BY <1>2, <1>4 DEF Apart
<1>7. \A k \in 1..Left(r) : yyss[k].val \subseteq O BY <1>1 DEF ValuesOf
<1> QED BY <1>1, <1>3, <1>5, <1>6, <1>7 DEF V

\* What the row makes has nothing of what stays either.
LEMMA MadeApart ==
  ASSUME ActionsAreLinear, ListsAreTyped, IInv, NEW r, OnTop(yyss, r),
         Rows[r].kind \in {"node", "stmt"}, NEW b, b = Build(memory, Rows[r].code, Values(r))
  PROVE  /\ b.val \in SUBSET Nat /\ b.val \intersect yylval = {}
         /\ \A k \in 1..Left(r) : b.val \intersect yyss[k].val = {}
         /\ \E Q : Tidy(b.m, Q)
<1> DEFINE list == result.statements
           O == ValuesOf(yyss, Left(r)) \union yylval \union ToSet(list)
<1>1. /\ StackFits(yyss) /\ CellsTyped(memory, yyss) /\ Owners(memory, yyss, yylval, list)
      /\ O = ValuesOf(yyss, Left(r)) \union yylval \union ToSet(list)
  BY DEF IInv
<1> HIDE DEF list, O
<1>2. MadeWell(list, r, O, b) BY <1>1, BuiltWell
<1>3. Tidy(b.m, O \union b.val) /\ b.val \intersect O = {} BY <1>2 DEF MadeWell
<1>4. \A k \in 1..Left(r) : yyss[k].val \subseteq O BY <1>1 DEF ValuesOf
<1>5. b.val \subseteq Nat
  <2>1. O \union b.val \subseteq Live(b.m) /\ IsMemory(b.m) BY <1>3 DEF Tidy
  <2>2. Live(b.m) \subseteq Nat BY <2>1 DEF IsMemory
  <2> QED BY <2>1, <2>2
<1> QED BY <1>1, <1>3, <1>4, <1>5

\* The memory m, in which the sealed part has become Q.
Joined(r, m, Q) ==
  /\ Spared(memory, {}, m) /\ AsMeasured(memory, m) /\ Live(memory) \subseteq Live(m)
  /\ Sealed(m, Q) /\ Measured(m) \subseteq Q /\ yylval \intersect Q = {}
  /\ \A k \in 1..Left(r) : yyss[k].sym \notin Carriers => yyss[k].val \intersect Q = {}

\* A row that takes a carrier: what it takes and makes joins the sealed part.
LEMMA CarriedReduced ==
  ASSUME ActionsAreLinear, ListsAreTyped, StatementsAreCounted, IInv, NEW r, OnTop(yyss, r),
         Rows[r].kind \in {"node", "stmt"}, ToSet(Rows[r].rhs) \intersect Carriers # {},
         NEW R, Separate(memory, yyss, yylval, R),
         NEW vals, vals = Values(r), NEW b, b = Build(memory, Rows[r].code, vals),
         NEW Q, Q = R \union AllOf(vals) \union b.val
  PROVE  Joined(r, b.m, Q)
<1> DEFINE V == AllOf(vals)
           none == {}
<1>1. /\ AreOnTop(vals, r) /\ Tidy(memory, V) /\ V \intersect yylval = {}
      /\ \A k \in 1..Left(r) : V \intersect yyss[k].val = {}
  BY RightApart
<1>2. /\ b.val \intersect yylval = {} /\ \A k \in 1..Left(r) : b.val \intersect yyss[k].val = {}
  BY MadeApart
<1>3. /\ r \in DOMAIN Rows /\ b = Made(r, memory, vals) /\ IsMemory(memory) /\ StackFits(yyss)
      /\ AreValues(vals, r) /\ V = AllOf(vals)
  BY <1>1, MemoryIs DEF OnTop, Made, AreOnTop, IInv
<1>4. /\ Sealed(memory, R) /\ Measured(memory) \subseteq R /\ yylval \intersect R = {}
      /\ \A k \in 1..Len(yyss) : yyss[k].sym \notin Carriers => yyss[k].val \intersect R = {}
  BY DEF Separate
<1>5. none = {} /\ Sealed(memory, none) /\ AreClear(vals, Len(Rows[r].rhs), none)
  BY <1>1 DEF Sealed, AreClear, AreOnTop, AreValues
<1> HIDE DEF V, none
<1>6. Spared(memory, none, b.m) BY <1>3, <1>5, BuildSpared
<1>7. Carried(memory, b.m, b.val, V) BY <1>1, <1>3, BuildCarries
<1>8. Live(memory) \subseteq Live(b.m) BY <1>7 DEF Carried
<1>9. AsMeasured(memory, b.m)
  <2>1. Measured(memory) \subseteq Live(b.m) BY <1>8 DEF Measured
  <2>2. Grew(memory, b.m) /\ Even(memory, b.m) BY <1>6 DEF Spared
  <2> QED BY <1>3, <2>1, <2>2, MeasuredSame
<1>10. Sealed(b.m, Q)
  <2>1. Sealed(b.m, R \union V \union b.val) BY <1>1, <1>4, <1>7, CarriedSealed
  <2> QED BY <1>3, <2>1
<1>11. Measured(b.m) \subseteq Q BY <1>4, <1>9 DEF AsMeasured
<1>12. \A k \in 1..Left(r) : yyss[k].sym \notin Carriers => yyss[k].val \intersect Q = {}
  BY <1>1, <1>2, <1>3, <1>4, LeftFacts
<1>13. yylval \intersect Q = {} BY <1>1, <1>2, <1>3, <1>4
<1> QED BY <1>5, <1>6, <1>8, <1>9, <1>10, <1>11, <1>12, <1>13 DEF Joined

\* The value of a statement symbol.
LEMMA StatementBuilt ==
  ASSUME ActionsAreLinear, StatementsAreCounted, IInv, NEW r, OnTop(yyss, r),
         StatementsHeld(memory, yyss), Rows[r].lhs \in StatementSymbols,
         NEW vals, vals = Values(r), NEW b, b = Build(memory, Rows[r].code, vals)
  PROVE  IsStatement(b.m, b.val)
<1>1. r \in DOMAIN Rows /\ b = Made(r, memory, vals) /\ IsMemory(memory) /\ StackFits(yyss)
  BY MemoryIs DEF OnTop, Made, IInv
<1>2. AreOnTop(vals, r) BY <1>1, ValuesFacts
<1>3. \A p \in 1..Len(vals) : Rows[r].rhs[p] \in StatementSymbols => IsStatement(memory, vals[p])
  <2> SUFFICES ASSUME NEW p \in 1..Len(vals), Rows[r].rhs[p] \in StatementSymbols
               PROVE  IsStatement(memory, vals[p])
    OBVIOUS
  <2>1. /\ Left(r) + p \in 1..Len(yyss) /\ vals[p] = yyss[Left(r) + p].val
        /\ yyss[Left(r) + p].sym = Rows[r].rhs[p]
    BY <1>2 DEF AreOnTop
  <2> QED BY <2>1 DEF StatementsHeld
<1>4. AreValues(vals, r) BY <1>2 DEF AreOnTop
<1> QED BY <1>1, <1>3, <1>4, StatementMade

\* A row that measures no statement.
LEMMA NodeReduced ==
  ASSUME ActionsAreLinear, ListsAreTyped, StatementsAreCounted, IInv, NEW r, OnTop(yyss, r),
         Rows[r].kind = "node", NEW R, Separate(memory, yyss, yylval, R),
         StatementsHeld(memory, yyss), NEW length, NEW column, Adding(memory, length, column),
         NEW b, b = Build(memory, Rows[r].code, Values(r)), NEW new, new = Reduced(r, b.val)
  PROVE  Measuring(b.m, new, yylval, length, column)
<1> DEFINE vals == Values(r)
<1>1. vals = Values(r) /\ b = Build(memory, Rows[r].code, vals) OBVIOUS
<1> HIDE DEF vals
<1>2. /\ r \in DOMAIN Rows /\ IsMemory(memory) /\ StackFits(yyss) /\ b = Made(r, memory, vals)
  BY <1>1, MemoryIs DEF OnTop, IInv, Made
<1>3. b.val \in SUBSET Nat BY MadeApart
<1>4. Rows[r].lhs \in StatementSymbols => IsStatement(b.m, b.val) BY <1>1, StatementBuilt
<1>5. CASE ToSet(Rows[r].rhs) \intersect Carriers = {}
  <2>1. AreClear(vals, Len(Rows[r].rhs), R) BY <1>1, <1>2, <1>5, ValuesClear
  <2>2. Sealed(memory, R) BY DEF Separate
  <2>3. Spared(memory, R, b.m) /\ b.val \intersect R = {} BY <1>2, <2>1, <2>2, BuildSpared
  <2> QED BY <1>2, <1>3, <1>4, <2>3, SparedReduced
<1>6. CASE ToSet(Rows[r].rhs) \intersect Carriers # {}
  <2> DEFINE Q == R \union AllOf(vals) \union b.val
             none == {}
  <2>1. Q = R \union AllOf(vals) \union b.val /\ none = {} OBVIOUS
  <2> HIDE DEF Q, none
  <2>2. /\ Spared(memory, none, b.m) /\ AsMeasured(memory, b.m)
        /\ Sealed(b.m, Q) /\ Measured(b.m) \subseteq Q /\ yylval \intersect Q = {}
        /\ \A k \in 1..Left(r) : yyss[k].sym \notin Carriers => yyss[k].val \intersect Q = {}
    <3>1. Joined(r, b.m, Q) BY <1>1, <1>6, <2>1, CarriedReduced
    <3> QED BY <2>1, <3>1 DEF Joined
  <2>3. StatementsHeld(b.m, new) BY <1>2, <1>3, <1>4, <2>2, HeldReduced
  <2>4. Rows[r].lhs \in Carriers BY <1>2, <1>6 DEF StatementsAreCounted
  <2>5. Separate(b.m, new, yylval, Q) BY <1>2, <1>3, <2>2, <2>4, SeparateReduced
  <2>6. Adding(b.m, length, column) BY <1>2, <2>2, AddingSame
  <2> QED BY <2>3, <2>5, <2>6 DEF Measuring
<1> QED BY <1>5, <1>6

LEMMA NumbersAre ==
  ASSUME NEW m, IsMemory(m), NEW n, NEW new, new = SetNumbers(m, n)
  PROVE  \A x \in Live(m) : new.heap[x].n = IF x \in DOMAIN n THEN n[x] ELSE m.heap[x].n
<1> DEFINE h == [y \in Live(m) |-> IF y \in DOMAIN n THEN [m.heap[y] EXCEPT !.n = n[y]] ELSE m.heap[y]]
<1>1. new = [m EXCEPT !.heap = h] BY DEF SetNumbers
<1>2. \A y \in Live(m) : y \notin DOMAIN n => h[y] = m.heap[y] OBVIOUS
<1> HIDE DEF h
<1>3. new.heap = h BY <1>1 DEF IsMemory
<1> SUFFICES ASSUME NEW x \in Live(m)
             PROVE  new.heap[x].n = IF x \in DOMAIN n THEN n[x] ELSE m.heap[x].n
  OBVIOUS
<1>4. CASE x \in DOMAIN n BY <1>4, NumberIs
<1>5. CASE x \notin DOMAIN n BY <1>2, <1>3, <1>5
<1> QED BY <1>4, <1>5

\* The last value of a row that measures a statement: a live statement without a length.
LEMMA LastStatement ==
  ASSUME StatementsAreCounted, IInv, StatementsHeld(memory, yyss), NEW r, OnTop(yyss, r),
         Rows[r].kind = "stmt", NEW vals, vals = Values(r)
  PROVE  /\ ToSet(Rows[r].rhs) \intersect Carriers # {} /\ Rows[r].lhs \in Carriers
         /\ Rows[r].lhs \notin StatementSymbols
         /\ \E x \in AllOf(vals) : /\ Last(vals) = {x} /\ x \in Live(memory) /\ x < memory.next
                                   /\ memory.heap[x].kind \in Statements
                                   /\ memory.heap[x].n = NotSet
<1> DEFINE rhs == Rows[r].rhs
           last == Len(rhs)
           sym == "statement"
<1>1. r \in DOMAIN Rows BY DEF OnTop
<1>2. rhs # <<>> /\ Last(rhs) = sym BY <1>1 DEF StatementsAreCounted
<1>3. AreOnTop(vals, r) /\ Tidy(memory, AllOf(vals)) BY RightApart
<1>4. /\ vals \in Seq(SUBSET Nat) /\ Len(vals) = last /\ last \in Nat
      /\ DOMAIN rhs = 1..last
      /\ \A p \in 1..Len(vals) : /\ Left(r) + p \in 1..Len(yyss)
                                 /\ vals[p] = yyss[Left(r) + p].val
                                 /\ yyss[Left(r) + p].sym = rhs[p]
  BY <1>3 DEF AreOnTop, AreValues
<1>5. last # 0
  <2> DEFINE S == STRING \ {""}
  <2>1. rhs \in Seq(S) BY <1>1, RowFacts
  <2> HIDE DEF S, rhs
  <2> QED BY <1>2, <2>1
<1>6. last \in 1..last /\ rhs[last] = sym /\ Last(vals) = vals[last]
  BY <1>2, <1>4, <1>5 DEF Last
<1>7. sym \in Carriers /\ sym \in StatementSymbols BY DEF Carriers, StatementSymbols
<1>8. rhs[last] \in ToSet(rhs) BY <1>4, <1>6 DEF ToSet
<1> HIDE DEF rhs, last, sym
<1>9. IsStatement(memory, Last(vals)) BY <1>4, <1>6, <1>7 DEF StatementsHeld
<1>10. PICK x \in Nat :
         /\ Last(vals) = {x} /\ x < memory.next
         /\ x \in Live(memory) => memory.heap[x].kind \in Statements /\ memory.heap[x].n = NotSet
  BY <1>9 DEF IsStatement
<1>11. x \in AllOf(vals) BY <1>4, <1>6, <1>10 DEF AllOf
<1>12. x \in Live(memory) BY <1>3, <1>11 DEF Tidy
<1>13. ToSet(Rows[r].rhs) \intersect Carriers # {} BY <1>6, <1>7, <1>8 DEF rhs
<1>14. Rows[r].lhs \in Carriers /\ Rows[r].lhs \notin StatementSymbols
  BY <1>1, <1>13 DEF StatementsAreCounted
<1> QED BY <1>10, <1>11, <1>12, <1>13, <1>14

\* A statement gets its length.
LEMMA StatementReduced ==
  ASSUME ActionsAreLinear, ListsAreTyped, StatementsAreCounted, IInv, NEW r, OnTop(yyss, r),
         Rows[r].kind = "stmt", NEW R, Separate(memory, yyss, yylval, R),
         StatementsHeld(memory, yyss), NEW length, NEW column, Adding(memory, length, column),
         NEW vals, vals = Values(r), NEW b, b = Build(memory, Rows[r].code, vals),
         NEW m, m = SetNumbers(b.m, [x \in Last(vals) |-> length]),
         NEW new, new = Reduced(r, b.val)
  PROVE  Measuring(m, new, yylval, 0, column)
<1> DEFINE V == AllOf(vals)
           Q == R \union V \union b.val
           none == {}
<1>1. ToSet(Rows[r].rhs) \intersect Carriers # {} /\ Rows[r].lhs \in Carriers
      /\ Rows[r].lhs \notin StatementSymbols
  BY LastStatement
<1>2. PICK x \in V : /\ Last(vals) = {x} /\ x \in Live(memory) /\ x < memory.next
                     /\ memory.heap[x].kind \in Statements /\ memory.heap[x].n = NotSet
  BY LastStatement
<1>3. Q = R \union AllOf(vals) \union b.val /\ none = {} /\ x \in Q OBVIOUS
<1>4. \A k \in 1..Left(r) : x \notin yyss[k].val
  <2>1. \A k \in 1..Left(r) : V \intersect yyss[k].val = {} BY RightApart
  <2> QED BY <1>2, <2>1
<1> HIDE DEF V, Q, none
<1>5. IsMemory(memory) /\ StackFits(yyss) BY MemoryIs DEF IInv
<1>6. b.val \in SUBSET Nat /\ \E U : Tidy(b.m, U) BY MadeApart
<1>7. PICK U : Tidy(b.m, U) BY <1>6
<1>8. IsMemory(b.m) BY <1>7 DEF Tidy
<1>9. /\ Spared(memory, none, b.m) /\ AsMeasured(memory, b.m) /\ Live(memory) \subseteq Live(b.m)
      /\ Sealed(b.m, Q) /\ Measured(b.m) \subseteq Q /\ yylval \intersect Q = {}
      /\ \A k \in 1..Left(r) : yyss[k].sym \notin Carriers => yyss[k].val \intersect Q = {}
  <2>1. Joined(r, b.m, Q) BY <1>1, <1>3, CarriedReduced
  <2> QED BY <1>3, <2>1 DEF Joined
<1>10. /\ x \in Live(b.m) /\ b.m.heap[x].kind \in Statements /\ b.m.heap[x].n = NotSet
  BY <1>2, <1>9 DEF Spared, Grew, Even
<1> DEFINE n == [y \in {x} |-> length]
<1>11. m = SetNumbers(b.m, n) BY <1>2
<1>12. \A y : y \in DOMAIN n <=> y = x OBVIOUS
<1>13. n[x] = length OBVIOUS
<1> HIDE DEF n
<1>14. /\ Tidy(m, U) /\ Live(m) = Live(b.m) /\ m.next = b.m.next
       /\ \A y, g : Field(m, y, g) = Field(b.m, y, g)
       /\ \A y \in Live(b.m) : m.heap[y].kind = b.m.heap[y].kind
  BY <1>7, <1>11, SetNumbersTidy
<1>15. \A y \in Live(b.m) : m.heap[y].n = IF y = x THEN length ELSE b.m.heap[y].n
  <2>1. \A y \in Live(b.m) : m.heap[y].n = IF y \in DOMAIN n THEN n[y] ELSE b.m.heap[y].n
    BY <1>8, <1>11, NumbersAre
  <2> QED BY <1>12, <1>13, <2>1
<1>16. length \in Nat /\ length # NotSet BY DEF Adding, NotSet
<1>17. Measured(m) = Measured(b.m) \union {x}
  <2>1. x \in Measured(m)
    <3>1. x \in Live(m) /\ m.heap[x].kind \in Statements BY <1>10, <1>14
    <3>2. m.heap[x].n # NotSet BY <1>10, <1>15, <1>16
    <3> QED BY <3>1, <3>2 DEF Measured
  <2>2. ASSUME NEW y \in Live(b.m), y # x PROVE y \in Measured(m) <=> y \in Measured(b.m)
    <3>1. m.heap[y].kind = b.m.heap[y].kind /\ y \in Live(m) BY <1>14
    <3>2. m.heap[y].n = b.m.heap[y].n BY <1>15, <2>2
    <3> QED BY <3>1, <3>2 DEF Measured
  <2>3. Measured(m) \subseteq Live(b.m) /\ Measured(b.m) \subseteq Live(b.m)
    BY <1>14 DEF Measured
  <2> QED BY <2>1, <2>2, <2>3
<1>18. x \notin Measured(b.m) BY <1>10 DEF Measured
<1>19. Adding(m, 0, column)
  <2>1. Adding(b.m, length, column) BY <1>5, <1>9, AddingSame
  <2>2. \A y \in Measured(b.m) : m.heap[y].n = b.m.heap[y].n BY <1>15, <1>18 DEF Measured
  <2>3. IsMemory(m) BY <1>14 DEF Tidy
  <2>4. m.heap[x].n = length BY <1>10, <1>15
  <2> QED BY <1>8, <1>17, <1>18, <2>1, <2>2, <2>3, <2>4, AddingOne
<1>20. Sealed(m, Q) BY <1>9, <1>14 DEF Sealed
<1>21. Measured(m) \subseteq Q BY <1>3, <1>9, <1>17
<1>22. Separate(m, new, yylval, Q)
  BY <1>1, <1>5, <1>6, <1>9, <1>20, <1>21, SeparateReduced
<1>23. StatementsHeld(m, new)
  <2>1. /\ Len(new) = Left(r) + 1 /\ \A k \in 1..Left(r) : new[k] = yyss[k]
        /\ new[Left(r) + 1].sym = Rows[r].lhs
    BY <1>5, <1>6, ReducedFits
  <2>2. Left(r) \in Nat /\ \A k \in 1..Left(r) : k \in 1..Len(yyss) BY <1>5, LeftFacts
  <2> SUFFICES ASSUME NEW k \in 1..Len(new), new[k].sym \in StatementSymbols
               PROVE  IsStatement(m, new[k].val)
    BY DEF StatementsHeld
  <2>3. k \in 1..Left(r) BY <1>1, <2>1, <2>2
  <2>4. new[k] = yyss[k] /\ k \in 1..Len(yyss) BY <2>1, <2>2, <2>3
  <2>5. IsStatement(memory, yyss[k].val) BY <2>4 DEF StatementsHeld
  <2>6. IsStatement(b.m, yyss[k].val) BY <1>5, <1>9, <2>5, StatementStays
  <2>7. PICK y \in Nat :
          /\ yyss[k].val = {y} /\ y < b.m.next
          /\ y \in Live(b.m) => b.m.heap[y].kind \in Statements /\ b.m.heap[y].n = NotSet
    BY <2>6 DEF IsStatement
  <2>8. y # x BY <1>4, <2>3, <2>7
  <2>9. y \in Live(m) => m.heap[y].kind \in Statements /\ m.heap[y].n = NotSet
    BY <1>14, <1>15, <2>7, <2>8
  <2> QED BY <1>14, <2>4, <2>7, <2>9 DEF IsStatement
<1> QED BY <1>19, <1>22, <1>23 DEF Measuring

-----------------------------------------------------------------------------
(* The invariant of the lengths.                                           *)

\* Nothing is put on top of input, so that what it has handed over needs no separate part.
LInv ==
  /\ pc \in {"called", "parsing"} =>
       /\ StatementsHeld(memory, yyss)
       /\ Last(yyss).sym # "input" => \E R : Separate(memory, yyss, yylval, R)
  /\ pc \in {"called", "parsing", "accepted"} => Adding(memory, string_length, total_column)

LEMMA InitLInv == Init => LInv
<1> SUFFICES ASSUME Init PROVE LInv
  OBVIOUS
<1> DEFINE none == {}
           start == {<<1, 0>>}
           cell == [sym |-> "start", val |-> none, items |-> start]
<1>1. /\ yyss = <<cell>> /\ memory = EmptyMemory /\ yylval = none
      /\ total_column = 0 /\ string_length = 0
  BY DEF Init
<1>2. cell.sym = "start" /\ cell.val = none OBVIOUS
<1> HIDE DEF cell
<1>3. Len(yyss) = 1 /\ yyss[1] = cell /\ Last(yyss) = cell BY <1>1 DEF Last
<1>4. Live(memory) = none BY <1>1 DEF Live, EmptyMemory
<1>5. Measured(memory) = none BY <1>4 DEF Measured
<1>6. StatementsHeld(memory, yyss)
  <2>1. "start" \notin StatementSymbols BY DEF StatementSymbols
  <2>2. \A k \in 1..Len(yyss) : yyss[k].sym \notin StatementSymbols BY <1>2, <1>3, <2>1
  <2> QED BY <2>2 DEF StatementsHeld
<1>7. Separate(memory, yyss, yylval, none)
  <2>1. Sealed(memory, none) BY DEF Sealed
  <2> QED BY <1>5, <2>1 DEF Separate
<1>8. Adding(memory, string_length, total_column)
  <2>1. IsFiniteSet(none) BY FS_EmptySet
  <2>2. Unfolds(memory, none) BY <2>1, TotalUnfolds
  <2>3. Total(memory, none) = 0 BY <2>2 DEF Unfolds
  <2> QED BY <1>1, <1>5, <2>3 DEF Adding
<1> QED BY <1>6, <1>7, <1>8 DEF LInv

\* The lexer allocates at most a string.
LEMMA ReadTokenMeasures == ASSUME IInv, LInv, pc = "parsing", ReadToken PROVE LInv'
<1>1. /\ StatementsHeld(memory, yyss) /\ Adding(memory, string_length, total_column)
      /\ Last(yyss).sym # "input" => \E R : Separate(memory, yyss, yylval, R)
  BY DEF LInv
<1>2. IsMemory(memory) BY MemoryIs
<1>3. PICK n \in {0, 1} :
        /\ total_column' = total_column + n /\ string_length' = string_length + n
        /\ \/ memory' = memory /\ yylval' = {}
           \/ memory' = NewString(memory) /\ yylval' = {memory.next}
  BY DEF ReadToken
<1>4. yyss' = yyss /\ pc' = pc BY DEF ReadToken
<1>5. ASSUME NEW R, Sealed(memory, R)
      PROVE  Spared(memory, R, memory') /\ yylval' \intersect R = {}
  BY <1>2, <1>3, <1>5, SparedSame, StringSpared
<1>6. AsMeasured(memory, memory')
  <2> DEFINE none == {}
  <2>1. Sealed(memory, none) BY DEF Sealed
  <2> HIDE DEF none
  <2>2. Grew(memory, memory') /\ Even(memory, memory') BY <1>5, <2>1 DEF Spared
  <2>3. Live(memory) \subseteq Live(memory')
    <3>1. CASE memory' = memory BY <3>1
    <3>2. CASE memory' = NewString(memory)
      <4> DEFINE new == NewString(memory)
      <4>1. \E kind, type, f : new = New(memory, kind, type, f) BY Zenon DEF NewString
      <4> HIDE DEF new
      <4>2. Live(new) = Live(memory) \union {memory.next} BY <1>2, <4>1, NewLive
      <4> QED BY <3>2, <4>2 DEF new
    <3> QED BY <1>3, <3>1, <3>2
  <2>4. Measured(memory) \subseteq Live(memory') BY <2>3 DEF Measured
  <2> QED BY <1>2, <2>2, <2>4, MeasuredSame
<1>7. Adding(memory', string_length', total_column')
  <2>1. Adding(memory', string_length, total_column) BY <1>1, <1>2, <1>6, AddingSame
  <2>2. IsMemory(memory')
    <3> DEFINE none == {}
    <3>1. Sealed(memory, none) BY DEF Sealed
    <3> HIDE DEF none
    <3> QED BY <1>5, <3>1 DEF Spared, Grew
  <2>3. n \in Nat OBVIOUS
  <2> DEFINE m == memory'
  <2> HIDE DEF m
  <2>4. Adding(m, string_length + n, total_column + n) BY <2>1, <2>2, <2>3, AddingMore DEF m
  <2> QED BY <1>3, <2>4 DEF m
<1>8. StatementsHeld(memory', yyss)
  <2> DEFINE none == {}
  <2>1. Sealed(memory, none) BY DEF Sealed
  <2> HIDE DEF none
  <2>2. Spared(memory, none, memory') BY <1>5, <2>1
  <2> QED BY <1>1, <1>2, <2>2, StatementStays DEF StatementsHeld
<1>9. ASSUME Last(yyss).sym # "input" PROVE \E R : Separate(memory', yyss, yylval', R)
  <2>1. PICK R : Separate(memory, yyss, yylval, R) BY <1>1, <1>9
  <2>2. /\ Sealed(memory, R) /\ Measured(memory) \subseteq R
        /\ \A k \in 1..Len(yyss) : yyss[k].sym \notin Carriers => yyss[k].val \intersect R = {}
    BY <2>1 DEF Separate
  <2>3. Spared(memory, R, memory') /\ yylval' \intersect R = {} BY <1>5, <2>2
  <2>4. Sealed(memory', R) /\ Measured(memory') \subseteq R
    BY <1>6, <2>2, <2>3 DEF Spared, AsMeasured
  <2>5. Separate(memory', yyss, yylval', R) BY <2>2, <2>3, <2>4 DEF Separate
  <2> QED BY <2>5
<1> QED BY <1>4, <1>7, <1>8, <1>9 DEF LInv

\* A token goes onto the stack, or the end of the text ends the parse.
LEMMA ShiftMeasures ==
  ASSUME StatementsAreCounted, IInv, PInv, LInv, pc = "parsing", Decision.do = "shift", Shift
  PROVE  LInv'
<1>1. /\ StatementsHeld(memory, yyss) /\ Adding(memory, string_length, total_column)
      /\ Last(yyss).sym # "input" => \E R : Separate(memory, yyss, yylval, R)
  BY DEF LInv
<1>2. /\ memory' = memory /\ string_length' = string_length /\ total_column' = total_column
      /\ yylval' = {}
  BY DEF Shift
<1>3. CASE yychar = "EOF"
  <2>1. pc' = "accepted" BY <1>3 DEF Shift
  <2> QED BY <1>1, <1>2, <2>1 DEF LInv
<1>4. CASE yychar # "EOF"
  <2>1. /\ StackFits(yyss) /\ yyss # <<>> /\ StackAdvances(yyss) BY DEF IInv, PInv
  <2>2. yychar \in Terminals /\ Last(yyss).sym # "input" BY <1>4, <2>1, ShiftFacts
  <2>3. yychar \notin StatementSymbols BY <2>2 DEF StatementsAreCounted, Terminals
  <2> DEFINE cell == [sym |-> yychar, val |-> yylval, items |-> Goto(Last(yyss).items, yychar)]
             new == Append(yyss, cell)
  <2>4. yyss' = new /\ pc' = pc BY <1>4 DEF Shift
  <2>5. cell.sym = yychar /\ cell.val = yylval OBVIOUS
  <2> HIDE DEF cell
  <2>6. yyss \in Seq(Cells) /\ Len(yyss) \in Nat BY <2>1, TopFacts DEF StackFits
  <2>7. /\ Len(new) = Len(yyss) + 1 /\ new[Len(yyss) + 1] = cell
        /\ \A k \in 1..Len(yyss) : new[k] = yyss[k]
    <3> DEFINE U == Cells \union {cell}
    <3>1. yyss \in Seq(U) /\ cell \in U BY <2>6
    <3> HIDE DEF U
    <3> QED BY <3>1
  <2> HIDE DEF new
  <2>8. \A k \in 1..Len(new) : k = Len(yyss) + 1 \/ k \in 1..Len(yyss) BY <2>6, <2>7
  <2>9. StatementsHeld(memory, new)
    <3> SUFFICES ASSUME NEW k \in 1..Len(new), new[k].sym \in StatementSymbols
                 PROVE  IsStatement(memory, new[k].val)
      BY DEF StatementsHeld
    <3>1. k \in 1..Len(yyss) /\ new[k] = yyss[k] BY <2>3, <2>5, <2>7, <2>8
    <3> QED BY <1>1, <3>1 DEF StatementsHeld
  <2>10. PICK R : Separate(memory, yyss, yylval, R) BY <1>1, <2>2
  <2>11. Separate(memory, new, {}, R)
    <3>1. /\ Sealed(memory, R) /\ Measured(memory) \subseteq R /\ yylval \intersect R = {}
          /\ \A k \in 1..Len(yyss) : yyss[k].sym \notin Carriers => yyss[k].val \intersect R = {}
      BY <2>10 DEF Separate
    <3>2. \A k \in 1..Len(new) : new[k].sym \notin Carriers => new[k].val \intersect R = {}
      BY <2>5, <2>7, <2>8, <3>1
    <3> QED BY <3>1, <3>2 DEF Separate
  <2> QED BY <1>1, <1>2, <2>4, <2>9, <2>11 DEF LInv
<1> QED BY <1>3, <1>4

\* A reduction that goes on leaves what Measuring says.
LEMMA ReplaceMeasures ==
  ASSUME NEW r, NEW m, NEW val, Replace(r, Done(m, val)),
         NEW new, new = Reduced(r, val), pc = "parsing", yylval' = yylval,
         NEW length, NEW column, length = string_length', column = total_column',
         Measuring(m, new, yylval, length, column)
  PROVE  LInv'
<1>1. memory' = m /\ yyss' = new /\ pc' \in {"parsing", "undefined"}
  BY DoneParts DEF Replace, Proceed
<1>2. CASE pc' = "undefined" BY <1>2 DEF LInv
<1>3. CASE pc' = "parsing"
  <2>1. StatementsHeld(memory', yyss') /\ \E R : Separate(memory', yyss', yylval', R)
    BY <1>1 DEF Measuring
  <2>2. Adding(memory', string_length', total_column') BY <1>1 DEF Measuring
  <2> QED BY <1>3, <2>1, <2>2 DEF LInv
<1> QED BY <1>1, <1>2, <1>3

\* What is known where a row is reduced.
LEMMA BeforeReduction ==
  ASSUME IInv, PInv, LInv, pc = "parsing", Decision.do = "reduce", NEW r, r = Decision.row
  PROVE  /\ OnTop(yyss, r) /\ r \in DOMAIN Rows /\ StackFits(yyss) /\ IsMemory(memory)
         /\ StatementsHeld(memory, yyss) /\ Adding(memory, string_length, total_column)
         /\ \E R : Separate(memory, yyss, yylval, R)
<1>1. StackFits(yyss) /\ yyss # <<>> /\ StackAdvances(yyss) BY DEF IInv, PInv
<1>2. OnTop(yyss, r) /\ Last(yyss).sym # "input" BY <1>1, ReductionFacts
<1>3. r \in DOMAIN Rows BY <1>2 DEF OnTop
<1> QED BY <1>1, <1>2, <1>3, MemoryIs DEF LInv

LEMMA ReduceNodeMeasures ==
  ASSUME ActionsAreLinear, ListsAreTyped, StatementsAreCounted, IInv, PInv, LInv, pc = "parsing",
         Decision.do = "reduce", NEW r, r = Decision.row, ReduceNode(r)
  PROVE  LInv'
<1> DEFINE b == Build(memory, Rows[r].code, Values(r))
           new == Reduced(r, b.val)
           length == string_length
           column == total_column
<1>1. Rows[r].kind = "node" /\ Replace(r, b) BY DEF ReduceNode
<1>2. b = Done(b.m, b.val) BY Zenon DEF Build, Done
<1>3. /\ yylval' = yylval /\ length = string_length' /\ column = total_column'
  BY DEF ReduceNode
<1>4. b = Build(memory, Rows[r].code, Values(r)) /\ new = Reduced(r, b.val) OBVIOUS
<1>5. /\ OnTop(yyss, r) /\ StatementsHeld(memory, yyss) /\ Adding(memory, length, column)
      /\ \E R : Separate(memory, yyss, yylval, R)
  BY BeforeReduction
<1> HIDE DEF b, new, length, column
<1>6. Measuring(b.m, new, yylval, length, column) BY <1>1, <1>4, <1>5, NodeReduced
<1>7. Replace(r, Done(b.m, b.val)) BY <1>1, <1>2
<1> QED BY <1>3, <1>4, <1>6, <1>7, ReplaceMeasures

LEMMA ReduceStatementMeasures ==
  ASSUME ActionsAreLinear, ListsAreTyped, StatementsAreCounted, IInv, PInv, LInv, pc = "parsing",
         Decision.do = "reduce", NEW r, r = Decision.row, ReduceStatement(r)
  PROVE  LInv'
<1> DEFINE vals == Values(r)
           b == Build(memory, Rows[r].code, vals)
           length == string_length
           column == total_column
           m == SetNumbers(b.m, [x \in Last(vals) |-> length])
           new == Reduced(r, b.val)
           none == 0
<1>1. Rows[r].kind = "stmt" /\ Replace(r, Statement(r, vals)) BY DEF ReduceStatement
<1>2. Statement(r, vals) = Done(m, b.val) BY Zenon DEF Statement
<1>3. /\ yylval' = yylval /\ none = string_length' /\ column = total_column'
  BY DEF ReduceStatement
<1>4. /\ vals = Values(r) /\ b = Build(memory, Rows[r].code, vals) /\ new = Reduced(r, b.val)
      /\ m = SetNumbers(b.m, [x \in Last(vals) |-> length]) /\ none = 0
  OBVIOUS
<1>5. /\ OnTop(yyss, r) /\ StatementsHeld(memory, yyss) /\ Adding(memory, length, column)
      /\ \E R : Separate(memory, yyss, yylval, R)
  BY BeforeReduction
<1> HIDE DEF vals, b, new, length, column, m, none
<1>6. Measuring(m, new, yylval, none, column)
  <2>1. Measuring(m, new, yylval, 0, column) BY <1>1, <1>4, <1>5, StatementReduced
  <2> QED BY <1>4, <2>1
<1>7. Replace(r, Done(m, b.val)) BY <1>1, <1>2
<1> QED BY <1>3, <1>4, <1>6, <1>7, ReplaceMeasures

\* A parameter is new, and no statement.
LEMMA ReduceParameterMeasures ==
  ASSUME StatementsAreCounted, IInv, PInv, LInv, pc = "parsing",
         Decision.do = "reduce", NEW r, r = Decision.row, ReduceParameter(r)
  PROVE  LInv'
<1> DEFINE f == <<>>
           done == Make(memory, "Expr", "kExprParameter", f)
           m == done.m
           val == done.val
           new == Reduced(r, val)
           length == string_length
           column == total_column
<1>1. Rows[r].kind = "param" /\ Replace(r, done) BY DEF ReduceParameter
<1>2. done = Done(m, val) /\ val = {memory.next} BY DoneParts DEF Make
<1>3. /\ yylval' = yylval /\ length = string_length' /\ column = total_column'
  BY DEF ReduceParameter
<1>4. new = Reduced(r, val) /\ m = done.m /\ val = done.val OBVIOUS
<1>5. /\ OnTop(yyss, r) /\ r \in DOMAIN Rows /\ StackFits(yyss) /\ IsMemory(memory)
      /\ StatementsHeld(memory, yyss) /\ Adding(memory, length, column)
      /\ \E R : Separate(memory, yyss, yylval, R)
  BY BeforeReduction
<1>6. PICK R : Separate(memory, yyss, yylval, R) BY <1>5
<1>7. Sealed(memory, R) BY <1>6 DEF Separate
<1>8. \A g \in DOMAIN f : f[g] \intersect R = {} OBVIOUS
<1>9. done = Make(memory, "Expr", "kExprParameter", f) OBVIOUS
<1> HIDE DEF f, done, m, val, new, length, column
<1>10. Spared(memory, R, m) /\ val \intersect R = {}
  BY <1>4, <1>5, <1>7, <1>8, <1>9, MakeSpared
<1>11. val \in SUBSET Nat BY <1>2, <1>5 DEF IsMemory
<1>12. Rows[r].lhs \notin StatementSymbols BY <1>1, <1>5 DEF StatementsAreCounted
<1>13. Measuring(m, new, yylval, length, column)
  BY <1>4, <1>5, <1>6, <1>10, <1>11, <1>12, SparedReduced
<1>14. Replace(r, Done(m, val)) BY <1>1, <1>2
<1> QED BY <1>3, <1>4, <1>13, <1>14, ReplaceMeasures

\* Numbering the parameters and deleting the vector leave the statements as they were.
LEMMA InputMeasured ==
  ASSUME ListsAreTyped, IInv, NEW r, OnTop(yyss, r), Rows[r].kind = "input",
         param_list \in Seq(Nat), Expressions(memory, param_list),
         NEW v, v = Values(r)[1], NEW new, new = Delete(Numbered, v)
  PROVE  /\ IsMemory(new) /\ new.next = memory.next /\ AsMeasured(memory, new)
         /\ \A x \in Live(new) : /\ x \in Live(memory) /\ new.heap[x].kind = memory.heap[x].kind
                                 /\ new.heap[x].kind \in Statements =>
                                      new.heap[x].n = memory.heap[x].n
<1> DEFINE N == Numbered
<1>1. new = Delete(N, v) OBVIOUS
<1>2. \E nums : N = SetNumbers(memory, nums) /\ DOMAIN nums = ToSet(param_list)
  <2> DEFINE index(p) == CHOOSE k \in DOMAIN param_list : param_list[k] = p
             given == [p \in ToSet(param_list) |-> index(p) - 1]
  <2>1. N = SetNumbers(memory, given) BY DEF Numbered
  <2>2. DOMAIN given = ToSet(param_list) OBVIOUS
  <2> HIDE DEF N, given
  <2> QED BY <2>1, <2>2
<1>3. v \subseteq Live(memory) /\ \A x \in v : memory.heap[x].kind = "vector" BY InputVector
<1>4. PICK R : Tidy(memory, R) BY DEF IInv, Owners
<1> HIDE DEF N
<1>5. PICK nums : N = SetNumbers(memory, nums) /\ DOMAIN nums = ToSet(param_list) BY <1>2
<1>6. /\ Tidy(N, R) /\ Live(N) = Live(memory) /\ N.next = memory.next
      /\ \A x \in Live(memory) : N.heap[x].kind = memory.heap[x].kind
  BY <1>4, <1>5, SetNumbersTidy
<1>7. IsMemory(N) /\ IsMemory(memory) BY <1>4, <1>6 DEF Tidy
<1>8. ASSUME NEW x \in Live(memory), memory.heap[x].kind \in Statements
      PROVE  N.heap[x].n = memory.heap[x].n /\ x \notin v
  <2>1. memory.heap[x].kind # "Expr" /\ memory.heap[x].kind # "vector" BY <1>8 DEF Statements
  <2>2. x \notin ToSet(param_list)
    <3> SUFFICES ASSUME x \in ToSet(param_list) PROVE FALSE
      OBVIOUS
    <3>1. DOMAIN param_list = 1..Len(param_list) OBVIOUS
    <3>2. PICK k \in 1..Len(param_list) : param_list[k] = x BY <3>1 DEF ToSet
    <3> QED BY <1>8, <2>1, <3>2 DEF Expressions
  <2>3. N.heap[x].n = memory.heap[x].n BY <1>5, <1>7, <2>2, NumbersAre
  <2> QED BY <1>3, <2>1, <2>3
<1>9. /\ IsMemory(new) /\ new.next = N.next /\ Live(new) = Live(N) \ v
      /\ \A x \in Live(new) : new.heap[x] = N.heap[x]
  <2>1. v \subseteq Live(N) /\ v \intersect Live(N) = v BY <1>3, <1>6
  <2>2. \A x \in v : N.heap[x].kind \in Plain BY <1>3, <1>6 DEF Plain
  <2>3. Doomed(N, v) = v BY <2>1, <2>2, PlainDoomed
  <2>4. Leaves(N, v, new) BY <1>1, <1>7, DeleteLeaves
  <2> QED BY <2>1, <2>3, <2>4 DEF Leaves
<1>10. ASSUME NEW x \in Live(new)
       PROVE  /\ x \in Live(memory) /\ new.heap[x].kind = memory.heap[x].kind
              /\ new.heap[x].kind \in Statements => new.heap[x].n = memory.heap[x].n
  <2>1. x \in Live(memory) /\ new.heap[x].kind = memory.heap[x].kind BY <1>6, <1>9
  <2>2. new.heap[x].n = N.heap[x].n BY <1>9
  <2> QED BY <1>8, <2>1, <2>2
<1>11. ASSUME NEW x \in Measured(new) PROVE x \in Measured(memory)
  BY <1>10 DEF Measured
<1>12. ASSUME NEW x \in Measured(memory) PROVE x \in Measured(new) /\ new.heap[x].n = memory.heap[x].n
  <2>1. /\ x \in Live(memory) /\ memory.heap[x].kind \in Statements /\ memory.heap[x].n # NotSet
    BY DEF Measured
  <2>2. x \in Live(new) BY <1>6, <1>8, <1>9, <2>1
  <2> QED BY <1>10, <2>1, <2>2 DEF Measured
<1>13. AsMeasured(memory, new) BY <1>11, <1>12 DEF AsMeasured
<1> QED BY <1>6, <1>9, <1>10, <1>13

\* The statements are handed to the result with their lengths.
LEMMA ReduceInputMeasures ==
  ASSUME ListsAreTyped, StatementsAreCounted, IInv, PInv, LInv, pc = "parsing",
         Decision.do = "reduce", NEW r, r = Decision.row, ReduceInput(r)
  PROVE  LInv'
<1> DEFINE val == {}
           v == Values(r)[1]
           d == Delete(Numbered, v)
           m == IF ToSet(param_list) \subseteq Live(memory) THEN d ELSE Faulted(d, "use after free")
           new == Reduced(r, val)
           length == string_length
           column == total_column
<1>1. Rows[r].kind = "input" /\ Replace(r, Done(m, val)) BY Zenon DEF ReduceInput
<1>2. string_length' = length /\ total_column' = column BY DEF ReduceInput
<1>3. v = Values(r)[1] /\ d = Delete(Numbered, v) /\ new = Reduced(r, val) /\ val = {} OBVIOUS
<1>4. /\ OnTop(yyss, r) /\ r \in DOMAIN Rows /\ StackFits(yyss) /\ IsMemory(memory)
      /\ StatementsHeld(memory, yyss) /\ Adding(memory, length, column)
  BY BeforeReduction
<1>5. /\ param_list \in Seq(Nat) /\ Expressions(memory, param_list) /\ StackAdvances(yyss)
      /\ yyss # <<>>
  BY DEF PInv, IInv
<1> HIDE DEF v, d, new, val, length, column
<1>6. /\ memory' = m /\ yyss' = new
      /\ pc' = "undefined" \/ (pc' = "parsing" /\ m.fault = "none")
  <2> HIDE DEF m
  <2> QED BY <1>1, <1>3, DoneParts DEF Replace, Proceed
<1>7. /\ IsMemory(d) /\ d.next = memory.next /\ AsMeasured(memory, d)
      /\ \A x \in Live(d) : /\ x \in Live(memory) /\ d.heap[x].kind = memory.heap[x].kind
                            /\ d.heap[x].kind \in Statements => d.heap[x].n = memory.heap[x].n
  BY <1>1, <1>3, <1>4, <1>5, InputMeasured
<1>8. CASE pc' = "undefined" BY <1>8 DEF LInv
<1>9. CASE pc' = "parsing" /\ m.fault = "none"
  <2>1. m = d
    <3> SUFFICES ASSUME m = Faulted(d, "use after free") PROVE FALSE
      OBVIOUS
    <3> HIDE DEF m
    <3>1. m.fault = "use after free" BY <1>7 DEF Faulted, IsMemory
    <3> QED BY <1>9, <3>1
  <2> HIDE DEF m
  <2>2. Adding(d, length, column) BY <1>4, <1>7, AddingSame
  <2>3. Rows[r].lhs = "input" BY <1>1, <1>4, EntryAssumption
  <2>4. Last(new).sym = "input"
    <3>1. Last(yyss).sym # "input" /\ (Last(yyss).sym = "?" => Rows[r].kind = "param")
      BY <1>1, <1>4, <1>5, ReductionFacts
    <3> QED BY <1>3, <1>4, <1>5, <2>3, <3>1, ReducedAdvances
  <2>5. StatementsHeld(d, new)
    <3>1. /\ Len(new) = Left(r) + 1 /\ \A k \in 1..Left(r) : new[k] = yyss[k]
          /\ new[Left(r) + 1].sym = Rows[r].lhs
      <4>1. val \in SUBSET Nat BY <1>3
      <4> QED BY <1>3, <1>4, <4>1, ReducedFits
    <3>2. Left(r) \in Nat /\ \A k \in 1..Left(r) : k \in 1..Len(yyss) BY <1>4, LeftFacts
    <3> SUFFICES ASSUME NEW k \in 1..Len(new), new[k].sym \in StatementSymbols
                 PROVE  IsStatement(d, new[k].val)
      BY DEF StatementsHeld
    <3>3. k \in 1..Left(r)
      <4>1. "input" \notin StatementSymbols BY DEF StatementSymbols
      <4> QED BY <2>3, <3>1, <3>2, <4>1
    <3>4. new[k] = yyss[k] /\ k \in 1..Len(yyss) BY <3>1, <3>2, <3>3
    <3>5. IsStatement(memory, yyss[k].val) BY <1>4, <3>4 DEF StatementsHeld
    <3>6. PICK y \in Nat :
            /\ yyss[k].val = {y} /\ y < memory.next
            /\ y \in Live(memory) => memory.heap[y].kind \in Statements /\ memory.heap[y].n = NotSet
      BY <3>5 DEF IsStatement
    <3>7. y \in Live(d) => d.heap[y].kind \in Statements /\ d.heap[y].n = NotSet BY <1>7, <3>6
    <3> QED BY <1>7, <3>4, <3>6, <3>7 DEF IsStatement
  <2> QED BY <1>2, <1>6, <1>9, <2>1, <2>2, <2>4, <2>5 DEF LInv
<1> QED BY <1>6, <1>8, <1>9

\* Nothing is promised of the lengths after a parse that has not succeeded.
LEMMA EndedMeasures ==
  ASSUME pc' \in {"aborted", "destroyed", "undefined"}
  PROVE  LInv'
BY DEF LInv

LEMMA NextLInv ==
  ASSUME ActionsAreLinear, ListsAreTyped, StatementsAreCounted, IInv, PInv, LInv, [Next]_vars
  PROVE  LInv'
<1>1. CASE Call
  <2>1. /\ UNCHANGED <<yylval, yyss, memory, total_column, string_length>>
        /\ pc = "called" /\ pc' = "parsing"
    BY <1>1 DEF Call
  <2> QED BY <2>1 DEF LInv
<1>2. CASE Parse
  <2> DEFINE step == Decision
  <2>1. pc = "parsing" /\ step = Decision BY <1>2 DEF Parse
  <2> HIDE DEF step
  <2>2. CASE Follow(step)
    <3>1. CASE step.do = "read" /\ ReadToken BY <2>1, <3>1, ReadTokenMeasures
    <3>2. CASE step.do = "shift" /\ Shift BY <2>1, <3>2, ShiftMeasures
    <3>3. CASE step.do = "reduce" /\ Reduce(step.row)
      <4> DEFINE r == step.row
      <4>1. ReduceNode(r) \/ ReduceParameter(r) \/ ReduceStatement(r) \/ ReduceInput(r)
        BY <3>3 DEF Reduce
      <4>2. Decision.do = "reduce" /\ r = Decision.row BY <2>1, <3>3
      <4> HIDE DEF r
      <4>3. CASE ReduceNode(r) BY <2>1, <4>2, <4>3, ReduceNodeMeasures
      <4>4. CASE ReduceParameter(r) BY <2>1, <4>2, <4>4, ReduceParameterMeasures
      <4>5. CASE ReduceStatement(r) BY <2>1, <4>2, <4>5, ReduceStatementMeasures
      <4>6. CASE ReduceInput(r) BY <2>1, <4>2, <4>6, ReduceInputMeasures
      <4> QED BY <4>1, <4>3, <4>4, <4>5, <4>6
    <3>4. CASE step.do = "error" /\ SyntaxError
      <4>1. pc' \in {"aborted", "undefined"} BY <3>4 DEF SyntaxError, Abandon
      <4> QED BY <4>1, EndedMeasures
    <3> QED BY <2>2, <3>1, <3>2, <3>3, <3>4 DEF Follow
  <2>3. CASE StackExhausted
    <3>1. pc' \in {"aborted", "undefined"} BY <2>3 DEF StackExhausted, Abandon
    <3> QED BY <3>1, EndedMeasures
  <2> QED BY <1>2, <2>2, <2>3 DEF Parse, step
<1>3. CASE DestroyResult
  <2>1. pc' \in {"destroyed", "undefined"} BY <1>3 DEF DestroyResult
  <2> QED BY <2>1, EndedMeasures
<1>4. CASE UNCHANGED vars
  <2>1. UNCHANGED <<yylval, yyss, memory, total_column, string_length, pc>> BY <1>4 DEF vars
  <2> QED BY <2>1 DEF LInv
<1> QED BY <1>1, <1>2, <1>3, <1>4 DEF Next, Finished

LEMMA InvariantLengths == LInv => LengthsAddUp
<1> SUFFICES ASSUME LInv, pc \in {"parsing", "accepted"} PROVE LengthsAddUp
  BY DEF LengthsAddUp
<1>1. Total(memory, Measured(memory)) + string_length = total_column BY DEF LInv, Adding
<1> QED BY <1>1, Zenon DEF LengthsAddUp, Total, Measured

\* The lengths of the statements, those in the body of a trigger included, and the characters
\* read since the last one ended add up to what the lexer has consumed (statement_list in
\* bison_parser.y, stringLength): for every text, all rows that keep the static discipline and
\* every depth of the stack, so that every character belongs to one statement at most.
THEOREM StatementsMeasureText == Spec => []LengthsAddUp
<1>1. Init => IInv /\ PInv /\ LInv BY InitIInv, InitPInv, InitLInv
<1>2. (IInv /\ PInv /\ LInv) /\ [Next]_vars => (IInv /\ PInv /\ LInv)'
  BY ActionsAssumption, NextIInv, NextPInv, NextLInv
<1>3. IInv /\ PInv /\ LInv => LengthsAddUp BY InvariantLengths
<1> QED BY <1>1, <1>2, <1>3, PTL DEF Spec
=============================================================================
