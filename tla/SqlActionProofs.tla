--------------------------- MODULE SqlActionProofs ---------------------------
(***************************************************************************)
(* First the memory of SqlHeap: what allocating, assigning and deleting do *)
(* to a memory in which every allocation has at most one owner. Then the   *)
(* semantic actions, for any rows that keep the static discipline          *)
(* ActionsAreLinear and ListsAreTyped: what an instruction, and then all   *)
(* instructions of a row, make of such a memory.                           *)
(***************************************************************************)
EXTENDS SqlParser, NaturalSets, FiniteSetTheorems, SequenceTheorems

-----------------------------------------------------------------------------
(* Saturation: growing a set until a function adds nothing to it.          *)

\* f grows a subset of L by F.
Saturates(f, F, L) == f = [T \in SUBSET L |-> IF F[T] \subseteq T THEN T ELSE f[T \union F[T]]]

\* The recursive function that saturates exists.
LEMMA SaturationExists ==
  ASSUME NEW L, NEW F \in [SUBSET L -> SUBSET L],
         \A T, U \in SUBSET L : T \subseteq U => F[T] \subseteq F[U]
  PROVE  \E f : Saturates(f, F, L)
<1> DEFINE Above(T) == {U \in SUBSET L : T \subseteq U /\ F[U] \subseteq U}
           f == [T \in SUBSET L |-> {z \in L : \A U \in Above(T) : z \in U}]
<1>1. ASSUME NEW T \in SUBSET L
      PROVE  f[T] = IF F[T] \subseteq T THEN T ELSE f[T \union F[T]]
  <2>1. CASE F[T] \subseteq T
    <3>1. T \in Above(T) BY <2>1
    <3> QED BY <2>1, <3>1
  <2>2. CASE ~(F[T] \subseteq T)
    <3>1. T \union F[T] \in SUBSET L OBVIOUS
    <3>2. Above(T) = Above(T \union F[T])
      <4>1. ASSUME NEW U \in Above(T) PROVE T \union F[T] \subseteq U
        OBVIOUS
      <4> QED BY <4>1
    <3> QED BY <2>2, <3>1, <3>2
  <2> QED BY <2>1, <2>2
<1>2. f = [T \in SUBSET L |-> IF F[T] \subseteq T THEN T ELSE f[T \union F[T]]]
  <2> HIDE DEF f
  <2>1. f = [T \in SUBSET L |-> f[T]] BY DEF f
  <2> QED BY <1>1, <2>1
<1> QED BY <1>2 DEF Saturates

\* It ends in a set to which nothing is added, and which holds nothing that was not added.
LEMMA Saturation ==
  ASSUME NEW L, IsFiniteSet(L), NEW F \in [SUBSET L -> SUBSET L],
         \A T, U \in SUBSET L : T \subseteq U => F[T] \subseteq F[U],
         NEW f, Saturates(f, F, L),
         NEW S \in SUBSET L
  PROVE  /\ S \subseteq f[S] /\ f[S] \subseteq L
         /\ F[f[S]] \subseteq f[S]
         /\ \A z \in f[S] \ S : z \in F[f[S]]
<1> DEFINE Good(T) == /\ T \subseteq f[T] /\ f[T] \in SUBSET L
                      /\ F[f[T]] \subseteq f[T]
                      /\ \A z \in f[T] \ T : z \in F[f[T]]
           Rest == {T \in SUBSET L : ~Good(L \ T)}
           R == StrictSubsetOrdering(L)
<1>1. IsWellFoundedOn(R, SUBSET L)
  <2>1. FiniteSubsetsOf(L) = SUBSET L BY FS_FiniteSubsetsOfFinite
  <2>2. IsWellFoundedOn(R, FiniteSubsetsOf(L)) BY FS_StrictSubsetOrderingWellFounded
  <2> HIDE DEF R
  <2> QED BY <2>1, <2>2
<1>2. ASSUME NEW T \in SUBSET L PROVE f[T] = IF F[T] \subseteq T THEN T ELSE f[T \union F[T]]
  BY DEF Saturates
<1>3. ASSUME NEW T \in SUBSET L, F[T] \subseteq T \/ Good(T \union F[T]) PROVE Good(T)
  <2>1. CASE F[T] \subseteq T BY <1>2, <2>1
  <2>2. CASE ~(F[T] \subseteq T) /\ Good(T \union F[T])
    <3>1. f[T] = f[T \union F[T]] BY <1>2, <2>2
    <3>2. F[T] \subseteq F[f[T]] BY <2>2, <3>1
    <3> QED BY <2>2, <3>1, <3>2
  <2> QED BY <1>3, <2>1, <2>2
<1>4. Rest = {}
  <2> SUFFICES ASSUME Rest # {} PROVE FALSE
    OBVIOUS
  <2>1. PICK C \in Rest : \A B \in Rest : ~(<<B, C>> \in R)
    <3>1. Rest \subseteq SUBSET L OBVIOUS
    <3> HIDE DEF Rest, R
    <3> QED BY <1>1, <3>1, WFMin
  <2> DEFINE T == L \ C
             U == T \union F[T]
             B == L \ U
  <2>2. T \in SUBSET L /\ U \in SUBSET L /\ B \in SUBSET L /\ C \in SUBSET L /\ C = L \ T
    OBVIOUS
  <2>3. ~Good(T) OBVIOUS
  <2>4. ~(F[T] \subseteq T) /\ ~Good(U)
    <3> HIDE DEF Good, T
    <3> QED BY <1>3, <2>2, <2>3
  <2>5. L \ B = U BY <2>2
  <2>6. B \in Rest
    <3> HIDE DEF Good, T, U, B
    <3> QED BY <2>2, <2>4, <2>5
  <2>7. B \subseteq C /\ B # C BY <2>2, <2>4
  <2>8. <<B, C>> \in R
    <3> HIDE DEF T, U, B, Good
    <3> QED BY <2>2, <2>7 DEF StrictSubsetOrdering
  <2> QED BY <2>1, <2>6, <2>8
<1>5. Good(S)
  <2> DEFINE C == L \ S
  <2>1. C \in SUBSET L /\ L \ C = S OBVIOUS
  <2> HIDE DEF Good, C
  <2>2. Good(L \ C) BY <1>4, <2>1
  <2> QED BY <2>1, <2>2
<1> QED BY <1>5

\* It ends within every set that holds S and to which the function adds nothing.
LEMMA SaturationLeast ==
  ASSUME NEW L, IsFiniteSet(L), NEW F \in [SUBSET L -> SUBSET L],
         NEW f, Saturates(f, F, L),
         NEW U \in SUBSET L, \A T \in SUBSET U : F[T] \subseteq U,
         NEW S \in SUBSET U
  PROVE  f[S] \subseteq U
<1> DEFINE Rest == {C \in SUBSET L : L \ C \subseteq U /\ ~(f[L \ C] \subseteq U)}
           R == StrictSubsetOrdering(L)
<1>1. IsWellFoundedOn(R, SUBSET L)
  <2>1. FiniteSubsetsOf(L) = SUBSET L BY FS_FiniteSubsetsOfFinite
  <2>2. IsWellFoundedOn(R, FiniteSubsetsOf(L)) BY FS_StrictSubsetOrderingWellFounded
  <2> HIDE DEF R
  <2> QED BY <2>1, <2>2
<1>2. ASSUME NEW T \in SUBSET L PROVE f[T] = IF F[T] \subseteq T THEN T ELSE f[T \union F[T]]
  BY DEF Saturates
<1>3. Rest = {}
  <2> SUFFICES ASSUME Rest # {} PROVE FALSE
    OBVIOUS
  <2>1. PICK C \in Rest : \A B \in Rest : ~(<<B, C>> \in R)
    <3>1. Rest \subseteq SUBSET L OBVIOUS
    <3> HIDE DEF Rest, R
    <3> QED BY <1>1, <3>1, WFMin
  <2> DEFINE T == L \ C
             V == T \union F[T]
             B == L \ V
  <2>2. T \in SUBSET L /\ T \in SUBSET U /\ C \in SUBSET L /\ C = L \ T /\ ~(f[T] \subseteq U)
    OBVIOUS
  <2> HIDE DEF T
  <2>3. F[T] \subseteq U BY <2>2
  <2>4. ~(F[T] \subseteq T) /\ f[T] = f[V] BY <1>2, <2>2
  <2>5. V \subseteq U /\ B \in SUBSET L /\ L \ B = V BY <2>2, <2>3
  <2>6. B \subseteq C /\ B # C BY <2>2, <2>3, <2>4
  <2> HIDE DEF V, B
  <2>7. B \in Rest BY <2>2, <2>4, <2>5
  <2>8. <<B, C>> \in R BY <2>2, <2>5, <2>6 DEF StrictSubsetOrdering
  <2> QED BY <2>1, <2>7, <2>8
<1>4. S \in SUBSET L OBVIOUS
<1> DEFINE C == L \ S
<1>5. C \in SUBSET L /\ L \ C = S BY <1>4
<1> HIDE DEF C
<1> QED BY <1>3, <1>5

-----------------------------------------------------------------------------
(* Memories.                                                               *)

\* The form of a memory: objects have their fields and numbers below the next one.
IsMemory(m) ==
  /\ m = [heap |-> m.heap, next |-> m.next, mismatched |-> m.mismatched, fault |-> m.fault]
  /\ m.next \in Nat \ {0}
  /\ Live(m) \subseteq 1..(m.next - 1)
  /\ m.heap = [x \in Live(m) |-> m.heap[x]]
  /\ \A x \in Live(m) : m.heap[x] = [kind |-> m.heap[x].kind, type |-> m.heap[x].type,
                                    f |-> m.heap[x].f, n |-> m.heap[x].n]

\* What is in a field is live, has no other owner, and is none of the roots R.
Tidy(m, R) ==
  /\ IsMemory(m)
  /\ R \subseteq Live(m)
  /\ \A x \in Live(m) : \A g \in DOMAIN m.heap[x].f : m.heap[x].f[g] \subseteq Live(m) \ R
  /\ \A x, y \in Live(m) : \A g \in DOMAIN m.heap[x].f, h \in DOMAIN m.heap[y].f :
       m.heap[x].f[g] \intersect m.heap[y].f[h] # {} => x = y /\ g = h

\* The memory at the start.
LEMMA EmptyMemoryIsTidy == Tidy(EmptyMemory, {})
BY DEF EmptyMemory, Tidy, IsMemory, Live

\* Tidiness in terms of Field, which is empty where there is no member.
LEMMA TidyFields ==
  ASSUME NEW m, NEW R, Tidy(m, R)
  PROVE  /\ \A x, g : Field(m, x, g) \subseteq Live(m) \ R
         /\ \A x, g, y, h, z : z \in Field(m, x, g) /\ z \in Field(m, y, h) => x = y /\ g = h
BY DEF Tidy, Field

LEMMA TidyIntro ==
  ASSUME NEW m, NEW R, IsMemory(m), R \subseteq Live(m),
         \A x, g : Field(m, x, g) \subseteq Live(m) \ R,
         \A x, g, y, h, z : z \in Field(m, x, g) /\ z \in Field(m, y, h) => x = y /\ g = h
  PROVE  Tidy(m, R)
BY DEF Tidy, Field

LEMMA LiveFinite == ASSUME NEW m, IsMemory(m) PROVE IsFiniteSet(Live(m))
<1>1. m.next - 1 \in Int BY DEF IsMemory
<1>2. IsFiniteSet(1..(m.next - 1)) BY <1>1, FS_Interval
<1> QED BY <1>2, FS_Subset DEF IsMemory

\* A root may be forgotten.
LEMMA Forget ==
  ASSUME NEW m, NEW R, NEW Q \in SUBSET R, Tidy(m, R)
  PROVE  Tidy(m, Q)
BY DEF Tidy

-----------------------------------------------------------------------------
(* Allocation.                                                             *)

LEMMA NewFault ==
  ASSUME NEW m, NEW kind, NEW type, NEW fields, IsMemory(m)
  PROVE  New(m, kind, type, fields).fault = m.fault
BY DEF New, IsMemory

LEMMA NewMemory ==
  ASSUME NEW m, NEW kind, NEW type, NEW fields, IsMemory(m)
  PROVE  /\ IsMemory(New(m, kind, type, fields))
         /\ m.next \notin Live(m)
         /\ Live(New(m, kind, type, fields)) = Live(m) \union {m.next}
         /\ \A x \in Live(m) : New(m, kind, type, fields).heap[x] = m.heap[x]
         /\ New(m, kind, type, fields).heap[m.next]
              = [kind |-> kind, type |-> type, f |-> fields, n |-> NotSet]
<1> DEFINE new == New(m, kind, type, fields)
           object == [kind |-> kind, type |-> type, f |-> fields, n |-> NotSet]
<1>1. m.next \in Nat \ {0} /\ Live(m) \subseteq 1..(m.next - 1) /\ m.next \notin Live(m)
  BY DEF IsMemory
<1> DEFINE h == [x \in Live(m) \union {m.next} |-> IF x = m.next THEN object ELSE m.heap[x]]
<1>2. new = [heap |-> h, next |-> m.next + 1, mismatched |-> m.mismatched, fault |-> m.fault]
  <2>1. new = [m EXCEPT !.heap = h, !.next = m.next + 1] BY DEF New
  <2> HIDE DEF h, new
  <2> QED BY <2>1 DEF IsMemory
<1>3. new.heap = h BY <1>2
<1>4. \A x \in Live(m) : x # m.next BY <1>1
<1>5. Live(new) = Live(m) \union {m.next} BY <1>3 DEF Live
<1> HIDE DEF new
<1>6. \A x \in Live(m) : new.heap[x] = m.heap[x] BY <1>3, <1>4
<1>7. new.heap[m.next] = object BY <1>3
<1>8. \A x \in Live(new) : new.heap[x] = [kind |-> new.heap[x].kind, type |-> new.heap[x].type,
                                        f |-> new.heap[x].f, n |-> new.heap[x].n]
  <2> TAKE x \in Live(new)
  <2>1. CASE x \in Live(m) BY <1>6, <2>1 DEF IsMemory
  <2>2. CASE x = m.next BY <1>7, <2>2
  <2> QED BY <1>5, <2>1, <2>2
<1>9. IsMemory(new)
  <2>1. new = [heap |-> new.heap, next |-> new.next, mismatched |-> new.mismatched,
               fault |-> new.fault] BY <1>2
  <2>2. new.next = m.next + 1 BY <1>2
  <2>3. new.next \in Nat \ {0} /\ Live(new) \subseteq 1..(new.next - 1) BY <1>1, <1>5, <2>2
  <2>4. new.heap = [x \in Live(new) |-> new.heap[x]] BY <1>3, <1>5
  <2> QED BY <1>8, <2>1, <2>3, <2>4 DEF IsMemory
<1> QED BY <1>1, <1>5, <1>6, <1>7, <1>9 DEF new

\* The new object, and the classes of the others.
LEMMA NewObject ==
  ASSUME NEW m, NEW kind, NEW type, NEW fields, IsMemory(m), NEW new, new = New(m, kind, type, fields)
  PROVE  /\ \A g : Field(new, m.next, g) = IF g \in DOMAIN fields THEN fields[g] ELSE {}
         /\ \A x \in Live(m) : new.heap[x].kind = m.heap[x].kind
         /\ new.heap[m.next].kind = kind
<1> DEFINE object == [kind |-> kind, type |-> type, f |-> fields, n |-> NotSet]
           made == New(m, kind, type, fields)
<1>0. /\ IsMemory(made) /\ m.next \notin Live(m) /\ Live(made) = Live(m) \union {m.next}
      /\ \A x \in Live(m) : made.heap[x] = m.heap[x]
      /\ made.heap[m.next] = [kind |-> kind, type |-> type, f |-> fields, n |-> NotSet]
  BY NewMemory
<1>1. /\ Live(new) = Live(m) \union {m.next}
      /\ \A x \in Live(m) : new.heap[x] = m.heap[x]
      /\ new.heap[m.next] = object
  <2> HIDE DEF made
  <2>1. new = made BY DEF made
  <2> QED BY <1>0, <2>1
<1>2. object.kind = kind /\ object.f = fields OBVIOUS
<1> HIDE DEF object
<1>3. m.next \in Live(new) /\ new.heap[m.next].kind = kind /\ new.heap[m.next].f = fields BY <1>1, <1>2
<1>4. \A g : Field(new, m.next, g) = IF g \in DOMAIN fields THEN fields[g] ELSE {}
  BY <1>3 DEF Field
<1>5. \A x \in Live(m) : new.heap[x].kind = m.heap[x].kind BY <1>1
<1> QED BY <1>3, <1>4, <1>5

\* An object is made of roots, each of which goes into one of its fields.
LEMMA NewTidy ==
  ASSUME NEW m, NEW kind, NEW type, NEW fields, NEW R, NEW Q, Tidy(m, R),
         \A g \in DOMAIN fields : fields[g] \subseteq R \ Q,
         \A g, h \in DOMAIN fields : fields[g] \intersect fields[h] # {} => g = h,
         Q \subseteq R \union {m.next}
  PROVE  Tidy(New(m, kind, type, fields), Q)
<1> DEFINE new == New(m, kind, type, fields)
<1>1. IsMemory(m) /\ R \subseteq Live(m) BY DEF Tidy
<1>2. /\ IsMemory(new) /\ m.next \notin Live(m) /\ Live(new) = Live(m) \union {m.next}
      /\ \A x \in Live(m) : new.heap[x] = m.heap[x]
      /\ new.heap[m.next] = [kind |-> kind, type |-> type, f |-> fields, n |-> NotSet]
  BY <1>1, NewMemory
<1> HIDE DEF new
<1>3. \A x, g : Field(new, x, g) = IF x = m.next THEN IF g \in DOMAIN fields THEN fields[g] ELSE {}
                                   ELSE Field(m, x, g)
  BY <1>2 DEF Field
<1>4. /\ \A x, g : Field(m, x, g) \subseteq Live(m) \ R
      /\ \A x, g, y, h, z : z \in Field(m, x, g) /\ z \in Field(m, y, h) => x = y /\ g = h
  BY TidyFields
<1>5. \A x, g : Field(new, x, g) \subseteq Live(new) \ Q
  <2> TAKE x, g
  <2>1. CASE x = m.next BY <1>1, <1>2, <1>3, <2>1
  <2>2. CASE x # m.next BY <1>2, <1>3, <1>4, <2>2
  <2> QED BY <2>1, <2>2
<1>6. ASSUME NEW x, NEW g, NEW y, NEW h, NEW z, z \in Field(new, x, g), z \in Field(new, y, h)
      PROVE  x = y /\ g = h
  <2>1. CASE x = m.next /\ y = m.next BY <1>3, <1>6, <2>1
  <2>2. CASE x = m.next /\ y # m.next
    <3>1. z \in R BY <1>3, <1>6, <2>2
    <3>2. z \in Field(m, y, h) BY <1>3, <1>6, <2>2
    <3> QED BY <1>4, <3>1, <3>2
  <2>3. CASE x # m.next /\ y = m.next
    <3>1. z \in R BY <1>3, <1>6, <2>3
    <3>2. z \in Field(m, x, g) BY <1>3, <1>6, <2>3
    <3> QED BY <1>4, <3>1, <3>2
  <2>4. CASE x # m.next /\ y # m.next BY <1>3, <1>4, <1>6, <2>4
  <2> QED BY <2>1, <2>2, <2>3, <2>4
<1>7. Q \subseteq Live(new) BY <1>1, <1>2
<1> QED BY <1>2, <1>5, <1>6, <1>7, TidyIntro DEF new

\* A string is an object without fields.
LEMMA NewStringTidy ==
  ASSUME NEW m, NEW R, Tidy(m, R)
  PROVE  Tidy(NewString(m), R \union {m.next})
<1>1. DOMAIN <<>> = {} OBVIOUS
<1> QED BY <1>1, NewTidy DEF NewString

-----------------------------------------------------------------------------
(* Assignment.                                                             *)

LEMMA FaultedTidy ==
  ASSUME NEW m, NEW what, NEW R, Tidy(m, R)
  PROVE  /\ Tidy(Faulted(m, what), R)
         /\ Faulted(m, what).heap = m.heap /\ Faulted(m, what).next = m.next
         /\ Faulted(m, what).fault = what
<1> DEFINE new == Faulted(m, what)
<1>1. new = [heap |-> m.heap, next |-> m.next, mismatched |-> m.mismatched, fault |-> what]
  BY DEF Faulted, Tidy, IsMemory
<1>2. new.heap = m.heap /\ new.next = m.next /\ new.fault = what /\ new.mismatched = m.mismatched
  BY <1>1
<1> HIDE DEF new
<1>3. new = [heap |-> new.heap, next |-> new.next, mismatched |-> new.mismatched,
             fault |-> new.fault] BY <1>1
<1>4. Live(new) = Live(m) BY <1>2 DEF Live
<1>5. IsMemory(new) BY <1>2, <1>3, <1>4 DEF Tidy, IsMemory
<1>6. Tidy(new, R) BY <1>2, <1>4, <1>5 DEF Tidy
<1> QED BY <1>2, <1>6 DEF new

LEMMA SetMemory ==
  ASSUME NEW m, NEW p, NEW f, IsMemory(m), p \subseteq Live(m), p # {}
  PROVE  LET new == SetFields(m, p, f)
             x == Pointee(p)
         IN /\ IsMemory(new) /\ x \in p
            /\ Live(new) = Live(m)
            /\ new.next = m.next /\ new.fault = m.fault
            /\ \A y \in Live(m) : new.heap[y].kind = m.heap[y].kind
            /\ \A y \in Live(m) \ {x} : new.heap[y] = m.heap[y]
            /\ \A y, g : Field(new, y, g) = IF y = x /\ g \in DOMAIN f THEN f[g]
                                            ELSE Field(m, y, g)
<1> DEFINE new == SetFields(m, p, f)
           x == Pointee(p)
           F == Assign(m.heap[x].f, f)
           object == [kind |-> m.heap[x].kind, type |-> m.heap[x].type, f |-> F, n |-> m.heap[x].n]
           h == [y \in Live(m) |-> IF y = x THEN object ELSE m.heap[y]]
<1>1. x \in p /\ x \in Live(m) BY DEF Pointee
<1>2. new = [m EXCEPT !.heap[x].f = Assign(@, f)] BY DEF SetFields
<1>3. [m.heap[x] EXCEPT !.f = F] = object
  <2> DEFINE o == m.heap[x]
  <2>1. o = [kind |-> o.kind, type |-> o.type, f |-> o.f, n |-> o.n] BY <1>1 DEF IsMemory
  <2> HIDE DEF F, o
  <2>2. [o EXCEPT !.f = F] = [kind |-> o.kind, type |-> o.type, f |-> F, n |-> o.n] BY <2>1
  <2> QED BY <2>2 DEF o
<1>4. [m.heap EXCEPT ![x] = object] = h
  <2> HIDE DEF object, x
  <2> QED BY <1>1 DEF IsMemory
<1>5. new = [heap |-> h, next |-> m.next, mismatched |-> m.mismatched, fault |-> m.fault]
  <2>1. new = [m EXCEPT !.heap = [m.heap EXCEPT ![x] = [m.heap[x] EXCEPT !.f = F]]]
    <3> HIDE DEF x
    <3> QED BY <1>2
  <2>2. new = [m EXCEPT !.heap = h] BY <1>3, <1>4, <2>1
  <2> HIDE DEF h, new
  <2> QED BY <2>2 DEF IsMemory
<1>6. new.heap = h /\ new.next = m.next /\ new.fault = m.fault BY <1>5
<1>7. Live(new) = Live(m) BY <1>6 DEF Live
<1> HIDE DEF new, x
<1>8. new.heap[x] = object /\ \A y \in Live(m) \ {x} : new.heap[y] = m.heap[y] BY <1>1, <1>6
<1>9. IsMemory(new)
  <2>1. new = [heap |-> new.heap, next |-> new.next, mismatched |-> new.mismatched,
               fault |-> new.fault] BY <1>5
  <2>2. new.heap = [y \in Live(new) |-> new.heap[y]] BY <1>6, <1>7
  <2>3. \A y \in Live(new) : new.heap[y] = [kind |-> new.heap[y].kind, type |-> new.heap[y].type,
                                          f |-> new.heap[y].f, n |-> new.heap[y].n]
    <3> TAKE y \in Live(new)
    <3>1. CASE y = x BY <1>8, <3>1
    <3>2. CASE y # x BY <1>7, <1>8, <3>2 DEF IsMemory
    <3> QED BY <3>1, <3>2
  <2> QED BY <1>6, <1>7, <2>1, <2>2, <2>3 DEF IsMemory
<1>10. \A y \in Live(m) : new.heap[y].kind = m.heap[y].kind BY <1>8
<1>11. ASSUME NEW y, NEW g
       PROVE  Field(new, y, g) = IF y = x /\ g \in DOMAIN f THEN f[g] ELSE Field(m, y, g)
  <2>1. CASE y = x
    <3>1. new.heap[y].f = F BY <1>8, <2>1
    <3> QED BY <1>1, <1>7, <2>1, <3>1 DEF Field, Assign
  <2>2. CASE y # x BY <1>7, <1>8, <2>2 DEF Field
  <2> QED BY <2>1, <2>2
<1> QED BY <1>1, <1>6, <1>7, <1>8, <1>9, <1>10, <1>11 DEF new, x

\* The fields f of an object are assigned, of which nothing else in a field has a part; Q are
\* the roots that remain, and the other fields alone need to be tidy before.
LEMMA SetTidy ==
  ASSUME NEW m, NEW p, NEW f, NEW Q, IsMemory(m), p \subseteq Live(m), p # {},
         Q \subseteq Live(m),
         \A g \in DOMAIN f : f[g] \subseteq Live(m) \ Q,
         \A g, h \in DOMAIN f : f[g] \intersect f[h] # {} => g = h,
         \A y, h : ~(y = Pointee(p) /\ h \in DOMAIN f) =>
           /\ Field(m, y, h) \subseteq Live(m) \ Q
           /\ \A g \in DOMAIN f : Field(m, y, h) \intersect f[g] = {},
         \A x, g, y, h, z :
           /\ ~(x = Pointee(p) /\ g \in DOMAIN f) /\ ~(y = Pointee(p) /\ h \in DOMAIN f)
           /\ z \in Field(m, x, g) /\ z \in Field(m, y, h)
           => x = y /\ g = h
  PROVE  Tidy(SetFields(m, p, f), Q)
<1> DEFINE new == SetFields(m, p, f)
           o == Pointee(p)
           set(x, g) == x = o /\ g \in DOMAIN f
<1>1. /\ IsMemory(new) /\ Live(new) = Live(m)
      /\ \A y, g : Field(new, y, g) = IF set(y, g) THEN f[g] ELSE Field(m, y, g)
  BY SetMemory
<1> HIDE DEF new
<1>2. \A x, g : Field(new, x, g) \subseteq Live(new) \ Q BY <1>1
<1>3. ASSUME NEW x, NEW g, NEW y, NEW h, NEW z, z \in Field(new, x, g), z \in Field(new, y, h)
      PROVE  x = y /\ g = h
  <2>1. CASE set(x, g) /\ set(y, h)
    <3>1. g \in DOMAIN f /\ h \in DOMAIN f /\ x = y BY <2>1
    <3>2. z \in f[g] /\ z \in f[h] BY <1>1, <1>3, <2>1
    <3> QED BY <3>1, <3>2
  <2>2. CASE set(x, g) /\ ~set(y, h) BY <1>1, <1>3, <2>2
  <2>3. CASE ~set(x, g) /\ set(y, h) BY <1>1, <1>3, <2>3
  <2>4. CASE ~set(x, g) /\ ~set(y, h) BY <1>1, <1>3, <2>4
  <2> QED BY <2>1, <2>2, <2>3, <2>4
<1> QED BY <1>1, <1>2, <1>3, TidyIntro DEF new

\* In a tidy memory what is assigned comes from the roots and from the field itself.
LEMMA SetFromRoots ==
  ASSUME NEW m, NEW p, NEW f, NEW R, NEW Q, Tidy(m, R), p \subseteq Live(m),
         \A g \in DOMAIN f : f[g] \subseteq (R \union Member(m, p, g)) \ Q,
         \A g, h \in DOMAIN f : f[g] \intersect f[h] # {} => g = h,
         \A x \in Q : x \in R \/ \E g \in DOMAIN f : p # {} /\ x \in Member(m, p, g)
  PROVE  /\ p = {} => Tidy(SetFields(m, p, f), Q \intersect R)
         /\ p # {} => Tidy(SetFields(m, p, f), Q)
<1>1. ASSUME p = {} PROVE Tidy(SetFields(m, p, f), Q \intersect R)
  <2>1. SetFields(m, p, f) = Faulted(m, "null dereference") BY <1>1 DEF SetFields
  <2>2. Tidy(Faulted(m, "null dereference"), R) BY FaultedTidy
  <2>3. Tidy(SetFields(m, p, f), R) BY <2>1, <2>2
  <2> QED BY <2>3, Forget
<1>2. ASSUME p # {} PROVE Tidy(SetFields(m, p, f), Q)
  <2> DEFINE o == Pointee(p)
  <2>1. \A g : Member(m, p, g) = Field(m, o, g) BY <1>2 DEF Member
  <2>2. IsMemory(m) /\ R \subseteq Live(m) BY DEF Tidy
  <2>3. /\ \A x, g : Field(m, x, g) \subseteq Live(m) \ R
        /\ \A x, g, y, h, z : z \in Field(m, x, g) /\ z \in Field(m, y, h) => x = y /\ g = h
    BY TidyFields
  <2> HIDE DEF o
  <2>4. Q \subseteq Live(m) BY <2>1, <2>2, <2>3
  <2>5. \A g \in DOMAIN f : f[g] \subseteq Live(m) \ Q BY <2>1, <2>2, <2>3
  <2>6. ASSUME NEW y, NEW h, ~(y = o /\ h \in DOMAIN f)
        PROVE  /\ Field(m, y, h) \subseteq Live(m) \ Q
               /\ \A g \in DOMAIN f : Field(m, y, h) \intersect f[g] = {}
    BY <2>1, <2>3, <2>6
  <2> QED BY <1>2, <2>2, <2>3, <2>4, <2>5, <2>6, SetTidy DEF o
<1> QED BY <1>1, <1>2

-----------------------------------------------------------------------------
(* Destruction.                                                            *)

\* What a destructor frees is in a field of the object, or in a field of something it frees.
LEMMA OwnedIsInFields ==
  ASSUME NEW m, NEW x, NEW z, z \in Owned(m, x)
  PROVE  \/ \E g : z \in Field(m, x, g)
         \/ \E y, g : y \in Owned(m, x) /\ z \in Field(m, y, g)
<1> DEFINE kind == m.heap[x].kind
           members(G) == UNION {Field(m, x, g) : g \in G}
           vectors == members(FreedBy(kind) \ Shallow(kind))
           elements == Elements(m, vectors)
<1>1. Owned(m, x) = members(FreedBy(kind)) \union elements
                    \union (IF kind = "UpdateStatement" THEN MembersOfClauses(m, elements) ELSE {})
  BY DEF Owned
<1>2. vectors \subseteq Owned(m, x) BY <1>1
<1>3. CASE z \in members(FreedBy(kind)) BY <1>3
<1>4. CASE z \in elements
  <2>1. \E y \in vectors : z \in Field(m, y, "elems")
    <3> HIDE DEF vectors
    <3> QED BY <1>4 DEF Elements, FieldsOf
  <2> QED BY <1>2, <2>1
<1>5. CASE kind = "UpdateStatement" /\ z \in MembersOfClauses(m, elements)
  <2>1. elements \subseteq Owned(m, x) BY <1>1
  <2> HIDE DEF elements, kind
  <2>2. \E y \in elements : z \in Field(m, y, "column") \/ z \in Field(m, y, "value")
    BY <1>5 DEF MembersOfClauses, FieldsOf
  <2> QED BY <2>1, <2>2
<1> HIDE DEF members, vectors, elements, kind
<1> QED BY <1>1, <1>3, <1>4, <1>5

\* Objects of these classes own nothing.
LEMMA PlainOwnsNothing ==
  ASSUME NEW m, NEW x, m.heap[x].kind \in Plain
  PROVE  Owned(m, x) = {}
<1>1. FreedBy(m.heap[x].kind) = {} BY DEF FreedBy
<1>2. m.heap[x].kind # "UpdateStatement" BY DEF Plain
<1> QED BY <1>1, <1>2 DEF Owned, Elements, FieldsOf

LEMMA FurtherIsOwned ==
  ASSUME NEW m, NEW T
  PROVE  Further(m, T) = {z \in Live(m) : \E x \in T : z \in Owned(m, x)}
<1> DEFINE owned == {Owned(m, x) : x \in T}
<1>1. Further(m, T) = (UNION owned) \intersect Live(m) BY DEF Further
<1>2. \A z : z \in UNION owned <=> \E x \in T : z \in Owned(m, x) OBVIOUS
<1> HIDE DEF owned
<1> QED BY <1>1, <1>2

\* The recursive function in Doomed exists.
LEMMA DoomedExists ==
  ASSUME NEW m
  PROVE  \E f : f = [T \in SUBSET Live(m) |->
                    IF Further(m, T) \subseteq T THEN T ELSE f[T \union Further(m, T)]]
<1> DEFINE L == Live(m)
           F == [T \in SUBSET L |-> Further(m, T)]
<1>1. \A T : Further(m, T) = {z \in L : \E x \in T : z \in Owned(m, x)}
  BY FurtherIsOwned
<1>2. F \in [SUBSET L -> SUBSET L] BY <1>1
<1>3. \A T \in SUBSET L : F[T] = Further(m, T) OBVIOUS
<1>4. \A T, U \in SUBSET L : T \subseteq U => F[T] \subseteq F[U] BY <1>1
<1> HIDE DEF F
<1>5. PICK f : Saturates(f, F, L)
  <2> HIDE DEF L
  <2> QED BY <1>2, <1>4, SaturationExists
<1>6. f = [T \in SUBSET L |-> IF Further(m, T) \subseteq T THEN T ELSE f[T \union Further(m, T)]]
  BY <1>3, <1>5 DEF Saturates
<1> QED BY <1>6

\* What is deleted: it holds what its destructors free, and nothing else is added to S.
LEMMA DoomedIsClosed ==
  ASSUME NEW m, IsMemory(m), NEW S, S \subseteq Live(m)
  PROVE  /\ S \subseteq Doomed(m, S) /\ Doomed(m, S) \subseteq Live(m)
         /\ \A x \in Doomed(m, S) : Owned(m, x) \intersect Live(m) \subseteq Doomed(m, S)
         /\ \A z \in Doomed(m, S) \ S : \E x \in Doomed(m, S) : z \in Owned(m, x)
<1> DEFINE L == Live(m)
           F == [T \in SUBSET L |-> Further(m, T)]
           f == CHOOSE f : f = [T \in SUBSET L |->
                  IF Further(m, T) \subseteq T THEN T ELSE f[T \union Further(m, T)]]
           D == f[S]
<1>1. Doomed(m, S) = D BY DEF Doomed
<1>2. \A T : Further(m, T) = {z \in L : \E x \in T : z \in Owned(m, x)}
  BY FurtherIsOwned
<1>3. F \in [SUBSET L -> SUBSET L] BY <1>2
<1>4. \A T \in SUBSET L : F[T] = {z \in L : \E x \in T : z \in Owned(m, x)} BY <1>2
<1>5. IsFiniteSet(L) BY LiveFinite
<1>6. Saturates(f, F, L)
  <2>1. \A T \in SUBSET L : F[T] = Further(m, T) OBVIOUS
  <2>2. f = [T \in SUBSET L |-> IF Further(m, T) \subseteq T THEN T ELSE f[T \union Further(m, T)]]
    BY DoomedExists, Zenon
  <2> HIDE DEF f, F, L
  <2> QED BY <2>1, <2>2 DEF Saturates
<1> HIDE DEF F, f, L
<1>7. S \in SUBSET L BY DEF L
<1>8. /\ S \subseteq D /\ D \subseteq L
      /\ F[D] \subseteq D
      /\ \A z \in D \ S : z \in F[D]
  <2>1. \A T, U \in SUBSET L : T \subseteq U => F[T] \subseteq F[U] BY <1>4
  <2> QED BY <1>3, <1>5, <1>6, <1>7, <2>1, Saturation
<1> HIDE DEF D
<1>9. F[D] = {z \in L : \E x \in D : z \in Owned(m, x)} BY <1>4, <1>8
<1> QED BY <1>1, <1>8, <1>9 DEF L

\* delete takes S and what its destructors free, each of which has its owner deleted too.
LEMMA DeleteMemory ==
  ASSUME NEW m, NEW R, Tidy(m, R), NEW S, S \subseteq Live(m)
  PROVE  LET D == Doomed(m, S)
             new == Delete(m, S)
         IN /\ IsMemory(new)
            /\ S \subseteq D /\ D \subseteq Live(m)
            /\ Live(new) = Live(m) \ D
            /\ new.next = m.next /\ new.fault = m.fault
            /\ \A x \in Live(new) : new.heap[x] = m.heap[x]
            /\ \A x, g : Field(new, x, g) = IF x \in D THEN {} ELSE Field(m, x, g)
            /\ \A z \in D \ S : \E x \in D : z \in Owned(m, x)
            /\ \A z \in D \ S : \E x \in D : \E g : z \in Field(m, x, g)
<1> DEFINE D == Doomed(m, S)
           new == Delete(m, S)
           h == [x \in Live(m) \ D |-> m.heap[x]]
           freed == S \union UNION {Owned(m, x) : x \in D}
<1>1. IsMemory(m) BY DEF Tidy
<1>2. /\ S \subseteq D /\ D \subseteq Live(m)
      /\ \A x \in D : Owned(m, x) \intersect Live(m) \subseteq D
      /\ \A z \in D \ S : \E x \in D : z \in Owned(m, x)
  BY <1>1, DoomedIsClosed
<1>3. \A x, g : Field(m, x, g) \subseteq Live(m) BY TidyFields
<1>4. freed \subseteq Live(m)
  <2>1. ASSUME NEW x \in D, NEW z \in Owned(m, x) PROVE z \in Live(m)
    BY <1>3, OwnedIsInFields
  <2> HIDE DEF D
  <2> QED BY <2>1
<1>5. ASSUME NEW z \in D \ S PROVE \E x \in D : \E g : z \in Field(m, x, g)
  <2>1. PICK x \in D : z \in Owned(m, x) BY <1>2
  <2>2. \/ \E g : z \in Field(m, x, g)
        \/ \E y, g : y \in Owned(m, x) /\ z \in Field(m, y, g)
    BY <2>1, OwnedIsInFields
  <2>4. \A y, g : y \in Owned(m, x) /\ z \in Field(m, y, g) => y \in D
    <3>1. \A y, g : z \in Field(m, y, g) => y \in Live(m) BY DEF Field
    <3> HIDE DEF D
    <3> QED BY <1>2, <2>1, <3>1
  <2> HIDE DEF D
  <2> QED BY <2>1, <2>2, <2>4
<1>6. /\ new.heap = h /\ new.next = m.next /\ new.fault = m.fault
      /\ new = [heap |-> new.heap, next |-> new.next, mismatched |-> new.mismatched,
                fault |-> new.fault]
  <2> DEFINE mixed(x) == {g \in DeletedStrings(m.heap[x].kind) : Field(m, x, g) # {}}
             M == m.mismatched \union UNION {{<<m.heap[x].kind, g>> : g \in mixed(x)} : x \in D}
  <2>1. S \intersect Live(m) = S OBVIOUS
  <2>2. new = [m EXCEPT !.heap = h, !.mismatched = M,
                        !.fault = IF freed \subseteq Live(m) THEN m.fault ELSE "double free"]
    BY <2>1, Zenon DEF Delete
  <2> HIDE DEF new, h, M, freed
  <2>3. new = [m EXCEPT !.heap = h, !.mismatched = M, !.fault = m.fault] BY <1>4, <2>2
  <2>4. new = [heap |-> h, next |-> m.next, mismatched |-> M, fault |-> m.fault]
    BY <1>1, <2>3 DEF IsMemory
  <2> QED BY <2>4
<1>7. Live(new) = Live(m) \ D BY <1>6 DEF Live
<1> HIDE DEF new, D
<1>8. \A x \in Live(new) : new.heap[x] = m.heap[x] BY <1>6, <1>7
<1>9. \A x, g : Field(new, x, g) = IF x \in D THEN {} ELSE Field(m, x, g)
  BY <1>7, <1>8 DEF Field
<1>10. IsMemory(new)
  <2>1. new.heap = [x \in Live(new) |-> new.heap[x]] BY <1>6, <1>7
  <2> QED BY <1>1, <1>6, <1>7, <1>8, <2>1 DEF IsMemory
<1> QED BY <1>2, <1>5, <1>6, <1>7, <1>8, <1>9, <1>10 DEF new, D

\* In a tidy memory the owner of what a destructor frees is the object or freed with it.
LEMMA OwnerIsFreed ==
  ASSUME NEW m, NEW R, Tidy(m, R), NEW x, NEW y, NEW g, NEW z,
         z \in Owned(m, x), z \in Field(m, y, g)
  PROVE  y = x \/ y \in Owned(m, x)
<1>1. \/ \E h : z \in Field(m, x, h)
      \/ \E w, h : w \in Owned(m, x) /\ z \in Field(m, w, h)
  BY OwnedIsInFields
<1>2. \A w, h : z \in Field(m, w, h) => w = y BY TidyFields
<1> QED BY <1>1, <1>2

\* A root is in no field, and no destructor frees it.
LEMMA RootHasNoOwner ==
  ASSUME NEW m, NEW R, Tidy(m, R), NEW z \in R
  PROVE  \A x : z \notin Owned(m, x) /\ \A g : z \notin Field(m, x, g)
<1>1. \A x, g : z \notin Field(m, x, g) BY TidyFields
<1>2. ASSUME NEW x PROVE z \notin Owned(m, x) BY <1>1, OwnedIsInFields
<1> QED BY <1>1, <1>2

\* What a plain object has in a field outlives its deletion, when no destructor frees the object.
LEMMA SparedByPlain ==
  ASSUME NEW m, NEW R, Tidy(m, R), NEW S, S \subseteq Live(m),
         NEW y, NEW g, NEW z, z \in Field(m, y, g), z \notin S,
         m.heap[y].kind \in Plain, \A x : y \notin Owned(m, x)
  PROVE  z \notin Doomed(m, S)
<1>1. \A x : z \notin Owned(m, x)
  <2>1. Owned(m, y) = {} BY PlainOwnsNothing
  <2> QED BY <2>1, OwnerIsFreed
<1> QED BY <1>1, DeleteMemory

\* The objects of O are as they were in m, and their members of the class they had.
Kept(m, new, O) ==
  \A x \in O : /\ new.heap[x].kind = m.heap[x].kind
               /\ \A g : Field(new, x, g) = Field(m, x, g)
               /\ \A g : \A z \in Field(m, x, g) : new.heap[z].kind = m.heap[z].kind

LEMMA KeptTwice ==
  ASSUME NEW m, NEW n, NEW k, NEW O, Kept(m, n, O), Kept(n, k, O)
  PROVE  Kept(m, k, O)
BY DEF Kept

\* What delete leaves is as it was.
LEMMA DeleteKeeps ==
  ASSUME NEW m, NEW R, Tidy(m, R), NEW S, S \subseteq Live(m),
         NEW O, O \subseteq R \ S, \A x \in O : \A g : Field(m, x, g) \intersect S = {}
  PROVE  Kept(m, Delete(m, S), O) /\ O \intersect Doomed(m, S) = {}
<1> DEFINE D == Doomed(m, S)
           new == Delete(m, S)
<1>1. /\ D \subseteq Live(m) /\ Live(new) = Live(m) \ D
      /\ \A x \in Live(new) : new.heap[x] = m.heap[x]
      /\ \A x, g : Field(new, x, g) = IF x \in D THEN {} ELSE Field(m, x, g)
      /\ \A z \in D \ S : \E x \in D : \E g : z \in Field(m, x, g)
  BY DeleteMemory
<1>2. R \subseteq Live(m) BY DEF Tidy
<1>3. /\ \A x, g : Field(m, x, g) \subseteq Live(m) \ R
      /\ \A x, g, y, h, z : z \in Field(m, x, g) /\ z \in Field(m, y, h) => x = y /\ g = h
  BY TidyFields
<1> HIDE DEF D, new
<1>4. O \intersect D = {} BY <1>1, <1>3
<1>5. ASSUME NEW x \in O, NEW g, NEW z \in Field(m, x, g) PROVE z \in Live(new)
  <2>1. z \notin D BY <1>1, <1>3, <1>4
  <2> QED BY <1>1, <1>3, <2>1
<1>6. O \subseteq Live(new) BY <1>1, <1>2, <1>4
<1>7. Kept(m, new, O) BY <1>1, <1>4, <1>5, <1>6 DEF Kept
<1> QED BY <1>4, <1>7 DEF D, new

\* When the owner of everything in S goes too, the memory stays tidy, with the roots left and
\* what the deleted objects had in their fields.
LEMMA DeleteTidy ==
  ASSUME NEW m, NEW R, Tidy(m, R), NEW S, S \subseteq Live(m),
         \A z \in S : z \in R \/ \E x \in Doomed(m, S) : \E g : z \in Field(m, x, g),
         NEW Q, Q \subseteq Live(m) \ Doomed(m, S),
         \A z \in Q : z \in R \/ \E x \in Doomed(m, S) : \E g : z \in Field(m, x, g)
  PROVE  Tidy(Delete(m, S), Q)
<1> DEFINE D == Doomed(m, S)
           new == Delete(m, S)
<1>1. /\ IsMemory(new) /\ D \subseteq Live(m) /\ Live(new) = Live(m) \ D
      /\ \A x, g : Field(new, x, g) = IF x \in D THEN {} ELSE Field(m, x, g)
      /\ \A z \in D \ S : \E x \in D : \E g : z \in Field(m, x, g)
  BY DeleteMemory
<1>2. /\ \A x, g : Field(m, x, g) \subseteq Live(m) \ R
      /\ \A x, g, y, h, z : z \in Field(m, x, g) /\ z \in Field(m, y, h) => x = y /\ g = h
  BY TidyFields
<1> HIDE DEF D, new
<1>3. \A z \in D \union Q : z \in R \/ \E x \in D : \E g : z \in Field(m, x, g) BY <1>1 DEF D
<1>4. ASSUME NEW x, NEW g, NEW z \in Field(new, x, g) PROVE z \in Live(new) \ Q
  <2>1. x \notin D /\ z \in Field(m, x, g) BY <1>1, <1>4
  <2>2. z \notin R /\ \A y \in D : \A h : z \notin Field(m, y, h) BY <1>2, <2>1
  <2>3. z \notin D \union Q BY <1>3, <2>2
  <2> QED BY <1>1, <1>2, <2>1, <2>3
<1>5. \A x, g, y, h, z : z \in Field(new, x, g) /\ z \in Field(new, y, h) => x = y /\ g = h
  BY <1>1, <1>2
<1>6. Q \subseteq Live(new) BY <1>1 DEF D
<1>7. Tidy(new, Q) BY <1>1, <1>4, <1>5, <1>6, TidyIntro
<1> QED BY <1>7 DEF new

\* delete of roots.
LEMMA DeleteRoots ==
  ASSUME NEW m, NEW R, Tidy(m, R), NEW S, S \subseteq R, NEW Q, Q \subseteq R \ S
  PROVE  Tidy(Delete(m, S), Q) /\ Kept(m, Delete(m, S), Q) /\ Delete(m, S).fault = m.fault
<1>1. S \subseteq Live(m) /\ R \subseteq Live(m) BY DEF Tidy
<1>2. \A x, g : Field(m, x, g) \intersect S = {} BY TidyFields
<1>3. Kept(m, Delete(m, S), Q) /\ Q \intersect Doomed(m, S) = {} BY <1>1, <1>2, DeleteKeeps
<1>4. Tidy(Delete(m, S), Q) BY <1>1, <1>3, DeleteTidy
<1>5. Delete(m, S).fault = m.fault BY <1>1, DeleteMemory
<1> QED BY <1>3, <1>4, <1>5

\* delete of vectors with their elements.
LEMMA DeleteWithElementsTidy ==
  ASSUME NEW m, NEW R, Tidy(m, R), NEW S, S \subseteq R, NEW Q, Q \subseteq R \ S
  PROVE  Tidy(DeleteWithElements(m, S), Q) /\ DeleteWithElements(m, S).fault = m.fault
<1> DEFINE E == S \union Elements(m, S)
           D == Doomed(m, E)
           new == Delete(m, E)
<1>1. R \subseteq Live(m) BY DEF Tidy
<1>2. \A x, g : Field(m, x, g) \subseteq Live(m) \ R BY TidyFields
<1>3. \A z \in E \ S : \E x \in S : z \in Field(m, x, "elems") BY DEF Elements, FieldsOf
<1> HIDE DEF E
<1>4. S \subseteq E BY DEF E
<1>5. E \subseteq Live(m) /\ Q \intersect E = {}
  <2>1. ASSUME NEW z \in E PROVE z \in Live(m) /\ z \notin Q
    BY <1>1, <1>2, <1>3
  <2> QED BY <2>1
<1>6. E \subseteq D /\ new.fault = m.fault BY <1>5, DeleteMemory
<1>7. Q \intersect D = {}
  <2>1. \A z \in D \ E : \E x \in D : \E g : z \in Field(m, x, g) BY <1>5, DeleteMemory
  <2> HIDE DEF D
  <2> QED BY <1>2, <1>5, <2>1
<1>8. Tidy(new, Q)
  <2>1. \A z \in E : z \in R \/ \E x \in D : \E g : z \in Field(m, x, g) BY <1>3, <1>4, <1>6
  <2>2. Q \subseteq Live(m) \ D BY <1>1, <1>7
  <2>3. \A z \in Q : z \in R OBVIOUS
  <2> QED BY <1>5, <2>1, <2>2, <2>3, DeleteTidy
<1>9. \/ DeleteWithElements(m, S) = new
      \/ DeleteWithElements(m, S)
           = [new EXCEPT !.mismatched = new.mismatched \union {<<"vector", "elems">>}]
  BY DEF DeleteWithElements, E
<1> HIDE DEF new, D
<1>10. ASSUME NEW M PROVE Tidy([new EXCEPT !.mismatched = M], Q)
                          /\ [new EXCEPT !.mismatched = M].fault = new.fault
  <2> DEFINE k == [new EXCEPT !.mismatched = M]
  <2>1. k = [heap |-> new.heap, next |-> new.next, mismatched |-> M, fault |-> new.fault]
    BY <1>8 DEF Tidy, IsMemory
  <2> HIDE DEF k
  <2>2. k.heap = new.heap /\ k.next = new.next /\ k.fault = new.fault
        /\ k = [heap |-> k.heap, next |-> k.next, mismatched |-> k.mismatched, fault |-> k.fault]
    BY <2>1
  <2>3. Live(k) = Live(new) BY <2>2 DEF Live
  <2>4. IsMemory(k) BY <1>8, <2>2, <2>3 DEF Tidy, IsMemory
  <2>5. Tidy(k, Q) BY <1>8, <2>2, <2>3, <2>4 DEF Tidy
  <2> QED BY <2>2, <2>5 DEF k
<1> QED BY <1>6, <1>8, <1>9, <1>10

-----------------------------------------------------------------------------
(* What the other operations leave as it was.                              *)

LEMMA NewKeeps ==
  ASSUME NEW m, NEW R, Tidy(m, R), NEW kind, NEW type, NEW fields
  PROVE  Kept(m, New(m, kind, type, fields), R)
<1> DEFINE new == New(m, kind, type, fields)
<1>1. IsMemory(m) BY DEF Tidy
<1>2. /\ IsMemory(new) /\ m.next \notin Live(m) /\ Live(new) = Live(m) \union {m.next}
      /\ \A x \in Live(m) : new.heap[x] = m.heap[x]
      /\ new.heap[m.next] = [kind |-> kind, type |-> type, f |-> fields, n |-> NotSet]
  BY <1>1, NewMemory
<1> HIDE DEF new
<1>3. \A x \in Live(m) : \A g : Field(new, x, g) = Field(m, x, g) BY <1>2 DEF Field
<1>4. R \subseteq Live(m) BY DEF Tidy
<1>5. \A x, g : Field(m, x, g) \subseteq Live(m) BY TidyFields
<1>6. Kept(m, new, R) BY <1>2, <1>3, <1>4, <1>5 DEF Kept
<1> QED BY <1>6 DEF new

LEMMA FaultedKeeps ==
  ASSUME NEW m, NEW R, Tidy(m, R), NEW what
  PROVE  Kept(m, Faulted(m, what), R)
<1> DEFINE new == Faulted(m, what)
<1>1. new.heap = m.heap BY FaultedTidy
<1> HIDE DEF new
<1>2. Live(new) = Live(m) BY <1>1 DEF Live
<1>3. Kept(m, new, R) BY <1>1, <1>2 DEF Kept, Field
<1> QED BY <1>3 DEF new

\* An assignment leaves all objects but one as they were.
LEMMA SetKeeps ==
  ASSUME NEW m, IsMemory(m), NEW p, NEW f, p \subseteq Live(m),
         NEW O, O \subseteq Live(m), \A x \in O : \A g : Field(m, x, g) \subseteq Live(m),
         p # {} => Pointee(p) \notin O
  PROVE  Kept(m, SetFields(m, p, f), O)
<1> DEFINE new == SetFields(m, p, f)
<1>1. CASE p = {}
  <2>1. new = [m EXCEPT !.fault = "null dereference"] BY <1>1 DEF SetFields, Faulted
  <2> HIDE DEF new
  <2>2. new.heap = m.heap BY <2>1 DEF IsMemory
  <2>3. Live(new) = Live(m) BY <2>2 DEF Live
  <2>4. Kept(m, new, O) BY <2>2, <2>3 DEF Kept, Field
  <2> QED BY <2>4 DEF new
<1>2. CASE p # {}
  <2>1. /\ \A y \in Live(m) : new.heap[y].kind = m.heap[y].kind
        /\ \A y, g : y # Pointee(p) => Field(new, y, g) = Field(m, y, g)
    BY <1>2, SetMemory
  <2> HIDE DEF new
  <2>2. Kept(m, new, O) BY <1>2, <2>1 DEF Kept
  <2> QED BY <2>2 DEF new
<1> QED BY <1>1, <1>2

\* Numbering objects leaves what they point to as it was.
LEMMA SetNumbersTidy ==
  ASSUME NEW m, NEW R, Tidy(m, R), NEW n
  PROVE  /\ Tidy(SetNumbers(m, n), R) /\ Kept(m, SetNumbers(m, n), R)
         /\ SetNumbers(m, n).fault = m.fault /\ SetNumbers(m, n).next = m.next
         /\ Live(SetNumbers(m, n)) = Live(m)
         /\ \A x, g : Field(SetNumbers(m, n), x, g) = Field(m, x, g)
         /\ \A x \in Live(m) : SetNumbers(m, n).heap[x].kind = m.heap[x].kind
<1> DEFINE new == SetNumbers(m, n)
           numbered(x) == IF x \in DOMAIN n THEN [m.heap[x] EXCEPT !.n = n[x]] ELSE m.heap[x]
           h == [x \in Live(m) |-> numbered(x)]
<1>1. new = [m EXCEPT !.heap = h] BY DEF SetNumbers
<1>2. ASSUME NEW x \in Live(m)
      PROVE  numbered(x) = [kind |-> m.heap[x].kind, type |-> m.heap[x].type, f |-> m.heap[x].f,
                            n |-> numbered(x).n]
  <2> DEFINE o == m.heap[x]
  <2>1. o = [kind |-> o.kind, type |-> o.type, f |-> o.f, n |-> o.n] BY DEF Tidy, IsMemory
  <2>2. numbered(x) = IF x \in DOMAIN n THEN [o EXCEPT !.n = n[x]] ELSE o OBVIOUS
  <2> HIDE DEF o, numbered
  <2>3. numbered(x) = [kind |-> o.kind, type |-> o.type, f |-> o.f, n |-> numbered(x).n]
    BY <2>1, <2>2
  <2> QED BY <2>3 DEF o
<1> HIDE DEF numbered
<1>3. new = [heap |-> h, next |-> m.next, mismatched |-> m.mismatched, fault |-> m.fault]
  <2> HIDE DEF h, new
  <2> QED BY <1>1 DEF Tidy, IsMemory
<1>4. /\ new.heap = h /\ new.next = m.next /\ new.fault = m.fault
      /\ new.mismatched = m.mismatched
  BY <1>3
<1>5. Live(new) = Live(m) BY <1>4 DEF Live
<1> HIDE DEF new
<1>6. \A x \in Live(m) :
        /\ new.heap[x].kind = m.heap[x].kind /\ new.heap[x].f = m.heap[x].f
        /\ new.heap[x] = [kind |-> new.heap[x].kind, type |-> new.heap[x].type,
                         f |-> new.heap[x].f, n |-> new.heap[x].n]
  <2> TAKE x \in Live(m)
  <2>1. new.heap[x] = numbered(x) BY <1>4
  <2> QED BY <1>2, <2>1
<1>7. \A x, g : Field(new, x, g) = Field(m, x, g) BY <1>5, <1>6 DEF Field
<1>8. IsMemory(new)
  <2>1. new = [heap |-> new.heap, next |-> new.next, mismatched |-> new.mismatched,
               fault |-> new.fault] BY <1>3, <1>4
  <2>2. new.heap = [x \in Live(new) |-> new.heap[x]] BY <1>4, <1>5
  <2> QED BY <1>4, <1>5, <1>6, <2>1, <2>2 DEF Tidy, IsMemory
<1>9. Tidy(new, R)
  <2>1. R \subseteq Live(new) BY <1>5 DEF Tidy
  <2> QED BY <1>5, <1>7, <1>8, <2>1, TidyFields, TidyIntro
<1>10. Kept(m, new, R)
  <2>1. R \subseteq Live(m) BY DEF Tidy
  <2>2. \A x, g : Field(m, x, g) \subseteq Live(m) BY TidyFields
  <2> QED BY <1>6, <1>7, <2>1, <2>2 DEF Kept
<1> QED BY <1>4, <1>5, <1>6, <1>7, <1>9, <1>10 DEF new

-----------------------------------------------------------------------------
(* One delete after another.                                               *)

\* f is the function in DeleteEach, which exists.
Deletes(f, m, objects) ==
  f = [k \in 0..Len(objects) |-> IF k = 0 THEN m ELSE Delete(f[k - 1], {objects[k]})]

LEMMA DeleteEachExists ==
  ASSUME NEW m, NEW objects, Len(objects) \in Nat
  PROVE  \E f : Deletes(f, m, objects)
<1> DEFINE After(x, k) == IF k = 0 THEN m ELSE Delete(x, {objects[k]})
           Has(n) == \E f : f = [k \in 0..n |-> After(f[k - 1], k)]
           Missing == {n \in 0..Len(objects) : ~Has(n)}
<1>1. \A x : After(x, 0) = m OBVIOUS
<1> HIDE DEF After
<1>2. Has(0)
  <2> DEFINE f == [k \in 0..0 |-> m]
  <2>1. f = [k \in 0..0 |-> After(f[k - 1], k)] BY <1>1
  <2> QED BY <2>1
<1>3. ASSUME NEW n \in Nat, n > 0, Has(n - 1) PROVE Has(n)
  <2>1. PICK f : f = [k \in 0..n - 1 |-> After(f[k - 1], k)] BY <1>3
  <2> DEFINE g == [k \in 0..n |-> IF k = n THEN After(f[n - 1], n) ELSE f[k]]
  <2>2. ASSUME NEW k \in 0..n PROVE g[k] = After(g[k - 1], k)
    <3>1. CASE k = 0 BY <1>1, <1>3, <2>1, <3>1
    <3>2. CASE k \in 1..n - 1 BY <1>3, <2>1, <3>2
    <3>3. CASE k = n BY <1>3, <2>1, <3>3
    <3> QED BY <3>1, <3>2, <3>3
  <2>3. g = [k \in 0..n |-> After(g[k - 1], k)]
    <3>1. g = [k \in 0..n |-> g[k]] OBVIOUS
    <3> HIDE DEF g
    <3> QED BY <2>2, <3>1
  <2> QED BY <2>3
<1> HIDE DEF Has
<1>4. Missing = {}
  <2> SUFFICES ASSUME Missing # {} PROVE FALSE
    OBVIOUS
  <2>1. PICK n \in Missing : \A k \in Missing : n <= k
    <3>1. Missing \subseteq Nat OBVIOUS
    <3> QED BY <3>1, LeastNatural
  <2>2. n # 0 BY <1>2
  <2>3. n - 1 \in 0..Len(objects) /\ ~(n <= n - 1) BY <2>2
  <2>4. Has(n - 1) BY <2>1, <2>3
  <2> QED BY <1>3, <2>2, <2>4
<1>5. Has(Len(objects)) BY <1>4
<1> QED BY <1>5 DEF Has, After, Deletes

\* Roots that are all different can be deleted one by one.
LEMMA DeleteEachTidy ==
  ASSUME NEW m, NEW R, Tidy(m, R), NEW objects \in Seq(R),
         \A j, k \in 1..Len(objects) : objects[j] = objects[k] => j = k,
         NEW Q, Q \subseteq R, \A k \in 1..Len(objects) : objects[k] \notin Q
  PROVE  Tidy(DeleteEach(m, objects), Q) /\ DeleteEach(m, objects).fault = m.fault
<1> DEFINE N == Len(objects)
           f == CHOOSE f : Deletes(f, m, objects)
           Rest(k) == R \ {objects[j] : j \in 1..k}
           Fine(k) == Tidy(f[k], Rest(k)) /\ f[k].fault = m.fault
           Failing == {k \in 0..N : ~Fine(k)}
<1>1. N \in Nat OBVIOUS
<1>2. Deletes(f, m, objects) BY <1>1, DeleteEachExists
<1>3. DeleteEach(m, objects) = f[N] BY Zenon DEF DeleteEach, Deletes
<1> HIDE DEF f, N
<1>4. Fine(0)
  <2>1. Rest(0) = R /\ f[0] = m BY <1>1, <1>2 DEF Deletes, N
  <2> QED BY <2>1
<1>5. ASSUME NEW k \in 1..N, Fine(k - 1) PROVE Fine(k)
  <2>1. f[k] = Delete(f[k - 1], {objects[k]})
    <3>1. k \in 0..N /\ k # 0 BY <1>1
    <3>2. \A j \in 0..N : f[j] = IF j = 0 THEN m ELSE Delete(f[j - 1], {objects[j]})
      BY <1>2 DEF Deletes, N
    <3> QED BY <3>1, <3>2
  <2>2. objects[k] \in Rest(k - 1) BY <1>1 DEF N
  <2>3. Rest(k) \subseteq Rest(k - 1) \ {objects[k]} BY <1>1 DEF N
  <2> DEFINE S == {objects[k]}
  <2>4. S \subseteq Rest(k - 1) /\ Tidy(f[k - 1], Rest(k - 1)) BY <1>5, <2>2
  <2> HIDE DEF Rest
  <2>5. Rest(k) \subseteq Rest(k - 1) \ S BY <2>3
  <2> HIDE DEF S
  <2>6. Tidy(Delete(f[k - 1], S), Rest(k)) /\ Delete(f[k - 1], S).fault = f[k - 1].fault
    BY <2>4, <2>5, DeleteRoots
  <2> QED BY <1>5, <2>1, <2>6 DEF S
<1> HIDE DEF Fine
<1>6. Failing = {}
  <2> SUFFICES ASSUME Failing # {} PROVE FALSE
    OBVIOUS
  <2>1. PICK k \in Failing : \A j \in Failing : k <= j
    <3>1. Failing \subseteq Nat OBVIOUS
    <3> QED BY <3>1, LeastNatural
  <2>2. k \in 1..N BY <1>1, <1>4
  <2>3. k - 1 \in 0..N /\ ~(k <= k - 1) BY <1>1, <2>2
  <2>4. Fine(k - 1) BY <2>1, <2>3
  <2> QED BY <1>5, <2>2, <2>4
<1>7. Fine(N) BY <1>1, <1>6
<1>8. Q \subseteq Rest(N) BY DEF N
<1>9. Tidy(f[N], Q)
  <2> HIDE DEF Rest
  <2> QED BY <1>7, <1>8, Forget DEF Fine
<1> QED BY <1>3, <1>7, <1>9 DEF Fine

-----------------------------------------------------------------------------
(* The elements of a vector in their order.                                *)

LEMMA InOrderType ==
  ASSUME NEW S, S \subseteq Nat, IsFiniteSet(S)
  PROVE  /\ InOrder(S) \in Seq(S)
         /\ \A j, k \in 1..Len(InOrder(S)) : InOrder(S)[j] = InOrder(S)[k] => j = k
<1> DEFINE N == Cardinality(S)
           below(x) == {y \in S : y <= x}
           rank == [x \in S |-> Cardinality(below(x))]
<1>1. N \in Nat BY FS_CardinalityType
<1>2. ASSUME NEW x \in S
      PROVE  IsFiniteSet(below(x)) /\ Cardinality(below(x)) \in 1..N
  <2>1. below(x) \subseteq S /\ x \in below(x) OBVIOUS
  <2> HIDE DEF below
  <2>2. IsFiniteSet(below(x)) /\ Cardinality(below(x)) <= N BY <2>1, FS_Subset
  <2>3. Cardinality(below(x)) \in Nat /\ Cardinality(below(x)) # 0
    BY <2>1, <2>2, FS_CardinalityType, FS_EmptySet
  <2> QED BY <1>1, <2>2, <2>3
<1>3. ASSUME NEW x \in S, NEW z \in S, x < z PROVE rank[x] # rank[z]
  <2>1. below(x) \subseteq below(z)
    <3>1. x \in Nat /\ z \in Nat OBVIOUS
    <3>2. ASSUME NEW y \in S, y <= x PROVE y <= z
      <4>1. y \in Nat OBVIOUS
      <4> QED BY <1>3, <3>1, <3>2, <4>1
    <3> QED BY <3>2
  <2>2. z \in below(z) /\ z \notin below(x) BY <1>3
  <2>3. IsFiniteSet(below(z)) BY <1>2
  <2>4. rank[x] = Cardinality(below(x)) /\ rank[z] = Cardinality(below(z)) OBVIOUS
  <2> HIDE DEF below, rank
  <2>5. below(x) # below(z) BY <2>2
  <2>6. Cardinality(below(x)) # Cardinality(below(z)) BY <2>1, <2>3, <2>5, FS_Subset
  <2> QED BY <2>4, <2>6
<1>4. rank \in Injection(S, 1..N)
  <2>1. rank \in [S -> 1..N] BY <1>2
  <2>2. ASSUME NEW x \in S, NEW z \in S, rank[x] = rank[z] PROVE x = z
    <3>1. ~(x < z) /\ ~(z < x) BY <1>3, <2>2
    <3> QED BY <3>1
  <2> HIDE DEF rank
  <2> QED BY <2>1, <2>2 DEF Injection, IsInjective
<1>5. IsFiniteSet(1..N) /\ Cardinality(1..N) = N BY <1>1, FS_Interval
<1>6. rank \in Surjection(S, 1..N)
  <2> HIDE DEF rank
  <2> QED BY <1>4, <1>5, FS_Injection
<1>7. ASSUME NEW k \in 1..N PROVE \E x \in S : Cardinality(below(x)) = k
  <2>1. \E x \in S : rank[x] = k
    <3> HIDE DEF rank
    <3> QED BY <1>6, <1>7 DEF Surjection
  <2> QED BY <2>1
<1> DEFINE s == InOrder(S)
<1>8. s = [k \in 1..N |-> CHOOSE x \in S : Cardinality(below(x)) = k] BY DEF InOrder
<1> HIDE DEF below, s, N
<1>9. \A k \in 1..N : s[k] \in S /\ Cardinality(below(s[k])) = k BY <1>7, <1>8
<1>10. DOMAIN s = 1..N BY <1>8
<1>11. s \in Seq(S)
  <2>1. s \in [1..N -> S] BY <1>8, <1>9, <1>10
  <2> QED BY <1>1, <2>1
<1>12. Len(s) = N BY <1>1, <1>10, <1>11
<1> QED BY <1>9, <1>11, <1>12 DEF s

-----------------------------------------------------------------------------
(* An instruction, with O the roots that are none of its values.           *)

\* What the step from m to done makes of the memory: the roots O and `kept' stay, the value
\* made is a root of its own.
Sound(m, done, O, kept) ==
  /\ Tidy(done.m, O \union kept \union done.val)
  /\ done.val \intersect (O \union kept) = {}
  /\ Kept(m, done.m, O)
  /\ done.m.fault \in {m.fault, "null dereference"}

LEMMA DoneParts == \A m, val : Done(m, val).m = m /\ Done(m, val).val = val
BY DEF Done

LEMMA SoundIntro ==
  ASSUME NEW m, NEW n, NEW val, NEW O, NEW kept, Tidy(n, O \union kept \union val),
         val \intersect (O \union kept) = {}, Kept(m, n, O), n.fault \in {m.fault, "null dereference"}
  PROVE  Sound(m, Done(n, val), O, kept)
BY DoneParts DEF Sound

LEMMA SoundMeans ==
  ASSUME NEW m, NEW n, NEW val, NEW O, NEW kept, Sound(m, Done(n, val), O, kept)
  PROVE  /\ Tidy(n, O \union kept \union val) /\ val \intersect (O \union kept) = {}
         /\ Kept(m, n, O) /\ n.fault \in {m.fault, "null dereference"}
BY DoneParts DEF Sound

LEMMA KeptSame == ASSUME NEW m, NEW O PROVE Kept(m, m, O)
BY DEF Kept

LEMMA KeptFewer == ASSUME NEW m, NEW n, NEW R, NEW O \in SUBSET R, Kept(m, n, R) PROVE Kept(m, n, O)
BY DEF Kept

\* A value that exists.
LEMMA ValueSound ==
  ASSUME NEW m, NEW O, NEW val, NEW R, Tidy(m, R), O \union val \subseteq R, val \intersect O = {}
  PROVE  Sound(m, Done(m, val), O, {})
<1>1. Tidy(m, O \union {} \union val) BY Forget
<1> QED BY <1>1, DoneParts, KeptSame DEF Sound

\* A string.
LEMMA CopySound ==
  ASSUME NEW m, NEW O, NEW on, NEW R, Tidy(m, R), O \union on \subseteq R
  PROVE  Sound(m, Done(NewString(m), {m.next}), O, on)
<1> DEFINE new == NewString(m)
           Q == O \union on \union {m.next}
<1>1. IsMemory(m) /\ R \subseteq Live(m) BY DEF Tidy
<1>2. m.next \notin Live(m) BY <1>1, NewMemory
<1>3. new.fault = m.fault BY <1>1, NewFault DEF NewString
<1>4. Tidy(new, R \union {m.next}) BY NewStringTidy
<1>5. Tidy(new, Q)
  <2>1. Q \subseteq R \union {m.next} OBVIOUS
  <2> HIDE DEF Q, new
  <2> QED BY <1>4, <2>1, Forget
<1>6. Kept(m, new, R) BY NewKeeps DEF NewString
<1>7. Kept(m, new, O)
  <2> HIDE DEF new
  <2> QED BY <1>6, KeptFewer
<1> HIDE DEF new
<1>8. {m.next} \intersect (O \union on) = {} BY <1>1, <1>2
<1> QED BY <1>3, <1>5, <1>7, <1>8, DoneParts DEF Sound, new

\* An object.
LEMMA MakeSound ==
  ASSUME NEW m, NEW O, NEW class, NEW type, NEW f, NEW R, Tidy(m, R), O \subseteq R,
         \A g \in DOMAIN f : f[g] \subseteq R \ O,
         \A g, h \in DOMAIN f : f[g] \intersect f[h] # {} => g = h
  PROVE  Sound(m, Make(m, class, type, f), O, {})
<1> DEFINE new == New(m, class, type, f)
           Q == O \union {m.next}
<1>1. IsMemory(m) /\ R \subseteq Live(m) BY DEF Tidy
<1>2. m.next \notin Live(m) /\ new.fault = m.fault
  <2>1. new.fault = m.fault BY <1>1, NewFault
  <2>2. m.next \notin Live(m) BY <1>1, NewMemory
  <2> QED BY <2>1, <2>2
<1>3. Tidy(new, Q)
  <2>1. \A g \in DOMAIN f : f[g] \subseteq R \ Q BY <1>1, <1>2
  <2>2. Q \subseteq R \union {m.next} OBVIOUS
  <2> HIDE DEF Q
  <2> QED BY <2>1, <2>2, NewTidy
<1>4. Kept(m, new, R) BY NewKeeps
<1> HIDE DEF new
<1>5. Kept(m, new, O) BY <1>4, KeptFewer
<1>6. Tidy(new, O \union {} \union {m.next}) BY <1>3
<1>7. {m.next} \intersect (O \union {}) = {} BY <1>1, <1>2
<1> QED BY <1>2, <1>5, <1>6, <1>7, DoneParts DEF Sound, Make, new

LEMMA FaultOfSet ==
  ASSUME NEW m, IsMemory(m), NEW p, NEW f, p \subseteq Live(m)
  PROVE  SetFields(m, p, f).fault \in {m.fault, "null dereference"}
<1>1. CASE p = {}
  <2>1. SetFields(m, p, f) = [m EXCEPT !.fault = "null dereference"]
    BY <1>1 DEF SetFields, Faulted
  <2> QED BY <2>1 DEF IsMemory
<1>2. CASE p # {}
  <2> DEFINE new == SetFields(m, p, f)
  <2>1. IsMemory(new) /\ Live(new) = Live(m) /\ new.fault = m.fault BY <1>2, SetMemory
  <2> QED BY <2>1
<1> QED BY <1>1, <1>2

\* An assignment to the object p points to, which is no root of O, of values that are roots
\* or were in the same member: val are the values taken from it, or none.
LEMMA AssignSound ==
  ASSUME NEW m, NEW O, NEW on, NEW p, NEW f, NEW val, NEW R, Tidy(m, R), p \subseteq Live(m),
         O \union on \subseteq R, p # {} => Pointee(p) \notin O,
         \A g \in DOMAIN f : f[g] \subseteq (R \union Member(m, p, g)) \ (O \union on \union val),
         \A g, h \in DOMAIN f : f[g] \intersect f[h] # {} => g = h,
         \A x \in val : \E g \in DOMAIN f : p # {} /\ x \in Member(m, p, g)
  PROVE  Sound(m, Done(SetFields(m, p, f), val), O, on)
<1> DEFINE new == SetFields(m, p, f)
           Q == O \union on \union val
<1>1. IsMemory(m) /\ R \subseteq Live(m) BY DEF Tidy
<1>2. \A x, g : Field(m, x, g) \subseteq Live(m) \ R BY TidyFields
<1>3. val \intersect R = {} BY <1>2 DEF Member
<1>4. Tidy(new, Q)
  <2>1. p = {} => Q \intersect R = Q OBVIOUS
  <2>2. \A x \in Q : x \in R \/ \E g \in DOMAIN f : p # {} /\ x \in Member(m, p, g) OBVIOUS
  <2> HIDE DEF Q, new
  <2>3. p = {} => Tidy(SetFields(m, p, f), Q \intersect R)
    BY <2>2, SetFromRoots DEF Q
  <2>4. p # {} => Tidy(SetFields(m, p, f), Q)
    BY <2>2, SetFromRoots DEF Q
  <2> QED BY <2>1, <2>3, <2>4 DEF new
<1>5. Kept(m, new, O)
  <2>1. O \subseteq Live(m) /\ \A x \in O : \A g : Field(m, x, g) \subseteq Live(m) BY <1>1, <1>2
  <2> HIDE DEF new
  <2> QED BY <1>1, <2>1, SetKeeps DEF new
<1>6. new.fault \in {m.fault, "null dereference"} BY <1>1, FaultOfSet
<1> HIDE DEF new
<1>7. val \intersect (O \union on) = {} BY <1>3
<1> QED BY <1>4, <1>5, <1>6, <1>7, DoneParts DEF Sound, new

LEMMA SoundAfter ==
  ASSUME NEW m, NEW n, NEW done, NEW O, NEW kept, Kept(m, n, O), n.fault \in {m.fault, "null dereference"},
         Sound(n, done, O, kept)
  PROVE  Sound(m, done, O, kept)
BY KeptTwice DEF Sound

\* The member of an object is deleted and another one assigned.
LEMMA ReplaceSound ==
  ASSUME NEW m, NEW O, NEW on, NEW v, NEW what, NEW R, Tidy(m, R), O \union on \union v \subseteq R,
         O \intersect on = {}, v \intersect (O \union on) = {}
  PROVE  Sound(m, Done(SetFields(Delete(m, Member(m, on, what)), on, [h \in {what} |-> v]), on), O, {})
<1> DEFINE S == Member(m, on, what)
           f == [h \in {what} |-> v]
           n == Delete(m, S)
           new == SetFields(n, on, f)
           Q == O \union on
<1>1. IsMemory(m) /\ R \subseteq Live(m) BY DEF Tidy
<1>2. DOMAIN f = {what} /\ f[what] = v OBVIOUS
<1> HIDE DEF f
<1>3. CASE on = {}
  <2>1. S = {} BY <1>3 DEF Member
  <2>2. Tidy(n, R) /\ Kept(m, n, R) /\ n.fault = m.fault BY <2>1, DeleteRoots
  <2> HIDE DEF n, S
  <2>3. Kept(m, n, O) BY <2>2, KeptFewer
  <2>4. \A g \in DOMAIN f : f[g] \subseteq (R \union Member(n, on, g)) \ (O \union {} \union {})
    BY <1>2
  <2>5. Sound(n, Done(new, {}), O, {})
    <3>1. on \subseteq Live(n) /\ (on # {} => Pointee(on) \notin O) BY <1>3
    <3>2. \A g, h \in DOMAIN f : f[g] \intersect f[h] # {} => g = h BY <1>2
    <3> QED BY <2>2, <2>4, <3>1, <3>2, AssignSound
  <2>6. Sound(m, Done(new, {}), O, {}) BY <2>2, <2>3, <2>5, SoundAfter
  <2>7. Sound(m, Done(new, on), O, {}) BY <1>3, <2>6
  <2> QED BY <2>7 DEF n, S, f
<1>4. CASE on # {}
  <2> DEFINE o == Pointee(on)
             D == Doomed(m, S)
             set(y, h) == y = o /\ h \in DOMAIN f
  <2>1. o \in on BY <1>4 DEF Pointee
  <2>2. S = Field(m, o, what) BY <1>4 DEF Member
  <2>3. /\ \A x, g : Field(m, x, g) \subseteq Live(m) \ R
        /\ \A x, g, y, h, z : z \in Field(m, x, g) /\ z \in Field(m, y, h) => x = y /\ g = h
    BY TidyFields
  <2>4. S \subseteq Live(m) /\ S \intersect R = {} BY <2>2, <2>3
  <2>5. /\ IsMemory(n) /\ D \subseteq Live(m) /\ Live(n) = Live(m) \ D
        /\ \A x, g : Field(n, x, g) = IF x \in D THEN {} ELSE Field(m, x, g)
        /\ \A z \in D \ S : \E x \in D : \E g : z \in Field(m, x, g)
    BY <2>4, DeleteMemory
  <2>6. n.fault = m.fault BY <2>4, DeleteMemory
  <2>7. Kept(m, n, O)
    <3>1. O \subseteq R \ S BY <2>4
    <3>2. o \notin O BY <2>1
    <3>3. \A x \in O : \A g : Field(m, x, g) \intersect S = {} BY <2>2, <2>3, <3>2
    <3> HIDE DEF S, n, o
    <3> QED BY <2>4, <3>1, <3>3, DeleteKeeps DEF n
  <2> HIDE DEF o, D, S, n
  <2>8. R \intersect D = {} BY <2>3, <2>4, <2>5
  <2>9. R \subseteq Live(n) BY <1>1, <2>5, <2>8
  <2>10. ASSUME NEW y, NEW h, ~set(y, h), NEW z \in Field(n, y, h)
         PROVE  z \in Live(n) /\ z \notin R /\ z \in Field(m, y, h)
    <3>1. y \notin D /\ z \in Field(m, y, h) BY <2>5, <2>10
    <3>2. z \notin S BY <1>2, <2>2, <2>3, <2>10, <3>1
    <3>3. z \notin D BY <2>3, <2>5, <3>1, <3>2
    <3> QED BY <2>3, <2>5, <3>1, <3>3
  <2>11. Tidy(new, Q)
    <3>1. on \subseteq Live(n) /\ Q \subseteq Live(n) BY <2>9
    <3>2. \A g \in DOMAIN f : f[g] \subseteq Live(n) \ Q BY <1>2, <2>9
    <3>3. \A g, h \in DOMAIN f : f[g] \intersect f[h] # {} => g = h BY <1>2
    <3>4. \A y, h : ~set(y, h) => /\ Field(n, y, h) \subseteq Live(n) \ Q
                                 /\ \A g \in DOMAIN f : Field(n, y, h) \intersect f[g] = {}
      BY <1>2, <2>10
    <3>5. \A x, g, y, h, z : ~set(x, g) /\ ~set(y, h) /\ z \in Field(n, x, g) /\ z \in Field(n, y, h)
                            => x = y /\ g = h
      BY <2>3, <2>10
    <3> HIDE DEF Q
    <3> QED BY <1>4, <2>5, <3>1, <3>2, <3>3, <3>4, <3>5, SetTidy DEF o
  <2>12. Kept(n, new, O)
    <3>1. O \subseteq Live(n) /\ on \subseteq Live(n) /\ o \notin O BY <2>1, <2>9
    <3>2. \A x \in O : \A g : Field(n, x, g) \subseteq Live(n)
      BY <2>10, <3>1
    <3> QED BY <2>5, <3>1, <3>2, SetKeeps DEF o
  <2>13. new.fault \in {n.fault, "null dereference"}
    <3>1. on \subseteq Live(n) BY <2>9
    <3> QED BY <2>5, <3>1, FaultOfSet
  <2> HIDE DEF new
  <2>14. Kept(m, new, O) BY <2>7, <2>12, KeptTwice
  <2>15. Tidy(new, O \union {} \union on) /\ on \intersect (O \union {}) = {} BY <2>11
  <2> QED BY <2>6, <2>13, <2>14, <2>15, DoneParts DEF Sound, new, n, S, f
<1> HIDE DEF new, S, n
<1> QED BY <1>3, <1>4 DEF new, S, n, f

\* The values of on are vectors of column constraints.
IsConstraintList(m, on) ==
  \A v \in on : /\ m.heap[v].kind = "vector"
                /\ \A c \in Field(m, v, "elems") : m.heap[c].kind = "ColumnConstraint"

\* The constructor of ColumnDefinition: what it keeps is neither deleted by itself nor by a
\* destructor of what it deletes, because column constraints free nothing.
LEMMA ColumnSound ==
  ASSUME NEW m, NEW O, NEW on, NEW name, NEW R, Tidy(m, R), O \union on \union name \subseteq R,
         O \intersect on = {}, name \intersect (O \union on) = {}, IsConstraintList(m, on)
  PROVE  Sound(m, ColumnDefinition(m, name, on), O, {})
<1> DEFINE C == Elements(m, on)
           having(g) == {c \in C : Field(m, c, g) # {}}
           kept(g) == FieldsOf(m, {c \in having(g) : \A d \in having(g) : d <= c}, g)
           dropped(g) == FieldsOf(m, C, g) \ kept(g)
           S == dropped("expr") \union dropped("fk") \union C \union on
           n == Delete(m, S)
           f == [name |-> name, defaultVal |-> kept("expr"), foreignKeyConstraint |-> kept("fk")]
           D == Doomed(m, S)
           P == O \union name \union kept("expr") \union kept("fk")
<1>1. R \subseteq Live(m) BY DEF Tidy
<1>2. /\ \A x, g : Field(m, x, g) \subseteq Live(m) \ R
      /\ \A x, g, y, h, z : z \in Field(m, x, g) /\ z \in Field(m, y, h) => x = y /\ g = h
  BY TidyFields
<1>3. ASSUME NEW g
      PROVE  /\ \A z \in kept(g) : \E c \in C : z \in Field(m, c, g)
             /\ \A z \in dropped(g) : \E c \in C : z \in Field(m, c, g)
             /\ kept(g) \intersect dropped(g) = {}
  <2> DEFINE L == {c \in having(g) : \A d \in having(g) : d <= c}
  <2>1. L \subseteq C OBVIOUS
  <2> HIDE DEF C, L
  <2> QED BY <2>1 DEF FieldsOf
<1>4. \A c \in C : \E v \in on : c \in Field(m, v, "elems") BY DEF Elements, FieldsOf
<1>5. ColumnDefinition(m, name, on) =
        IF on = {} THEN Done(Faulted(m, "null dereference"), {})
        ELSE Make(n, "ColumnDefinition", "", f)
  BY DEF ColumnDefinition
<1> HIDE DEF C, kept, dropped
<1>6. CASE on = {}
  <2> DEFINE new == Faulted(m, "null dereference")
  <2>1. Tidy(new, R) /\ new.fault = "null dereference" BY FaultedTidy
  <2>2. Kept(m, new, R) BY FaultedKeeps
  <2> HIDE DEF new
  <2>3. Kept(m, new, O) BY <2>2, KeptFewer
  <2>4. Tidy(new, O \union {} \union {})
    <3> DEFINE Q == O \union {} \union {}
    <3>1. Q \subseteq R OBVIOUS
    <3> HIDE DEF Q
    <3>2. Tidy(new, Q) BY <2>1, <3>1, Forget
    <3> QED BY <3>2 DEF Q
  <2>5. Sound(m, Done(new, {}), O, {}) BY <2>1, <2>3, <2>4, DoneParts DEF Sound
  <2>6. ColumnDefinition(m, name, on) = Done(new, {}) BY <1>5, <1>6 DEF new
  <2> QED BY <2>5, <2>6
<1>7. CASE on # {}
  <2>1. ASSUME NEW c \in C
        PROVE  c \in Live(m) /\ c \notin R /\ m.heap[c].kind \in Plain /\ \A x : c \notin Owned(m, x)
    <3>1. PICK v \in on : c \in Field(m, v, "elems") BY <1>4
    <3>2. m.heap[c].kind \in Plain /\ m.heap[v].kind \in Plain
      BY <3>1 DEF IsConstraintList, Plain
    <3>3. Owned(m, v) = {} BY <3>2, PlainOwnsNothing
    <3>4. v \in R OBVIOUS
    <3>5. \A x : v \notin Owned(m, x) BY <3>4, RootHasNoOwner
    <3>6. \A x : c \notin Owned(m, x) BY <3>1, <3>3, <3>5, OwnerIsFreed
    <3> QED BY <1>2, <3>1, <3>2, <3>6
  <2>2. ASSUME NEW z \in S
        PROVE  /\ z \in Live(m)
               /\ z \in on \/ \E x \in S : \E g : z \in Field(m, x, g)
    <3>1. CASE z \in on BY <1>1, <3>1
    <3>2. CASE z \in C BY <1>4, <2>1, <3>2
    <3>3. CASE z \in dropped("expr") \union dropped("fk") BY <1>2, <1>3, <3>3
    <3> QED BY <3>1, <3>2, <3>3
  <2>3. S \subseteq Live(m) BY <2>2
  <2>4. ASSUME NEW x \in O \union name, NEW g PROVE Field(m, x, g) \intersect S = {}
    <3>1. x \notin C /\ x \notin on BY <2>1
    <3>2. ASSUME NEW z \in Field(m, x, g), z \in S PROVE FALSE
      <4>1. \A y, h : z \in Field(m, y, h) => y = x BY <1>2, <3>2
      <4>2. z \notin on BY <1>2, <3>2
      <4>3. z \notin C BY <1>4, <3>1, <4>1
      <4>4. z \notin dropped("expr") /\ z \notin dropped("fk") BY <1>3, <3>1, <4>1
      <4> QED BY <3>2, <4>2, <4>3, <4>4
    <3> QED BY <3>2
  <2>5. ASSUME NEW g \in {"expr", "fk"}, NEW z \in kept(g) PROVE z \in Live(m) /\ z \notin D
    <3>1. PICK c \in C : z \in Field(m, c, g) BY <1>3
    <3>2. z \in Live(m) /\ z \notin R BY <1>2, <3>1
    <3>3. z \notin C
      <4>1. g # "elems" OBVIOUS
      <4> QED BY <1>2, <1>4, <3>1, <4>1
    <3>4. z \notin dropped("expr") \union dropped("fk") BY <1>2, <1>3, <3>1
    <3>5. z \notin S BY <3>2, <3>3, <3>4
    <3>6. m.heap[c].kind \in Plain /\ \A x : c \notin Owned(m, x) BY <2>1
    <3> HIDE DEF S, D
    <3>7. z \notin Doomed(m, S) BY <2>3, <3>1, <3>5, <3>6, SparedByPlain
    <3> QED BY <3>2, <3>7 DEF D
  <2>6. O \union name \subseteq R \ S
    <3>1. ASSUME NEW x \in O \union name, x \in S PROVE FALSE
      <4>1. x \in R /\ x \notin on OBVIOUS
      <4>2. \A y, g : x \notin Field(m, y, g) BY <1>2, <4>1
      <4> HIDE DEF S
      <4> QED BY <2>2, <3>1, <4>1, <4>2
    <3> HIDE DEF S
    <3> QED BY <3>1
  <2> HIDE DEF S, n, D
  <2>7. Kept(m, n, O \union name) /\ (O \union name) \intersect D = {}
    BY <2>3, <2>4, <2>6, DeleteKeeps DEF n, D
  <2>8. n.fault = m.fault BY <2>3, DeleteMemory DEF n
  <2>9. S \subseteq D BY <2>3, DeleteMemory DEF D
  <2>10. C \subseteq S BY DEF S
  <2>11. Tidy(n, P)
    <3>1. \A z \in S : z \in R \/ \E x \in D : \E g : z \in Field(m, x, g) BY <2>2, <2>9
    <3>2. P \subseteq Live(m) \ D BY <1>1, <2>5, <2>7
    <3>3. \A z \in P : z \in R \/ \E x \in D : \E g : z \in Field(m, x, g)
      BY <1>3, <2>9, <2>10
    <3> HIDE DEF P
    <3> QED BY <2>3, <3>1, <3>2, <3>3, DeleteTidy DEF n, D
  <2>12. Kept(m, n, O) BY <2>7, KeptFewer
  <2>13. ASSUME NEW z
         PROVE  /\ z \in kept("expr") => z \notin kept("fk") /\ z \notin R
                /\ z \in kept("fk") => z \notin R
    BY <1>2, <1>3
  <2>14. Sound(n, Make(n, "ColumnDefinition", "", f), O, {})
    <3>1. DOMAIN f = {"name", "defaultVal", "foreignKeyConstraint"} OBVIOUS
    <3>2. /\ f["name"] = name /\ f["defaultVal"] = kept("expr")
          /\ f["foreignKeyConstraint"] = kept("fk")
      OBVIOUS
    <3> HIDE DEF f
    <3>3. \A g \in DOMAIN f : f[g] \subseteq P \ O BY <2>13, <3>1, <3>2
    <3>4. \A g, h \in DOMAIN f : f[g] \intersect f[h] # {} => g = h
      <4>1. \A z : /\ z \in f["name"] => z \notin f["defaultVal"] /\ z \notin f["foreignKeyConstraint"]
                   /\ z \in f["defaultVal"] => z \notin f["foreignKeyConstraint"]
        BY <2>13, <3>2
      <4> QED BY <3>1, <4>1
    <3>5. O \subseteq P OBVIOUS
    <3> HIDE DEF P
    <3> QED BY <2>11, <3>3, <3>4, <3>5, MakeSound
  <2> HIDE DEF f
  <2>15. Sound(m, Make(n, "ColumnDefinition", "", f), O, {})
    BY <2>8, <2>12, <2>14, SoundAfter
  <2> QED BY <1>5, <1>7, <2>15 DEF n, S, f
<1> QED BY <1>6, <1>7

\* Any instruction, when its values are different roots.
LEMMA ExecuteSound ==
  ASSUME NEW m, NEW O, NEW in, NEW on, NEW args, NEW R, Tidy(m, R),
         in.op \in Operations,
         in.op \in {"push", "pushin", "replace", "delete", "both"} => 1 \in DOMAIN args,
         in.op = "both" => 2 \in DOMAIN args,
         in.op = "column" => "name" \in DOMAIN args /\ IsConstraintList(m, on),
         O \union on \subseteq R, O \intersect on = {},
         \A g \in DOMAIN args : args[g] \subseteq R \ (O \union on),
         \A g, h \in DOMAIN args : args[g] \intersect args[h] # {} => g = h
  PROVE  Sound(m, Execute(m, in, on, args), O, IF in.op \in Borrowing THEN on ELSE {})
<1> DEFINE kept == IF in.op \in Borrowing THEN on ELSE {}
           done == Execute(m, in, on, args)
           elems(p, v) == [elems |-> Member(m, p, "elems") \union v]
<1>1. IsMemory(m) /\ R \subseteq Live(m) /\ on \subseteq Live(m) BY DEF Tidy
<1>2. \A x, g : Field(m, x, g) \subseteq Live(m) \ R BY TidyFields
<1>3. \A p, g : Member(m, p, g) \subseteq Live(m) \ R BY <1>2 DEF Member
<1>4. on # {} => Pointee(on) \in on BY DEF Pointee
<1>5. ASSUME NEW p, NEW v, NEW W, p \subseteq Live(m), p # {} => Pointee(p) \notin O,
             v \subseteq R \ (O \union W), O \union W \subseteq R
      PROVE  Sound(m, Done(SetFields(m, p, elems(p, v)), {}), O, W)
  <2> DEFINE f == elems(p, v)
  <2>1. DOMAIN f = {"elems"} /\ f["elems"] = Member(m, p, "elems") \union v OBVIOUS
  <2> HIDE DEF f
  <2>2. \A g \in DOMAIN f : f[g] \subseteq (R \union Member(m, p, g)) \ (O \union W \union {})
    BY <1>3, <1>5, <2>1
  <2>3. \A g, h \in DOMAIN f : f[g] \intersect f[h] # {} => g = h BY <2>1
  <2>4. Sound(m, Done(SetFields(m, p, f), {}), O, W) BY <1>5, <2>2, <2>3, AssignSound
  <2> QED BY <2>4 DEF f
<1>6. ASSUME NEW n, NEW W, Sound(m, Done(n, {}), O, W), O \intersect W = {}
      PROVE  Sound(m, Done(n, W), O, {})
  <2>1. Tidy(n, O \union W \union {}) /\ Kept(m, n, O) /\ n.fault \in {m.fault, "null dereference"}
    BY <1>6, SoundMeans
  <2>2. O \union W \union {} = O \union {} \union W /\ W \intersect (O \union {}) = {} BY <1>6
  <2>3. Tidy(n, O \union {} \union W) BY <2>1, <2>2
  <2> QED BY <2>1, <2>2, <2>3, SoundIntro
<1>7. CASE in.op = "value"
  <2>1. done = Done(m, on) /\ kept = {} BY <1>7 DEF Execute, Borrowing
  <2>2. O \union on \subseteq R /\ on \intersect O = {} OBVIOUS
  <2>3. Sound(m, Done(m, on), O, {}) BY <2>2, ValueSound
  <2> QED BY <2>1, <2>3
<1>8. CASE in.op = "copy"
  <2>1. done = Done(NewString(m), {m.next}) /\ kept = {} BY <1>8 DEF Execute, Borrowing
  <2>2. O \union {} \subseteq R OBVIOUS
  <2> QED BY <2>1, <2>2, CopySound
<1>9. CASE in.op = "new"
  <2>1. done = Make(m, in.what, in.type, args) /\ kept = {} BY <1>9 DEF Execute, Borrowing
  <2> QED BY <2>1, MakeSound
<1>10. CASE in.op = "vector"
  <2> DEFINE v == UNION {args[k] : k \in DOMAIN args}
             f == [elems |-> v]
  <2>1. done = Make(m, "vector", "", f) /\ kept = {} BY <1>10 DEF Execute, Borrowing
  <2>2. DOMAIN f = {"elems"} /\ f["elems"] = v OBVIOUS
  <2>3. v \subseteq R \ O OBVIOUS
  <2> HIDE DEF f, v
  <2>4. Sound(m, Make(m, "vector", "", f), O, {})
    <3>1. \A g \in DOMAIN f : f[g] \subseteq R \ O BY <2>2, <2>3
    <3>2. \A g, h \in DOMAIN f : f[g] \intersect f[h] # {} => g = h BY <2>2
    <3> QED BY <3>1, <3>2, MakeSound
  <2> QED BY <2>1, <2>4
<1>11. CASE in.op = "push"
  <2>1. done = Done(SetFields(m, on, elems(on, args[1])), on) /\ kept = {}
    BY <1>11 DEF Execute, Borrowing, PushBack
  <2>2. args[1] \subseteq R \ (O \union on) BY <1>11
  <2>3. on # {} => Pointee(on) \notin O BY <1>4
  <2> HIDE DEF elems
  <2>4. Sound(m, Done(SetFields(m, on, elems(on, args[1])), {}), O, on)
    BY <1>1, <1>5, <2>2, <2>3
  <2> QED BY <1>6, <2>1, <2>4
<1>12. CASE in.op = "pushin"
  <2> DEFINE p == Member(m, on, in.what)
  <2>1. done = Done(SetFields(m, p, elems(p, args[1])), on) /\ kept = {}
    BY <1>12 DEF Execute, Borrowing, PushBack
  <2>2. args[1] \subseteq R \ (O \union on) BY <1>12
  <2>3. p \subseteq Live(m) /\ (p # {} => Pointee(p) \notin O) BY <1>3 DEF Pointee
  <2> HIDE DEF elems, p
  <2>4. Sound(m, Done(SetFields(m, p, elems(p, args[1])), {}), O, on) BY <1>5, <2>2, <2>3
  <2> QED BY <1>6, <2>1, <2>4
<1>13. CASE in.op = "set"
  <2>1. done = Done(SetFields(m, on, args), on) /\ kept = {} BY <1>13 DEF Execute, Borrowing
  <2>2. on # {} => Pointee(on) \notin O BY <1>4
  <2>3. \A g \in DOMAIN args : args[g] \subseteq (R \union Member(m, on, g)) \ (O \union on \union {})
    OBVIOUS
  <2>4. Sound(m, Done(SetFields(m, on, args), {}), O, on) BY <1>1, <2>2, <2>3, AssignSound
  <2> QED BY <1>6, <2>1, <2>4
<1>14. CASE in.op = "replace"
  <2>1. done = Done(IF args[1] = {} THEN m
                    ELSE SetFields(Delete(m, Member(m, on, in.what)), on, [h \in {in.what} |-> args[1]]),
                    on) /\ kept = {}
    BY <1>14 DEF Execute, Borrowing
  <2>2. args[1] \subseteq R \ (O \union on) BY <1>14
  <2>3. CASE args[1] = {}
    <3>1. done = Done(m, on) /\ kept = {} BY <2>1, <2>3
    <3>2. O \union on \subseteq R /\ on \intersect O = {} OBVIOUS
    <3>3. Sound(m, Done(m, on), O, {}) BY <3>2, ValueSound
    <3> HIDE DEF done, kept
    <3>4. Sound(m, done, O, kept) BY <3>1, <3>3
    <3> QED BY <3>4 DEF done, kept
  <2>4. CASE args[1] # {}
    <3> DEFINE v == args[1]
    <3>1. done = Done(SetFields(Delete(m, Member(m, on, in.what)), on, [h \in {in.what} |-> v]), on)
         /\ kept = {}
      BY <2>1, <2>4
    <3>2. v \intersect (O \union on) = {} /\ O \union on \union v \subseteq R BY <2>2
    <3> HIDE DEF v
    <3>3. Sound(m, Done(SetFields(Delete(m, Member(m, on, in.what)), on, [h \in {in.what} |-> v]), on),
                O, {})
      BY <3>2, ReplaceSound
    <3> HIDE DEF done, kept
    <3>4. Sound(m, done, O, kept) BY <3>1, <3>3
    <3> QED BY <3>4 DEF done, kept
  <2> QED BY <2>3, <2>4
<1>15. CASE in.op = "take"
  <2> DEFINE f == [h \in {in.what} |-> {}]
             val == Member(m, on, in.what)
  <2>1. done = Done(SetFields(m, on, f), val) /\ kept = on
    BY <1>15 DEF Execute, Borrowing, Taken
  <2>2. DOMAIN f = {in.what} /\ f[in.what] = {} OBVIOUS
  <2>3. on # {} => Pointee(on) \notin O BY <1>4
  <2>4. \A x \in val : on # {} BY DEF Member
  <2> HIDE DEF f
  <2>5. Sound(m, Done(SetFields(m, on, f), val), O, on)
    <3>1. \A g \in DOMAIN f : f[g] \subseteq (R \union Member(m, on, g)) \ (O \union on \union val)
      BY <2>2
    <3>2. \A g, h \in DOMAIN f : f[g] \intersect f[h] # {} => g = h BY <2>2
    <3>3. \A x \in val : \E g \in DOMAIN f : on # {} /\ x \in Member(m, on, g) BY <2>2, <2>4
    <3> HIDE DEF val
    <3> QED BY <1>1, <2>3, <3>1, <3>2, <3>3, AssignSound, SMTT(30)
  <2> QED BY <2>1, <2>5
<1>16. CASE in.op = "delete"
  <2> DEFINE n == Delete(m, on)
             v == args[1]
             Q == O \union v
  <2>1. done = Done(n, v) /\ kept = {} BY <1>16 DEF Execute, Borrowing
  <2>2. v \subseteq R \ (O \union on) BY <1>16
  <2>3. Q \subseteq R \ on /\ on \subseteq R BY <2>2
  <2> HIDE DEF Q
  <2>4. Tidy(n, Q) /\ Kept(m, n, Q) /\ n.fault = m.fault BY <2>3, DeleteRoots
  <2> HIDE DEF n
  <2>5. Kept(m, n, O) BY <2>4, KeptFewer DEF Q
  <2>6. Tidy(n, O \union {} \union v) BY <2>4 DEF Q
  <2>7. v \intersect (O \union {}) = {} BY <2>2
  <2> HIDE DEF v
  <2>8. Sound(m, Done(n, v), O, {}) BY <2>4, <2>5, <2>6, <2>7, SoundIntro
  <2> QED BY <2>1, <2>8
<1>17. CASE in.op = "both"
  <2>1. done = Done(m, args[1] \union args[2]) /\ kept = {} BY <1>17 DEF Execute, Borrowing
  <2> DEFINE v == args[1] \union args[2]
  <2>2. args[1] \subseteq R \ (O \union on) /\ args[2] \subseteq R \ (O \union on) BY <1>17
  <2>3. O \union v \subseteq R /\ v \intersect O = {} BY <2>2
  <2>4. done = Done(m, v) BY <2>1
  <2> HIDE DEF v
  <2>5. Sound(m, Done(m, v), O, {}) BY <2>3, ValueSound
  <2> QED BY <2>1, <2>4, <2>5
<1>18. CASE in.op = "column"
  <2>1. done = ColumnDefinition(m, args.name, on) /\ kept = {} BY <1>18 DEF Execute, Borrowing
  <2> DEFINE v == args["name"]
  <2>2. v \subseteq R \ (O \union on) BY <1>18
  <2>3. v \intersect (O \union on) = {} /\ O \union on \union v \subseteq R BY <2>2
  <2>4. done = ColumnDefinition(m, v, on) BY <2>1
  <2> HIDE DEF v
  <2>5. Sound(m, ColumnDefinition(m, v, on), O, {}) BY <1>18, <2>3, ColumnSound
  <2> QED BY <2>1, <2>4, <2>5
<1>19. CASE in.op = "copyName"
  <2>1. kept = on BY <1>19 DEF Borrowing
  <2>2. done = IF Member(m, on, "name") = {} THEN Done(Faulted(m, "null dereference"), {})
               ELSE Done(NewString(m), {m.next})
    BY <1>19 DEF Execute
  <2>3. Sound(m, Done(Faulted(m, "null dereference"), {}), O, on)
    <3> DEFINE new == Faulted(m, "null dereference")
               Q == O \union on \union {}
    <3>1. Tidy(new, R) /\ new.fault = "null dereference" BY FaultedTidy
    <3>2. Kept(m, new, R) BY FaultedKeeps
    <3>3. Q \subseteq R OBVIOUS
    <3> HIDE DEF new, Q
    <3>4. Kept(m, new, O) BY <3>2, KeptFewer
    <3>5. Tidy(new, Q) BY <3>1, <3>3, Forget
    <3>6. {} \intersect (O \union on) = {} OBVIOUS
    <3>7. Sound(m, Done(new, {}), O, on) BY <3>1, <3>4, <3>5, <3>6, SoundIntro DEF Q
    <3> QED BY <3>7 DEF new
  <2>4. Sound(m, Done(NewString(m), {m.next}), O, on) BY CopySound
  <2> QED BY <2>1, <2>2, <2>3, <2>4
<1>20. CASE in.op = "copyGetName"
  <2>1. kept = on BY <1>20 DEF Borrowing
  <2>2. done = IF Member(m, on, "alias") \union Member(m, on, "tableName") = {} THEN Done(m, {})
               ELSE Done(NewString(m), {m.next})
    BY <1>20 DEF Execute
  <2>3. Sound(m, Done(m, {}), O, on)
    <3> DEFINE Q == O \union on \union {}
    <3>1. Q \subseteq R OBVIOUS
    <3> HIDE DEF Q
    <3>2. Tidy(m, Q) BY <3>1, Forget
    <3>3. {} \intersect (O \union on) = {} OBVIOUS
    <3> QED BY <3>2, <3>3, KeptSame, SoundIntro DEF Q
  <2>4. Sound(m, Done(NewString(m), {m.next}), O, on) BY CopySound
  <2> QED BY <2>1, <2>2, <2>3, <2>4
<1> HIDE DEF kept, done
<1>21. Sound(m, done, O, kept)
  BY <1>7, <1>8, <1>9, <1>10, <1>11, <1>12, <1>13, <1>14, <1>15, <1>16, <1>17, <1>18, <1>19, <1>20
     DEF Operations, done, kept
<1> QED BY <1>21 DEF done, kept

-----------------------------------------------------------------------------
(* An action: one instruction after another.                               *)

LEMMA RowFacts ==
  ASSUME NEW r \in DOMAIN Rows
  PROVE  /\ Rows[r].lhs \in STRING \ {""}
         /\ Rows[r].rhs \in Seq(STRING \ {""}) /\ Len(Rows[r].rhs) \in Nat
         /\ DOMAIN Rows[r].rhs = 1..Len(Rows[r].rhs)
         /\ Len(Rows[r].code) \in Nat /\ DOMAIN Rows[r].code = 1..Len(Rows[r].code)
<1>1. /\ Rows[r].lhs \in STRING \ {""} /\ Rows[r].rhs \in Seq(STRING \ {""})
      /\ Rows[r].code \in Seq(ToSet(Rows[r].code))
  BY RowsAssumption, Zenon
<1> DEFINE lhs == Rows[r].lhs
           rhs == Rows[r].rhs
           code == Rows[r].code
<1>2. lhs \in STRING \ {""} /\ rhs \in Seq(STRING \ {""}) /\ code \in Seq(ToSet(code)) BY <1>1
<1> HIDE DEF lhs, rhs, code
<1>3. Len(rhs) \in Nat /\ DOMAIN rhs = 1..Len(rhs)
  <2> DEFINE S == STRING \ {""}
  <2>1. rhs \in Seq(S) BY <1>2
  <2> HIDE DEF S
  <2> QED BY <2>1
<1>4. Len(code) \in Nat /\ DOMAIN code = 1..Len(code)
  <2> DEFINE S == ToSet(code)
  <2> HIDE DEF S
  <2>1. code \in Seq(S) BY <1>2 DEF S
  <2> QED BY <2>1
<1> QED BY <1>2, <1>3, <1>4 DEF lhs, rhs, code

LEMMA CountFacts ==
  ASSUME NEW r \in DOMAIN Rows, NEW t \in 1..Len(Rows[r].code)
  PROVE  Len(Rows[r].rhs) \in Nat /\ t \in Nat /\ t > 0 /\ t \in DOMAIN Rows[r].code
<1> DEFINE N == Len(Rows[r].code)
<1>1. N \in Nat /\ Len(Rows[r].rhs) \in Nat /\ DOMAIN Rows[r].code = 1..N BY RowFacts
<1> HIDE DEF N
<1>2. t \in 1..N BY DEF N
<1> QED BY <1>1, <1>2

LEMMA InstructionFacts ==
  ASSUME NEW r \in DOMAIN Rows, NEW t \in 1..Len(Rows[r].code)
  PROVE  LET in == Rows[r].code[t]
         IN /\ in.op \in Operations /\ in.on \in Int
            /\ \A g \in DOMAIN in.args : in.args[g] \in Int
            /\ in.op \in {"push", "pushin", "replace", "delete", "both"} => 1 \in DOMAIN in.args
            /\ in.op = "both" => 2 \in DOMAIN in.args
            /\ in.op = "column" => "name" \in DOMAIN in.args
<1>1. Rows[r].code[t] \in ToSet(Rows[r].code) BY RowFacts DEF ToSet
<1> QED BY <1>1, RowsAssumption

\* Where the value v of instruction t of row r is.
Place(r, t, v) == IF v > 0 THEN v ELSE Len(Rows[r].rhs) + t + v

LEMMA PlacesMeans ==
  ASSUME NEW r, NEW t, NEW values
  PROVE  Places(r, t, values) = {Place(r, t, v) : v \in values \ {0}}
BY DEF Places, Place

\* The values that the first t instructions of row r have not moved.
Pending(r, t) ==
  {p \in 1..(Len(Rows[r].rhs) + t) :
     \A s \in 1..t : p \notin Places(r, s, Moved(Rows[r].code[s]))}

\* After t instructions of row r, from the memory m: the values left are different roots.
Registers(r, t, m, O, at) ==
  LET P == Pending(r, t)
      regs == at.regs
  IN /\ regs \in Seq(SUBSET Nat) /\ Len(regs) = Len(Rows[r].rhs) + t
     /\ \A p \in P : regs[p] \intersect O = {}
     /\ \A p, q \in P : regs[p] \intersect regs[q] # {} => p = q
     /\ Tidy(at.m, O \union UNION {regs[p] : p \in P})
     /\ Kept(m, at.m, O)
     /\ at.m.fault \in {m.fault, "null dereference"}

\* What an instruction uses has not been moved.
LEMMA UsedIsPending ==
  ASSUME ActionsAreLinear, NEW r \in DOMAIN Rows, NEW t \in 1..Len(Rows[r].code),
         NEW v \in Used(Rows[r].code[t]), v # 0
  PROVE  /\ v \in Int /\ 1 - t <= v /\ v <= Len(Rows[r].rhs)
         /\ Place(r, t, v) \in Pending(r, t - 1)
         /\ Place(r, t, v) \in Places(r, t, Used(Rows[r].code[t]))
<1> DEFINE n == Len(Rows[r].rhs)
<1>1. n \in Nat /\ t \in Nat /\ t \in DOMAIN Rows[r].code BY CountFacts
<1>2. /\ Used(Rows[r].code[t]) \subseteq (1 - t)..n
      /\ \A s \in 1..(t - 1) :
           Places(r, s, Moved(Rows[r].code[s])) \intersect Places(r, t, Used(Rows[r].code[t])) = {}
  BY <1>1 DEF ActionsAreLinear
<1>3. v \in Int /\ 1 - t <= v /\ v <= n BY <1>1, <1>2
<1>4. Place(r, t, v) \in Places(r, t, Used(Rows[r].code[t])) BY PlacesMeans
<1>5. Place(r, t, v) \in 1..(n + (t - 1)) BY <1>1, <1>3 DEF Place
<1> HIDE DEF n
<1>6. Place(r, t, v) \in Pending(r, t - 1) BY <1>2, <1>4, <1>5 DEF Pending, n
<1> QED BY <1>3, <1>4, <1>6 DEF n

\* Different values are in different places.
LEMMA PlaceInjective ==
  ASSUME NEW r \in DOMAIN Rows, NEW t \in Nat, NEW v \in Int, NEW w \in Int,
         1 - t <= v, v <= Len(Rows[r].rhs), 1 - t <= w, w <= Len(Rows[r].rhs),
         Place(r, t, v) = Place(r, t, w)
  PROVE  v = w
<1>1. Len(Rows[r].rhs) \in Nat BY RowFacts
<1> QED BY <1>1 DEF Place

\* One more instruction: what it moved is no longer pending, what it made is.
LEMMA PendingNext ==
  ASSUME NEW r \in DOMAIN Rows, ActionsAreLinear, NEW t \in 1..Len(Rows[r].code)
  PROVE  Pending(r, t) \subseteq (Pending(r, t - 1) \ Places(r, t, Moved(Rows[r].code[t])))
                                \union {Len(Rows[r].rhs) + t}
<1>1. Len(Rows[r].rhs) \in Nat /\ t \in Nat /\ t > 0 BY CountFacts
<1> QED BY <1>1 DEF Pending

LEMMA StepSound ==
  ASSUME ActionsAreLinear, NEW r \in DOMAIN Rows, NEW t \in 1..Len(Rows[r].code),
         NEW m, NEW O, NEW at, Registers(r, t - 1, m, O, at),
         Rows[r].code[t].op = "column" =>
           IsConstraintList(at.m, ValueIn(at.regs, Rows[r].code[t].on))
  PROVE  Registers(r, t, m, O, Step(at, Rows[r].code[t]))
<1> DEFINE in == Rows[r].code[t]
           n == Len(Rows[r].rhs)
           regs == at.regs
           P == Pending(r, t - 1)
           on == ValueIn(regs, in.on)
           args == [g \in DOMAIN in.args |-> ValueIn(regs, in.args[g])]
           done == Execute(at.m, in, on, args)
           new == Step(at, in)
           U == Places(r, t, Used(in))
           R == O \union UNION {regs[p] : p \in P}
           O2 == O \union UNION {regs[p] : p \in P \ U}
           kept == IF in.op \in Borrowing THEN on ELSE {}
           L == n + (t - 1)
<1>1. n \in Nat /\ t \in Nat /\ t > 0 /\ L \in Nat /\ n + t = L + 1
  <2>1. n \in Nat /\ t \in Nat /\ t > 0 BY CountFacts
  <2> HIDE DEF n
  <2> QED BY <2>1
<1> HIDE DEF L
<1>2. /\ regs \in Seq(SUBSET Nat) /\ Len(regs) = L /\ DOMAIN regs = 1..L
      /\ \A p \in P : regs[p] \intersect O = {}
      /\ \A p, q \in P : regs[p] \intersect regs[q] # {} => p = q
      /\ Tidy(at.m, R)
      /\ Kept(m, at.m, O)
      /\ at.m.fault \in {m.fault, "null dereference"}
  <2>1. /\ regs \in Seq(SUBSET Nat) /\ Len(regs) = L
        /\ \A p \in P : regs[p] \intersect O = {}
        /\ \A p, q \in P : regs[p] \intersect regs[q] # {} => p = q
        /\ Tidy(at.m, R)
        /\ Kept(m, at.m, O)
        /\ at.m.fault \in {m.fault, "null dereference"}
    BY Zenon DEF Registers, L
  <2> HIDE DEF n, P, regs
  <2>2. DOMAIN regs = 1..Len(regs)
    <3> DEFINE S == SUBSET Nat
    <3>1. regs \in Seq(S) BY <2>1
    <3> HIDE DEF S
    <3> QED BY <3>1
  <2> HIDE DEF R
  <2> QED BY <2>1, <2>2
<1>3. /\ new.m = done.m /\ new.regs = Append(regs, done.val)
  BY DEF Step, Extended
<1>4. ASSUME NEW v \in Used(in)
      PROVE  /\ v = 0 => ValueIn(regs, v) = {}
             /\ v # 0 => /\ Place(r, t, v) \in P \intersect U
                        /\ ValueIn(regs, v) = regs[Place(r, t, v)]
  <2>1. v = 0 => ValueIn(regs, v) = {} BY DEF ValueIn
  <2>2. ASSUME v # 0
        PROVE  /\ Place(r, t, v) \in P \intersect U
               /\ ValueIn(regs, v) = regs[Place(r, t, v)]
    <3>1. v \in Int /\ Place(r, t, v) \in P \intersect U BY <2>2, UsedIsPending
    <3> HIDE DEF P, U, in, n, regs
    <3>2. Len(regs) + 1 + v = n + t + v BY <1>1, <1>2, <3>1
    <3>3. ValueIn(regs, v) = regs[Place(r, t, v)] BY <2>2, <3>1, <3>2 DEF ValueIn, Place, n
    <3> QED BY <3>1, <3>3
  <2> QED BY <2>1, <2>2
<1>5. ASSUME NEW v \in Used(in), NEW w \in Used(in), v # w
      PROVE  ValueIn(regs, v) \intersect ValueIn(regs, w) = {}
  <2>1. CASE v = 0 \/ w = 0 BY <1>4, <2>1
  <2>2. CASE v # 0 /\ w # 0
    <3>1. v \in Int /\ 1 - t <= v /\ v <= n BY <2>2, UsedIsPending
    <3>2. w \in Int /\ 1 - t <= w /\ w <= n BY <2>2, UsedIsPending
    <3>3. Place(r, t, v) # Place(r, t, w) BY <1>1, <1>5, <3>1, <3>2, PlaceInjective
    <3> HIDE DEF P, U, in
    <3> QED BY <1>2, <1>4, <2>2, <3>3
  <2> QED BY <2>1, <2>2
<1>6. ASSUME NEW v \in Used(in)
      PROVE  ValueIn(regs, v) \subseteq R /\ ValueIn(regs, v) \intersect O2 = {}
  <2> HIDE DEF P, U, in
  <2>1. CASE v = 0 BY <1>4, <2>1
  <2>2. CASE v # 0
    <3> DEFINE p == Place(r, t, v)
    <3>1. p \in P /\ p \in U /\ ValueIn(regs, v) = regs[p] BY <1>4, <2>2
    <3> HIDE DEF p
    <3>2. regs[p] \intersect O = {} /\ \A q \in P \ U : regs[p] \intersect regs[q] = {}
      BY <1>2, <3>1
    <3> QED BY <3>1, <3>2
  <2> QED BY <2>1, <2>2
<1>7. Sound(at.m, done, O2, kept)
  <2>1. in.on \in Used(in) /\ \A g \in DOMAIN in.args : in.args[g] \in Used(in)
    BY DEF Used, ArgsOf
  <2>2. \A g \in DOMAIN in.args : in.args[g] # 0 =>
          in.args[g] # in.on /\ \A h \in DOMAIN in.args : in.args[h] = in.args[g] => h = g
    BY CountFacts DEF ActionsAreLinear
  <2>3. /\ in.op \in Operations
        /\ in.op \in {"push", "pushin", "replace", "delete", "both"} => 1 \in DOMAIN in.args
        /\ in.op = "both" => 2 \in DOMAIN in.args
        /\ in.op = "column" => "name" \in DOMAIN in.args
    BY InstructionFacts
  <2>4. in.op = "column" => IsConstraintList(at.m, on) OBVIOUS
  <2> HIDE DEF in, U, P, R, O2
  <2>5. O2 \union on \subseteq R /\ O2 \intersect on = {} BY <1>6, <2>1 DEF O2, R
  <2>6. ASSUME NEW g \in DOMAIN args
        PROVE  /\ args[g] = ValueIn(regs, in.args[g]) /\ g \in DOMAIN in.args
               /\ args[g] \subseteq R \ (O2 \union on)
    <3>1. args[g] = ValueIn(regs, in.args[g]) /\ g \in DOMAIN in.args OBVIOUS
    <3>2. in.args[g] # 0 => args[g] \intersect on = {} BY <1>5, <2>1, <2>2, <3>1
    <3>3. in.args[g] = 0 => args[g] = {} BY <1>4, <2>1, <3>1
    <3>4. args[g] \subseteq R /\ args[g] \intersect O2 = {} BY <1>6, <2>1, <3>1
    <3> QED BY <3>1, <3>2, <3>3, <3>4
  <2>7. ASSUME NEW g \in DOMAIN args, NEW h \in DOMAIN args, args[g] \intersect args[h] # {}
        PROVE  g = h
    <3>1. in.args[g] = in.args[h] BY <1>5, <2>1, <2>6, <2>7
    <3>2. in.args[g] # 0 BY <1>4, <2>1, <2>6, <2>7
    <3> QED BY <2>2, <2>6, <3>1, <3>2
  <2>8. DOMAIN args = DOMAIN in.args OBVIOUS
  <2> HIDE DEF args, on
  <2> QED BY <1>2, <2>3, <2>4, <2>5, <2>6, <2>7, <2>8, ExecuteSound
<1> HIDE DEF in, P, U, on, args, done, new, n, regs
<1>8. /\ Tidy(done.m, O2 \union kept \union done.val)
      /\ done.val \intersect (O2 \union kept) = {}
      /\ Kept(at.m, done.m, O2)
      /\ done.m.fault \in {at.m.fault, "null dereference"}
  BY <1>7 DEF Sound
<1>9. done.val \subseteq Nat
  <2>1. done.val \subseteq Live(done.m) /\ IsMemory(done.m) BY <1>8 DEF Tidy
  <2>2. Live(done.m) \subseteq Nat BY <2>1 DEF IsMemory
  <2> QED BY <2>1, <2>2
<1>10. /\ new.regs \in Seq(SUBSET Nat) /\ Len(new.regs) = n + t
       /\ new.regs[n + t] = done.val
       /\ \A p \in 1..L : new.regs[p] = regs[p]
  <2> DEFINE val == done.val
             S == SUBSET Nat
             next == Append(regs, val)
  <2>1. val \in S /\ regs \in Seq(S) BY <1>2, <1>9
  <2> HIDE DEF val, S
  <2>2. Len(regs) = L /\ L \in Nat BY <1>1, <1>2
  <2>3. next \in Seq(S) /\ Len(next) = L + 1 /\ next[L + 1] = val /\ \A p \in 1..L : next[p] = regs[p]
    BY <2>1, <2>2
  <2>4. new.regs = next BY <1>3 DEF val
  <2> HIDE DEF next
  <2> QED BY <1>1, <2>3, <2>4 DEF val, S
<1>11. ASSUME NEW p \in Pending(r, t), p # n + t
       PROVE  /\ p \in P /\ p \in 1..L /\ new.regs[p] = regs[p]
              /\ regs[p] \subseteq O2 \union kept
  <2>1. p \in P /\ p \notin Places(r, t, Moved(in)) BY <1>11, PendingNext DEF P, in, n
  <2>2. p \in 1..L BY <2>1 DEF P, Pending, n, L
  <2>3. regs[p] \subseteq O2 \union kept
    <3>1. CASE p \notin U BY <2>1, <3>1
    <3>2. CASE p \in U
      <4>1. PICK v \in Used(in) \ {0} : p = Place(r, t, v) BY <3>2, PlacesMeans DEF U
      <4>2. v \notin Moved(in) BY <2>1, <4>1, PlacesMeans
      <4>3. in.op \in Borrowing /\ v = in.on BY <4>1, <4>2 DEF Moved, Used
      <4>4. on = regs[p] BY <1>4, <4>1, <4>3 DEF on
      <4> QED BY <4>3, <4>4
    <3> QED BY <3>1, <3>2
  <2>4. new.regs[p] = regs[p] BY <1>10, <2>2
  <2> HIDE DEF kept
  <2> QED BY <2>1, <2>2, <2>3, <2>4
<1> HIDE DEF kept
<1>12. \A p \in Pending(r, t) : new.regs[p] \subseteq O2 \union kept \union done.val BY <1>10, <1>11
<1>13. O \subseteq O2 OBVIOUS
<1> HIDE DEF O2, R
<1>14. Tidy(new.m, O \union UNION {new.regs[p] : p \in Pending(r, t)})
  <2> DEFINE W == O2 \union kept \union done.val
             Q == O \union UNION {new.regs[p] : p \in Pending(r, t)}
  <2>1. Q \subseteq W BY <1>12, <1>13
  <2> HIDE DEF Q, W
  <2>2. Tidy(new.m, W) BY <1>3, <1>8 DEF W
  <2>3. Tidy(new.m, Q) BY <2>1, <2>2, Forget
  <2> QED BY <2>3 DEF Q
<1>15. Kept(m, new.m, O)
  <2>1. Kept(at.m, done.m, O) BY <1>8, <1>13, KeptFewer
  <2> QED BY <1>2, <1>3, <2>1, KeptTwice
<1>16. new.m.fault \in {m.fault, "null dereference"} BY <1>2, <1>3, <1>8
<1>17. \A p \in Pending(r, t) : new.regs[p] \intersect O = {}
  BY <1>2, <1>8, <1>10, <1>11, <1>13
<1>18. ASSUME NEW p \in Pending(r, t), NEW q \in Pending(r, t), new.regs[p] \intersect new.regs[q] # {}
       PROVE  p = q
  <2>1. CASE p # n + t /\ q # n + t BY <1>2, <1>11, <1>18, <2>1
  <2>2. CASE p = n + t /\ q # n + t BY <1>8, <1>10, <1>11, <1>18, <2>2
  <2>3. CASE p # n + t /\ q = n + t BY <1>8, <1>10, <1>11, <1>18, <2>3
  <2> QED BY <2>1, <2>2, <2>3
<1>19. Registers(r, t, m, O, new) BY <1>10, <1>14, <1>15, <1>16, <1>17, <1>18 DEF Registers, n
<1> QED BY <1>19 DEF new, in

\* f is the course of the instructions of code.
Runs(f, m, code, vals) ==
  f = [t \in 0..Len(code) |-> IF t = 0 THEN [m |-> m, regs |-> vals] ELSE Step(f[t - 1], code[t])]

LEMMA RunExists ==
  ASSUME NEW m, NEW code, NEW vals, Len(code) \in Nat
  PROVE  \E f : Runs(f, m, code, vals)
<1> DEFINE After(x, k) == IF k = 0 THEN [m |-> m, regs |-> vals] ELSE Step(x, code[k])
           Has(n) == \E f : f = [k \in 0..n |-> After(f[k - 1], k)]
           Missing == {n \in 0..Len(code) : ~Has(n)}
<1>1. \A x, y : After(x, 0) = After(y, 0) OBVIOUS
<1>2. \A k \in 0..Len(code) : \A x : After(x, k) = IF k = 0 THEN [m |-> m, regs |-> vals] ELSE Step(x, code[k])
  OBVIOUS
<1> HIDE DEF After
<1>3. Has(0)
  <2> DEFINE f == [k \in 0..0 |-> After(m, 0)]
  <2>1. f = [k \in 0..0 |-> After(f[k - 1], k)] BY <1>1
  <2> QED BY <2>1
<1>4. ASSUME NEW n \in Nat, n > 0, Has(n - 1) PROVE Has(n)
  <2>1. PICK f : f = [k \in 0..n - 1 |-> After(f[k - 1], k)] BY <1>4
  <2> DEFINE g == [k \in 0..n |-> IF k = n THEN After(f[n - 1], n) ELSE f[k]]
  <2>2. ASSUME NEW k \in 0..n PROVE g[k] = After(g[k - 1], k)
    <3>1. CASE k = 0
      <4>1. g[0] = After(f[0 - 1], 0) BY <1>4, <2>1
      <4> HIDE DEF g
      <4> QED BY <1>1, <3>1, <4>1
    <3>2. CASE k \in 1..n - 1 BY <1>4, <2>1, <3>2
    <3>3. CASE k = n BY <1>4, <2>1, <3>3
    <3> QED BY <3>1, <3>2, <3>3
  <2>3. g = [k \in 0..n |-> After(g[k - 1], k)]
    <3>1. g = [k \in 0..n |-> g[k]] OBVIOUS
    <3> HIDE DEF g
    <3> QED BY <2>2, <3>1
  <2> QED BY <2>3
<1> HIDE DEF Has
<1>5. Missing = {}
  <2> SUFFICES ASSUME Missing # {} PROVE FALSE
    OBVIOUS
  <2>1. PICK n \in Missing : \A k \in Missing : n <= k
    <3>1. Missing \subseteq Nat OBVIOUS
    <3> QED BY <3>1, LeastNatural
  <2>2. n # 0 BY <1>3
  <2>3. n - 1 \in 0..Len(code) /\ ~(n <= n - 1) BY <2>2
  <2>4. Has(n - 1) BY <2>1, <2>3
  <2> QED BY <1>4, <2>2, <2>4
<1>6. Has(Len(code)) BY <1>5
<1>7. PICK f : f = [k \in 0..Len(code) |-> After(f[k - 1], k)] BY <1>6 DEF Has
<1>8. f = [k \in 0..Len(code) |-> IF k = 0 THEN [m |-> m, regs |-> vals] ELSE Step(f[k - 1], code[k])]
  <2>1. [k \in 0..Len(code) |-> After(f[k - 1], k)]
          = [k \in 0..Len(code) |-> IF k = 0 THEN [m |-> m, regs |-> vals] ELSE Step(f[k - 1], code[k])]
    BY <1>2
  <2> QED BY <1>7, <2>1
<1> QED BY <1>8 DEF Runs

\* The same without the recursion.
Course(f, m, code, vals) ==
  /\ Run(m, code, vals) = f[Len(code)]
  /\ f[0] = [m |-> m, regs |-> vals]
  /\ \A t \in 1..Len(code) : f[t] = Step(f[t - 1], code[t])

LEMMA RunIs ==
  ASSUME NEW m, NEW code, NEW vals, Len(code) \in Nat
  PROVE  \E f : Course(f, m, code, vals)
<1> DEFINE N == Len(code)
           f == CHOOSE f : Runs(f, m, code, vals)
<1>1. Runs(f, m, code, vals) BY RunExists
<1>2. Run(m, code, vals) = f[N] BY Zenon DEF Run, Runs
<1> HIDE DEF f
<1>3. \A j \in 0..N : f[j] = IF j = 0 THEN [m |-> m, regs |-> vals] ELSE Step(f[j - 1], code[j])
  BY <1>1 DEF Runs
<1> HIDE DEF N
<1>4. f[0] = [m |-> m, regs |-> vals] BY <1>3 DEF N
<1>5. \A t \in 1..N : f[t] = Step(f[t - 1], code[t]) BY <1>3 DEF N
<1> QED BY <1>2, <1>4, <1>5 DEF N, Course

\* The instructions of a row, from values vals of its right-hand side.
LEMMA RunSound ==
  ASSUME ActionsAreLinear, ListsAreTyped, NEW r \in DOMAIN Rows, NEW m, NEW O, NEW vals,
         Registers(r, 0, m, O, [m |-> m, regs |-> vals]),
         \A k \in DOMAIN Rows[r].rhs :
           Rows[r].rhs[k] \in ConstraintLists => IsConstraintList(m, vals[k])
  PROVE  Registers(r, Len(Rows[r].code), m, O, Run(m, Rows[r].code, vals))
<1> DEFINE N == Len(Rows[r].code)
           code == Rows[r].code
<1>1. N \in Nat /\ DOMAIN code = 1..N BY RowFacts
<1>2. PICK f : Course(f, m, code, vals) BY <1>1, RunIs
<1> DEFINE Fine(t) == Registers(r, t, m, O, f[t])
           Failing == {t \in 0..N : ~Fine(t)}
<1>3. Fine(0) BY <1>2 DEF Course
<1>4. ASSUME NEW t \in 1..N, Fine(t - 1) PROVE Fine(t)
  <2>1. f[t] = Step(f[t - 1], code[t]) BY <1>2 DEF Course
  <2>2. code[t].op = "column" => IsConstraintList(f[t - 1].m, ValueIn(f[t - 1].regs, code[t].on))
    <3> SUFFICES ASSUME code[t].op = "column"
                 PROVE  IsConstraintList(f[t - 1].m, ValueIn(f[t - 1].regs, code[t].on))
      OBVIOUS
    <3> DEFINE on == code[t].on
    <3>1. t \in DOMAIN code BY <1>1
    <3>2. t = 1 /\ on > 0 /\ Rows[r].rhs[on] \in ConstraintLists BY <1>1, <3>1 DEF ListsAreTyped
    <3>3. f[t - 1].m = m /\ f[t - 1].regs = vals BY <1>2, <3>2 DEF Course
    <3>4. on \in DOMAIN Rows[r].rhs
      <4>1. on \in Used(code[t]) /\ on # 0 BY <3>2, InstructionFacts DEF Used
      <4>2. on \in Int /\ on <= Len(Rows[r].rhs) BY <4>1, UsedIsPending
      <4>3. DOMAIN Rows[r].rhs = 1..Len(Rows[r].rhs) /\ Len(Rows[r].rhs) \in Nat BY RowFacts
      <4> HIDE DEF on
      <4> QED BY <3>2, <4>2, <4>3
    <3>5. ValueIn(vals, on) = vals[on] BY <3>2 DEF ValueIn
    <3> QED BY <3>2, <3>3, <3>4, <3>5
  <2>3. Registers(r, t, m, O, Step(f[t - 1], code[t])) BY <1>4, <2>2, StepSound
  <2> QED BY <2>1, <2>3
<1> HIDE DEF Fine, N
<1>5. Failing = {}
  <2> SUFFICES ASSUME Failing # {} PROVE FALSE
    OBVIOUS
  <2>1. PICK k \in Failing : \A j \in Failing : k <= j
    <3>1. Failing \subseteq Nat OBVIOUS
    <3> QED BY <3>1, LeastNatural
  <2>2. k \in 1..N BY <1>1, <1>3
  <2>3. k - 1 \in 0..N /\ ~(k <= k - 1) BY <1>1, <2>2
  <2>4. Fine(k - 1) BY <2>1, <2>3
  <2> QED BY <1>4, <2>2, <2>4
<1>6. Fine(N) BY <1>1, <1>5
<1> QED BY <1>2, <1>6 DEF Fine, N, Course

\* Values for the right-hand side of row r.
AreValues(vals, r) == vals \in Seq(SUBSET Nat) /\ Len(vals) = Len(Rows[r].rhs)

\* What the action of row r makes of them.
Made(r, m, vals) == Build(m, Rows[r].code, vals)

\* What a row's action makes is a root of its own, and nothing else has changed hands.
LEMMA BuildSound ==
  ASSUME ActionsAreLinear, ListsAreTyped, NEW r \in DOMAIN Rows, NEW m, NEW O, NEW vals,
         AreValues(vals, r),
         \A p \in 1..Len(vals) : vals[p] \intersect O = {},
         \A p, q \in 1..Len(vals) : vals[p] \intersect vals[q] # {} => p = q,
         Tidy(m, O \union UNION {vals[p] : p \in 1..Len(vals)}),
         \A k \in DOMAIN Rows[r].rhs :
           Rows[r].rhs[k] \in ConstraintLists => IsConstraintList(m, vals[k])
  PROVE  Sound(m, Made(r, m, vals), O, {})
<1> DEFINE n == Len(Rows[r].rhs)
           N == Len(Rows[r].code)
           at == [m |-> m, regs |-> vals]
           end == Run(m, Rows[r].code, vals)
           P == Pending(r, N)
<1>1. n \in Nat /\ N \in Nat BY RowFacts
<1> USE DEF AreValues
<1>2. Registers(r, 0, m, O, at)
  <2>1. at.m = m /\ at.regs = vals OBVIOUS
  <2>2. Pending(r, 0) = 1..Len(vals) BY <1>1 DEF Pending
  <2> HIDE DEF at
  <2>3. Len(vals) = Len(Rows[r].rhs) + 0 BY <1>1
  <2> QED BY <2>1, <2>2, <2>3, KeptSame DEF Registers
<1>3. Registers(r, N, m, O, end) BY <1>2, RunSound
<1> HIDE DEF end
<1>4. /\ end.regs \in Seq(SUBSET Nat) /\ Len(end.regs) = n + N
      /\ \A p \in P : end.regs[p] \intersect O = {}
      /\ Tidy(end.m, O \union UNION {end.regs[p] : p \in P})
      /\ Kept(m, end.m, O)
      /\ end.m.fault \in {m.fault, "null dereference"}
  BY <1>3, Zenon DEF Registers
<1>5. ASSUME NEW val, val = {} \/ \E p \in P : val = end.regs[p]
      PROVE  Tidy(end.m, O \union val) /\ val \intersect O = {}
  <2> DEFINE R == O \union UNION {end.regs[p] : p \in P}
             Q == O \union val
  <2>1. Q \subseteq R BY <1>5
  <2>2. Tidy(end.m, R) BY <1>4
  <2> HIDE DEF P, R, Q
  <2>3. Tidy(end.m, Q) BY <2>1, <2>2, Forget
  <2>4. val \intersect O = {} BY <1>4, <1>5
  <2> QED BY <2>3, <2>4 DEF Q
<1> DEFINE val == IF Rows[r].code = <<>> THEN {} ELSE Last(end.regs)
<1>6. val = {} \/ \E p \in P : val = end.regs[p]
  <2> SUFFICES ASSUME Rows[r].code # <<>> PROVE \E p \in P : Last(end.regs) = end.regs[p]
    OBVIOUS
  <2>1. N > 0 /\ N \in DOMAIN Rows[r].code
    <3> DEFINE S == ToSet(Rows[r].code)
               code == Rows[r].code
    <3>1. code \in Seq(S) BY RowsAssumption
    <3> HIDE DEF S, code
    <3>2. code # <<>> => Len(code) > 0 /\ Len(code) \in DOMAIN code BY <3>1
    <3> QED BY <3>2 DEF code
  <2>2. \A s \in 1..N : n + N \notin Places(r, s, Moved(Rows[r].code[s]))
    <3> SUFFICES ASSUME NEW s \in 1..N, n + N \in Places(r, s, Moved(Rows[r].code[s])) PROVE FALSE
      OBVIOUS
    <3>1. PICK v \in Moved(Rows[r].code[s]) \ {0} : n + N = Place(r, s, v) BY PlacesMeans
    <3>2. v \in Used(Rows[r].code[s]) BY DEF Moved, Used
    <3>3. Place(r, s, v) \in Pending(r, s - 1) BY <3>2, UsedIsPending
    <3>4. n + N \in 1..(n + (s - 1)) BY <3>1, <3>3 DEF Pending
    <3> HIDE DEF n, N
    <3> QED BY <1>1, <3>4
  <2>3. n + N \in P
    <3>1. n + N \in 1..(n + N)
      <4> HIDE DEF n, N
      <4> QED BY <1>1, <2>1
    <3> QED BY <2>2, <3>1 DEF Pending
  <2>4. Last(end.regs) = end.regs[n + N] BY <1>4 DEF Last
  <2> QED BY <2>3, <2>4
<1>7. Made(r, m, vals) = Done(end.m, val) BY DEF Build, Made, end
<1> HIDE DEF val
<1>8. Tidy(end.m, O \union {} \union val) /\ val \intersect (O \union {}) = {} BY <1>5, <1>6
<1>9. Sound(m, Done(end.m, val), O, {}) BY <1>4, <1>8, SoundIntro
<1> QED BY <1>7, <1>9

-----------------------------------------------------------------------------
(* The lists that are typed.                                               *)

\* What the symbols that stand for lists have as their values.
Typed(m, sym, val) ==
  /\ sym \in ConstraintLists => IsConstraintList(m, val)
  /\ sym = "column_constraint" => \A x \in val : m.heap[x].kind = "ColumnConstraint"
  /\ sym = "statement_list" => \A x \in val : m.heap[x].kind = "vector"

LEMMA TypedKept ==
  ASSUME NEW m, NEW new, NEW O, Kept(m, new, O), NEW sym, NEW val, val \subseteq O, Typed(m, sym, val)
  PROVE  Typed(new, sym, val)
BY DEF Kept, Typed, IsConstraintList

\* The arguments of an instruction.
ArgumentsIn(vals, in) == [g \in DOMAIN in.args |-> ValueIn(vals, in.args[g])]

\* in is the only instruction of row r, and it has these operands.
Only(r, in, vals, on, args) ==
  /\ Len(Rows[r].code) = 1
  /\ in = Rows[r].code[1] /\ on = ValueIn(vals, in.on) /\ args = ArgumentsIn(vals, in)

\* Two steps with the same outcome.
Same(b, done) == b.m = done.m /\ b.val = done.val

\* An action of one instruction is this instruction.
LEMMA BuildOfOne ==
  ASSUME ActionsAreLinear, NEW r \in DOMAIN Rows, NEW m, NEW vals, AreValues(vals, r),
         NEW in, NEW on, NEW args, Only(r, in, vals, on, args)
  PROVE  /\ Same(Made(r, m, vals), Execute(m, in, on, args))
         /\ \A v \in Used(in) :
              /\ v \in 0..Len(vals)
              /\ ValueIn(vals, v) = IF v = 0 THEN {} ELSE vals[v]
<1> DEFINE code == Rows[r].code
<1>1. /\ Len(code) = 1 /\ in = code[1]
      /\ on = ValueIn(vals, in.on) /\ args = ArgumentsIn(vals, in)
  BY DEF Only
<1> HIDE DEF code
<1>2. vals \in Seq(SUBSET Nat) /\ Len(vals) = Len(Rows[r].rhs) BY DEF AreValues
<1> DEFINE done == Execute(m, in, on, args)
<1>3. PICK f : Course(f, m, code, vals)
  <2>1. Len(code) \in Nat BY <1>1
  <2> QED BY <2>1, RunIs, Zenon
<1>4. 1 \in 1..Len(code) /\ 1 - 1 = 0 BY <1>1
<1>5. f[1] = Step([m |-> m, regs |-> vals], in) BY <1>3, <1>4, <1>1 DEF Course
<1>6. Step([m |-> m, regs |-> vals], in) = [m |-> done.m, regs |-> Append(vals, done.val)]
  BY <1>1 DEF Step, Extended, ArgumentsIn
<1> HIDE DEF done
<1>7. Run(m, code, vals) = [m |-> done.m, regs |-> Append(vals, done.val)] BY <1>3, <1>5, <1>6, <1>1 DEF Course
<1>8. code # <<>>
  <2>1. Len(code) = 1 BY <1>1
  <2> QED BY <2>1
<1>9. Last(Append(vals, done.val)) = done.val
  <2> DEFINE regs == Append(vals, done.val)
  <2>1. Len(regs) = Len(vals) + 1 /\ regs[Len(vals) + 1] = done.val /\ Len(vals) \in Nat
    BY <1>2
  <2> HIDE DEF regs
  <2>2. Last(regs) = done.val BY <2>1 DEF Last
  <2> QED BY <2>2 DEF regs
<1>10. Build(m, code, vals) = Done(done.m, done.val) BY <1>7, <1>8, <1>9 DEF Build
<1>11. ASSUME NEW v \in Used(in)
      PROVE  v \in 0..Len(vals) /\ ValueIn(vals, v) = IF v = 0 THEN {} ELSE vals[v]
  <2>1. 1 \in DOMAIN code
    <3>1. DOMAIN code = 1..Len(code) BY RowFacts DEF code
    <3> QED BY <3>1, <1>1
  <2>2. Used(in) \subseteq 0..Len(vals) BY <1>2, <1>1, <2>1 DEF ActionsAreLinear, code
  <2> QED BY <2>2 DEF ValueIn
<1> DEFINE b == Build(m, code, vals)
<1>12. b.m = done.m /\ b.val = done.val
  <2>1. b = Done(done.m, done.val) BY <1>10
  <2> HIDE DEF b
  <2> QED BY <2>1, DoneParts
<1> QED BY <1>11, <1>12 DEF done, b, code, Made, Same

\* An instruction that makes a list of lists and elements of its kind.
LEMMA ListTyped ==
  ASSUME NEW m, NEW R, Tidy(m, R), NEW in, NEW on, on \subseteq R,
         NEW args, \A g \in DOMAIN args : args[g] \subseteq R,
         NEW sym \in ConstraintLists \union {"statement_list"},
         \/ in.op = "value" /\ Typed(m, sym, on)
         \/ in.op = "vector"
         \/ in.op = "push" /\ 1 \in DOMAIN args /\ Typed(m, sym, on),
         sym \in ConstraintLists =>
           \A g \in DOMAIN args : \A x \in args[g] : m.heap[x].kind = "ColumnConstraint",
         NEW done, done = Execute(m, in, on, args)
  PROVE  Typed(done.m, sym, done.val)
<1>1. IsMemory(m) /\ R \subseteq Live(m) /\ \A x, g : Field(m, x, g) \subseteq Live(m)
  BY TidyFields DEF Tidy
<1>0. IsMemory(m) BY <1>1
<1>2. sym # "column_constraint" BY DEF ConstraintLists
<1>3. CASE in.op = "value"
  <2>1. done.m = m /\ done.val = on BY <1>3, DoneParts DEF Execute
  <2> QED BY <1>3, <2>1
<1>4. CASE in.op = "vector"
  <2> DEFINE all == UNION {args[k] : k \in DOMAIN args}
             f == [elems |-> all]
             kind == "vector"
             type == ""
             new == New(m, kind, type, f)
  <2>1. done.m = new /\ done.val = {m.next} BY <1>4, DoneParts DEF Execute, Make
  <2>2. DOMAIN f = {"elems"} /\ f["elems"] = all OBVIOUS
  <2>3. \A x \in all : x \in Live(m) BY <1>1
  <2>4. sym \in ConstraintLists => \A x \in all : m.heap[x].kind = "ColumnConstraint" OBVIOUS
  <2> HIDE DEF all, f, kind, type
  <2>5. new = New(m, kind, type, f) OBVIOUS
  <2> HIDE DEF new
  <2>6. /\ \A g : Field(new, m.next, g) = IF g \in DOMAIN f THEN f[g] ELSE {}
        /\ \A x \in Live(m) : new.heap[x].kind = m.heap[x].kind
        /\ new.heap[m.next].kind = kind
    BY <1>0, <2>5, NewObject
  <2>7. new.heap[m.next].kind = "vector" BY <2>6 DEF kind
  <2>8. Field(new, m.next, "elems") = all BY <2>2, <2>6
  <2>9. \A x \in all : new.heap[x].kind = m.heap[x].kind BY <2>3, <2>6
  <2> QED BY <1>2, <2>1, <2>4, <2>7, <2>8, <2>9 DEF Typed, IsConstraintList
<1>5. CASE in.op = "push"
  <2> DEFINE f == [elems |-> Member(m, on, "elems") \union args[1]]
             new == SetFields(m, on, f)
  <2>1. done.m = new /\ done.val = on BY <1>5, DoneParts DEF Execute, PushBack
  <2>2. CASE on = {} BY <1>2, <2>1, <2>2 DEF Typed, IsConstraintList
  <2>3. CASE on # {}
    <3>1. DOMAIN f = {"elems"} /\ f["elems"] = Member(m, on, "elems") \union args[1] OBVIOUS
    <3> HIDE DEF f
    <3>2. /\ Pointee(on) \in on
          /\ \A y \in Live(m) : new.heap[y].kind = m.heap[y].kind
          /\ \A y, g : Field(new, y, g) = IF y = Pointee(on) /\ g \in DOMAIN f THEN f[g]
                                          ELSE Field(m, y, g)
      BY <1>1, <2>3, SetMemory
    <3> HIDE DEF new
    <3>3. \A v \in on : new.heap[v].kind = m.heap[v].kind BY <1>1, <3>2
    <3>4. ASSUME sym \in ConstraintLists, NEW v \in on, NEW c \in Field(new, v, "elems")
          PROVE  new.heap[c].kind = "ColumnConstraint"
      <4>1. Field(m, Pointee(on), "elems") = Member(m, on, "elems") BY <2>3 DEF Member
      <4>2. c \in Field(m, v, "elems") \/ c \in args[1] BY <3>1, <3>2, <4>1
      <4>3. c \in Live(m) BY <1>1, <1>5, <4>2
      <4>4. m.heap[c].kind = "ColumnConstraint" BY <1>5, <3>4, <4>2 DEF Typed, IsConstraintList
      <4> QED BY <3>2, <4>3, <4>4
    <3> QED BY <1>2, <1>5, <2>1, <3>3, <3>4 DEF Typed, IsConstraintList
  <2> QED BY <2>2, <2>3
<1> QED BY <1>3, <1>4, <1>5

\* The action of a symbol that stands for a list makes such a list of such lists.
LEMMA BuildTyped ==
  ASSUME ActionsAreLinear, ListsAreTyped, NEW r \in DOMAIN Rows, Rows[r].kind \in {"node", "stmt"},
         NEW m, NEW R, Tidy(m, R),
         NEW vals, AreValues(vals, r),
         \A p \in 1..Len(vals) : vals[p] \subseteq R,
         \A p \in 1..Len(vals) : Typed(m, Rows[r].rhs[p], vals[p]),
         NEW b, b = Made(r, m, vals)
  PROVE  Typed(b.m, Rows[r].lhs, b.val)
<1> DEFINE lhs == Rows[r].lhs
           rhs == Rows[r].rhs
           code == Rows[r].code
           in == code[1]
           on == ValueIn(vals, in.on)
           args == ArgumentsIn(vals, in)
           done == Execute(m, in, on, args)
           lists == IF lhs \in ConstraintLists THEN ConstraintLists ELSE {"statement_list"}
<1> SUFFICES ASSUME lhs \in ConstraintLists \union {"statement_list", "column_constraint"}
             PROVE  Typed(b.m, lhs, b.val)
  BY DEF Typed
<1>1. /\ Len(code) = 1
      /\ lhs = "column_constraint" => in.op = "new" /\ in.what = "ColumnConstraint"
      /\ lhs # "column_constraint" =>
           \/ in.op = "value" /\ in.on > 0 /\ rhs[in.on] \in lists
           \/ in.op = "vector"
           \/ in.op = "push" /\ in.on > 0 /\ rhs[in.on] \in lists
      /\ lhs \in ConstraintLists =>
           \A g \in DOMAIN in.args : in.args[g] > 0 /\ rhs[in.args[g]] = "column_constraint"
  BY DEF ListsAreTyped, ConstraintLists
<1>2. in.op = "push" => 1 \in DOMAIN in.args BY <1>1, InstructionFacts
<1>3. in = Rows[r].code[1] /\ Len(Rows[r].code) = 1 BY <1>1
<1>4. \A p \in 1..Len(vals) : Typed(m, rhs[p], vals[p]) OBVIOUS
<1> HIDE DEF lhs, rhs, code
<1>5. /\ b.m = done.m /\ b.val = done.val
      /\ \A v \in Used(in) : /\ v \in 0..Len(vals)
                            /\ ValueIn(vals, v) = IF v = 0 THEN {} ELSE vals[v]
  <2> HIDE DEF in
  <2>1. Only(r, in, vals, on, args) BY <1>3 DEF Only
  <2> HIDE DEF on, args
  <2>2. /\ Same(Made(r, m, vals), Execute(m, in, on, args))
        /\ \A v \in Used(in) : /\ v \in 0..Len(vals)
                              /\ ValueIn(vals, v) = IF v = 0 THEN {} ELSE vals[v]
    BY <2>1, BuildOfOne
  <2> QED BY <2>2 DEF Same
<1>6. in.on \in Used(in) /\ \A g \in DOMAIN in.args : in.args[g] \in Used(in) BY DEF Used, ArgsOf
<1>7. DOMAIN args = DOMAIN in.args /\ \A g \in DOMAIN args : args[g] = ValueIn(vals, in.args[g])
  BY DEF ArgumentsIn
<1> HIDE DEF in, args
<1>8. on \subseteq R BY <1>5, <1>6
<1>9. \A g \in DOMAIN args : args[g] \subseteq R BY <1>5, <1>6, <1>7
<1>10. in.on > 0 /\ rhs[in.on] \in lists /\ lhs # "column_constraint" => Typed(m, lhs, on)
  <2> SUFFICES ASSUME in.on > 0, rhs[in.on] \in lists, lhs # "column_constraint"
               PROVE  Typed(m, lhs, on)
    OBVIOUS
  <2>1. in.on \in 1..Len(vals) /\ on = vals[in.on] BY <1>5, <1>6
  <2>2. Typed(m, rhs[in.on], on) BY <1>4, <2>1
  <2> QED BY <2>2 DEF Typed, ConstraintLists
<1>11. lhs \in ConstraintLists =>
         \A g \in DOMAIN args : \A x \in args[g] : m.heap[x].kind = "ColumnConstraint"
  <2> SUFFICES ASSUME lhs \in ConstraintLists, NEW g \in DOMAIN args
               PROVE  \A x \in args[g] : m.heap[x].kind = "ColumnConstraint"
    OBVIOUS
  <2>1. in.args[g] > 0 /\ rhs[in.args[g]] = "column_constraint" BY <1>1, <1>7
  <2>2. in.args[g] \in 1..Len(vals) /\ args[g] = vals[in.args[g]] BY <1>5, <1>6, <1>7, <2>1
  <2>3. Typed(m, "column_constraint", args[g]) BY <1>4, <2>1, <2>2
  <2> QED BY <2>3 DEF Typed
<1> HIDE DEF on, done
<1>12. CASE lhs # "column_constraint"
  <2>1. lhs \in ConstraintLists \union {"statement_list"} BY <1>12
  <2>2. \/ in.op = "value" /\ Typed(m, lhs, on)
        \/ in.op = "vector"
        \/ in.op = "push" /\ 1 \in DOMAIN args /\ Typed(m, lhs, on)
    BY <1>1, <1>2, <1>7, <1>10, <1>12
  <2> HIDE DEF lists
  <2>3. Typed(done.m, lhs, done.val) BY <1>8, <1>9, <1>11, <2>1, <2>2, ListTyped DEF done
  <2> QED BY <1>5, <2>3
<1>13. CASE lhs = "column_constraint"
  <2>1. done = Make(m, in.what, in.type, args) BY <1>1, <1>13 DEF done, Execute
  <2> HIDE DEF done
  <2>2. done.m = New(m, in.what, in.type, args) /\ done.val = {m.next}
    BY <2>1, DoneParts DEF Make
  <2>3. New(m, in.what, in.type, args).heap[m.next]
          = [kind |-> in.what, type |-> in.type, f |-> args, n |-> NotSet]
    BY NewMemory DEF Tidy
  <2>4. New(m, in.what, in.type, args).heap[m.next].kind = in.what BY <2>3
  <2> QED BY <1>1, <1>5, <1>13, <2>2, <2>4 DEF Typed, ConstraintLists
<1> QED BY <1>12, <1>13
==============================================================================
