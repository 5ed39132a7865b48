------------------------- MODULE ParserResultProofs -------------------------
(***************************************************************************)
(* Ownership of statements and messages in ParserResult, for any number of *)
(* results, statements and messages and for any size of a parse.           *)
(***************************************************************************)
EXTENDS ParserResult, FiniteSetTheorems, TLAPS

\* The inductive invariant: the properties need one another, e.g. that a reset does
\* not delete twice needs exclusive ownership, which needs the types.
IInv ==
  /\ TypeOK
  /\ ExclusiveOwnership
  /\ NoOrphanStatement
  /\ MessageOwnership
  /\ ParametersLiveUntilDetached
  /\ NoDoubleDelete

-----------------------------------------------------------------------------
(* Sequences and what they hold.                                           *)

\* A vector's elements are in the set it ranges over, and finitely many.
LEMMA ElemsType ==
  ASSUME NEW S, NEW s \in Seq(S)
  PROVE  Elems(s) \subseteq S /\ IsFiniteSet(Elems(s))
<1>1. Elems(s) \subseteq S BY DEF Elems
<1>2. Len(s) \in Nat OBVIOUS
<1>3. IsFiniteSet(1..Len(s)) BY <1>2, FS_Interval
<1>4. IsFiniteSet({s[i] : i \in 1..Len(s)})
  <2> DEFINE f == [i \in 1..Len(s) |-> s[i]]
  <2>1. f \in [1..Len(s) -> Elems(s)] BY DEF Elems
  <2>2. f \in Surjection(1..Len(s), Elems(s))
    BY <2>1 DEF Surjection, Elems
  <2> QED BY <1>3, <2>2, FS_Surjection DEF Elems
<1> QED BY <1>1, <1>4 DEF Elems

\* The empty vector.
LEMMA ElemsOfEmpty == Elems(<<>>) = {} /\ Injective(<<>>)
BY DEF Elems, Injective

LEMMA EmptySeq == ASSUME NEW S PROVE <<>> \in Seq(S)
OBVIOUS

\* A vector of one element.
LEMMA ElemsOfSingle ==
  ASSUME NEW x PROVE Elems(<<x>>) = {x} /\ Injective(<<x>>)
BY DEF Elems, Injective

\* Extending a vector with another one.
LEMMA ElemsOfConcat ==
  ASSUME NEW S, NEW s \in Seq(S), NEW t \in Seq(S)
  PROVE  /\ s \o t \in Seq(S)
         /\ Elems(s \o t) = Elems(s) \union Elems(t)
<1>1. /\ Len(s) \in Nat /\ Len(t) \in Nat /\ Len(s \o t) = Len(s) + Len(t)
      /\ \A i \in 1..Len(s) : (s \o t)[i] = s[i]
      /\ \A i \in 1..Len(t) : (s \o t)[Len(s) + i] = t[i]
  OBVIOUS
<1>2. Elems(s \o t) \subseteq Elems(s) \union Elems(t)
  <2>1. SUFFICES ASSUME NEW i \in 1..Len(s \o t)
                 PROVE  (s \o t)[i] \in Elems(s) \union Elems(t)
    BY DEF Elems
  <2>2. CASE i <= Len(s)
    BY <1>1, <2>2 DEF Elems
  <2>3. CASE i > Len(s)
    <3>1. i - Len(s) \in 1..Len(t) BY <1>1, <2>3
    <3>2. (s \o t)[i] = t[i - Len(s)] BY <1>1, <2>3, <3>1
    <3> QED BY <3>1, <3>2 DEF Elems
  <2> QED BY <1>1, <2>2, <2>3
<1>3. Elems(s) \subseteq Elems(s \o t) BY <1>1 DEF Elems
<1>4. Elems(t) \subseteq Elems(s \o t)
  <2>1. SUFFICES ASSUME NEW i \in 1..Len(t) PROVE t[i] \in Elems(s \o t)
    BY DEF Elems
  <2>2. Len(s) + i \in 1..Len(s \o t) BY <1>1
  <2> QED BY <1>1, <2>2 DEF Elems
<1> QED BY <1>2, <1>3, <1>4

\* Extending a vector without repetitions with new elements.
LEMMA InjectiveConcat ==
  ASSUME NEW S, NEW s \in Seq(S), NEW t \in Seq(S),
         Injective(s), Injective(t), Elems(s) \intersect Elems(t) = {}
  PROVE  Injective(s \o t)
<1>1. /\ Len(s) \in Nat /\ Len(t) \in Nat /\ Len(s \o t) = Len(s) + Len(t)
      /\ \A i \in 1..Len(s) : (s \o t)[i] = s[i]
      /\ \A i \in 1..Len(t) : (s \o t)[Len(s) + i] = t[i]
      /\ DOMAIN s = 1..Len(s) /\ DOMAIN t = 1..Len(t)
      /\ DOMAIN (s \o t) = 1..Len(s) + Len(t)
  OBVIOUS
<1>2. SUFFICES ASSUME NEW i \in 1..Len(s) + Len(t), NEW j \in 1..Len(s) + Len(t),
                      (s \o t)[i] = (s \o t)[j]
               PROVE  i = j
  BY <1>1 DEF Injective
<1>3. \A k \in 1..Len(s) + Len(t) :
         \/ k \in 1..Len(s) /\ (s \o t)[k] = s[k] /\ s[k] \in Elems(s)
         \/ /\ k - Len(s) \in 1..Len(t)
            /\ (s \o t)[k] = t[k - Len(s)] /\ t[k - Len(s)] \in Elems(t)
  <2>1. SUFFICES ASSUME NEW k \in 1..Len(s) + Len(t), k > Len(s)
                 PROVE  /\ k - Len(s) \in 1..Len(t)
                        /\ (s \o t)[k] = t[k - Len(s)] /\ t[k - Len(s)] \in Elems(t)
    BY <1>1 DEF Elems
  <2>2. k - Len(s) \in 1..Len(t) /\ Len(s) + (k - Len(s)) = k BY <1>1, <2>1
  <2> QED BY <1>1, <2>2 DEF Elems
<1>4. CASE i \in 1..Len(s) /\ j \in 1..Len(s)
  BY <1>1, <1>2, <1>4 DEF Injective
<1>5. CASE i - Len(s) \in 1..Len(t) /\ j - Len(s) \in 1..Len(t)
  <2>1. t[i - Len(s)] = t[j - Len(s)]
    <3>1. i \notin 1..Len(s) /\ j \notin 1..Len(s) BY <1>1, <1>5
    <3> QED BY <1>2, <1>3, <3>1
  <2>2. i - Len(s) = j - Len(s) BY <1>1, <1>5, <2>1 DEF Injective
  <2> QED BY <1>1, <2>2
<1> QED BY <1>2, <1>3, <1>4, <1>5

\* What a parse can add: new statements, without repetition.
LEMMA BatchType ==
  ASSUME NEW ss \in Batches
  PROVE  /\ ss \in Seq(Stmts) /\ Injective(ss)
         /\ Elems(ss) \subseteq {s \in Stmts : stmt[s] = "free"}
<1>1. PICK n \in 1..MaxBatch : ss \in [1..n -> FreshStmts] BY DEF Batches
<1>2. n \in Nat BY BoundsAssumption
<1>3. ss \in Seq(FreshStmts) BY <1>1, <1>2
<1>4. ss \in Seq(Stmts) BY <1>3 DEF FreshStmts
<1>5. Elems(ss) \subseteq FreshStmts BY <1>3, ElemsType
<1> QED BY <1>4, <1>5 DEF Batches, FreshStmts

\* The parameters of a parse are in its statements, and finitely many.
LEMMA BatchParamsType ==
  ASSUME NEW ss \in Batches, NEW home \in Placements(ss)
  PROVE  /\ BatchParams(ss, home) \subseteq Params
         /\ IsFiniteSet(BatchParams(ss, home))
         /\ \A p \in BatchParams(ss, home) : Home(p) \in Elems(ss)
<1>1. PICK n \in 0..MaxParams : home \in [1..n -> 1..Len(ss)] BY DEF Placements
<1>2. n \in Nat /\ ss \in Seq(Stmts) /\ Len(ss) \in Nat
  BY BoundsAssumption, BatchType
<1>3. \A i \in 1..n : ss[home[i]] \in Stmts /\ ss[home[i]] \in Elems(ss)
  BY <1>1, <1>2 DEF Elems
<1>4. \A p \in BatchParams(ss, home) : p \in Params /\ Home(p) \in Elems(ss)
  BY <1>1, <1>2, <1>3 DEF BatchParams, Params, Home
<1>5. IsFiniteSet(BatchParams(ss, home))
  <2> DEFINE f == [i \in 1..n |-> <<ss[home[i]], i - 1>>]
  <2>1. f \in Surjection(1..n, BatchParams(ss, home))
    BY <1>1 DEF Surjection, BatchParams
  <2> HIDE DEF f
  <2>2. IsFiniteSet(1..n) BY <1>2, FS_Interval
  <2> QED BY <2>1, <2>2, FS_Surjection
<1> QED BY <1>4, <1>5

\* Sorting yields a vector of the elements sorted.
LEMMA SortingType ==
  ASSUME NEW S, IsFiniteSet(S), NEW q \in Sortings(S)
  PROVE  q \in Seq(S) /\ Elems(q) \subseteq S
<1>1. Cardinality(S) \in Nat BY FS_CardinalityType
<1>2. q \in [1..Cardinality(S) -> S] BY DEF Sortings
<1>3. q \in Seq(S) BY <1>1, <1>2
<1> QED BY <1>3, ElemsType
-----------------------------------------------------------------------------
(* Steps that change what one result holds.                                *)

Owned == ExclusiveOwnership /\ NoOrphanStatement /\ ParametersLiveUntilDetached

\* Two views of the same statements: allocation tables as sets.
LEMMA TableUpdates ==
  ASSUME NEW alloc, NEW D, alloc \in [D -> Alloc], NEW S
  PROVE  /\ Deleted(alloc, S) \in [D -> Alloc]
         /\ Allocated(alloc, S) \in [D -> Alloc]
         /\ \A x \in D : Deleted(alloc, S)[x] = IF x \in S THEN "deleted" ELSE alloc[x]
         /\ \A x \in D : Allocated(alloc, S)[x] = IF x \in S THEN "live" ELSE alloc[x]
         /\ S \intersect D = {} => Deleted(alloc, S) = alloc
BY DEF Deleted, Allocated, Alloc

\* A result that takes new or released statements keeps the ownership rules.
LEMMA GrowStep ==
  ASSUME IInv, NEW r \in Results, NEW ss \in Seq(Stmts), NEW P,
         Injective(ss),
         results' \in [Results -> Object],
         results'[r].statements = results[r].statements \o ss,
         Elems(results'[r].parameters) \subseteq Elems(results[r].parameters) \union P,
         \A p \in P : Home(p) \in Elems(ss),
         \A q \in Results \ {r} : results'[q] = results[q],
         r \in alive \/ results[r] = Constructed(<<>>),
         alive' = alive \union {r},
         detached' = detached \/ (detached' = detached \ {r} /\ results[r].parameters = <<>>),
         \/ /\ Elems(ss) \subseteq {s \in Stmts : stmt[s] = "free"}
            /\ stmt' = Allocated(stmt, Elems(ss))
            /\ client' = client
         \/ /\ Elems(ss) \subseteq client
            /\ client' = client \ Elems(ss)
            /\ stmt' = stmt
  PROVE  Owned'
<1> USE DEF IInv
<1>1. results[r] \in Object /\ results[r].statements \in Seq(Stmts)
  BY DEF TypeOK, Object
<1>2. /\ results[r].statements \o ss \in Seq(Stmts)
      /\ Elems(results[r].statements \o ss) = Held(r) \union Elems(ss)
  BY <1>1, ElemsOfConcat DEF Held
<1>3. /\ Held(r)' = Held(r) \union Elems(ss)
      /\ \A q \in Results \ {r} : Held(q)' = Held(q)
  BY <1>2 DEF Held
<1>4. Elems(ss) \subseteq Stmts BY ElemsType
<1>5. /\ \A s \in Stmts : stmt'[s] = IF s \in Elems(ss) THEN "live" ELSE stmt[s]
      /\ client' = client \ Elems(ss)
      /\ \A q \in Results : Held(q) \intersect Elems(ss) = {}
  <2>1. CASE client' = client /\ stmt' = Allocated(stmt, Elems(ss))
             /\ Elems(ss) \subseteq {s \in Stmts : stmt[s] = "free"}
    <3>1. \A s \in Stmts : stmt'[s] = IF s \in Elems(ss) THEN "live" ELSE stmt[s]
      BY <2>1 DEF TypeOK, Allocated
    <3> QED BY <2>1, <3>1 DEF ExclusiveOwnership
  <2>2. CASE client' = client \ Elems(ss) /\ stmt' = stmt /\ Elems(ss) \subseteq client
    BY <2>2 DEF ExclusiveOwnership
  <2> QED BY <2>1, <2>2
<1>6. ExclusiveOwnership'
  <2>1. \A q \in Results : Held(q)' \subseteq {s \in Stmts : stmt'[s] = "live"} \ client'
    BY <1>3, <1>4, <1>5 DEF ExclusiveOwnership
  <2>2. \A q \in Results : Injective(results'[q].statements)
    <3>1. Injective(results[r].statements \o ss)
      BY <1>1, <1>5, InjectiveConcat DEF ExclusiveOwnership, Held
    <3> QED BY <3>1 DEF ExclusiveOwnership
  <2>3. \A q1, q2 \in Results : q1 # q2 => Held(q1)' \intersect Held(q2)' = {}
    BY <1>3, <1>5 DEF ExclusiveOwnership
  <2>4. client' \subseteq {s \in Stmts : stmt'[s] = "live"}
    BY <1>5 DEF ExclusiveOwnership
  <2> QED BY <2>1, <2>2, <2>3, <2>4 DEF ExclusiveOwnership
<1>7. NoOrphanStatement'
  <2>1. \A q \in Results \ alive' : Held(q)' = {}
    BY <1>3 DEF NoOrphanStatement
  <2>2. ASSUME NEW s \in Stmts, stmt'[s] = "live"
        PROVE  s \in client' \/ \E q \in alive' : s \in Held(q)'
    <3>1. CASE s \in Elems(ss) BY <1>3, <3>1
    <3>2. CASE s \notin Elems(ss)
      <4>1. stmt[s] = "live" BY <1>5, <2>2, <3>2
      <4>2. CASE s \in client BY <1>5, <3>2, <4>2
      <4>3. CASE \E q \in alive : s \in Held(q)
        <5>1. PICK q \in alive : s \in Held(q) BY <4>3
        <5>2. s \in Held(q)' BY <1>3, <5>1 DEF TypeOK
        <5> QED BY <5>1, <5>2
      <4> QED BY <4>1, <4>2, <4>3 DEF NoOrphanStatement
    <3> QED BY <3>1, <3>2
  <2> QED BY <2>1, <2>2 DEF NoOrphanStatement
<1>8. ParametersLiveUntilDetached'
  <2>1. ASSUME NEW q \in Results, q \notin detached', NEW p \in Elems(results'[q].parameters)
        PROVE  Home(p) \in Held(q)'
    <3>1. CASE q # r
      BY <1>3, <2>1, <3>1 DEF ParametersLiveUntilDetached
    <3>2. CASE q = r
      <4>1. CASE p \in P BY <1>3, <3>2, <4>1
      <4>2. CASE p \in Elems(results[r].parameters) /\ r \notin detached
        BY <1>3, <3>2, <4>2 DEF ParametersLiveUntilDetached
      <4>3. CASE p \in Elems(results[r].parameters) /\ results[r].parameters = <<>>
        BY <4>3, ElemsOfEmpty
      <4> QED BY <2>1, <3>2, <4>1, <4>2, <4>3
    <3> QED BY <3>1, <3>2
  <2> QED BY <2>1 DEF ParametersLiveUntilDetached
<1> QED BY <1>6, <1>7, <1>8 DEF Owned

\* A result that lets go of its statements keeps the ownership rules: they are
\* deleted, or they are the client's.
LEMMA ShrinkStep ==
  ASSUME IInv, NEW r \in alive,
         results' \in [Results -> Object],
         results'[r].statements = <<>>,
         \A q \in Results \ {r} : results'[q] = results[q],
         alive' = alive \/ alive' = alive \ {r},
         \/ r \in detached' /\ detached' = detached \union {r}
         \/ detached' = detached \ {r} /\ results'[r].parameters = <<>>
         \/ /\ detached' = detached /\ results[r].statements = <<>>
            /\ results'[r].parameters = results[r].parameters,
         \/ stmt' = Deleted(stmt, Held(r)) /\ client' = client
         \/ stmt' = stmt /\ client' = client \union Held(r)
  PROVE  Owned'
<1> USE DEF IInv
<1>1. /\ Held(r)' = {}
      /\ \A q \in Results \ {r} : Held(q)' = Held(q)
  BY ElemsOfEmpty DEF Held
<1>2. r \in Results /\ Held(r) \subseteq Stmts
  BY DEF TypeOK, ExclusiveOwnership
<1>3. \/ /\ \A s \in Stmts : stmt'[s] = IF s \in Held(r) THEN "deleted" ELSE stmt[s]
         /\ client' = client
      \/ stmt' = stmt /\ client' = client \union Held(r)
  BY DEF TypeOK, Deleted
<1>4. ExclusiveOwnership'
  <2>1. \A q \in Results : Held(q)' \subseteq {s \in Stmts : stmt'[s] = "live"} \ client'
    BY <1>1, <1>2, <1>3 DEF ExclusiveOwnership
  <2>2. \A q \in Results : Injective(results'[q].statements)
    BY ElemsOfEmpty DEF ExclusiveOwnership
  <2>3. \A q1, q2 \in Results : q1 # q2 => Held(q1)' \intersect Held(q2)' = {}
    BY <1>1 DEF ExclusiveOwnership
  <2>4. client' \subseteq {s \in Stmts : stmt'[s] = "live"}
    BY <1>2, <1>3 DEF ExclusiveOwnership
  <2> QED BY <2>1, <2>2, <2>3, <2>4 DEF ExclusiveOwnership
<1>5. NoOrphanStatement'
  <2>1. \A q \in Results \ alive' : Held(q)' = {}
    BY <1>1, <1>2 DEF NoOrphanStatement
  <2>2. ASSUME NEW s \in Stmts, stmt'[s] = "live"
        PROVE  s \in client' \/ \E q \in alive' : s \in Held(q)'
    <3>1. stmt[s] = "live" BY <1>3, <2>2
    <3>2. CASE s \in client BY <1>3, <3>2
    <3>3. CASE s \in Held(r) BY <1>3, <2>2, <3>3
    <3>4. CASE \E q \in alive \ {r} : s \in Held(q)
      BY <1>1, <3>4 DEF TypeOK
    <3> QED BY <3>1, <3>2, <3>3, <3>4 DEF NoOrphanStatement
  <2> QED BY <2>1, <2>2 DEF NoOrphanStatement
<1>6. ParametersLiveUntilDetached'
  <2>1. ASSUME NEW q \in Results, q \notin detached', NEW p \in Elems(results'[q].parameters)
        PROVE  Home(p) \in Held(q)'
    <3>1. CASE q # r
      BY <1>1, <2>1, <3>1 DEF ParametersLiveUntilDetached
    <3>2. CASE q = r /\ results'[r].parameters = <<>>
      BY <2>1, <3>2, ElemsOfEmpty
    <3>3. CASE q = r /\ detached' = detached /\ results[r].statements = <<>>
               /\ results'[r].parameters = results[r].parameters
      BY <2>1, <3>3, ElemsOfEmpty DEF ParametersLiveUntilDetached, Held
    <3> QED BY <2>1, <3>1, <3>2, <3>3
  <2> QED BY <2>1 DEF ParametersLiveUntilDetached
<1> QED BY <1>4, <1>5, <1>6 DEF Owned
-----------------------------------------------------------------------------
(* The actions.                                                            *)

\* A result that points to a message allocated in this step.
LEMMA NewMessageStep ==
  ASSUME IInv, NEW r \in alive, NEW m \in Msgs, msg[m] = "free",
         msg' = Allocated(msg, {m}),
         results'[r].errorMsg = m \/ results'[r].errorMsg = results[r].errorMsg,
         \A q \in Results \ {r} : results'[q] = results[q],
         UNCHANGED alive
  PROVE  MessageOwnership'
<1> USE DEF IInv
<1>1. \A x \in Msgs : msg'[x] = IF x = m THEN "live" ELSE msg[x]
  BY DEF TypeOK, Allocated
<1>2. /\ r \in Results
      /\ \A q \in Results : results[q].errorMsg # m
      /\ \A q \in Results : results[q].errorMsg \in Msgs \union {NoMsg}
  BY NoMsgAssumption DEF MessageOwnership, TypeOK, Object
<1>3. \A q \in Results : results'[q].errorMsg # NoMsg =>
        q \in alive' /\ msg'[results'[q].errorMsg] = "live"
  <2>1. SUFFICES ASSUME NEW q \in Results, results'[q].errorMsg # NoMsg
                 PROVE  q \in alive /\ msg'[results'[q].errorMsg] = "live"
    OBVIOUS
  <2>2. CASE q = r /\ results'[q].errorMsg = m BY <1>1, <2>2
  <2>3. CASE results'[q].errorMsg = results[q].errorMsg
    BY <1>1, <1>2, <2>1, <2>3 DEF MessageOwnership
  <2> QED BY <2>2, <2>3
<1>4. \A q1, q2 \in Results : q1 # q2 /\ results'[q1].errorMsg # NoMsg =>
        results'[q1].errorMsg # results'[q2].errorMsg
  BY <1>2 DEF MessageOwnership
<1> QED BY <1>3, <1>4 DEF MessageOwnership

\* What `input' does, with or without an error after it: o is the object it leaves.
LEMMA InputStep ==
  ASSUME IInv, fault = "none", NEW r \in alive,
         NEW ss \in Batches, NEW home \in Placements(ss),
         NEW q \in Sortings(Elems(results[r].parameters) \union BatchParams(ss, home)),
         NEW m \in Msgs \union {NoMsg}, NEW o,
         o \in Object, o.statements = results[r].statements \o ss, o.parameters = q,
         o.errorMsg = m,
         \/ m = results[r].errorMsg /\ msg' = msg
         \/ m \in Msgs /\ msg[m] = "free" /\ msg' = Allocated(msg, {m}),
         results' = [results EXCEPT ![r] = o],
         stmt' = Allocated(stmt, Elems(ss)),
         UNCHANGED <<alive, client, detached, fault>>
  PROVE  IInv'
<1> USE DEF IInv
<1>1. /\ ss \in Seq(Stmts) /\ Injective(ss)
      /\ Elems(ss) \subseteq {s \in Stmts : stmt[s] = "free"}
  BY BatchType
<1>2. r \in Results /\ results[r] \in Object BY DEF TypeOK
<1>3. Elems(q) \subseteq Elems(results[r].parameters) \union BatchParams(ss, home)
  <2>1. IsFiniteSet(Elems(results[r].parameters))
    BY <1>2, ElemsType DEF Object
  <2>2. IsFiniteSet(Elems(results[r].parameters) \union BatchParams(ss, home))
    BY <2>1, BatchParamsType, FS_Union
  <2> QED BY <2>2, SortingType
<1>4. /\ results'[r] = o
      /\ \A p \in Results \ {r} : results'[p] = results[p]
      /\ results' \in [Results -> Object]
  BY <1>2 DEF TypeOK
<1>5. Owned'
  <2>1. \A p \in BatchParams(ss, home) : Home(p) \in Elems(ss) BY BatchParamsType
  <2>2. alive' = alive \union {r} OBVIOUS
  <2>3. results'[r].statements = results[r].statements \o ss BY <1>4
  <2>4. Elems(results'[r].parameters)
          \subseteq Elems(results[r].parameters) \union BatchParams(ss, home)
    BY <1>3, <1>4
  <2>5. /\ Elems(ss) \subseteq {s \in Stmts : stmt[s] = "free"}
        /\ stmt' = Allocated(stmt, Elems(ss)) /\ client' = client
        /\ detached' = detached
    BY <1>1
  <2> HIDE DEF IInv
  <2> QED BY <1>1, <1>2, <1>4, <2>1, <2>2, <2>3, <2>4, <2>5, GrowStep
<1>6. TypeOK'
  BY <1>1, <1>4, TableUpdates DEF TypeOK, Allocated, Alloc
<1>7. MessageOwnership'
  <2>1. CASE m = results[r].errorMsg /\ msg' = msg
    BY <1>2, <1>4, <2>1 DEF MessageOwnership
  <2>2. CASE m \in Msgs /\ msg[m] = "free" /\ msg' = Allocated(msg, {m})
    BY <1>2, <1>4, <2>2, NewMessageStep
  <2> QED BY <2>1, <2>2
<1> QED BY <1>5, <1>6, <1>7 DEF Owned, NoDoubleDelete

\* The object a parse leaves has its type.
LEMMA InputObject ==
  ASSUME IInv, NEW r \in alive, NEW ss \in Batches, NEW home \in Placements(ss),
         NEW q \in Sortings(Elems(results[r].parameters) \union BatchParams(ss, home))
  PROVE  /\ results[r] \in Object
         /\ results[r].statements \o ss \in Seq(Stmts)
         /\ q \in Seq(Params)
<1>1. results[r] \in Object BY DEF IInv, TypeOK
<1>2. results[r].statements \o ss \in Seq(Stmts)
  BY <1>1, BatchType, ElemsOfConcat DEF Object
<1> DEFINE S == Elems(results[r].parameters) \union BatchParams(ss, home)
<1>3. S \subseteq Params /\ IsFiniteSet(S)
  BY <1>1, ElemsType, BatchParamsType, FS_Union DEF Object
<1>4. q \in Seq(S) BY <1>3, SortingType
<1>5. q \in Seq(Params) BY <1>3, <1>4
<1> QED BY <1>1, <1>2, <1>5

LEMMA ParseSuccessStep ==
  ASSUME IInv, fault = "none", NEW r \in Results, ParseSuccess(r) PROVE IInv'
<1>0. PICK ss \in Batches : \E home \in Placements(ss) :
        Input(r, ss, home, LAMBDA o : SetIsValid(o, TRUE))
  BY DEF ParseSuccess
<1>1. PICK home \in Placements(ss) :
        Input(r, ss, home, LAMBDA o : SetIsValid(o, TRUE))
  BY <1>0
<1>2. CASE fault' = "read of a deleted parameter" /\ UNCHANGED <<results, stmt>>
  BY <1>2 DEF ParseSuccess, IInv, TypeOK, ExclusiveOwnership, NoOrphanStatement,
     MessageOwnership, ParametersLiveUntilDetached, NoDoubleDelete, Held
<1>3. CASE /\ stmt' = Allocated(stmt, Elems(ss))
           /\ \E q \in Sortings(Elems(results[r].parameters) \union BatchParams(ss, home)) :
                results' = [results EXCEPT
                  ![r] = SetIsValid([AddStatements(@, ss) EXCEPT !.parameters = q], TRUE)]
           /\ UNCHANGED fault
  <2>1. PICK q \in Sortings(Elems(results[r].parameters) \union BatchParams(ss, home)) :
          results' = [results EXCEPT
            ![r] = SetIsValid([AddStatements(@, ss) EXCEPT !.parameters = q], TRUE)]
    BY <1>3
  <2> DEFINE o == SetIsValid([AddStatements(results[r], ss) EXCEPT !.parameters = q], TRUE)
  <2>2. /\ results[r] \in Object /\ q \in Seq(Params)
        /\ results[r].statements \o ss \in Seq(Stmts)
    BY InputObject DEF ParseSuccess
  <2>3. /\ o \in Object /\ o.statements = results[r].statements \o ss
        /\ o.parameters = q /\ o.errorMsg = results[r].errorMsg
        /\ o.errorMsg \in Msgs \union {NoMsg}
    BY <2>2 DEF Object, SetIsValid, AddStatements
  <2>4. results' = [results EXCEPT ![r] = o] BY <2>1
  <2> HIDE DEF o
  <2> QED BY <1>3, <2>3, <2>4, InputStep DEF ParseSuccess
<1> QED BY <1>1, <1>2, <1>3 DEF Input

LEMMA ParseTrailingErrorStep ==
  ASSUME IInv, fault = "none", NEW r \in Results, ParseTrailingError(r) PROVE IInv'
<1>0. PICK m \in Msgs, ss \in Batches :
        /\ msg[m] = "free" /\ msg' = Allocated(msg, {m})
        /\ \E home \in Placements(ss) :
             Input(r, ss, home, LAMBDA o : SetIsValid(SetErrorDetails(o, m), FALSE))
  BY DEF ParseTrailingError
<1>1. PICK home \in Placements(ss) :
        /\ msg[m] = "free" /\ msg' = Allocated(msg, {m})
        /\ Input(r, ss, home, LAMBDA o : SetIsValid(SetErrorDetails(o, m), FALSE))
  BY <1>0
<1>2. CASE fault' = "read of a deleted parameter" /\ UNCHANGED <<results, stmt>>
  <2>1. TypeOK'
    BY <1>1, <1>2 DEF ParseTrailingError, IInv, TypeOK, Allocated, Alloc
  <2>3. MessageOwnership'
    BY <1>1, <1>2, NewMessageStep DEF ParseTrailingError
  <2> QED
    BY <1>2, <2>1, <2>3 DEF ParseTrailingError, IInv, ExclusiveOwnership, NoOrphanStatement,
       ParametersLiveUntilDetached, NoDoubleDelete, Held
<1>3. CASE /\ stmt' = Allocated(stmt, Elems(ss))
           /\ \E q \in Sortings(Elems(results[r].parameters) \union BatchParams(ss, home)) :
                results' = [results EXCEPT
                  ![r] = SetIsValid(SetErrorDetails(
                           [AddStatements(@, ss) EXCEPT !.parameters = q], m), FALSE)]
           /\ UNCHANGED fault
  <2>1. PICK q \in Sortings(Elems(results[r].parameters) \union BatchParams(ss, home)) :
          results' = [results EXCEPT
            ![r] = SetIsValid(SetErrorDetails(
                     [AddStatements(@, ss) EXCEPT !.parameters = q], m), FALSE)]
    BY <1>3
  <2> DEFINE o == SetIsValid(SetErrorDetails(
                    [AddStatements(results[r], ss) EXCEPT !.parameters = q], m), FALSE)
  <2>2. /\ results[r] \in Object /\ q \in Seq(Params)
        /\ results[r].statements \o ss \in Seq(Stmts)
    BY InputObject DEF ParseTrailingError
  <2>3. /\ o \in Object /\ o.statements = results[r].statements \o ss
        /\ o.parameters = q /\ o.errorMsg = m
    BY <2>2 DEF Object, SetIsValid, SetErrorDetails, AddStatements
  <2>4. results' = [results EXCEPT ![r] = o] BY <2>1
  <2> HIDE DEF o
  <2> QED BY <1>1, <1>3, <2>3, <2>4, InputStep DEF ParseTrailingError
<1> QED BY <1>1, <1>2, <1>3 DEF Input
LEMMA ParseErrorStep ==
  ASSUME IInv, NEW r \in Results, ParseError(r) PROVE IInv'
<1> USE DEF IInv
<1>1. PICK m \in Msgs :
        /\ r \in alive /\ msg[m] = "free" /\ msg' = Allocated(msg, {m})
        /\ results' = [results EXCEPT ![r] = SetIsValid(SetErrorDetails(@, m), FALSE)]
        /\ UNCHANGED <<alive, stmt, client, detached, fault>>
  BY DEF ParseError
<1>2. /\ results' \in [Results -> Object]
      /\ \A q \in Results \ {r} : results'[q] = results[q]
      /\ results'[r].errorMsg = m
      /\ results'[r].statements = results[r].statements
      /\ results'[r].parameters = results[r].parameters
  BY <1>1 DEF SetIsValid, SetErrorDetails, Object, TypeOK
<1>3. TypeOK' BY <1>1, <1>2 DEF TypeOK, Allocated, Alloc
<1>4. MessageOwnership' BY <1>1, <1>2, NewMessageStep
<1>5. \A q \in Results : Held(q)' = Held(q) BY <1>2 DEF Held
<1>6. ExclusiveOwnership'
  <2>1. ExclusiveOwnership /\ stmt' = stmt /\ client' = client BY <1>1
  <2>2. \A q \in Results : results'[q].statements = results[q].statements BY <1>2
  <2> HIDE DEF IInv
  <2>3. \A q \in Results : Injective(results[q].statements)' BY <2>1, <2>2 DEF ExclusiveOwnership, Injective
  <2> QED BY <1>5, <2>1, <2>3 DEF ExclusiveOwnership
<1>7. NoOrphanStatement'
  <2>1. NoOrphanStatement /\ TypeOK /\ stmt' = stmt /\ client' = client /\ alive' = alive BY <1>1
  <2>2. alive \subseteq Results BY <2>1 DEF TypeOK
  <2> HIDE DEF IInv
  <2>3. \A s \in Stmts : stmt'[s] = "live" => s \in client' \/ \E q \in alive' : s \in Held(q)'
    BY <1>5, <2>1, <2>2 DEF NoOrphanStatement
  <2>4. \A q \in Results \ alive' : Held(q)' = {} BY <1>5, <2>1 DEF NoOrphanStatement
  <2> QED BY <2>3, <2>4 DEF NoOrphanStatement
<1>8. ParametersLiveUntilDetached'
  <2>1. \A q \in Results : results'[q].parameters = results[q].parameters
    BY <1>2
  <2> QED BY <1>1, <1>5, <2>1 DEF ParametersLiveUntilDetached
<1> QED BY <1>1, <1>3, <1>4, <1>6, <1>7, <1>8 DEF NoDoubleDelete

LEMMA ConstructStep ==
  ASSUME IInv, NEW r \in Results, Construct(r) PROVE IInv'
<1> USE DEF IInv
<1>0. Constructed(<<>>) \in Object BY DEF Constructed, Object
<1>1. /\ results' \in [Results -> Object]
      /\ results'[r] = Constructed(<<>>)
      /\ \A q \in Results \ {r} : results'[q] = results[q]
  BY <1>0 DEF Construct, TypeOK
<1>2. TypeOK' BY <1>1 DEF TypeOK, Construct
<1>3. Held(r) = {} /\ \A q \in Results : Held(q)' = Held(q)
  <2>1. Held(r) = {} BY DEF Construct, NoOrphanStatement
  <2>2. Held(r)' = {} BY <1>1, ElemsOfEmpty DEF Held, Constructed
  <2> QED BY <1>1, <2>1, <2>2 DEF Held
<1>4. ExclusiveOwnership'
  <2>1. \A q \in Results : Injective(results'[q].statements)
    BY <1>1, ElemsOfEmpty DEF ExclusiveOwnership, Constructed
  <2> QED BY <1>3, <2>1 DEF ExclusiveOwnership, Construct
<1>5. NoOrphanStatement'
  <2>1. ASSUME NEW s \in Stmts, stmt'[s] = "live"
        PROVE  s \in client' \/ \E q \in alive : s \in Held(q)'
    <3>1. s \in client \/ \E q \in alive : s \in Held(q)
      BY <2>1 DEF NoOrphanStatement, Construct
    <3>2. \A q \in alive : Held(q)' = Held(q) BY <1>3 DEF TypeOK
    <3> QED BY <3>1, <3>2 DEF Construct
  <2> QED BY <1>3, <2>1 DEF NoOrphanStatement, Construct
<1>6. MessageOwnership' BY <1>1 DEF MessageOwnership, Construct, Constructed
<1>7. ParametersLiveUntilDetached'
  <2>1. \A p \in Elems(results'[r].parameters) : FALSE
    BY <1>1, ElemsOfEmpty DEF Constructed
  <2> QED BY <1>1, <1>3, <2>1 DEF ParametersLiveUntilDetached, Construct
<1> QED BY <1>2, <1>4, <1>5, <1>6, <1>7 DEF NoDoubleDelete, Construct

LEMMA ConstructWithStep ==
  ASSUME IInv, NEW r \in Results, NEW s \in Stmts, ConstructWith(r, s) PROVE IInv'
<1> USE DEF IInv
<1> DEFINE o == AddStatements(Constructed(<<>>), <<s>>)
<1>1. /\ o \in Object /\ o.statements = <<s>> /\ o.errorMsg = NoMsg
      /\ o.parameters = <<>>
  <2>1. <<>> \o <<s>> = <<s>> /\ <<s>> \in Seq(Stmts) OBVIOUS
  <2>2. o = [Constructed(<<>>) EXCEPT !.statements = <<s>>]
    BY <2>1 DEF AddStatements, Constructed
  <2> QED BY <2>1, <2>2, EmptySeq DEF Constructed, Object
<1>2. /\ results' \in [Results -> Object]
      /\ results'[r] = o
      /\ \A q \in Results \ {r} : results'[q] = results[q]
  BY <1>1 DEF ConstructWith, TypeOK
<1> HIDE DEF o
<1>3. TypeOK' BY <1>2 DEF TypeOK, ConstructWith
<1>4. Held(r) = {} /\ Held(r)' = {s} /\ \A q \in Results \ {r} : Held(q)' = Held(q)
  <2>1. Held(r) = {} BY DEF ConstructWith, NoOrphanStatement
  <2>2. Held(r)' = {s} BY <1>1, <1>2, ElemsOfSingle DEF Held
  <2> QED BY <1>2, <2>1, <2>2 DEF Held
<1>5. ExclusiveOwnership'
  <2>1. \A q \in Results : Injective(results'[q].statements)
    BY <1>1, <1>2, ElemsOfSingle DEF ExclusiveOwnership
  <2> QED BY <1>4, <2>1 DEF ExclusiveOwnership, ConstructWith
<1>6. NoOrphanStatement'
  BY <1>4 DEF NoOrphanStatement, ConstructWith, TypeOK
<1>7. MessageOwnership'
  BY <1>1, <1>2 DEF MessageOwnership, ConstructWith
<1>8. ParametersLiveUntilDetached'
  <2>1. \A p \in Elems(results'[r].parameters) : FALSE
    BY <1>1, <1>2, ElemsOfEmpty
  <2> QED BY <1>2, <1>4, <2>1 DEF ParametersLiveUntilDetached, ConstructWith
<1> QED BY <1>3, <1>5, <1>6, <1>7, <1>8 DEF NoDoubleDelete, ConstructWith

LEMMA AddStatementStep ==
  ASSUME IInv, NEW r \in Results, NEW s \in Stmts, AddStatement(r, s) PROVE IInv'
<1> USE DEF IInv
<1>1. results[r] \in Object /\ <<s>> \in Seq(Stmts)
  <2>1. results[r] \in Object BY DEF TypeOK
  <2> QED BY <2>1
<1>2. results[r].statements \o <<s>> \in Seq(Stmts)
  BY <1>1 DEF Object
<1>3. /\ results' \in [Results -> Object]
      /\ results'[r].statements = results[r].statements \o <<s>>
      /\ results'[r].parameters = results[r].parameters
      /\ results'[r].errorMsg = results[r].errorMsg
      /\ \A q \in Results \ {r} : results'[q] = results[q]
  BY <1>1, <1>2 DEF AddStatement, AddStatements, TypeOK, Object
<1>4. TypeOK' BY <1>3 DEF TypeOK, AddStatement
<1>5. Owned'
  <2>1. /\ alive' = alive \union {r} /\ r \in alive /\ detached' = detached
        /\ client' = client \ {s} /\ {s} \subseteq client /\ stmt' = stmt
    BY DEF AddStatement
  <2>2. Elems(<<s>>) = {s} /\ Injective(<<s>>) BY ElemsOfSingle
  <2>3. Elems(results'[r].parameters) \subseteq Elems(results[r].parameters) \union {}
    BY <1>3
  <2> HIDE DEF IInv
  <2> DEFINE none == {}
  <2>4. \A p \in none : Home(p) \in Elems(<<s>>) OBVIOUS
  <2>5. Elems(results'[r].parameters) \subseteq Elems(results[r].parameters) \union none
    BY <2>3
  <2> HIDE DEF none
  <2> QED BY <1>1, <1>3, <2>1, <2>2, <2>4, <2>5, GrowStep
<1>6. MessageOwnership' BY <1>3 DEF MessageOwnership, AddStatement
<1> QED BY <1>4, <1>5, <1>6 DEF Owned, NoDoubleDelete, AddStatement

\* What reset() and the destructor free is live, so neither frees twice.
LEMMA DeleteFromIsSafe ==
  ASSUME IInv, fault = "none", NEW r \in Results, DeleteFrom(results[r])
  PROVE  /\ fault' = fault
         /\ stmt' = Deleted(stmt, Held(r))
         /\ msg' = Deleted(msg, {results[r].errorMsg})
<1>1. \A s \in Elems(results[r].statements) : stmt[s] = "live"
  BY DEF IInv, ExclusiveOwnership, Held
<1>2. results[r].errorMsg # NoMsg => msg[results[r].errorMsg] = "live"
  BY DEF IInv, MessageOwnership
<1> QED BY <1>1, <1>2 DEF DeleteFrom, Held

\* A result gives up its message.
LEMMA DropMessageStep ==
  ASSUME IInv, NEW r \in alive,
         results'[r].errorMsg = NoMsg,
         \A q \in Results \ {r} : results'[q] = results[q],
         msg' = Deleted(msg, {results[r].errorMsg}),
         alive' = alive \/ alive' = alive \ {r}
  PROVE  MessageOwnership'
<1> USE DEF IInv
<1>1. \A x \in Msgs : msg'[x] = IF x = results[r].errorMsg THEN "deleted" ELSE msg[x]
  BY DEF TypeOK, Deleted
<1>2. r \in Results /\ \A q \in Results : results[q].errorMsg \in Msgs \union {NoMsg}
  BY DEF TypeOK, Object
<1> QED BY <1>1, <1>2 DEF MessageOwnership

LEMMA ResetStep ==
  ASSUME IInv, fault = "none", NEW r \in Results, Reset(r) PROVE IInv'
<1> USE DEF IInv
<1>1. /\ results[r] \in Object /\ r \in alive
      /\ results' = [results EXCEPT ![r] = ResetFields(@)]
  BY DEF TypeOK, Reset
<1>2. /\ results' \in [Results -> Object]
      /\ results'[r].statements = <<>>
      /\ results'[r].errorMsg = NoMsg
      /\ results'[r].parameters = results[r].parameters
      /\ \A q \in Results \ {r} : results'[q] = results[q]
  <2>1. ResetFields(results[r]) \in Object
    BY <1>1, EmptySeq DEF ResetFields, Object
  <2>2. /\ ResetFields(results[r]).statements = <<>>
        /\ ResetFields(results[r]).errorMsg = NoMsg
        /\ ResetFields(results[r]).parameters = results[r].parameters
    BY <1>1 DEF ResetFields, Object
  <2> QED BY <1>1, <2>1, <2>2 DEF TypeOK
<1>3. /\ fault' = fault /\ stmt' = Deleted(stmt, Held(r)) /\ client' = client
      /\ msg' = Deleted(msg, {results[r].errorMsg}) /\ alive' = alive
  BY DeleteFromIsSafe DEF Reset
<1>4. \/ r \in detached' /\ detached' = detached \union {r}
      \/ detached' = detached /\ results[r].statements = <<>>
  BY DEF Reset
<1>5. TypeOK'
  BY <1>2, <1>3, <1>4 DEF TypeOK, Deleted, Alloc
<1>6. Owned'
  <2> HIDE DEF IInv
  <2> QED BY <1>1, <1>2, <1>3, <1>4, ShrinkStep
<1>7. MessageOwnership'
  <2> HIDE DEF IInv
  <2> QED BY <1>1, <1>2, <1>3, DropMessageStep
<1> QED BY <1>3, <1>5, <1>6, <1>7 DEF Owned, NoDoubleDelete

LEMMA DestroyStep ==
  ASSUME IInv, fault = "none", NEW r \in Results, Destroy(r) PROVE IInv'
<1> USE DEF IInv
<1>1. /\ r \in alive /\ Constructed(<<>>) \in Object
      /\ results' = [results EXCEPT ![r] = Constructed(<<>>)]
  BY DEF Destroy, Constructed, Object
<1>2. /\ results' \in [Results -> Object]
      /\ results'[r].statements = <<>>
      /\ results'[r].errorMsg = NoMsg
      /\ results'[r].parameters = <<>>
      /\ \A q \in Results \ {r} : results'[q] = results[q]
  BY <1>1 DEF Constructed, TypeOK
<1>3. /\ fault' = fault /\ stmt' = Deleted(stmt, Held(r)) /\ client' = client
      /\ msg' = Deleted(msg, {results[r].errorMsg}) /\ alive' = alive \ {r}
      /\ detached' = detached \ {r}
  BY DeleteFromIsSafe DEF Destroy
<1>4. TypeOK' BY <1>2, <1>3 DEF TypeOK, Deleted, Alloc
<1>5. Owned'
  <2> HIDE DEF IInv
  <2> QED BY <1>1, <1>2, <1>3, ShrinkStep
<1>6. MessageOwnership'
  <2> HIDE DEF IInv
  <2> QED BY <1>1, <1>2, <1>3, DropMessageStep
<1> QED BY <1>3, <1>4, <1>5, <1>6 DEF Owned, NoDoubleDelete

LEMMA ReleaseStatementsStep ==
  ASSUME IInv, NEW r \in Results, ReleaseStatements(r) PROVE IInv'
<1> USE DEF IInv
<1>1. /\ r \in alive /\ results[r] \in Object
      /\ results' = [results EXCEPT ![r].statements = <<>>]
      /\ client' = client \union Held(r) /\ detached' = detached \union {r}
      /\ UNCHANGED <<alive, stmt, msg, fault>>
  BY DEF ReleaseStatements, TypeOK, Held
<1>2. /\ results' \in [Results -> Object]
      /\ results'[r].statements = <<>>
      /\ results'[r].errorMsg = results[r].errorMsg
      /\ \A q \in Results \ {r} : results'[q] = results[q]
  <2> DEFINE o == [results[r] EXCEPT !.statements = <<>>]
  <2>1. o \in Object /\ o.statements = <<>> /\ o.errorMsg = results[r].errorMsg
    BY <1>1, EmptySeq DEF Object
  <2>2. results' = [results EXCEPT ![r] = o] BY <1>1
  <2> HIDE DEF o
  <2> QED BY <2>1, <2>2 DEF TypeOK
<1>3. TypeOK' BY <1>1, <1>2 DEF TypeOK, ExclusiveOwnership
<1>4. Owned'
  <2> HIDE DEF IInv
  <2> QED BY <1>1, <1>2, ShrinkStep
<1>5. MessageOwnership' BY <1>1, <1>2 DEF MessageOwnership
<1> QED BY <1>1, <1>3, <1>4, <1>5 DEF Owned, NoDoubleDelete

\* A move resets an object that holds neither a statement nor a message any more:
\* nothing is deleted, and everything held has changed place.
LEMMA MoveConstructStep ==
  ASSUME IInv, fault = "none", NEW new \in Results, NEW old \in Results,
         MoveConstruct(new, old)
  PROVE  IInv'
<1> USE DEF IInv
<1>1. /\ new \notin alive /\ old \in alive /\ new # old
      /\ results[old] \in Object /\ Held(new) = {}
  BY DEF MoveConstruct, TypeOK, NoOrphanStatement
<1>2. /\ MovedInto(results[old]) \in Object
      /\ MovedInto(results[old]).statements = results[old].statements
      /\ MovedInto(results[old]).errorMsg = results[old].errorMsg
      /\ MovedInto(results[old]).parameters = <<>>
  BY <1>1, EmptySeq DEF MovedInto, Constructed, Object
<1>3. /\ MovedFrom(results[old]) \in Object
      /\ MovedFrom(results[old]).statements = <<>>
      /\ MovedFrom(results[old]).errorMsg = NoMsg
  BY <1>1, EmptySeq DEF MovedFrom, Object
<1>4. /\ ResetFields(MovedFrom(results[old])) \in Object
      /\ ResetFields(MovedFrom(results[old])).statements = <<>>
      /\ ResetFields(MovedFrom(results[old])).errorMsg = NoMsg
  BY <1>3, EmptySeq DEF ResetFields, Object
<1>5. /\ results' \in [Results -> Object]
      /\ results'[new].statements = results[old].statements
      /\ results'[new].errorMsg = results[old].errorMsg
      /\ results'[new].parameters = <<>>
      /\ results'[old].statements = <<>>
      /\ results'[old].errorMsg = NoMsg
      /\ \A q \in Results \ {new, old} : results'[q] = results[q]
  <2>1. results' = [results EXCEPT ![new] = MovedInto(results[old]),
                                   ![old] = ResetFields(MovedFrom(results[old]))]
    BY <1>1 DEF MoveConstruct, TypeOK
  <2> QED BY <1>1, <1>2, <1>4, <2>1 DEF TypeOK
<1>6. UNCHANGED <<stmt, msg, fault, client>>
  <2>1. Elems(<<>>) = {} BY ElemsOfEmpty
  <2>2. Deleted(stmt, {}) = stmt BY DEF Deleted, TypeOK
  <2>3. Deleted(msg, {NoMsg}) = msg BY NoMsgAssumption DEF Deleted, TypeOK
  <2>4. DeleteFrom(MovedFrom(results[old])) /\ client' = client
    BY DEF MoveConstruct
  <2> QED BY <1>3, <2>1, <2>2, <2>3, <2>4 DEF DeleteFrom
<1>7. alive' = alive \union {new} /\ detached' = (detached \ {new}) \union {old}
  BY DEF MoveConstruct
<1>8. /\ Held(new)' = Held(old) /\ Held(old)' = {}
      /\ \A q \in Results \ {new, old} : Held(q)' = Held(q)
  BY <1>5, ElemsOfEmpty DEF Held
<1>9. TypeOK' BY <1>5, <1>6, <1>7 DEF TypeOK
<1>10. ExclusiveOwnership'
  <2>1. \A q \in Results : Injective(results'[q].statements)
    BY <1>5, ElemsOfEmpty DEF ExclusiveOwnership
  <2>2. \A q \in Results : Held(q)' \subseteq {s \in Stmts : stmt[s] = "live"} \ client
    BY <1>8 DEF ExclusiveOwnership
  <2>3. \A q1, q2 \in Results : q1 # q2 => Held(q1)' \intersect Held(q2)' = {}
    BY <1>1, <1>8 DEF ExclusiveOwnership
  <2> QED BY <1>6, <2>1, <2>2, <2>3 DEF ExclusiveOwnership
<1>11. NoOrphanStatement'
  <2>1. \A q \in Results \ alive' : Held(q)' = {}
    BY <1>7, <1>8 DEF NoOrphanStatement
  <2>2. ASSUME NEW s \in Stmts, stmt'[s] = "live"
        PROVE  s \in client' \/ \E q \in alive' : s \in Held(q)'
    <3>1. s \in client \/ \E q \in alive : s \in Held(q)
      BY <1>6, <2>2 DEF NoOrphanStatement
    <3>2. CASE s \in Held(old) BY <1>7, <1>8, <3>2
    <3>3. CASE \E q \in alive \ {new, old} : s \in Held(q)
      <4>1. PICK q \in alive \ {new, old} : s \in Held(q) BY <3>3
      <4>2. s \in Held(q)' /\ q \in alive' BY <1>7, <1>8, <4>1 DEF TypeOK
      <4> QED BY <4>2
    <3> QED BY <1>1, <1>6, <3>1, <3>2, <3>3
  <2> QED BY <2>1, <2>2 DEF NoOrphanStatement
<1>12. MessageOwnership'
  <2>1. \A q \in Results : results'[q].errorMsg # NoMsg =>
          q \in alive' /\ msg'[results'[q].errorMsg] = "live"
    BY <1>5, <1>6, <1>7 DEF MessageOwnership
  <2>2. \A q1, q2 \in Results : q1 # q2 /\ results'[q1].errorMsg # NoMsg =>
          results'[q1].errorMsg # results'[q2].errorMsg
    BY <1>1, <1>5 DEF MessageOwnership
  <2> QED BY <2>1, <2>2 DEF MessageOwnership
<1>13. ParametersLiveUntilDetached'
  <2>1. ASSUME NEW q \in Results, q \notin detached', NEW p \in Elems(results'[q].parameters)
        PROVE  Home(p) \in Held(q)'
    <3>1. CASE q = new BY <1>5, <2>1, <3>1, ElemsOfEmpty
    <3>2. CASE q # new
      <4>1. q # old /\ q \notin detached BY <1>7, <2>1, <3>2
      <4>2. results'[q] = results[q] /\ Held(q)' = Held(q) BY <1>5, <1>8, <3>2, <4>1
      <4> QED BY <2>1, <4>1, <4>2 DEF ParametersLiveUntilDetached
    <3> QED BY <3>1, <3>2
  <2> QED BY <2>1 DEF ParametersLiveUntilDetached
<1> QED BY <1>6, <1>9, <1>10, <1>11, <1>12, <1>13 DEF NoDoubleDelete

LEMMA ClientDeleteStep ==
  ASSUME IInv, NEW s \in Stmts, ClientDelete(s) PROVE IInv'
<1> USE DEF IInv
<1>1. \A x \in Stmts : stmt'[x] = IF x = s THEN "deleted" ELSE stmt[x]
  BY DEF ClientDelete, Deleted, TypeOK
<1>2. TypeOK' BY DEF ClientDelete, TypeOK, Deleted, Alloc
<1>3. \A q \in Results : Held(q)' = Held(q) /\ s \notin Held(q)
  BY DEF ClientDelete, Held, ExclusiveOwnership
<1>4. ExclusiveOwnership'
  BY <1>1, <1>3 DEF ClientDelete, ExclusiveOwnership
<1>5. NoOrphanStatement'
  <2>1. ASSUME NEW x \in Stmts, stmt'[x] = "live"
        PROVE  x \in client' \/ \E q \in alive : x \in Held(q)'
    <3>1. x # s /\ stmt[x] = "live" BY <1>1, <2>1
    <3>2. x \in client \/ \E q \in alive : x \in Held(q)
      BY <3>1 DEF NoOrphanStatement
    <3>3. \A q \in alive : Held(q)' = Held(q) BY <1>3 DEF TypeOK
    <3> QED BY <3>1, <3>2, <3>3 DEF ClientDelete
  <2> QED BY <1>3, <2>1 DEF NoOrphanStatement, ClientDelete
<1>6. MessageOwnership' BY DEF ClientDelete, MessageOwnership
<1>7. ParametersLiveUntilDetached'
  BY <1>3 DEF ClientDelete, ParametersLiveUntilDetached
<1> QED BY <1>2, <1>4, <1>5, <1>6, <1>7 DEF ClientDelete, NoDoubleDelete

-----------------------------------------------------------------------------
(* The theorems.                                                           *)

LEMMA InitIInv == Init => IInv
<1> SUFFICES ASSUME Init PROVE IInv OBVIOUS
<1>1. Constructed(<<>>) \in Object BY EmptySeq DEF Constructed, Object
<1>2. \A r \in Results : /\ results[r] = Constructed(<<>>)
                         /\ Held(r) = {} /\ Elems(results[r].parameters) = {}
                         /\ Injective(results[r].statements)
                         /\ results[r].errorMsg = NoMsg
  BY ElemsOfEmpty DEF Init, Held, Constructed
<1>3. TypeOK BY <1>1 DEF Init, TypeOK, Alloc
<1>4. ExclusiveOwnership BY <1>2 DEF Init, ExclusiveOwnership
<1>5. NoOrphanStatement BY <1>2 DEF Init, NoOrphanStatement
<1>6. MessageOwnership BY <1>2 DEF MessageOwnership
<1>7. ParametersLiveUntilDetached BY <1>2 DEF ParametersLiveUntilDetached
<1> QED BY <1>3, <1>4, <1>5, <1>6, <1>7 DEF Init, IInv, NoDoubleDelete

LEMMA NextIInv == IInv /\ [Next]_vars => IInv'
<1> SUFFICES ASSUME IInv, [Next]_vars PROVE IInv' OBVIOUS
<1>1. CASE UNCHANGED vars
  BY <1>1 DEF vars, IInv, TypeOK, ExclusiveOwnership, NoOrphanStatement,
     MessageOwnership, ParametersLiveUntilDetached, NoDoubleDelete, Held
<1>2. CASE Next
  <2>1. fault = "none" BY <1>2 DEF Next
  <2>2. ASSUME NEW r \in Results, ResultStep(r) PROVE IInv'
    BY <2>1, <2>2, ConstructStep, ParseSuccessStep, ParseErrorStep,
       ParseTrailingErrorStep, ResetStep, DestroyStep, ReleaseStatementsStep
    DEF ResultStep
  <2>3. ASSUME NEW r \in Results, NEW s \in Stmts, ConstructWith(r, s) \/ AddStatement(r, s)
        PROVE  IInv'
    BY <2>3, ConstructWithStep, AddStatementStep
  <2>4. ASSUME NEW new \in Results, NEW old \in Results, MoveConstruct(new, old)
        PROVE  IInv'
    BY <2>1, <2>4, MoveConstructStep
  <2>5. ASSUME NEW s \in Stmts, ClientDelete(s) PROVE IInv'
    BY <2>5, ClientDeleteStep
  <2> QED BY <1>2, <2>2, <2>3, <2>4, <2>5 DEF Next
<1> QED BY <1>1, <1>2

LEMMA Invariance == Spec => []IInv
BY InitIInv, NextIInv, PTL DEF Spec

\* The data members and the allocation tables keep their types.
THEOREM TypeCorrect == Spec => []TypeOK
BY Invariance, PTL DEF IInv

\* Each statement has one owner, through any sequence of parses, moves, resets,
\* releases and destructions of any number of results.
THEOREM StatementsOwnedOnce == Spec => []ExclusiveOwnership
BY Invariance, PTL DEF IInv

\* No such sequence leaks a statement.
THEOREM NoStatementLost == Spec => []NoOrphanStatement
BY Invariance, PTL DEF IInv

\* Neither reset() nor the destructor nor a move frees anything twice.
THEOREM NeverDeletedTwice == Spec => []NoDoubleDelete
BY Invariance, PTL DEF IInv

\* No two results share an error message, and none keeps one that is freed.
THEOREM MessagesOwnedOnce == Spec => []MessageOwnership
BY Invariance, PTL DEF IInv

\* The unowned pointers in parameters() stay valid until statements leave the result.
THEOREM ParametersValid == Spec => []ParametersLiveUntilDetached
BY Invariance, PTL DEF IInv
=============================================================================
