---------------------------- MODULE ParserResult ----------------------------
(***************************************************************************)
(* SQLParserResult and the client that owns it: what a parse, reset(), the *)
(* move constructor, releaseStatements() and the destructor do to the      *)
(* statements, to the error message and to the list of parameters, which   *)
(* the result refers to without owning.                                    *)
(*                                                                         *)
(* A statement is an identifier with an allocation state; a parameter (the *)
(* Expr of a `?') lives and dies with the statement it is part of, so it   *)
(* is the pair of that statement and of the id the parse gave it.          *)
(***************************************************************************)
EXTENDS Naturals, Sequences, FiniteSets

CONSTANTS Results,    \* the SQLParserResult objects
          Stmts,      \* SQLStatement allocations; each is used once
          Msgs,       \* strdup'ed error messages; each is used once
          NoMsg,      \* the null errorMsg_
          MaxBatch,   \* bound: statements of one parse
          MaxParams   \* bound: parameters of one parse

ASSUME BoundsAssumption == MaxBatch \in Nat \ {0} /\ MaxParams \in Nat
ASSUME NoMsgAssumption == NoMsg \notin Msgs

VARIABLES results,    \* Results -> the data members
          alive,      \* the results between construction and destruction
          stmt,       \* Stmts -> allocation state
          msg,        \* Msgs -> allocation state
          client,     \* statements the client took with releaseStatements
          detached,   \* history: results whose statements left them
          fault       \* undefined behaviour met so far

vars == <<results, alive, stmt, msg, client, detached, fault>>

-----------------------------------------------------------------------------
Alloc == {"free", "live", "deleted"}
Params == Stmts \X Nat
Home(p) == p[1]
Ival(p) == p[2]

\* A constructed result: the constructors leave errorLine_ and errorColumn_ unset.
Constructed(ss) == [statements |-> ss, isValid |-> FALSE, errorMsg |-> NoMsg,
                    errorPos |-> "uninitialised", parameters |-> <<>>]

Elems(s) == {s[i] : i \in 1..Len(s)}

\* The allocations in S, all live, are deleted.
Deleted(alloc, S) == [x \in DOMAIN alloc |-> IF x \in S THEN "deleted" ELSE alloc[x]]

Allocated(alloc, S) == [x \in DOMAIN alloc |-> IF x \in S THEN "live" ELSE alloc[x]]

FreshStmts == {s \in Stmts : stmt[s] = "free"}

Injective(f) == \A i, j \in DOMAIN f : f[i] = f[j] => i = j

\* The statement vectors a parse can build.
Batches == {ss \in UNION {[1..n -> FreshStmts] : n \in 1..MaxBatch} : Injective(ss)}

\* Where a batch's parameters are: parameter i is in statement home[i]; `input'
\* numbers them in the order of the text.
Placements(ss) ==
  {home \in UNION {[1..n -> 1..Len(ss)] : n \in 0..MaxParams} :
     \A i, j \in DOMAIN home : i <= j => home[i] <= home[j]}

BatchParams(ss, home) == {<<ss[home[i]], i - 1>> : i \in DOMAIN home}

\* std::sort by ival leaves equal ids in any order.
Sortings(S) == {q \in [1..Cardinality(S) -> S] :
                  Injective(q) /\ \A i, j \in DOMAIN q : i < j => Ival(q[i]) <= Ival(q[j])}

-----------------------------------------------------------------------------
(* The methods, as functions of the object.                                *)

\* Mutant: the vector is assigned, so a second parse loses the first one's statements.
AddStatements_Assign(o, ss) == [o EXCEPT !.statements = ss]

\* Mutant: the whole vector is pushed as one element.
AddStatements_Nested(o, ss) == [o EXCEPT !.statements = Append(@, ss)]

AddStatements(o, ss) == [o EXCEPT !.statements = @ \o ss]

SetIsValid(o, b) == [o EXCEPT !.isValid = b]

SetErrorDetails(o, m) == [o EXCEPT !.errorMsg = m, !.errorPos = "set"]

\* What reset() leaves in the object: parameters_ is not touched.
ResetFields(o) == [o EXCEPT !.statements = <<>>, !.isValid = FALSE,
                            !.errorMsg = NoMsg, !.errorPos = "cleared"]

\* Fields the move constructor takes over; errorLine_/errorColumn_ and
\* parameters_ stay behind.
MovedInto(o) == [Constructed(o.statements) EXCEPT !.isValid = o.isValid,
                                                  !.errorMsg = o.errorMsg]

\* Mutant: the pointers are copied instead of moved.
MovedFrom_Copied(o) == o

\* Mutant: moved.errorMsg_ is not set to null.
MovedFrom_KeepsMessage(o) == [o EXCEPT !.statements = <<>>]

\* The statements and message a moved-from object still holds when it is reset.
MovedFrom(o) == [o EXCEPT !.statements = <<>>, !.errorMsg = NoMsg]

Stale(o) == \E p \in Elems(o.parameters) : stmt[Home(p)] # "live"

-----------------------------------------------------------------------------
Init ==
  /\ results = [r \in Results |-> Constructed(<<>>)]
  /\ alive = {}
  /\ stmt = [s \in Stmts |-> "free"]
  /\ msg = [m \in Msgs |-> "free"]
  /\ client = {}
  /\ detached = {}
  /\ fault = "none"

Construct(r) ==
  /\ r \notin alive
  /\ alive' = alive \union {r}
  /\ results' = [results EXCEPT ![r] = Constructed(<<>>)]
  /\ detached' = detached \ {r}
  /\ UNCHANGED <<stmt, msg, client, fault>>

\* SQLParserResult(SQLStatement*): the result takes a statement of the client.
ConstructWith(r, s) ==
  /\ r \notin alive
  /\ s \in client
  /\ alive' = alive \union {r}
  /\ results' = [results EXCEPT ![r] = AddStatements(Constructed(<<>>), <<s>>)]
  /\ client' = client \ {s}
  /\ detached' = detached \ {r}
  /\ UNCHANGED <<stmt, msg, fault>>

AddStatement(r, s) ==
  /\ r \in alive
  /\ s \in client
  /\ results' = [results EXCEPT ![r] = AddStatements(@, <<s>>)]
  /\ client' = client \ {s}
  /\ UNCHANGED <<alive, stmt, msg, detached, fault>>

\* The action of `input': the statements change owner, then each live
\* parameter is added, and every addition sorts (and so reads) all of them.
Input(r, ss, home, Then(_)) ==
  LET new == BatchParams(ss, home) IN
  IF new # {} /\ Stale(results[r])
  THEN fault' = "read of a deleted parameter" /\ UNCHANGED <<results, stmt>>
  ELSE /\ stmt' = Allocated(stmt, Elems(ss))
       /\ \E q \in Sortings(Elems(results[r].parameters) \union new) :
            results' = [results EXCEPT
              ![r] = Then([AddStatements(@, ss) EXCEPT !.parameters = q])]
       /\ UNCHANGED fault

\* The text is accepted.
ParseSuccess(r) ==
  /\ r \in alive
  /\ \E ss \in Batches : \E home \in Placements(ss) :
       Input(r, ss, home, LAMBDA o : SetIsValid(o, TRUE))
  /\ UNCHANGED <<alive, msg, client, detached>>

\* A syntax error before `input' is reduced: what was parsed is discarded.
ParseError(r) ==
  /\ r \in alive
  /\ \E m \in Msgs :
       /\ msg[m] = "free"
       /\ msg' = Allocated(msg, {m})
       /\ results' = [results EXCEPT ![r] = SetIsValid(SetErrorDetails(@, m), FALSE)]
  /\ UNCHANGED <<alive, stmt, client, detached, fault>>

\* A syntax error at the token after a complete statement list: the default
\* reductions have already run `input', so the result keeps the statements.
ParseTrailingError(r) ==
  /\ r \in alive
  /\ \E m \in Msgs :
       /\ msg[m] = "free"
       /\ msg' = Allocated(msg, {m})
       /\ \E ss \in Batches : \E home \in Placements(ss) :
            Input(r, ss, home, LAMBDA o : SetIsValid(SetErrorDetails(o, m), FALSE))
  /\ UNCHANGED <<alive, client, detached>>

\* Mutant: reset() clears the vector and deletes nothing.
DeleteFrom_NoDelete(o) ==
  /\ msg' = Deleted(msg, {o.errorMsg})
  /\ UNCHANGED <<stmt, fault>>

\* Statements deleted by reset() of object o, and the double delete it would be.
DeleteFrom(o) ==
  /\ stmt' = Deleted(stmt, Elems(o.statements))
  /\ msg' = Deleted(msg, {o.errorMsg})
  /\ fault' = IF \/ \E s \in Elems(o.statements) : stmt[s] # "live"
                 \/ o.errorMsg # NoMsg /\ msg[o.errorMsg] # "live"
              THEN "double delete" ELSE fault

Reset(r) ==
  /\ r \in alive
  /\ DeleteFrom(results[r])
  /\ results' = [results EXCEPT ![r] = ResetFields(@)]
  /\ detached' = IF results[r].statements = <<>> THEN detached ELSE detached \union {r}
  /\ UNCHANGED <<alive, client>>

Destroy(r) ==
  /\ r \in alive
  /\ DeleteFrom(results[r])
  /\ results' = [results EXCEPT ![r] = Constructed(<<>>)]
  /\ alive' = alive \ {r}
  /\ detached' = detached \ {r}
  /\ UNCHANGED client

\* `new' is constructed from std::move(old); old is reset and stays alive.
MoveConstruct(new, old) ==
  /\ new \notin alive
  /\ old \in alive
  /\ alive' = alive \union {new}
  /\ DeleteFrom(MovedFrom(results[old]))
  /\ results' = [results EXCEPT ![new] = MovedInto(results[old]),
                                ![old] = ResetFields(MovedFrom(@))]
  /\ detached' = (detached \ {new}) \union {old}
  /\ UNCHANGED client

\* Mutant: the vector is copied and not cleared.
ReleaseStatements_NoClear(r) ==
  /\ r \in alive
  /\ client' = client \union Elems(results[r].statements)
  /\ detached' = detached \union {r}
  /\ UNCHANGED <<alive, results, stmt, msg, fault>>

ReleaseStatements(r) ==
  /\ r \in alive
  /\ client' = client \union Elems(results[r].statements)
  /\ results' = [results EXCEPT ![r].statements = <<>>]
  /\ detached' = detached \union {r}
  /\ UNCHANGED <<alive, stmt, msg, fault>>

\* The client deletes a statement it released.
ClientDelete(s) ==
  /\ s \in client
  /\ client' = client \ {s}
  /\ stmt' = Deleted(stmt, {s})
  /\ UNCHANGED <<results, alive, msg, detached, fault>>

ResultStep(r) ==
  \/ Construct(r)
  \/ ParseSuccess(r)
  \/ ParseError(r)
  \/ ParseTrailingError(r)
  \/ Reset(r)
  \/ Destroy(r)
  \/ ReleaseStatements(r)

\* Nothing is said of a program after undefined behaviour.
Next ==
  /\ fault = "none"
  /\ \/ \E r \in Results : ResultStep(r)
     \/ \E r \in Results, s \in Stmts : ConstructWith(r, s) \/ AddStatement(r, s)
     \/ \E new, old \in Results : MoveConstruct(new, old)
     \/ \E s \in Stmts : ClientDelete(s)

Spec == Init /\ [][Next]_vars
-----------------------------------------------------------------------------
(* Properties.                                                             *)

Object == [statements : Seq(Stmts), isValid : BOOLEAN, errorMsg : Msgs \union {NoMsg},
           errorPos : {"uninitialised", "cleared", "set"}, parameters : Seq(Params)]

\* The values of the data members and of the two allocation tables.
TypeOK ==
  /\ results \in [Results -> Object]
  /\ alive \subseteq Results
  /\ stmt \in [Stmts -> Alloc]
  /\ msg \in [Msgs -> Alloc]
  /\ client \subseteq Stmts
  /\ detached \subseteq Results
  /\ fault \in {"none", "double delete", "read of a deleted parameter"}

Held(r) == Elems(results[r].statements)

\* Every statement a result holds is live, is held once, and by one result, and is
\* not also the client's: however parses, moves, resets and releases follow each
\* other, the statement has one owner who may delete it.
ExclusiveOwnership ==
  /\ \A r \in Results : Held(r) \subseteq {s \in Stmts : stmt[s] = "live"} \ client
  /\ \A r \in Results : Injective(results[r].statements)
  /\ \A r, q \in Results : r # q => Held(r) \intersect Held(q) = {}
  /\ client \subseteq {s \in Stmts : stmt[s] = "live"}

\* A live statement is reachable from a result or from the client: no sequence of
\* calls leaks a statement, and a result that is not alive keeps none.
NoOrphanStatement ==
  /\ \A s \in Stmts : stmt[s] = "live" => s \in client \/ \E r \in alive : s \in Held(r)
  /\ \A r \in Results \ alive : Held(r) = {}

\* reset(), the destructor and the move constructor never delete a statement or
\* free a message twice.
NoDoubleDelete == fault # "double delete"

\* The message a result points to is allocated and is that result's alone, also
\* after the pointer was moved from one result to another.
MessageOwnership ==
  /\ \A r \in Results :
       results[r].errorMsg # NoMsg => r \in alive /\ msg[results[r].errorMsg] = "live"
  /\ \A r, q \in Results :
       r # q /\ results[r].errorMsg # NoMsg => results[r].errorMsg # results[q].errorMsg

\* parameters() refers to statements the result holds, and so to live memory, as
\* long as the statements of the result were not reset, released or moved away.
ParametersLiveUntilDetached ==
  \A r \in Results \ detached :
    \A p \in Elems(results[r].parameters) : Home(p) \in Held(r)

-----------------------------------------------------------------------------
(* What the header says and the code does not do.                          *)

\* SQLParserResult.h:63, of reset(): "Deletes all statements and other data within
\* the result." The pointers in parameters_ survive it.
ResetLeavesNothing ==
  [][\A r \in Results : Reset(r) => results'[r].parameters = <<>>]_vars

\* SQLParserResult.h:34, of setErrorDetails(): "Takes ownership of errorMsg." And :40, of
\* errorLine(): "Returns the line number of the occurrance of the error in the query." A
\* message that is allocated has an owner that will free it, and knows the position it is about,
\* whatever was parsed or moved since.
ErrorDetailsKept ==
  \A m \in Msgs : msg[m] = "live" =>
    \E r \in alive : results[r].errorMsg = m /\ results[r].errorPos = "set"
=============================================================================
