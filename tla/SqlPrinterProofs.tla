-------------------------- MODULE SqlPrinterProofs --------------------------
(***************************************************************************)
(* The example program, for every text: no call of a printer is made       *)
(* twice, and, with nothing undefined and each parameter in its statement, *)
(* a parse and the destruction of its result implement ParserResult.       *)
(***************************************************************************)
EXTENDS SqlPrinter, SqlPlaceholderProofs

-----------------------------------------------------------------------------
(* Calls.                                                                  *)

Root == "printStatementInfo"

StatementPrinters ==
  {"printSelectStatementInfo", "printInsertStatementInfo", "printCreateStatementInfo"}

Printers == {"inprint", "column", "printTableRefInfo", "printExpression"} \union StatementPrinters

PrinterCalls == [fn : {Root} \union Printers, p : SUBSET Nat, each : BOOLEAN]

\* Two calls that meet an object, of which both or neither is the one of a statement.
Clash(c, d) == c.p \intersect d.p # {} /\ (c.fn = Root <=> d.fn = Root)

\* No two calls of s meet an object.
Separated(s) == \A j, k \in DOMAIN s : Clash(s[j], s[k]) => j = k

\* No call of s meets an object of a call of t.
Unmixed(s, t) == \A j \in DOMAIN s, k \in DOMAIN t : ~Clash(s[j], t[k])

\* The member of an object that each call of the printers is about, and the functions that
\* use the members of the same name.
MemberNames ==
  {"tableName", "select", "list", "alias", "expr", "expr2", "exprList", "name", "table",
   "selectList", "fromTable", "whereClause", "unionSelect", "columns", "defaultVal", "values"}

\* The member a part of an object is a member of.
Whole == [left |-> "join", right |-> "join", condition |-> "join",
          columns |-> "groupBy", having |-> "groupBy", limit |-> "limit"]

\* Where the call e that is made by c has z from: an element of a vector, a member of an
\* object, a member of a member, or the expression of the first order.
ElementOf(m, c, e, z) ==
  c.each /\ ~e.each /\ e.fn = c.fn /\ \E v \in c.p : z \in Field(m, v, "elems")

MemberOf(m, c, z, g) ==
  /\ ~c.each /\ g \in MemberNames /\ z \in Field(m, Max(c.p), g)
  /\ g = "columns" => c.fn \in StatementPrinters
  /\ g = "expr" => c.fn = "printExpression"

PartOf(m, c, z, g) ==
  /\ ~c.each /\ g \in DOMAIN Whole
  /\ \E y \in Field(m, Max(c.p), Whole[g]) : z \in Field(m, y, g)

FirstOf(m, c, e, z) ==
  /\ ~c.each /\ ~e.each
  /\ \E v \in Field(m, Max(c.p), "order") :
       \E y \in Field(m, v, "elems") : z \in Field(m, y, "expr")

StatementOf(c, e) ==
  ~c.each /\ c.fn = Root /\ ~e.each /\ e.fn \in StatementPrinters /\ e.p = {Max(c.p)}

\* e can be a call that c makes.
CallOf(m, c, e) ==
  /\ e \in PrinterCalls /\ e.fn # Root
  /\ \/ StatementOf(c, e)
     \/ c.fn # Root /\ \A z \in e.p : \/ ElementOf(m, c, e, z)
                                     \/ \E g : MemberOf(m, c, z, g) \/ PartOf(m, c, z, g)
                                     \/ FirstOf(m, c, e, z)

\* A call of S comes from the list of statements, whose objects have no owner, or is made by
\* a call of S.
Grounded(m, S, c) ==
  /\ c \in PrinterCalls
  /\ IF c.fn = Root THEN ~c.each /\ \A x \in c.p : \A y, g : x \notin Field(m, y, g)
     ELSE \E d \in S : CallOf(m, d, c)

\* The calls of S were entered.
Entered(m, S) == \A c \in S : Grounded(m, S, c) /\ c.p # {} /\ c.p \subseteq Live(m)

LEMMA CallParts ==
  /\ \A fn, p : On(fn, p).fn = fn /\ On(fn, p).p = p /\ On(fn, p).each = FALSE
  /\ \A fn, p : Each(fn, p).fn = fn /\ Each(fn, p).p = p /\ Each(fn, p).each = TRUE
BY DEF On, Each

\* No two members share an object.
OneOwnerEach ==
  \A y, g, k, l, w : w \in Field(memory, y, g) /\ w \in Field(memory, k, l) => y = k /\ g = l

LEMMA TopIsIn ==
  ASSUME IsMemory(memory), NEW p, p # {}, p \subseteq Live(memory)
  PROVE  Max(p) \in p /\ Max(p) \in Live(memory)
<1>1. memory.next - 1 \in Nat /\ p \subseteq 0..(memory.next - 1) BY DEF IsMemory
<1> QED BY <1>1, GreatestNatural

\* The names of members by which what a call is about has its owner.
LEMMA OwnerNames ==
  ASSUME NEW S, Entered(memory, S), NEW e \in S, NEW z \in e.p, NEW x, NEW h, z \in Field(memory, x, h),
         IsMemory(memory), OneOwnerEach
  PROVE  /\ e.fn # Root
         /\ h \in {"elems"} \union MemberNames \union DOMAIN Whole
         /\ \E c \in S : CallOf(memory, c, e) /\ c.fn # Root
<1>1. Grounded(memory, S, e) BY DEF Entered
<1>2. e.fn # Root BY <1>1 DEF Grounded
<1>3. PICK c \in S : CallOf(memory, c, e) BY <1>1, <1>2 DEF Grounded
<1>4. c.fn # Root
  <2> SUFFICES ASSUME c.fn = Root PROVE FALSE OBVIOUS
  <2>1. StatementOf(c, e) BY <1>3 DEF CallOf
  <2>2. e.p = {Max(c.p)} BY <2>1 DEF StatementOf
  <2>3. /\ c.p # {} /\ c.p \subseteq Live(memory)
        /\ \A w \in c.p : \A y, g : w \notin Field(memory, y, g)
    BY DEF Entered, Grounded
  <2>4. z \in c.p BY <2>2, <2>3, TopIsIn
  <2> QED BY <2>3, <2>4
<1>5. \/ ElementOf(memory, c, e, z)
      \/ \E g : MemberOf(memory, c, z, g) \/ PartOf(memory, c, z, g)
      \/ FirstOf(memory, c, e, z)
  BY <1>3, <1>4 DEF CallOf, StatementOf
<1>6. CASE ElementOf(memory, c, e, z)
  <2>1. PICK v : z \in Field(memory, v, "elems") BY <1>6 DEF ElementOf
  <2>2. h = "elems" BY <2>1 DEF OneOwnerEach
  <2> QED BY <1>2, <1>3, <1>4, <2>2
<1>7. ASSUME NEW g, MemberOf(memory, c, z, g) PROVE h \in MemberNames
  BY <1>7 DEF MemberOf, OneOwnerEach
<1>8. ASSUME NEW g, PartOf(memory, c, z, g) PROVE h \in DOMAIN Whole
  BY <1>8 DEF PartOf, OneOwnerEach
<1>9. CASE FirstOf(memory, c, e, z)
  <2>1. PICK y : z \in Field(memory, y, "expr") BY <1>9 DEF FirstOf
  <2>2. h = "expr" BY <2>1 DEF OneOwnerEach
  <2> QED BY <1>2, <1>3, <1>4, <2>2 DEF MemberNames
<1> QED BY <1>2, <1>3, <1>4, <1>5, <1>6, <1>7, <1>8, <1>9

\* The expression of an order is no operand: an order is not what a printer is called on.
LEMMA OrderIsNoOperand ==
  ASSUME NEW S, Entered(memory, S), IsMemory(memory), OneOwnerEach,
         NEW d \in S, d.fn = "printExpression", ~d.each, NEW y \in d.p,
         NEW v, y \in Field(memory, v, "elems")
  PROVE  \A x : v \notin Field(memory, x, "order")
<1> SUFFICES ASSUME NEW x, v \in Field(memory, x, "order") PROVE FALSE OBVIOUS
<1>1. PICK c \in S : CallOf(memory, c, d) /\ c.fn # Root BY OwnerNames
<1>2. \/ ElementOf(memory, c, d, y)
      \/ \E g : MemberOf(memory, c, y, g) \/ PartOf(memory, c, y, g)
      \/ FirstOf(memory, c, d, y)
  BY <1>1 DEF CallOf, StatementOf
<1>3. ElementOf(memory, c, d, y)
  <2>1. ASSUME NEW g, MemberOf(memory, c, y, g) PROVE FALSE BY <2>1 DEF MemberOf, OneOwnerEach, MemberNames
  <2>2. ASSUME NEW g, PartOf(memory, c, y, g) PROVE FALSE BY <2>2 DEF PartOf, OneOwnerEach, Whole
  <2>3. ~FirstOf(memory, c, d, y) BY DEF FirstOf, OneOwnerEach
  <2> QED BY <1>2, <2>1, <2>2, <2>3
<1>4. v \in c.p BY <1>3 DEF ElementOf, OneOwnerEach
<1>5. "order" \in {"elems"} \union MemberNames \union DOMAIN Whole
  BY <1>4, OwnerNames
<1> QED BY <1>5 DEF MemberNames, Whole

\* A printer is not called on the description of a group.
LEMMA GroupIsNotPrinted ==
  ASSUME NEW S, Entered(memory, S), IsMemory(memory), OneOwnerEach,
         NEW d \in S, NEW y \in d.p
  PROVE  \A x : y \notin Field(memory, x, "groupBy")
<1> SUFFICES ASSUME NEW x, y \in Field(memory, x, "groupBy") PROVE FALSE OBVIOUS
<1>1. "groupBy" \in {"elems"} \union MemberNames \union DOMAIN Whole BY OwnerNames
<1> QED BY <1>1 DEF MemberNames, Whole

\* Calls that meet an object are made by calls that meet one.
LEMMA CallersClash ==
  ASSUME NEW S, Entered(memory, S), IsMemory(memory), OneOwnerEach,
         NEW c \in S, NEW d \in S, NEW e, NEW f, CallOf(memory, c, e), CallOf(memory, d, f),
         NEW z \in e.p, z \in f.p
  PROVE  Clash(c, d)
<1>1. Max(c.p) \in c.p /\ Max(d.p) \in d.p BY TopIsIn DEF Entered
<1>2. ASSUME NEW a \in S, a.fn = Root, NEW x \in a.p PROVE \A y, g : x \notin Field(memory, y, g)
  BY <1>2 DEF Entered, Grounded
<1>3. ASSUME NEW a, NEW b, CallOf(memory, a, b), a.fn # Root, z \in b.p PROVE \E y, g : z \in Field(memory, y, g)
  BY <1>3 DEF CallOf, StatementOf, ElementOf, MemberOf, PartOf, FirstOf
<1>4. ASSUME NEW a \in S, NEW b, CallOf(memory, a, b), a.fn = Root, z \in b.p, Max(a.p) \in a.p
      PROVE  z \in a.p /\ \A y, g : z \notin Field(memory, y, g)
  BY <1>2, <1>4 DEF CallOf, StatementOf
<1>5. CASE c.fn = Root
  <2>1. d.fn = Root BY <1>1, <1>3, <1>4, <1>5
  <2> QED BY <1>1, <1>4, <1>5, <2>1 DEF Clash
<1>6. CASE d.fn = Root
  <2>1. c.fn = Root BY <1>1, <1>3, <1>4, <1>6
  <2> QED BY <1>1, <1>4, <1>6, <2>1 DEF Clash
<1>7. CASE c.fn # Root /\ d.fn # Root
  <2> DEFINE ByMember(a) == \E g : MemberOf(memory, a, z, g)
             ByPart(a) == \E g : PartOf(memory, a, z, g)
  <2>1. SUFFICES c.p \intersect d.p # {} BY <1>7 DEF Clash
  <2>2. /\ ElementOf(memory, c, e, z) \/ ByMember(c) \/ ByPart(c) \/ FirstOf(memory, c, e, z)
        /\ ElementOf(memory, d, f, z) \/ ByMember(d) \/ ByPart(d) \/ FirstOf(memory, d, f, z)
    BY <1>7 DEF CallOf, StatementOf
  <2>3. ASSUME NEW a, NEW b, ElementOf(memory, a, b, z) PROVE \E v \in a.p : z \in Field(memory, v, "elems")
    BY <2>3 DEF ElementOf
  <2>4. ASSUME NEW a, ByMember(a)
        PROVE  \E g \in MemberNames : /\ z \in Field(memory, Max(a.p), g) /\ ~a.each
                                      /\ g = "columns" => a.fn \in StatementPrinters
                                      /\ g = "expr" => a.fn = "printExpression"
    BY <2>4 DEF MemberOf
  <2>5. ASSUME NEW a, ByPart(a)
        PROVE  \E g \in DOMAIN Whole : \E y \in Field(memory, Max(a.p), Whole[g]) : z \in Field(memory, y, g)
    BY <2>5 DEF PartOf
  <2>6. ASSUME NEW a, NEW b, FirstOf(memory, a, b, z)
        PROVE  \E v \in Field(memory, Max(a.p), "order") :
                 \E y \in Field(memory, v, "elems") : z \in Field(memory, y, "expr")
    BY <2>6 DEF FirstOf
  <2>7. ASSUME NEW a \in S, NEW b \in S, Max(a.p) \in a.p, ByMember(a), ByPart(b) PROVE FALSE
    <3>1. PICK g \in MemberNames : /\ z \in Field(memory, Max(a.p), g)
      BY <2>4, <2>7
    <3>2. PICK h \in DOMAIN Whole : \E y \in Field(memory, Max(b.p), Whole[h]) : z \in Field(memory, y, h)
      BY <2>5, <2>7
    <3>3. PICK y \in Field(memory, Max(b.p), Whole[h]) : z \in Field(memory, y, h) BY <3>2
    <3>4. g = h /\ y = Max(a.p) BY <3>1, <3>3 DEF OneOwnerEach
    <3>5. g = "columns" BY <3>4 DEF MemberNames, Whole
    <3>6. y \in Field(memory, Max(b.p), "groupBy") BY <3>3, <3>4, <3>5 DEF Whole
    <3> QED BY <2>7, <3>4, <3>6, GroupIsNotPrinted
  <2>8. ASSUME NEW a \in S, NEW b \in S, NEW k, Max(a.p) \in a.p, ByMember(a), FirstOf(memory, b, k, z) PROVE FALSE
    <3>1. PICK g \in MemberNames : /\ z \in Field(memory, Max(a.p), g) /\ ~a.each
                                   /\ g = "expr" => a.fn = "printExpression"
      BY <2>4, <2>8
    <3>2. PICK v \in Field(memory, Max(b.p), "order") :
            \E y \in Field(memory, v, "elems") : z \in Field(memory, y, "expr")
      BY <2>6, <2>8
    <3>3. PICK y \in Field(memory, v, "elems") : z \in Field(memory, y, "expr") BY <3>2
    <3>4. g = "expr" /\ y = Max(a.p) BY <3>1, <3>3 DEF OneOwnerEach
    <3>5. \A x : v \notin Field(memory, x, "order")
      BY <2>8, <3>1, <3>3, <3>4, OrderIsNoOperand
    <3> QED BY <3>2, <3>5
  <2>9. ASSUME NEW a, NEW b, NEW i, NEW j, ElementOf(memory, a, i, z), ByMember(b) \/ ByPart(b) \/ FirstOf(memory, b, j, z)
        PROVE  FALSE
    <3>1. PICK v : z \in Field(memory, v, "elems") BY <2>3, <2>9
    <3>2. \A y, g : z \in Field(memory, y, g) => g = "elems" BY <3>1 DEF OneOwnerEach
    <3> QED BY <2>4, <2>5, <2>6, <2>9, <3>2 DEF MemberNames, Whole
  <2>10. ASSUME NEW a, NEW b, NEW j, ByPart(a), FirstOf(memory, b, j, z) PROVE FALSE
    <3>1. \E y : z \in Field(memory, y, "expr") BY <2>6, <2>10
    <3>2. \A y, g : z \in Field(memory, y, g) => g = "expr" BY <3>1 DEF OneOwnerEach
    <3> QED BY <2>5, <2>10, <3>2 DEF Whole
  <2>11. CASE ElementOf(memory, c, e, z) /\ ElementOf(memory, d, f, z)
    BY <2>3, <2>11 DEF OneOwnerEach
  <2>12. CASE ByMember(c) /\ ByMember(d)
    <3>1. Max(c.p) = Max(d.p) BY <2>4, <2>12 DEF OneOwnerEach
    <3> QED BY <1>1, <3>1
  <2>13. CASE ByPart(c) /\ ByPart(d)
    <3>1. PICK g \in DOMAIN Whole : \E y \in Field(memory, Max(c.p), Whole[g]) : z \in Field(memory, y, g)
      BY <2>5, <2>13
    <3>2. PICK y \in Field(memory, Max(c.p), Whole[g]) : z \in Field(memory, y, g) BY <3>1
    <3>3. PICK h \in DOMAIN Whole : \E x \in Field(memory, Max(d.p), Whole[h]) : z \in Field(memory, x, h)
      BY <2>5, <2>13
    <3>4. PICK x \in Field(memory, Max(d.p), Whole[h]) : z \in Field(memory, x, h) BY <3>3
    <3>5. x = y /\ h = g BY <3>2, <3>4 DEF OneOwnerEach
    <3>6. Max(c.p) = Max(d.p) BY <3>2, <3>4, <3>5 DEF OneOwnerEach
    <3> QED BY <1>1, <3>6
  <2>14. CASE FirstOf(memory, c, e, z) /\ FirstOf(memory, d, f, z)
    <3>1. PICK v \in Field(memory, Max(c.p), "order") :
            \E y \in Field(memory, v, "elems") : z \in Field(memory, y, "expr")
      BY <2>6, <2>14
    <3>2. PICK w \in Field(memory, Max(d.p), "order") :
            \E y \in Field(memory, w, "elems") : z \in Field(memory, y, "expr")
      BY <2>6, <2>14
    <3>3. v = w BY <3>1, <3>2 DEF OneOwnerEach
    <3>4. Max(c.p) = Max(d.p) BY <3>1, <3>2, <3>3 DEF OneOwnerEach
    <3> QED BY <1>1, <3>4
  <2> HIDE DEF ByMember, ByPart
  <2> QED BY <1>1, <2>2, <2>7, <2>8, <2>9, <2>10, <2>11, <2>12, <2>13, <2>14
<1> QED BY <1>5, <1>6, <1>7

-----------------------------------------------------------------------------
(* The calls an entry makes.                                               *)

\* The calls s that c makes are about different objects, which are members of the names G.
Branches(c, s, G) ==
  /\ s \in Seq(PrinterCalls)
  /\ \A k \in DOMAIN s : CallOf(memory, c, s[k])
  /\ Separated(s)
  /\ \A k \in DOMAIN s : \A z \in s[k].p : \E g \in G : \E y : z \in Field(memory, y, g)

LEMMA BranchEmpty == ASSUME NEW c, NEW G PROVE Branches(c, <<>>, G)
BY DEF Branches, Separated

LEMMA BranchOne ==
  ASSUME NEW c, NEW e, CallOf(memory, c, e), NEW G,
         \A z \in e.p : \E g \in G : \E y : z \in Field(memory, y, g)
  PROVE  Branches(c, <<e>>, G)
BY DEF Branches, Separated, CallOf

LEMMA BranchIf ==
  ASSUME NEW c, NEW s, NEW G, Branches(c, s, G), NEW p
  PROVE  Branches(c, IfSet(p, s), G)
BY BranchEmpty DEF IfSet

LEMMA BranchMore ==
  ASSUME NEW c, NEW s, NEW G, Branches(c, s, G), NEW H, G \subseteq H
  PROVE  Branches(c, s, H)
BY DEF Branches

\* Members of different names are different objects.
LEMMA BranchJoin ==
  ASSUME OneOwnerEach, NEW c, NEW s, NEW G, Branches(c, s, G), NEW t, NEW H, Branches(c, t, H),
         G \intersect H = {}
  PROVE  Branches(c, s \o t, G \union H)
<1> DEFINE n == Len(s)
           u == s \o t
<1>1. /\ s \in Seq(PrinterCalls) /\ t \in Seq(PrinterCalls) /\ n \in Nat /\ Len(t) \in Nat
      /\ DOMAIN s = 1..n /\ DOMAIN t = 1..Len(t)
  BY DEF Branches
<1>2. /\ u \in Seq(PrinterCalls) /\ DOMAIN u = 1..(n + Len(t))
      /\ \A k \in 1..n : u[k] = s[k]
      /\ \A k \in n + 1..n + Len(t) : u[k] = t[k - n] /\ k - n \in DOMAIN t
  BY <1>1
<1>3. \A k \in DOMAIN u : k \in 1..n \/ k \in n + 1..n + Len(t) BY <1>1, <1>2
<1>4. \A k \in DOMAIN u : CallOf(memory, c, u[k])
  BY <1>1, <1>2, <1>3 DEF Branches
<1>5. ASSUME NEW j \in DOMAIN s, NEW k \in DOMAIN t PROVE s[j].p \intersect t[k].p = {}
  BY DEF Branches, OneOwnerEach
<1>6. ASSUME NEW j \in DOMAIN u, NEW k \in DOMAIN u, Clash(u[j], u[k]) PROVE j = k
  <2>1. CASE j \in 1..n /\ k \in 1..n BY <1>1, <1>2, <1>6, <2>1 DEF Branches, Separated
  <2>2. CASE j \in n + 1..n + Len(t) /\ k \in n + 1..n + Len(t)
    <3>1. j - n = k - n BY <1>1, <1>2, <1>6, <2>2 DEF Branches, Separated
    <3> QED BY <1>1, <2>2, <3>1
  <2>3. CASE j \in 1..n /\ k \in n + 1..n + Len(t) BY <1>1, <1>2, <1>5, <1>6, <2>3 DEF Clash
  <2>4. CASE k \in 1..n /\ j \in n + 1..n + Len(t) BY <1>1, <1>2, <1>5, <1>6, <2>4 DEF Clash
  <2> QED BY <1>3, <2>1, <2>2, <2>3, <2>4
<1>7. ASSUME NEW k \in DOMAIN u, NEW z \in u[k].p PROVE \E g \in G \union H : \E y : z \in Field(memory, y, g)
  <2>1. CASE k \in 1..n BY <1>1, <1>2, <2>1 DEF Branches
  <2>2. CASE k \in n + 1..n + Len(t) BY <1>1, <1>2, <2>2 DEF Branches
  <2> QED BY <1>3, <2>1, <2>2
<1> HIDE DEF u
<1>8. Separated(u) BY <1>6 DEF Separated
<1>9. Branches(c, u, G \union H) BY <1>2, <1>4, <1>7, <1>8 DEF Branches
<1> QED BY <1>9 DEF u

LEMMA FieldsAreNumbers ==
  ASSUME Tidy(memory, {})
  PROVE  \A S, g : FieldsOf(memory, S, g) \subseteq Nat /\ \A x : Field(memory, x, g) \subseteq Nat
<1>1. Live(memory) \subseteq Nat BY DEF Tidy, IsMemory
<1>2. \A x, g : Field(memory, x, g) \subseteq Live(memory) BY TidyFields
<1> QED BY <1>1, <1>2 DEF FieldsOf

\* A call of one member.
LEMMA BranchMember ==
  ASSUME Tidy(memory, {}), NEW c, ~c.each, c.fn # Root, NEW fn \in Printers, NEW g \in MemberNames,
         g = "columns" => c.fn \in StatementPrinters, g = "expr" => c.fn = "printExpression",
         NEW p, p = Field(memory, Max(c.p), g)
  PROVE  Branches(c, <<On(fn, p)>>, {g}) /\ Branches(c, <<Each(fn, p)>>, {g})
<1>1. p \in SUBSET Nat BY FieldsAreNumbers
<1>2. On(fn, p) \in PrinterCalls /\ Each(fn, p) \in PrinterCalls BY <1>1 DEF On, Each, PrinterCalls
<1>3. fn # Root BY DEF Root, Printers, StatementPrinters
<1>4. \A z \in p : MemberOf(memory, c, z, g) BY DEF MemberOf
<1>5. CallOf(memory, c, On(fn, p)) /\ CallOf(memory, c, Each(fn, p))
  BY <1>2, <1>3, <1>4, CallParts DEF CallOf
<1>6. \A z \in p : \E h \in {g} : \E y : z \in Field(memory, y, h) OBVIOUS
<1> QED BY <1>5, <1>6, CallParts, BranchOne

\* A call of one member of a member.
LEMMA BranchPart ==
  ASSUME Tidy(memory, {}), NEW c, ~c.each, c.fn # Root, NEW fn \in Printers, NEW g \in DOMAIN Whole,
         NEW p, p = FieldsOf(memory, Field(memory, Max(c.p), Whole[g]), g)
  PROVE  Branches(c, <<On(fn, p)>>, {g}) /\ Branches(c, <<Each(fn, p)>>, {g})
<1>1. p \in SUBSET Nat BY FieldsAreNumbers
<1>2. On(fn, p) \in PrinterCalls /\ Each(fn, p) \in PrinterCalls BY <1>1 DEF On, Each, PrinterCalls
<1>3. fn # Root BY DEF Root, Printers, StatementPrinters
<1>4. \A z \in p : PartOf(memory, c, z, g) BY DEF PartOf, FieldsOf
<1>5. CallOf(memory, c, On(fn, p)) /\ CallOf(memory, c, Each(fn, p))
  BY <1>2, <1>3, <1>4, CallParts DEF CallOf
<1>6. \A z \in p : \E h \in {g} : \E y : z \in Field(memory, y, h) BY DEF FieldsOf
<1> QED BY <1>5, <1>6, CallParts, BranchOne

\* The call of the expression of an order.
LEMMA BranchOrder ==
  ASSUME Tidy(memory, {}), NEW c, ~c.each, c.fn # Root,
         NEW first, first \subseteq Elements(memory, Field(memory, Max(c.p), "order")),
         NEW p, p = FieldsOf(memory, first, "expr")
  PROVE  Branches(c, <<On("printExpression", p)>>, {"expr"})
<1> DEFINE e == On("printExpression", p)
<1>1. p \in SUBSET Nat BY FieldsAreNumbers
<1>2. e \in PrinterCalls BY <1>1 DEF On, PrinterCalls, Printers
<1>3. e.fn # Root BY DEF Root, On
<1>4. \A z \in p : FirstOf(memory, c, e, z)
  <2>1. ~e.each BY CallParts
  <2> HIDE DEF e
  <2> QED BY <2>1 DEF FirstOf, FieldsOf, Elements
<1>5. CallOf(memory, c, e) BY <1>2, <1>3, <1>4, CallParts DEF CallOf
<1>6. \A z \in p : \E h \in {"expr"} : \E y : z \in Field(memory, y, h) BY DEF FieldsOf
<1> QED BY <1>5, <1>6, CallParts, BranchOne

LEMMA TwoCalls == ASSUME NEW a, NEW b PROVE <<a, b>> = <<a>> \o <<b>>
<1> DEFINE S == {a, b}
           s == <<a, b>>
           t == <<a>> \o <<b>>
<1>1. s \in Seq(S) /\ Len(s) = 2 /\ s[1] = a /\ s[2] = b OBVIOUS
<1>2. <<a>> \in Seq(S) /\ <<b>> \in Seq(S) OBVIOUS
<1>3. t \in Seq(S) /\ Len(t) = 2 /\ t[1] = a /\ t[2] = b BY <1>2
<1> HIDE DEF s, t
<1>4. s = t BY <1>1, <1>3, SeqEqual
<1> QED BY <1>4 DEF s, t

LEMMA ThreeCalls == ASSUME NEW a, NEW b, NEW d PROVE <<a, b, d>> = <<a>> \o <<b>> \o <<d>>
<1> DEFINE S == {a, b, d}
           s == <<a, b, d>>
           u == <<a, b>>
           t == u \o <<d>>
<1>1. s \in Seq(S) /\ Len(s) = 3 /\ s[1] = a /\ s[2] = b /\ s[3] = d OBVIOUS
<1>2. u \in Seq(S) /\ Len(u) = 2 /\ u[1] = a /\ u[2] = b /\ <<d>> \in Seq(S) OBVIOUS
<1>3. t \in Seq(S) /\ Len(t) = 3 /\ t[1] = a /\ t[2] = b /\ t[3] = d BY <1>2
<1>4. u = <<a>> \o <<b>> BY TwoCalls
<1> HIDE DEF s, t
<1>5. s = t BY <1>1, <1>3, SeqEqual
<1> QED BY <1>4, <1>5 DEF s, t

\* c is an entry of the function fn on the object x.
EntryOf(c, fn, x) == c.fn = fn /\ ~c.each /\ x = Max(c.p)

LEMMA StringBranches ==
  ASSUME Tidy(memory, {}), NEW c, NEW x, c.fn # Root, EntryOf(c, c.fn, x),
         NEW g \in MemberNames \ {"columns", "expr"}
  PROVE  Branches(c, PrintString(x, g), {g}) /\ Branches(c, PrintStringIfSet(x, g), {g})
<1>1. "inprint" \in Printers BY DEF Printers
<1>2. Branches(c, PrintString(x, g), {g}) BY <1>1, BranchMember DEF EntryOf, PrintString
<1> QED BY <1>2, BranchIf DEF PrintStringIfSet

LEMMA OnMember ==
  ASSUME Tidy(memory, {}), NEW c, NEW x, c.fn # Root, EntryOf(c, c.fn, x), NEW fn \in Printers,
         NEW g \in MemberNames \ {"columns", "expr"}
  PROVE  /\ Branches(c, <<On(fn, Field(memory, x, g))>>, {g})
         /\ Branches(c, <<Each(fn, Field(memory, x, g))>>, {g})
BY BranchMember DEF EntryOf

LEMMA JoinBranches ==
  ASSUME Tidy(memory, {}), OneOwnerEach, NEW c, NEW x, EntryOf(c, "printTableRefInfo", x)
  PROVE  Branches(c, JoinCalls(x), {"left", "right", "condition"})
<1> DEFINE part(g) == FieldsOf(memory, Field(memory, x, "join"), g)
           a == <<On("printTableRefInfo", part("left"))>>
           b == <<On("printTableRefInfo", part("right"))>>
           d == <<On("printExpression", part("condition"))>>
<1>1. c.fn # Root BY DEF EntryOf, Root
<1>2. Branches(c, a, {"left"}) BY <1>1, BranchPart DEF EntryOf, Whole, Printers
<1>3. Branches(c, b, {"right"}) BY <1>1, BranchPart DEF EntryOf, Whole, Printers
<1>4. Branches(c, d, {"condition"}) BY <1>1, BranchPart DEF EntryOf, Whole, Printers
<1>5. JoinCalls(x) = a \o b \o d BY ThreeCalls DEF JoinCalls
<1> HIDE DEF a, b, d
<1>6. Branches(c, a \o b, {"left"} \union {"right"}) BY <1>2, <1>3, BranchJoin
<1>7. Branches(c, a \o b \o d, ({"left"} \union {"right"}) \union {"condition"})
  BY <1>4, <1>6, BranchJoin
<1>8. ({"left"} \union {"right"}) \union {"condition"} = {"left", "right", "condition"} OBVIOUS
<1> QED BY <1>5, <1>7, <1>8

LEMMA TableBranches ==
  ASSUME Tidy(memory, {}), OneOwnerEach, NEW c, NEW x, EntryOf(c, "printTableRefInfo", x)
  PROVE  \E G : Branches(c, TableRefCalls(x) \o PrintStringIfSet(x, "alias"), G)
<1> DEFINE G == {"left", "right", "condition", "tableName", "select", "list"}
           type == memory.heap[x].type
<1>1. c.fn # Root /\ EntryOf(c, c.fn, x) BY DEF EntryOf, Root
<1>2. Branches(c, TableRefCalls(x), G)
  <2>1. CASE type = "kTableName"
    <3>1. TableRefCalls(x) = PrintString(x, "tableName") BY <2>1 DEF TableRefCalls
    <3>2. Branches(c, PrintString(x, "tableName"), {"tableName"})
      BY <1>1, StringBranches DEF MemberNames
    <3> QED BY <3>1, <3>2, BranchMore
  <2>2. CASE type = "kTableSelect"
    <3>1. TableRefCalls(x) = <<On("printSelectStatementInfo", Field(memory, x, "select"))>>
      BY <2>2 DEF TableRefCalls
    <3>2. Branches(c, TableRefCalls(x), {"select"})
      BY <1>1, <3>1, OnMember DEF MemberNames, Printers, StatementPrinters
    <3> QED BY <3>2, BranchMore
  <2>3. CASE type = "kTableJoin"
    <3>1. TableRefCalls(x) = JoinCalls(x) BY <2>3 DEF TableRefCalls
    <3> QED BY <3>1, JoinBranches, BranchMore
  <2>4. CASE type = "kTableCrossProduct"
    <3>1. TableRefCalls(x) = <<Each("printTableRefInfo", Field(memory, x, "list"))>>
      BY <2>4 DEF TableRefCalls
    <3>2. Branches(c, TableRefCalls(x), {"list"})
      BY <1>1, <3>1, OnMember DEF MemberNames, Printers
    <3> QED BY <3>2, BranchMore
  <2>5. CASE type \notin {"kTableName", "kTableSelect", "kTableJoin", "kTableCrossProduct"}
    <3>1. TableRefCalls(x) = <<>> BY <2>5 DEF TableRefCalls
    <3> QED BY <3>1, BranchEmpty
  <2> QED BY <2>1, <2>2, <2>3, <2>4, <2>5
<1>3. Branches(c, PrintStringIfSet(x, "alias"), {"alias"}) BY <1>1, StringBranches DEF MemberNames
<1>4. Branches(c, TableRefCalls(x) \o PrintStringIfSet(x, "alias"), G \union {"alias"})
  BY <1>2, <1>3, BranchJoin
<1> QED BY <1>4

LEMMA OperatorBranches ==
  ASSUME Tidy(memory, {}), OneOwnerEach, NEW c, NEW x, EntryOf(c, "printExpression", x)
  PROVE  Branches(c, OperatorCalls(x), {"expr", "expr2", "exprList"})
<1> DEFINE member(g) == Field(memory, x, g)
           a == <<On("printExpression", member("expr"))>>
           b == <<On("printExpression", member("expr2"))>>
           d == IfSet(member("exprList"), <<Each("printExpression", member("exprList"))>>)
           rest == IF member("expr2") # {} THEN b ELSE d
<1>1. c.fn # Root /\ EntryOf(c, c.fn, x) /\ c.fn = "printExpression" BY DEF EntryOf, Root
<1>2. Branches(c, a, {"expr"}) BY <1>1, BranchMember DEF EntryOf, MemberNames, Printers
<1>3. Branches(c, b, {"expr2"}) BY <1>1, OnMember DEF MemberNames, Printers
<1>4. Branches(c, d, {"exprList"})
  BY <1>1, OnMember, BranchIf DEF MemberNames, Printers
<1>5. OperatorCalls(x) = a \o rest BY DEF OperatorCalls
<1> HIDE DEF a, b, d
<1>6. Branches(c, rest, {"expr2", "exprList"}) BY <1>3, <1>4, BranchMore
<1> HIDE DEF rest
<1>7. Branches(c, a \o rest, {"expr"} \union {"expr2", "exprList"}) BY <1>2, <1>6, BranchJoin
<1>8. {"expr"} \union {"expr2", "exprList"} = {"expr", "expr2", "exprList"} OBVIOUS
<1> QED BY <1>5, <1>7, <1>8

LEMMA ExpressionBranches ==
  ASSUME Tidy(memory, {}), OneOwnerEach, NEW c, NEW x, EntryOf(c, "printExpression", x)
  PROVE  \E G : Branches(c, ExpressionCalls(x), G)
<1> DEFINE type == memory.heap[x].type
           alias == IF type \in Unrecognized THEN <<>> ELSE PrintStringIfSet(x, "alias")
           parts ==
             CASE type \in OperatorTypes -> OperatorCalls(x)
               [] type = "kExprColumnRef" -> PrintString(x, "name") \o PrintStringIfSet(x, "table")
               [] type = "kExprLiteralString" -> PrintString(x, "name")
               [] type = "kExprFunctionRef" ->
                    PrintString(x, "name") \o <<Each("printExpression", Field(memory, x, "exprList"))>>
               [] type = "kExprSelect" ->
                    <<On("printSelectStatementInfo", Field(memory, x, "select"))>>
               [] OTHER -> <<>>
           G == {"expr", "expr2", "exprList", "name", "table", "select"}
<1>1. c.fn # Root /\ EntryOf(c, c.fn, x) BY DEF EntryOf, Root
<1>2. Branches(c, PrintString(x, "name"), {"name"}) BY <1>1, StringBranches DEF MemberNames
<1>3. Branches(c, parts, G)
  <2>1. CASE type \in OperatorTypes
    <3>1. parts = OperatorCalls(x) BY <2>1 DEF OperatorTypes
    <3> QED BY <3>1, OperatorBranches, BranchMore
  <2>2. CASE type = "kExprColumnRef"
    <3>1. parts = PrintString(x, "name") \o PrintStringIfSet(x, "table") BY <2>2 DEF OperatorTypes
    <3>2. Branches(c, PrintStringIfSet(x, "table"), {"table"})
      BY <1>1, StringBranches DEF MemberNames
    <3> HIDE DEF parts
    <3>3. Branches(c, parts, {"name"} \union {"table"}) BY <1>2, <3>1, <3>2, BranchJoin
    <3> QED BY <3>3, BranchMore
  <2>3. CASE type = "kExprLiteralString"
    <3>1. parts = PrintString(x, "name") BY <2>3 DEF OperatorTypes
    <3> QED BY <1>2, <3>1, BranchMore
  <2>4. CASE type = "kExprFunctionRef"
    <3> DEFINE call == <<Each("printExpression", Field(memory, x, "exprList"))>>
    <3>1. parts = PrintString(x, "name") \o call BY <2>4 DEF OperatorTypes
    <3>2. Branches(c, call, {"exprList"}) BY <1>1, OnMember DEF MemberNames, Printers
    <3> HIDE DEF parts, call
    <3>3. Branches(c, parts, {"name"} \union {"exprList"}) BY <1>2, <3>1, <3>2, BranchJoin
    <3> QED BY <3>3, BranchMore
  <2>5. CASE type = "kExprSelect"
    <3> DEFINE call == <<On("printSelectStatementInfo", Field(memory, x, "select"))>>
    <3>1. parts = call BY <2>5 DEF OperatorTypes
    <3>2. Branches(c, call, {"select"})
      BY <1>1, OnMember DEF MemberNames, Printers, StatementPrinters
    <3> HIDE DEF parts, call
    <3> QED BY <3>1, <3>2, BranchMore
  <2>6. CASE type \notin OperatorTypes \union
               {"kExprColumnRef", "kExprLiteralString", "kExprFunctionRef", "kExprSelect"}
    <3>1. parts = <<>> BY <2>6
    <3> QED BY <3>1, BranchEmpty
  <2> QED BY <2>1, <2>2, <2>3, <2>4, <2>5, <2>6
<1>4. Branches(c, alias, {"alias"})
  BY <1>1, StringBranches, BranchEmpty DEF MemberNames
<1>5. ExpressionCalls(x) = parts \o alias BY DEF ExpressionCalls
<1> HIDE DEF parts, alias
<1>6. Branches(c, parts \o alias, G \union {"alias"}) BY <1>3, <1>4, BranchJoin
<1> QED BY <1>5, <1>6

LEMMA SelectBranches ==
  ASSUME Tidy(memory, {}), OneOwnerEach, NEW c, NEW x, EntryOf(c, "printSelectStatementInfo", x)
  PROVE  \E G : Branches(c, SelectCalls(x), G)
<1> DEFINE member(g) == Field(memory, x, g)
           one(fn, p) == IfSet(p, <<On(fn, p)>>)
           group(g) == FieldsOf(memory, member("groupBy"), g)
           orders == Elements(memory, member("order"))
           first == {y \in orders : \A z \in orders : y <= z}
           a == <<Each("printExpression", member("selectList"))>>
           b == one("printTableRefInfo", member("fromTable"))
           d == one("printExpression", member("whereClause"))
           e == IfSet(member("groupBy"), <<Each("printExpression", group("columns"))>>)
           f == one("printExpression", group("having"))
           h == one("printSelectStatementInfo", member("unionSelect"))
           i == IfSet(member("order"), <<On("printExpression", FieldsOf(memory, first, "expr"))>>)
           j == IfSet(member("limit"),
                      <<On("printExpression", FieldsOf(memory, member("limit"), "limit"))>>)
<1>1. c.fn # Root /\ EntryOf(c, c.fn, x) BY DEF EntryOf, Root
<1>2. Branches(c, a, {"selectList"}) BY <1>1, OnMember DEF MemberNames, Printers
<1>3. Branches(c, b, {"fromTable"}) BY <1>1, OnMember, BranchIf DEF MemberNames, Printers
<1>4. Branches(c, d, {"whereClause"}) BY <1>1, OnMember, BranchIf DEF MemberNames, Printers
<1>5. Branches(c, e, {"columns"}) BY <1>1, BranchPart, BranchIf DEF EntryOf, Whole, Printers
<1>6. Branches(c, f, {"having"}) BY <1>1, BranchPart, BranchIf DEF EntryOf, Whole, Printers
<1>7. Branches(c, h, {"unionSelect"})
  BY <1>1, OnMember, BranchIf DEF MemberNames, Printers, StatementPrinters
<1>8. Branches(c, i, {"expr"})
  <2>1. first \subseteq Elements(memory, Field(memory, Max(c.p), "order")) BY <1>1 DEF EntryOf
  <2> HIDE DEF first
  <2> QED BY <1>1, <2>1, BranchOrder, BranchIf DEF EntryOf
<1>9. Branches(c, j, {"limit"}) BY <1>1, BranchPart, BranchIf DEF EntryOf, Whole, Printers
<1>10. SelectCalls(x) = a \o b \o d \o e \o f \o h \o i \o j BY DEF SelectCalls
<1> HIDE DEF a, b, d, e, f, h, i, j
<1>11. Branches(c, a \o b, {"selectList", "fromTable"})
  <2>1. {"selectList", "fromTable"} = {"selectList"} \union {"fromTable"} OBVIOUS
  <2> QED BY <1>2, <1>3, <2>1, BranchJoin
<1>12. Branches(c, a \o b \o d, {"selectList", "fromTable", "whereClause"})
  <2>1. {"selectList", "fromTable", "whereClause"} = {"selectList", "fromTable"} \union {"whereClause"} OBVIOUS
  <2> QED BY <1>11, <1>4, <2>1, BranchJoin
<1> DEFINE G == {"selectList", "fromTable", "whereClause"}
<1>13. Branches(c, a \o b \o d \o e, G \union {"columns"}) BY <1>12, <1>5, BranchJoin
<1>14. Branches(c, a \o b \o d \o e \o f, (G \union {"columns"}) \union {"having"})
  BY <1>13, <1>6, BranchJoin
<1>15. Branches(c, a \o b \o d \o e \o f \o h, ((G \union {"columns"}) \union {"having"}) \union {"unionSelect"})
  BY <1>14, <1>7, BranchJoin
<1> DEFINE H == ((G \union {"columns"}) \union {"having"}) \union {"unionSelect"}
<1>16. Branches(c, a \o b \o d \o e \o f \o h \o i, H \union {"expr"}) BY <1>15, <1>8, BranchJoin
<1>17. Branches(c, a \o b \o d \o e \o f \o h \o i \o j, (H \union {"expr"}) \union {"limit"})
  BY <1>16, <1>9, BranchJoin
<1> HIDE DEF G, H
<1> QED BY <1>10, <1>17

LEMMA CreateBranches ==
  ASSUME Tidy(memory, {}), OneOwnerEach, NEW c, NEW x, EntryOf(c, "printCreateStatementInfo", x)
  PROVE  \E G : Branches(c, CreateCalls(x), G)
<1> DEFINE a == PrintString(x, "tableName")
           b == IfSet(Field(memory, x, "columns"), <<Each("column", Field(memory, x, "columns"))>>)
<1>1. c.fn # Root /\ EntryOf(c, c.fn, x) BY DEF EntryOf, Root
<1>2. Branches(c, a, {"tableName"}) BY <1>1, StringBranches DEF MemberNames
<1>3. Branches(c, b, {"columns"})
  BY <1>1, BranchMember, BranchIf DEF EntryOf, MemberNames, Printers, StatementPrinters
<1>4. CreateCalls(x) = a \o b BY DEF CreateCalls
<1> HIDE DEF a, b
<1>5. Branches(c, a \o b, {"tableName"} \union {"columns"}) BY <1>2, <1>3, BranchJoin
<1> QED BY <1>4, <1>5

LEMMA ColumnBranches ==
  ASSUME Tidy(memory, {}), OneOwnerEach, NEW c, NEW x, EntryOf(c, "column", x)
  PROVE  \E G : Branches(c, ColumnCalls(x), G)
<1> DEFINE a == PrintString(x, "name")
           b == IfSet(Field(memory, x, "defaultVal"),
                      <<On("printExpression", Field(memory, x, "defaultVal"))>>)
<1>1. c.fn # Root /\ EntryOf(c, c.fn, x) BY DEF EntryOf, Root
<1>2. Branches(c, a, {"name"}) BY <1>1, StringBranches DEF MemberNames
<1>3. Branches(c, b, {"defaultVal"}) BY <1>1, OnMember, BranchIf DEF MemberNames, Printers
<1>4. ColumnCalls(x) = a \o b BY DEF ColumnCalls
<1> HIDE DEF a, b
<1>5. Branches(c, a \o b, {"name"} \union {"defaultVal"}) BY <1>2, <1>3, BranchJoin
<1> QED BY <1>4, <1>5

LEMMA InsertBranches ==
  ASSUME Tidy(memory, {}), OneOwnerEach, NEW c, NEW x, EntryOf(c, "printInsertStatementInfo", x)
  PROVE  \E G : Branches(c, InsertCalls(x), G)
<1> DEFINE columns == Field(memory, x, "columns")
           a == PrintString(x, "tableName")
           b == IfSet(columns, <<Each("inprint", columns)>>)
           values == <<Each("printExpression", Field(memory, x, "values"))>>
           select == <<On("printSelectStatementInfo", Field(memory, x, "select"))>>
           d == IF memory.heap[x].type = "kInsertValues" THEN values ELSE select
<1>1. c.fn # Root /\ EntryOf(c, c.fn, x) BY DEF EntryOf, Root
<1>2. Branches(c, a, {"tableName"}) BY <1>1, StringBranches DEF MemberNames
<1>3. Branches(c, b, {"columns"})
  BY <1>1, BranchMember, BranchIf DEF EntryOf, MemberNames, Printers, StatementPrinters
<1>4. Branches(c, values, {"values"}) BY <1>1, OnMember DEF MemberNames, Printers
<1>5. Branches(c, select, {"select"})
  BY <1>1, OnMember DEF MemberNames, Printers, StatementPrinters
<1>6. InsertCalls(x) = a \o b \o d BY DEF InsertCalls
<1> HIDE DEF values, select
<1>7. Branches(c, d, {"values", "select"}) BY <1>4, <1>5, BranchMore
<1> HIDE DEF a, b, d
<1>8. Branches(c, a \o b, {"tableName"} \union {"columns"}) BY <1>2, <1>3, BranchJoin
<1>9. Branches(c, a \o b \o d, ({"tableName"} \union {"columns"}) \union {"values", "select"})
  BY <1>7, <1>8, BranchJoin
<1> QED BY <1>6, <1>9

\* An entry.
Callable(c) ==
  c \in PrinterCalls /\ c.p # {} /\ c.p \subseteq Live(memory) /\ (c.fn = Root => ~c.each)

\* What Branches says, whatever the names.
CallsBy(c, s) ==
  s \in Seq(PrinterCalls) /\ (\A k \in DOMAIN s : CallOf(memory, c, s[k])) /\ Separated(s)

LEMMA BranchesMean == ASSUME NEW c, NEW s, NEW G, Branches(c, s, G) PROVE CallsBy(c, s)
BY DEF Branches, CallsBy

LEMMA EachCallees ==
  ASSUME Tidy(memory, {}), NEW c, Callable(c), c.each
  PROVE  CallsBy(c, Callees(c))
<1> DEFINE E == Elements(memory, c.p)
           elements == InOrder(E)
           s == [k \in DOMAIN elements |-> On(c.fn, {elements[k]})]
<1>1. E \subseteq Live(memory) BY TidyFields DEF Elements, FieldsOf
<1>2. E \subseteq Nat BY FieldsAreNumbers DEF Elements
<1>3. IsFiniteSet(E) BY <1>1, LiveFinite, FS_Subset DEF Tidy
<1>4. /\ elements \in Seq(E)
      /\ \A j, k \in 1..Len(elements) : elements[j] = elements[k] => j = k
  BY <1>2, <1>3, InOrderType
<1>5. Callees(c) = s BY DEF Callees, Callable
<1> HIDE DEF elements
<1>6. c.fn \in Printers BY DEF Callable, PrinterCalls
<1>7. ASSUME NEW k \in DOMAIN elements
      PROVE  On(c.fn, {elements[k]}) \in PrinterCalls /\ CallOf(memory, c, On(c.fn, {elements[k]}))
  <2> DEFINE z == elements[k]
             e == On(c.fn, {z})
  <2>1. z \in E BY <1>4
  <2> HIDE DEF z
  <2>2. e \in PrinterCalls BY <1>2, <1>6, <2>1 DEF On, PrinterCalls
  <2>3. e.fn # Root BY <1>6, CallParts DEF Root, Printers, StatementPrinters
  <2>4. PICK v \in c.p : z \in Field(memory, v, "elems") BY <2>1 DEF Elements, FieldsOf
  <2>5. ElementOf(memory, c, e, z) BY <2>4, CallParts DEF ElementOf, Callable
  <2>6. e.p = {z} BY CallParts
  <2>7. c.fn # Root BY DEF Callable
  <2> HIDE DEF e
  <2>8. CallOf(memory, c, e) BY <2>2, <2>3, <2>5, <2>6, <2>7 DEF CallOf
  <2> QED BY <2>2, <2>8 DEF e, z
<1>8. /\ Len(elements) \in Nat /\ DOMAIN elements = 1..Len(elements) BY <1>4
<1>9. s \in Seq(PrinterCalls) /\ DOMAIN s = DOMAIN elements BY <1>7, <1>8
<1>10. ASSUME NEW j \in DOMAIN s, NEW k \in DOMAIN s, Clash(s[j], s[k]) PROVE j = k
  <2>1. s[j].p = {elements[j]} /\ s[k].p = {elements[k]} BY <1>9, CallParts
  <2>2. elements[j] = elements[k] BY <1>10, <2>1 DEF Clash
  <2> QED BY <1>4, <1>8, <1>9, <2>2
<1>11. \A k \in DOMAIN s : CallOf(memory, c, s[k]) BY <1>7, <1>9
<1> HIDE DEF s
<1>12. CallsBy(c, s) BY <1>9, <1>10, <1>11 DEF CallsBy, Separated
<1> QED BY <1>5, <1>12

LEMMA RootCallees ==
  ASSUME Tidy(memory, {}), NEW c, Callable(c), c.fn = Root
  PROVE  CallsBy(c, Callees(c))
<1> DEFINE x == Max(c.p)
           kind == memory.heap[x].kind
<1>1. ~c.each BY DEF Callable
<1>2. x \in c.p /\ x \in Nat
  <2>1. IsMemory(memory) /\ c.p \subseteq Nat BY DEF Tidy, Callable, PrinterCalls
  <2> QED BY <2>1, TopIsIn DEF Callable
<1>3. Callees(c) = StatementCalls(x) BY <1>1 DEF Callees, CallsOn, Root
<1> HIDE DEF x
<1>4. ASSUME NEW fn \in StatementPrinters PROVE CallsBy(c, <<On(fn, {x})>>)
  <2>1. On(fn, {x}) \in PrinterCalls BY <1>2 DEF On, PrinterCalls, Printers
  <2>2. fn # Root BY DEF Root, StatementPrinters
  <2>3. CallOf(memory, c, On(fn, {x})) BY <1>1, <2>1, <2>2, CallParts DEF CallOf, StatementOf, x
  <2> QED BY <2>1, <2>3 DEF CallsBy, Separated
<1>5. CallsBy(c, <<>>) BY DEF CallsBy, Separated
<1>6. CASE kind = "SelectStatement"
  <2>1. StatementCalls(x) = <<On("printSelectStatementInfo", {x})>> BY <1>6 DEF StatementCalls
  <2> QED BY <1>3, <1>4, <2>1 DEF StatementPrinters
<1>7. CASE kind = "InsertStatement"
  <2>1. StatementCalls(x) = <<On("printInsertStatementInfo", {x})>> BY <1>7 DEF StatementCalls
  <2> QED BY <1>3, <1>4, <2>1 DEF StatementPrinters
<1>8. CASE kind = "CreateStatement"
  <2>1. StatementCalls(x) = <<On("printCreateStatementInfo", {x})>> BY <1>8 DEF StatementCalls
  <2> QED BY <1>3, <1>4, <2>1 DEF StatementPrinters
<1>9. CASE kind \notin {"SelectStatement", "InsertStatement", "CreateStatement"}
  <2>1. StatementCalls(x) = <<>> BY <1>9 DEF StatementCalls
  <2> QED BY <1>3, <1>5, <2>1
<1> QED BY <1>6, <1>7, <1>8, <1>9

\* The calls that one call makes.
LEMMA CalleesFacts ==
  ASSUME Tidy(memory, {}), OneOwnerEach, NEW c, Callable(c)
  PROVE  CallsBy(c, Callees(c))
<1> DEFINE x == Max(c.p)
<1>1. CASE c.each BY <1>1, EachCallees
<1>2. CASE c.fn = Root BY <1>2, RootCallees
<1>3. CASE ~c.each /\ c.fn # Root
  <2>1. EntryOf(c, c.fn, x) /\ c.fn \in Printers BY <1>3 DEF EntryOf, Callable, PrinterCalls
  <2>2. Callees(c) = CallsOn(c.fn, x) BY <1>3 DEF Callees
  <2> HIDE DEF x
  <2>3. \E G : Branches(c, CallsOn(c.fn, x), G)
    <3>1. CASE c.fn = "inprint"
      <4>1. CallsOn(c.fn, x) = <<>> BY <3>1 DEF CallsOn
      <4> QED BY <4>1, BranchEmpty
    <3>2. CASE c.fn = "column"
      <4>1. CallsOn(c.fn, x) = ColumnCalls(x) BY <3>2 DEF CallsOn
      <4> QED BY <2>1, <3>2, <4>1, ColumnBranches
    <3>3. CASE c.fn = "printTableRefInfo"
      <4>1. CallsOn(c.fn, x) = TableRefCalls(x) \o PrintStringIfSet(x, "alias") BY <3>3 DEF CallsOn
      <4> QED BY <2>1, <3>3, <4>1, TableBranches
    <3>4. CASE c.fn = "printExpression"
      <4>1. CallsOn(c.fn, x) = ExpressionCalls(x) BY <3>4 DEF CallsOn
      <4> QED BY <2>1, <3>4, <4>1, ExpressionBranches
    <3>5. CASE c.fn = "printSelectStatementInfo"
      <4>1. CallsOn(c.fn, x) = SelectCalls(x) BY <3>5 DEF CallsOn
      <4> QED BY <2>1, <3>5, <4>1, SelectBranches
    <3>6. CASE c.fn = "printInsertStatementInfo"
      <4>1. CallsOn(c.fn, x) = InsertCalls(x) BY <3>6 DEF CallsOn
      <4> QED BY <2>1, <3>6, <4>1, InsertBranches
    <3>7. CASE c.fn = "printCreateStatementInfo"
      <4>1. CallsOn(c.fn, x) = CreateCalls(x) BY <3>7 DEF CallsOn
      <4> QED BY <2>1, <3>7, <4>1, CreateBranches
    <3> QED BY <2>1, <3>1, <3>2, <3>3, <3>4, <3>5, <3>6, <3>7 DEF Printers, StatementPrinters
  <2> QED BY <2>2, <2>3, BranchesMean
<1> QED BY <1>1, <1>2, <1>3

-----------------------------------------------------------------------------
(* The calls that were entered and the calls that are still to be entered.  *)

Called(s) == {s[k] : k \in DOMAIN s}

\* No two of the calls meet an object, and each goes back to a statement of the list.
Forest(m, done, todo) ==
  /\ done \in Seq(PrinterCalls) /\ todo \in Seq(PrinterCalls)
  /\ Separated(done) /\ Separated(todo) /\ Unmixed(done, todo)
  /\ Entered(m, Called(done))
  /\ \A k \in DOMAIN todo : Grounded(m, Called(done), todo[k])

LEMMA NoFault ==
  ASSUME NEW c, FaultOf(c) = "none"
  PROVE  c.p # {} /\ c.p \subseteq Live(memory)
BY DEF FaultOf

LEMMA GroundedMore ==
  ASSUME NEW m, NEW S, NEW T, S \subseteq T, NEW c, Grounded(m, S, c)
  PROVE  Grounded(m, T, c)
BY DEF Grounded

\* Nothing that is entered meets what was or will be entered.
LEMMA EnterForest ==
  ASSUME Tidy(memory, {}), OneOwnerEach, NEW done, NEW todo, Forest(memory, done, todo),
         todo # <<>>, NEW c, c = Head(todo), FaultOf(c) = "none"
  PROVE  Forest(memory, Append(done, c), Callees(c) \o Tail(todo))
<1> DEFINE n == Len(done)
           more == Append(done, c)
           rest == Tail(todo)
           new == Callees(c)
           S == Called(more)
<1>1. /\ done \in Seq(PrinterCalls) /\ todo \in Seq(PrinterCalls) /\ c \in PrinterCalls
      /\ n \in Nat /\ DOMAIN done = 1..n /\ DOMAIN todo = 1..Len(todo) /\ Len(todo) \in Nat
      /\ 1 \in DOMAIN todo /\ c = todo[1]
  BY DEF Forest
<1>2. /\ rest \in Seq(PrinterCalls) /\ DOMAIN rest = 1..Len(rest) /\ Len(rest) = Len(todo) - 1
      /\ \A k \in DOMAIN rest : k + 1 \in DOMAIN todo /\ rest[k] = todo[k + 1]
  BY <1>1
<1>3. /\ more \in Seq(PrinterCalls) /\ Len(more) = n + 1 /\ DOMAIN more = 1..(n + 1)
      /\ more[n + 1] = c /\ \A k \in DOMAIN done : k \in DOMAIN more /\ more[k] = done[k]
  BY <1>1
<1>4. S = Called(done) \union {c}
  <2>1. \A k \in DOMAIN more : k \in DOMAIN done \/ k = n + 1 BY <1>1, <1>3
  <2>2. n + 1 \in DOMAIN more BY <1>1, <1>3
  <2> HIDE DEF more
  <2> QED BY <1>3, <2>1, <2>2 DEF Called
<1>5. Grounded(memory, Called(done), c) BY <1>1 DEF Forest
<1>6. Entered(memory, S)
  <2>1. c.p # {} /\ c.p \subseteq Live(memory) BY NoFault
  <2>2. Called(done) \subseteq S BY <1>4
  <2>3. ASSUME NEW d \in S PROVE Grounded(memory, Called(done), d) /\ d.p # {} /\ d.p \subseteq Live(memory)
    BY <1>4, <1>5, <2>1 DEF Forest, Entered
  <2> QED BY <2>2, <2>3, GroundedMore DEF Entered
<1>7. CallsBy(c, new)
  <2>1. Callable(c) BY <1>1, <1>5, NoFault DEF Callable, Grounded
  <2> QED BY <2>1, CalleesFacts
<1>8. IsMemory(memory) BY DEF Tidy
<1>9. ASSUME NEW d, Grounded(memory, Called(done), d), NEW k \in DOMAIN new, Clash(new[k], d)
      PROVE  \E a \in Called(done) : Clash(c, a)
  <2>1. CallOf(memory, c, new[k]) BY <1>7 DEF CallsBy
  <2>2. new[k].fn # Root BY <2>1 DEF CallOf
  <2>3. d.fn # Root BY <1>9, <2>2 DEF Clash
  <2>4. PICK a \in Called(done) : CallOf(memory, a, d) BY <1>9, <2>3 DEF Grounded
  <2>5. PICK z \in new[k].p : z \in d.p BY <1>9 DEF Clash
  <2>6. c \in S /\ a \in S BY <1>4
  <2> HIDE DEF S, new
  <2>7. Clash(c, a) BY <1>6, <1>8, <2>1, <2>4, <2>5, <2>6, CallersClash
  <2> QED BY <2>7
<1>10. \A a \in Called(done) : ~Clash(c, a) /\ ~Clash(a, c)
  BY <1>1 DEF Forest, Unmixed, Clash, Called
<1>11. ASSUME NEW k \in DOMAIN new, NEW d, Grounded(memory, Called(done), d)
       PROVE  ~Clash(new[k], d) /\ ~Clash(d, new[k])
  <2>1. ~Clash(new[k], d) BY <1>9, <1>10, <1>11
  <2> QED BY <2>1 DEF Clash
<1>12. \A d \in Called(done) : Grounded(memory, Called(done), d) BY DEF Forest, Entered
<1>13. \A k \in DOMAIN rest : Grounded(memory, Called(done), rest[k]) BY <1>2 DEF Forest
<1> HIDE DEF new, rest, more
<1>14. new \in Seq(PrinterCalls) /\ Separated(new) BY <1>7 DEF CallsBy
<1> DEFINE u == new \o rest
           l == Len(new)
<1>15. /\ l \in Nat /\ DOMAIN new = 1..l /\ u \in Seq(PrinterCalls) /\ DOMAIN u = 1..(l + Len(rest))
       /\ \A k \in 1..l : u[k] = new[k]
       /\ \A k \in l + 1..l + Len(rest) : u[k] = rest[k - l] /\ k - l \in DOMAIN rest
  <2>1. /\ rest \in Seq(PrinterCalls) /\ new \in Seq(PrinterCalls) /\ Len(rest) \in Nat /\ l \in Nat
        /\ DOMAIN rest = 1..Len(rest) /\ DOMAIN new = 1..l
    BY <1>2, <1>14
  <2>2. u \in Seq(PrinterCalls) /\ Len(u) = l + Len(rest) BY <2>1
  <2>3. DOMAIN u = 1..(l + Len(rest)) BY <2>1, <2>2
  <2>4. \A k \in 1..l : u[k] = new[k] BY <2>1
  <2>5. \A k \in l + 1..l + Len(rest) : u[k] = rest[k - l] /\ k - l \in DOMAIN rest BY <2>1
  <2> QED BY <2>1, <2>2, <2>3, <2>4, <2>5
<1>16. \A k \in DOMAIN u : k \in 1..l \/ k \in l + 1..l + Len(rest) BY <1>2, <1>15
<1>17. Separated(more)
  <2>1. ASSUME NEW j \in DOMAIN more, NEW k \in DOMAIN more, Clash(more[j], more[k]) PROVE j = k
    <3>1. j \in DOMAIN done \/ j = n + 1 BY <1>1, <1>3
    <3>2. k \in DOMAIN done \/ k = n + 1 BY <1>1, <1>3
    <3>3. \A i \in DOMAIN done : more[i] \in Called(done) BY <1>3 DEF Called
    <3>4. CASE j \in DOMAIN done /\ k \in DOMAIN done
      BY <1>3, <2>1, <3>4 DEF Forest, Separated
    <3> QED BY <1>3, <1>10, <2>1, <3>1, <3>2, <3>3, <3>4
  <2> QED BY <2>1 DEF Separated
<1>18. Separated(u)
  <2>1. ASSUME NEW j \in DOMAIN u, NEW k \in DOMAIN u, Clash(u[j], u[k]) PROVE j = k
    <3>1. CASE j \in 1..l /\ k \in 1..l BY <1>14, <1>15, <2>1, <3>1 DEF Separated
    <3>2. CASE j \in l + 1..l + Len(rest) /\ k \in l + 1..l + Len(rest)
      <4>1. Clash(todo[(j - l) + 1], todo[(k - l) + 1]) BY <1>2, <1>15, <2>1, <3>2
      <4>2. (j - l) + 1 = (k - l) + 1 BY <1>2, <1>15, <3>2, <4>1 DEF Forest, Separated
      <4> QED BY <1>15, <3>2, <4>2
    <3>3. CASE j \in 1..l /\ k \in l + 1..l + Len(rest) BY <1>11, <1>13, <1>15, <2>1, <3>3
    <3>4. CASE k \in 1..l /\ j \in l + 1..l + Len(rest) BY <1>11, <1>13, <1>15, <2>1, <3>4
    <3> QED BY <1>16, <3>1, <3>2, <3>3, <3>4
  <2> QED BY <2>1 DEF Separated
<1>19. Unmixed(more, u)
  <2>1. ASSUME NEW j \in DOMAIN more, NEW k \in DOMAIN u PROVE ~Clash(more[j], u[k])
    <3>1. CASE k \in 1..l
      <4>1. Grounded(memory, Called(done), more[j])
        <5>1. j \in DOMAIN done \/ j = n + 1 BY <1>1, <1>3
        <5>2. \A i \in DOMAIN done : more[i] \in Called(done) BY <1>3 DEF Called
        <5> QED BY <1>3, <1>5, <1>12, <5>1, <5>2
      <4> QED BY <1>11, <1>15, <3>1, <4>1
    <3>2. CASE k \in l + 1..l + Len(rest)
      <4>1. k - l \in DOMAIN rest /\ u[k] = rest[k - l] BY <1>15, <3>2
      <4>2. (k - l) + 1 \in DOMAIN todo /\ u[k] = todo[(k - l) + 1] /\ k - l \in Nat \ {0}
        BY <1>2, <1>15, <3>2, <4>1
      <4>3. CASE j \in DOMAIN done BY <1>3, <4>2, <4>3 DEF Forest, Unmixed
      <4>4. CASE j = n + 1
        <5>1. (k - l) + 1 # 1 BY <4>2
        <5>2. ~Clash(todo[1], todo[(k - l) + 1]) BY <1>1, <4>2, <5>1 DEF Forest, Separated
        <5> QED BY <1>1, <1>3, <4>2, <4>4, <5>2
      <4> QED BY <1>1, <1>3, <4>3, <4>4
    <3> QED BY <1>16, <3>1, <3>2
  <2> QED BY <2>1 DEF Unmixed
<1>20. ASSUME NEW k \in DOMAIN u PROVE Grounded(memory, S, u[k])
  <2>1. CASE k \in 1..l
    <3>1. CallOf(memory, c, new[k]) BY <1>7, <1>15, <2>1 DEF CallsBy
    <3>2. new[k] \in PrinterCalls /\ new[k].fn # Root BY <3>1 DEF CallOf
    <3> QED BY <1>4, <1>15, <2>1, <3>1, <3>2 DEF Grounded
  <2>2. CASE k \in l + 1..l + Len(rest)
    <3>1. Grounded(memory, Called(done), u[k]) BY <1>13, <1>15, <2>2
    <3> QED BY <1>4, <3>1, GroundedMore
  <2> QED BY <1>16, <2>1, <2>2
<1> HIDE DEF S, u
<1>21. Forest(memory, more, u)
  BY <1>3, <1>6, <1>15, <1>17, <1>18, <1>19, <1>20 DEF Forest, S
<1> QED BY <1>21 DEF more, u, new, rest

\* The statements of a list that owns them.
LEMMA RootForest ==
  ASSUME NEW m, NEW R, Tidy(m, R), NEW objects, Distinct(objects), ToSet(objects) \subseteq R,
         NEW todo, todo = [k \in DOMAIN objects |-> On("printStatementInfo", {objects[k]})]
  PROVE  Forest(m, <<>>, todo)
<1>1. /\ objects \in Seq(Nat) /\ DOMAIN objects = 1..Len(objects) /\ Len(objects) \in Nat
      /\ DOMAIN todo = DOMAIN objects
  BY DEF Distinct
<1>2. \A k \in DOMAIN todo : /\ todo[k].fn = Root /\ todo[k].p = {objects[k]} /\ ~todo[k].each
                             /\ todo[k] \in PrinterCalls /\ objects[k] \in R
  <2>1. \A k \in DOMAIN objects : objects[k] \in Nat /\ objects[k] \in ToSet(objects)
    BY <1>1 DEF ToSet
  <2>2. \A x \in Nat : On("printStatementInfo", {x}) \in PrinterCalls BY DEF On, PrinterCalls, Root
  <2> QED BY <1>1, <2>1, <2>2, CallParts DEF Root
<1>3. todo \in Seq(PrinterCalls)
  <2>1. todo \in [1..Len(objects) -> PrinterCalls] BY <1>1, <1>2
  <2> QED BY <1>1, <2>1
<1>4. Separated(todo)
  <2>1. ASSUME NEW j \in DOMAIN todo, NEW k \in DOMAIN todo, Clash(todo[j], todo[k]) PROVE j = k
    <3>1. objects[j] = objects[k] BY <1>2, <2>1 DEF Clash
    <3> QED BY <1>1, <3>1 DEF Distinct
  <2> QED BY <2>1 DEF Separated
<1>5. \A k \in DOMAIN todo : Grounded(m, {}, todo[k])
  <2>1. \A x \in R : \A y, g : x \notin Field(m, y, g) BY TidyFields
  <2> QED BY <1>2, <2>1 DEF Grounded
<1> DEFINE none == <<>>
<1>6. none \in Seq(PrinterCalls) /\ DOMAIN none = {} OBVIOUS
<1> HIDE DEF none
<1>7. Separated(none) /\ Unmixed(none, todo) BY <1>6 DEF Separated, Unmixed
<1>8. Called(none) = {} BY <1>6 DEF Called
<1>9. Entered(m, Called(none)) BY <1>8 DEF Entered
<1>10. Forest(m, none, todo) BY <1>3, <1>4, <1>5, <1>6, <1>7, <1>8, <1>9 DEF Forest
<1> QED BY <1>10 DEF none

LEMMA ForestIsInjective ==
  ASSUME NEW m, NEW done, NEW todo, Forest(m, done, todo)
  PROVE  IsInjective(done)
<1> SUFFICES ASSUME NEW j \in DOMAIN done, NEW k \in DOMAIN done, done[j] = done[k] PROVE j = k
  BY DEF IsInjective
<1>1. done[j] \in Called(done) BY DEF Called
<1>2. done[j].p # {} BY <1>1 DEF Forest, Entered
<1>3. Clash(done[j], done[k]) BY <1>2 DEF Clash
<1> QED BY <1>3 DEF Forest, Separated

-----------------------------------------------------------------------------
(* The invariant of the program.                                           *)

\* A printer that meets the unexpected ends the program: before that the invariants of the
\* parse hold.
Defined == pc # "undefined" => IInv /\ PInv

PrintInv ==
  /\ IsInjective(printed)
  /\ pc \in {"called", "parsing"} => printed = <<>>
  /\ pc = "accepted" => Forest(memory, printed, agenda)

LEMMA DefinedIsTidy ==
  ASSUME IInv
  PROVE  /\ Tidy(memory, {}) /\ OneOwnerEach
         /\ Tidy(memory, ToSet(result.statements)) /\ Distinct(result.statements)
<1> DEFINE R == ValuesOf(yyss, Len(yyss)) \union yylval \union ToSet(result.statements)
<1>1. Tidy(memory, R) /\ Distinct(result.statements) BY DEF IInv, Owners
<1> HIDE DEF R
<1>2. \A Q \in SUBSET R : Tidy(memory, Q) BY <1>1, Forget
<1>3. {} \subseteq R /\ ToSet(result.statements) \subseteq R BY DEF R
<1>4. OneOwnerEach BY <1>1, TidyFields DEF OneOwnerEach
<1> QED BY <1>1, <1>2, <1>3, <1>4

\* A step of the program is one of the parser or of a printer.
LEMMA ProgramSteps ==
  ASSUME [ProgramNext]_program
  PROVE  [Next]_vars \/ Enter
BY DEF ProgramNext, ParseText, Return, Exited, program, Next

LEMMA UndefinedStays ==
  ASSUME [ProgramNext]_program, pc = "undefined"
  PROVE  pc' = "undefined"
BY DEF ProgramNext, ParseText, Enter, Return, Exited, program, vars, Call, Parse, DestroyResult,
       Finished

\* An entry leaves the parse as it is, or ends the program.
LEMMA EnterStutters ==
  ASSUME Enter
  PROVE  \/ UNCHANGED vars /\ UNCHANGED handed
         \/ pc' = "undefined"
BY DEF Enter, vars

LEMMA NextDefined ==
  ASSUME ActionsAreLinear, ListsAreTyped, Defined, [ProgramNext]_program
  PROVE  Defined'
<1> SUFFICES ASSUME pc' # "undefined" PROVE IInv' /\ PInv' BY DEF Defined
<1>1. pc # "undefined" BY UndefinedStays
<1>2. IInv /\ PInv BY <1>1 DEF Defined
<1>3. [Next]_vars BY ProgramSteps, EnterStutters
<1> QED BY <1>2, <1>3, NextIInv, NextPInv

LEMMA NextPrintInv ==
  ASSUME Defined, Defined', PrintInv, [ProgramNext]_program
  PROVE  PrintInv'
<1>1. CASE ParseText
  <2>1. pc \in {"called", "parsing"} /\ printed' = printed /\ printed = <<>>
    BY <1>1 DEF ParseText, Call, Parse, PrintInv
  <2>2. IsInjective(printed') BY <2>1 DEF PrintInv
  <2>3. ASSUME pc' = "accepted" PROVE Forest(memory', printed', agenda')
    <3>1. IInv' BY <2>3 DEF Defined
    <3> DEFINE R == ValuesOf(yyss, Len(yyss)) \union yylval \union ToSet(result.statements)
    <3>2. (Tidy(memory, R) /\ Distinct(result.statements))' BY <3>1 DEF IInv, Owners
    <3>3. ToSet(result.statements)' \subseteq R' OBVIOUS
    <3>4. agenda' = [k \in DOMAIN result'.statements |->
                       On("printStatementInfo", {result'.statements[k]})]
      BY <1>1, <2>3 DEF ParseText
    <3> HIDE DEF R
    <3>5. Forest(memory', <<>>, agenda') BY <3>2, <3>3, <3>4, RootForest DEF ToSet
    <3> QED BY <2>1, <3>5
  <2> QED BY <2>1, <2>2, <2>3 DEF PrintInv
<1>2. CASE Enter
  <2> DEFINE c == Head(agenda)
             fault == FaultOf(c)
  <2>1. pc = "accepted" /\ agenda # <<>> BY <1>2 DEF Enter
  <2>2. IInv /\ Forest(memory, printed, agenda) BY <2>1 DEF Defined, PrintInv
  <2>3. CASE fault = "none"
    <3>1. /\ agenda' = Callees(c) \o Tail(agenda) /\ printed' = Append(printed, c)
          /\ memory' = memory /\ pc' = pc
      BY <1>2, <2>3 DEF Enter
    <3>2. Forest(memory, Append(printed, c), Callees(c) \o Tail(agenda))
      BY <2>1, <2>2, <2>3, DefinedIsTidy, EnterForest
    <3>3. Forest(memory', printed', agenda') BY <3>1, <3>2
    <3>4. IsInjective(printed') BY <3>3, ForestIsInjective
    <3> QED BY <2>1, <3>1, <3>3, <3>4 DEF PrintInv
  <2>4. CASE fault # "none"
    <3>1. pc' = "undefined" /\ printed' = printed BY <1>2, <2>4 DEF Enter
    <3>2. IsInjective(printed') BY <3>1 DEF PrintInv
    <3> QED BY <3>1, <3>2 DEF PrintInv
  <2> QED BY <2>3, <2>4
<1>3. CASE Return
  <2>1. printed' = printed /\ pc' \in {"destroyed", "undefined"} BY <1>3 DEF Return, DestroyResult
  <2>2. IsInjective(printed') BY <2>1 DEF PrintInv
  <2> QED BY <2>1, <2>2 DEF PrintInv
<1>4. CASE Exited \/ UNCHANGED program
  <2>1. UNCHANGED <<memory, printed, agenda, pc>> BY <1>4 DEF Exited, Finished, program, vars
  <2>2. IsInjective(printed') BY <2>1 DEF PrintInv
  <2>3. pc' = "accepted" => Forest(memory', printed', agenda') BY <2>1 DEF PrintInv
  <2> QED BY <2>1, <2>2, <2>3 DEF PrintInv
<1> QED BY <1>1, <1>2, <1>3, <1>4 DEF ProgramNext

LEMMA InitDefined == ProgramInit => Defined /\ PrintInv
<1> SUFFICES ASSUME ProgramInit PROVE Defined /\ PrintInv OBVIOUS
<1>1. Init /\ printed = <<>> BY DEF ProgramInit
<1>2. IInv /\ PInv BY <1>1, InitIInv, InitPInv
<1>3. IsInjective(printed) BY <1>1 DEF IsInjective
<1>4. pc = "called" BY <1>1 DEF Init
<1> QED BY <1>1, <1>2, <1>3, <1>4 DEF Defined, PrintInv

\* No call of a printer is made twice (sqlhelper.cpp): for every text, all rows that keep the
\* static discipline and every depth of the stack, the printers meet each member of a
\* statement once, as no two members share an object and none is the statement itself.
THEOREM NeverPrintedTwice == Program => []PrintedOnce
<1>1. ProgramInit => Defined /\ PrintInv BY InitDefined
<1>2. (Defined /\ PrintInv) /\ [ProgramNext]_program => (Defined /\ PrintInv)'
  <2> SUFFICES ASSUME Defined, PrintInv, [ProgramNext]_program PROVE Defined' /\ PrintInv' OBVIOUS
  <2>1. Defined' BY ActionsAssumption, NextDefined
  <2> QED BY <2>1, NextPrintInv
<1>3. Defined /\ PrintInv => PrintedOnce BY DEF PrintInv, PrintedOnce
<1> QED BY <1>1, <1>2, <1>3, PTL DEF Program

-----------------------------------------------------------------------------
(* What deletions leave.                                                   *)

\* The live objects of new are objects of m, unchanged.
Remains(m, new) ==
  /\ IsMemory(new) /\ Live(new) \subseteq Live(m)
  /\ \A x \in Live(new) : new.heap[x] = m.heap[x]

\* One step after another leaves of each memory what the last one has.
LEMMA RemainsAlong ==
  ASSUME NEW N \in Nat, NEW f, IsMemory(f[0]),
         \A k \in 1..N : IsMemory(f[k - 1]) => Remains(f[k - 1], f[k])
  PROVE  \A j \in 0..N : Remains(f[j], f[N])
<1> DEFINE Fine(k) == \A j \in 0..k : Remains(f[j], f[k])
           Failing == {k \in 0..N : ~Fine(k)}
<1>1. Fine(0)
  <2>1. Remains(f[0], f[0]) BY DEF Remains
  <2> QED BY <2>1
<1>2. ASSUME NEW k \in 1..N, Fine(k - 1) PROVE Fine(k)
  <2>1. Remains(f[k - 1], f[k - 1]) BY <1>2
  <2>2. Remains(f[k - 1], f[k]) BY <2>1 DEF Remains
  <2>3. Remains(f[k], f[k]) BY <2>2 DEF Remains
  <2>4. ASSUME NEW j \in 0..(k - 1) PROVE Remains(f[j], f[k])
    <3>1. Remains(f[j], f[k - 1]) BY <1>2
    <3> QED BY <2>2, <3>1 DEF Remains
  <2> HIDE DEF Remains
  <2>5. \A j \in 0..k : j = k \/ j \in 0..(k - 1) OBVIOUS
  <2> QED BY <2>3, <2>4, <2>5
<1> HIDE DEF Fine
<1>3. Failing = {}
  <2> SUFFICES ASSUME Failing # {} PROVE FALSE
    OBVIOUS
  <2>1. PICK k \in Failing : \A j \in Failing : k <= j
    <3>1. Failing \subseteq Nat OBVIOUS
    <3> QED BY <3>1, LeastNatural
  <2>2. k \in 1..N BY <1>1
  <2>3. k - 1 \in 0..N /\ ~(k <= k - 1) BY <2>2
  <2>4. Fine(k - 1) BY <2>1, <2>3
  <2> QED BY <1>2, <2>2, <2>4
<1>4. Fine(N) BY <1>3
<1> QED BY <1>4 DEF Fine

LEMMA DeleteRemains ==
  ASSUME NEW m, IsMemory(m), NEW S
  PROVE  Remains(m, Delete(m, S)) /\ Live(Delete(m, S)) \intersect S = {}
<1> DEFINE T == S \intersect Live(m)
<1>1. Leaves(m, S, Delete(m, S)) BY DeleteLeaves
<1>2. T \subseteq Doomed(m, T)
  <2>1. T \subseteq Live(m) OBVIOUS
  <2> HIDE DEF T
  <2> QED BY <2>1, DoomedIsClosed
<1> QED BY <1>1, <1>2 DEF Leaves, Remains

LEMMA DestructRemains ==
  ASSUME NEW m, IsMemory(m), NEW cell
  PROVE  Remains(m, Destruct(m, cell))
<1>1. \A S : Remains(m, Delete(m, S)) BY DeleteRemains
<1>2. CASE cell.sym \notin DeletedWithElements BY <1>1, <1>2 DEF Destruct
<1>3. CASE cell.sym \in DeletedWithElements
  <2> DEFINE S == cell.val \union Elements(m, cell.val)
             deleted == Delete(m, S)
             new == DeleteWithElements(m, cell.val)
  <2>1. Destruct(m, cell) = new BY <1>3 DEF Destruct
  <2>2. Remains(m, deleted) BY <1>1
  <2>3. \E M : new = deleted \/ new = [deleted EXCEPT !.mismatched = M]
    BY Zenon DEF DeleteWithElements
  <2>4. PICK M : new = deleted \/ new = [deleted EXCEPT !.mismatched = M] BY <2>3
  <2> HIDE DEF new, deleted
  <2>5. CASE new = deleted BY <2>1, <2>2, <2>5
  <2>6. CASE new = [deleted EXCEPT !.mismatched = M]
    <3>1. IsMemory(deleted) BY <2>2 DEF Remains
    <3>2. new = [heap |-> deleted.heap, next |-> deleted.next, mismatched |-> M,
                 fault |-> deleted.fault]
      BY <2>6, <3>1 DEF IsMemory
    <3>3. /\ new.heap = deleted.heap /\ new.next = deleted.next
          /\ new = [heap |-> new.heap, next |-> new.next, mismatched |-> new.mismatched,
                    fault |-> new.fault]
      BY <3>2
    <3>4. Live(new) = Live(deleted) BY <3>3 DEF Live
    <3>5. IsMemory(new) BY <3>1, <3>3, <3>4 DEF IsMemory
    <3> QED BY <2>1, <2>2, <3>3, <3>4, <3>5 DEF Remains
  <2> QED BY <2>4, <2>5, <2>6
<1> QED BY <1>2, <1>3

LEMMA UnwindRemains ==
  ASSUME NEW m, IsMemory(m), NEW cells, Len(cells) \in Nat
  PROVE  Remains(m, Unwind(m, cells))
<1> DEFINE N == Len(cells)
           f == CHOOSE f : Unwinds(f, m, cells)
<1>1. Unwinds(f, m, cells) BY UnwindExists
<1>2. Unwind(m, cells) = f[N] BY Zenon DEF Unwind, Unwinds
<1>3. \A k \in 0..N : f[k] = IF k = 0 THEN m ELSE Destruct(f[k - 1], cells[N + 1 - k])
  BY <1>1 DEF Unwinds
<1>4. N \in Nat OBVIOUS
<1> HIDE DEF f, N
<1>5. f[0] = m BY <1>3, <1>4
<1>6. ASSUME NEW k \in 1..N, IsMemory(f[k - 1]) PROVE Remains(f[k - 1], f[k])
  <2>1. f[k] = Destruct(f[k - 1], cells[N + 1 - k]) BY <1>3, <1>4
  <2> QED BY <1>6, <2>1, DestructRemains
<1>7. Remains(f[0], f[N]) BY <1>4, <1>5, <1>6, RemainsAlong
<1> QED BY <1>2, <1>5, <1>7

\* Each of the objects that are deleted one by one is gone in the end.
LEMMA DeleteEachDeletes ==
  ASSUME NEW m, IsMemory(m), NEW objects, Len(objects) \in Nat
  PROVE  \A k \in 1..Len(objects) : objects[k] \notin Live(DeleteEach(m, objects))
<1> DEFINE N == Len(objects)
           f == CHOOSE f : Deletes(f, m, objects)
<1>1. N \in Nat OBVIOUS
<1>2. Deletes(f, m, objects) BY <1>1, DeleteEachExists
<1>3. DeleteEach(m, objects) = f[N] BY Zenon DEF DeleteEach, Deletes
<1>4. \A k \in 0..N : f[k] = IF k = 0 THEN m ELSE Delete(f[k - 1], {objects[k]})
  BY <1>2 DEF Deletes
<1> HIDE DEF f, N
<1>5. f[0] = m
  <2>1. 0 \in 0..N BY <1>1
  <2> QED BY <1>4, <2>1, Zenon
<1>6. ASSUME NEW k \in 1..N, IsMemory(f[k - 1])
      PROVE  Remains(f[k - 1], f[k]) /\ objects[k] \notin Live(f[k])
  <2>1. f[k] = Delete(f[k - 1], {objects[k]})
    <3>1. k \in 0..N /\ k # 0 BY <1>1
    <3> QED BY <1>4, <3>1, Zenon
  <2>2. Live(Delete(f[k - 1], {objects[k]})) \intersect {objects[k]} = {} BY <1>6, DeleteRemains
  <2>3. Remains(f[k - 1], Delete(f[k - 1], {objects[k]})) BY <1>6, DeleteRemains
  <2> QED BY <2>1, <2>2, <2>3
<1>7. ASSUME NEW n \in 0..N PROVE \A j \in 0..n : Remains(f[j], f[n])
  BY <1>1, <1>5, <1>6, <1>7, RemainsAlong
<1>8. ASSUME NEW k \in 1..N PROVE objects[k] \notin Live(f[N])
  <2>1. Remains(f[k - 1], f[k - 1]) /\ Remains(f[k], f[N]) BY <1>1, <1>7
  <2>2. objects[k] \notin Live(f[k]) BY <1>6, <2>1 DEF Remains
  <2> QED BY <2>1, <2>2 DEF Remains
<1> QED BY <1>3, <1>8 DEF N

-----------------------------------------------------------------------------
(* What can be reached, and places in a list.                              *)

LEMMA PointedIs ==
  ASSUME NEW m, NEW T
  PROVE  Pointed(m, T) =
           {z \in Live(m) : \E x \in T : \E g \in DOMAIN m.heap[x].f : z \in m.heap[x].f[g]}
<1> DEFINE at(x) == {m.heap[x].f[g] : g \in DOMAIN m.heap[x].f}
           parts == {UNION at(x) : x \in T}
<1>1. Pointed(m, T) = (UNION parts) \intersect Live(m) BY DEF Pointed
<1>2. ASSUME NEW x, NEW z
      PROVE  z \in UNION at(x) <=> \E g \in DOMAIN m.heap[x].f : z \in m.heap[x].f[g]
  OBVIOUS
<1> HIDE DEF at
<1>3. \A z : z \in UNION parts <=> \E x \in T : z \in UNION at(x) OBVIOUS
<1> HIDE DEF parts
<1> QED BY <1>1, <1>2, <1>3

LEMMA ReachedIsLive ==
  ASSUME NEW m, IsMemory(m), NEW S
  PROVE  Reached(m, S) \subseteq Live(m)
<1> DEFINE L == Live(m)
           F == [T \in SUBSET L |-> Pointed(m, T)]
           f == CHOOSE f : f = [T \in SUBSET L |->
                  IF Pointed(m, T) \subseteq T THEN T ELSE f[T \union Pointed(m, T)]]
           T0 == S \intersect L
<1>1. Reached(m, S) = f[T0] BY Zenon DEF Reached
<1>2. \A T : Pointed(m, T) =
        {z \in L : \E x \in T : \E g \in DOMAIN m.heap[x].f : z \in m.heap[x].f[g]}
  BY PointedIs
<1>3. F \in [SUBSET L -> SUBSET L] BY <1>2
<1>4. \A T \in SUBSET L : F[T] = Pointed(m, T) OBVIOUS
<1>5. \A T, U \in SUBSET L : T \subseteq U => F[T] \subseteq F[U] BY <1>2, <1>4
<1>6. IsFiniteSet(L) BY LiveFinite
<1> HIDE DEF F
<1>7. \E g : g = [T \in SUBSET L |->
                    IF Pointed(m, T) \subseteq T THEN T ELSE g[T \union Pointed(m, T)]]
  <2>1. PICK g : Saturates(g, F, L)
    <3> HIDE DEF L
    <3> QED BY <1>3, <1>5, SaturationExists
  <2>2. g = [T \in SUBSET L |-> IF Pointed(m, T) \subseteq T THEN T
                                ELSE g[T \union Pointed(m, T)]]
    BY <1>4, <2>1 DEF Saturates
  <2> QED BY <2>2
<1>8. f = [T \in SUBSET L |-> IF Pointed(m, T) \subseteq T THEN T ELSE f[T \union Pointed(m, T)]]
  BY <1>7, Zenon
<1> HIDE DEF f, L
<1>9. Saturates(f, F, L) BY <1>4, <1>8 DEF Saturates
<1>10. T0 \in SUBSET L OBVIOUS
<1> HIDE DEF T0
<1>11. f[T0] \subseteq L BY <1>3, <1>5, <1>6, <1>9, <1>10, Saturation
<1> QED BY <1>1, <1>11 DEF L

LEMMA IndexOf ==
  ASSUME NEW objects, Distinct(objects), NEW k \in 1..Len(objects)
  PROVE  Index(objects, objects[k]) = k
<1>1. DOMAIN objects = 1..Len(objects) BY DEF Distinct
<1>2. \E j \in DOMAIN objects : objects[j] = objects[k] BY <1>1
<1> DEFINE i == CHOOSE j \in DOMAIN objects : objects[j] = objects[k]
<1>3. i \in DOMAIN objects /\ objects[i] = objects[k] BY <1>2
<1>4. Index(objects, objects[k]) = i BY DEF Index
<1> HIDE DEF i
<1> QED BY <1>1, <1>3, <1>4 DEF Distinct

LEMMA HomeIs ==
  ASSUME NEW m, NEW objects, NEW p, \E j \in DOMAIN objects : p \in Reached(m, {objects[j]})
  PROVE  HomeOf(m, objects, p) \in DOMAIN objects
BY DEF HomeOf

-----------------------------------------------------------------------------
(* What a parse leaves in the result.                                      *)

\* The result says how the parse ended, holds the statements that were handed over, and its
\* parameters have their numbers as far as they are live.
Outcome ==
  /\ pc \in {"called", "parsing"} => handed = <<>> /\ result.error = FALSE
  /\ Parsed =>
       /\ handed = result.statements /\ result.parameters \in Seq(Nat)
       /\ \A k \in 1..Len(result.parameters) :
            result.parameters[k] \in Live(memory) => memory.heap[result.parameters[k]].n = k - 1
  /\ pc = "accepted" => result.isValid = TRUE /\ result.error = FALSE
  /\ pc = "aborted" => result.isValid = FALSE /\ result.error = TRUE
  /\ pc = "undefined" => memory.fault # "none"

GivenUp(cells) ==
  /\ pc' = "aborted" /\ Len(cells) \in Nat /\ memory' = Unwind(memory, cells)
  /\ result' = [result EXCEPT !.isValid = FALSE, !.error = TRUE]

\* How a step of the parser can end.
LEMMA ParseEnds ==
  ASSUME IInv, pc = "parsing", Parse
  PROVE  \/ pc' = "parsing" /\ result'.error = result.error
         \/ pc' = "undefined" /\ memory'.fault # "none"
         \/ pc' = "accepted" /\ result' = [result EXCEPT !.isValid = TRUE] /\ memory' = memory
         \/ \E cells : GivenUp(cells)
<1>1. ResultForm /\ yyss \in Seq(Cells) BY DEF IInv, StackFits
<1>2. ASSUME NEW m, Proceed(m) 
      PROVE  \/ pc' = "parsing"
             \/ pc' = "undefined" /\ m.fault # "none"
  BY <1>2 DEF Proceed
<1>3. ASSUME NEW r, NEW b, Replace(r, b)
      PROVE  \/ pc' = "parsing"
             \/ pc' = "undefined" /\ memory'.fault # "none"
  BY <1>2, <1>3 DEF Replace
<1>4. ASSUME NEW r, Reduce(r)
      PROVE  \/ pc' = "parsing" /\ result'.error = result.error
             \/ pc' = "undefined" /\ memory'.fault # "none"
  <2>1. CASE ReduceInput(r)
    <3>1. \E ss, ps : result' = [result EXCEPT !.statements = ss, !.parameters = ps]
      BY <2>1, Zenon DEF ReduceInput
    <3>2. result'.error = result.error BY <1>1, <3>1 DEF ResultForm
    <3>3. \E b : Replace(r, b) BY <2>1, Zenon DEF ReduceInput
    <3> QED BY <1>3, <3>2, <3>3
  <2>2. CASE ReduceNode(r) \/ ReduceParameter(r) \/ ReduceStatement(r)
    <3>1. result' = result /\ \E b : Replace(r, b)
      BY <2>2, Zenon DEF ReduceNode, ReduceParameter, ReduceStatement
    <3> QED BY <1>3, <3>1
  <2> QED BY <1>4, <2>1, <2>2 DEF Reduce
<1>5. ASSUME NEW cells, Len(cells) \in Nat, Abandon(cells)
      PROVE  \/ GivenUp(cells)
             \/ pc' = "undefined" /\ memory'.fault # "none"
  <2>1. /\ memory' = Unwind(memory, cells)
        /\ result' = [result EXCEPT !.isValid = FALSE, !.error = TRUE]
        /\ pc' = IF memory'.fault = "none" THEN "aborted" ELSE "undefined"
    BY <1>5 DEF Abandon
  <2>2. CASE memory'.fault = "none"
    <3>1. pc' = "aborted" BY <2>1, <2>2
    <3> QED BY <1>5, <2>1, <3>1 DEF GivenUp
  <2>3. CASE memory'.fault # "none" BY <2>1, <2>3
  <2> QED BY <2>2, <2>3
<1>6. Len(<<Lookahead>> \o yyss) \in Nat /\ Len(Append(yyss, Lookahead)) \in Nat
  BY <1>1
<1>7. CASE SyntaxError \/ StackExhausted
  BY <1>5, <1>6, <1>7 DEF SyntaxError, StackExhausted
<1>8. CASE ReadToken
  <2>1. pc' = pc /\ result' = result BY <1>8 DEF ReadToken
  <2> QED BY <2>1
<1>9. CASE Shift BY <1>9 DEF Shift
<1> QED BY <1>4, <1>7, <1>8, <1>9 DEF Parse, Follow

LEMMA GivenUpOutcome ==
  ASSUME IInv, PInv, NEW cells, GivenUp(cells), pc = "parsing", handed' = result'.statements
  PROVE  Outcome'
<1>1. /\ result'.parameters = result.parameters /\ result'.statements = result.statements
      /\ result'.isValid = FALSE /\ result'.error = TRUE
  BY DEF GivenUp, IInv, ResultForm
<1>2. Remains(memory, memory') BY MemoryIs, UnwindRemains DEF GivenUp
<1>3. param_list \in Seq(Nat) BY DEF PInv
<1>4. \/ result.parameters = <<>>
      \/ result.parameters = param_list /\ AllNumbered(memory, param_list)
  BY DEF PInv, AtInput
<1>5. /\ result.parameters \in Seq(Nat)
      /\ \A k \in 1..Len(result.parameters) :
           result.parameters[k] \in Live(memory) /\ memory.heap[result.parameters[k]].n = k - 1
  <2>1. CASE result.parameters = <<>> BY <2>1
  <2>2. CASE result.parameters = param_list /\ AllNumbered(memory, param_list)
    BY <1>3, <2>2 DEF AllNumbered
  <2> QED BY <1>4, <2>1, <2>2
<1>6. \A k \in 1..Len(result.parameters) : result.parameters[k] \in Live(memory') =>
        memory'.heap[result.parameters[k]].n = k - 1
  BY <1>2, <1>5 DEF Remains
<1> QED BY <1>1, <1>5, <1>6 DEF GivenUp, Outcome, Parsed

LEMMA AcceptedOutcome ==
  ASSUME IInv, PInv', Outcome, pc = "parsing", pc' = "accepted",
         result' = [result EXCEPT !.isValid = TRUE], handed' = result'.statements
  PROVE  Outcome'
<1>1. result'.isValid = TRUE /\ result'.error = FALSE BY DEF IInv, ResultForm, Outcome
<1>2. result'.parameters = param_list' /\ param_list' \in Seq(Nat)
      /\ AllNumbered(memory', param_list')
  BY DEF PInv
<1> QED BY <1>1, <1>2 DEF Outcome, Parsed, AllNumbered

LEMMA NextOutcome ==
  ASSUME Defined, Defined', Outcome, [ProgramNext]_program
  PROVE  Outcome'
<1>1. CASE ParseText /\ Call
  <2>1. pc' = "parsing" /\ result' = result /\ handed' = <<>> /\ pc = "called"
    BY <1>1 DEF ParseText, Call
  <2> QED BY <2>1 DEF Outcome, Parsed
<1>2. CASE ParseText /\ Parse
  <2>1. pc = "parsing" BY <1>2 DEF Parse
  <2>2. IInv /\ PInv BY <2>1 DEF Defined
  <2>3. handed' = IF pc' \in {"accepted", "aborted"} THEN result'.statements ELSE <<>>
    BY <1>2 DEF ParseText
  <2>4. CASE pc' = "parsing" /\ result'.error = result.error
    BY <2>1, <2>3, <2>4 DEF Outcome, Parsed
  <2>5. CASE pc' = "undefined" /\ memory'.fault # "none" BY <2>5 DEF Outcome, Parsed
  <2>6. CASE pc' = "accepted" /\ result' = [result EXCEPT !.isValid = TRUE] /\ memory' = memory
    <3>1. PInv' BY <2>6 DEF Defined
    <3> QED BY <2>1, <2>2, <2>3, <2>6, <3>1, AcceptedOutcome
  <2>7. ASSUME NEW cells, GivenUp(cells) PROVE Outcome'
    <3>1. handed' = result'.statements BY <2>3, <2>7 DEF GivenUp
    <3> QED BY <2>1, <2>2, <2>7, <3>1, GivenUpOutcome
  <2> QED BY <1>2, <2>1, <2>2, <2>4, <2>5, <2>6, <2>7, ParseEnds
<1>3. CASE Enter
  <2>1. /\ pc = "accepted" /\ result' = result /\ handed' = handed
        /\ \/ memory' = memory /\ pc' = pc
           \/ pc' = "undefined" /\ \E what : what # "none" /\ memory' = Faulted(memory, what)
    BY <1>3 DEF Enter
  <2>2. CASE memory' = memory /\ pc' = pc BY <2>1, <2>2 DEF Outcome, Parsed
  <2>3. ASSUME pc' = "undefined", NEW what, what # "none", memory' = Faulted(memory, what)
        PROVE  Outcome'
    <3>1. IInv BY <2>1 DEF Defined
    <3>2. memory'.fault = what BY <2>3, <3>1, MemoryIs DEF Faulted, IsMemory
    <3> QED BY <2>3, <3>2 DEF Outcome, Parsed
  <2> QED BY <2>1, <2>2, <2>3
<1>4. CASE Return
  <2>1. pc' = IF memory'.fault = "none" THEN "destroyed" ELSE "undefined"
    BY <1>4 DEF Return, DestroyResult
  <2> QED BY <2>1 DEF Outcome, Parsed
<1>5. CASE Exited \/ UNCHANGED program
  <2>1. UNCHANGED <<memory, result, handed, pc>> BY <1>5 DEF Exited, Finished, program, vars
  <2> QED BY <2>1 DEF Outcome, Parsed
<1> QED BY <1>1, <1>2, <1>3, <1>4, <1>5 DEF ProgramNext, ParseText

LEMMA InitOutcome == ProgramInit => Outcome
BY DEF ProgramInit, Init, Outcome, Parsed

-----------------------------------------------------------------------------
(* The steps of ParserResult.                                              *)

LEMMA InitMaps == ProgramInit => Api!Init
<1> SUFFICES ASSUME ProgramInit PROVE Api!Init OBVIOUS
<1>1. pc = "called" /\ handed = <<>> /\ result.error = FALSE /\ memory = EmptyMemory
  BY DEF ProgramInit, Init
<1>2. memory.fault = "none" BY <1>1 DEF EmptyMemory
<1>3. ~Parsed BY <1>1 DEF Parsed
<1>4. TheResults = [r \in {"result"} |-> Api!Constructed(<<>>)]
  BY <1>3 DEF TheResults, NewResult, Api!Constructed
<1>5. Constructed = {} BY <1>1, <1>3 DEF Constructed
<1>6. StatementStates = [k \in 1..MaxBatch |-> "free"] BY <1>1 DEF StatementStates
<1>7. MessageStates = [m \in {"message"} |-> "free"] BY <1>1 DEF MessageStates
<1> QED BY <1>2, <1>4, <1>5, <1>6, <1>7 DEF Api!Init

LEMMA CallConstructs ==
  ASSUME ParseText, Call, Outcome, memory.fault = "none"
  PROVE  Api!Next
<1>1. /\ pc = "called" /\ pc' = "parsing" /\ result' = result /\ memory' = memory
      /\ handed' = <<>> /\ handed = <<>>
  BY DEF ParseText, Call, Outcome
<1>2. Constructed = {} /\ Constructed' = {"result"} BY <1>1 DEF Constructed, Parsed
<1>3. TheResults = [r \in {"result"} |-> NewResult] /\ TheResults' = TheResults
  BY <1>1 DEF TheResults, NewResult, Parsed
<1>4. StatementStates' = StatementStates /\ MessageStates' = MessageStates
  BY <1>1 DEF StatementStates, MessageStates
<1>5. Api!Constructed(<<>>) = NewResult BY DEF NewResult, Api!Constructed
<1>6. TheResults' = [TheResults EXCEPT !["result"] = NewResult] BY <1>3
<1>7. Api!Construct("result") BY <1>1, <1>2, <1>4, <1>5, <1>6 DEF Api!Construct
<1> QED BY <1>7 DEF Api!Next, Api!ResultStep

LEMMA SameMapping ==
  ASSUME UNCHANGED <<result, handed, memory, pc>>
  PROVE  UNCHANGED Api!vars
<1>1. Parsed' = Parsed BY DEF Parsed
<1>2. TheResult' = TheResult BY DEF TheResult
<1>3. TheResults' = TheResults BY <1>1, <1>2 DEF TheResults, NewResult
<1>4. StatementStates' = StatementStates BY DEF StatementStates
<1>5. MessageStates' = MessageStates BY DEF MessageStates
<1>6. Constructed' = Constructed BY <1>1 DEF Constructed
<1> QED BY <1>3, <1>4, <1>5, <1>6 DEF Api!vars

\* Until it ends a parse is no step of ParserResult.
LEMMA ParseStutters ==
  ASSUME pc = "parsing", pc' = "parsing", Outcome, Outcome',
         memory.fault = "none", memory'.fault = "none"
  PROVE  UNCHANGED Api!vars
<1>1. handed = <<>> /\ handed' = <<>> /\ result.error = FALSE /\ result'.error = FALSE
  BY DEF Outcome
<1>2. ~Parsed /\ ~Parsed' BY DEF Parsed
<1>3. TheResults' = TheResults BY <1>2 DEF TheResults, NewResult
<1>4. StatementStates' = StatementStates BY <1>1 DEF StatementStates
<1>5. MessageStates' = MessageStates BY <1>1 DEF MessageStates
<1>6. Constructed' = Constructed BY <1>2 DEF Constructed
<1> QED BY <1>3, <1>4, <1>5, <1>6 DEF Api!vars

\* The statements handed over, by their places.
LEMMA ByPlace ==
  ASSUME NEW m, NEW list, Tidy(m, ToSet(list)), Distinct(list)
  PROVE  /\ Len(list) \in Nat /\ DOMAIN list = 1..Len(list)
         /\ [k \in DOMAIN list |-> Index(list, list[k])] = [k \in 1..Len(list) |-> k]
         /\ \A k \in 1..Len(list) : list[k] \in Live(m)
<1>1. Len(list) \in Nat /\ DOMAIN list = 1..Len(list) BY DEF Distinct
<1>2. \A k \in 1..Len(list) : Index(list, list[k]) = k BY IndexOf
<1>3. \A k \in 1..Len(list) : list[k] \in Live(m) BY <1>1 DEF Tidy, ToSet
<1> QED BY <1>1, <1>2, <1>3

LEMMA StatementsByPlace ==
  ASSUME IInv, Outcome, Parsed
  PROVE  /\ Len(handed) \in Nat /\ DOMAIN handed = 1..Len(handed)
         /\ TheResult.statements = [k \in 1..Len(handed) |-> k]
         /\ \A k \in 1..Len(handed) : handed[k] \in Live(memory)
<1>1. handed = result.statements BY DEF Outcome
<1>2. Tidy(memory, ToSet(handed)) /\ Distinct(handed) BY <1>1, DefinedIsTidy
<1>3. TheResult.statements = [k \in DOMAIN handed |-> Index(handed, handed[k])]
  BY <1>1 DEF TheResult
<1> QED BY <1>2, <1>3, ByPlace

LEMMA PlacesAre ==
  ASSUME NEW n \in Nat
  PROVE  Api!Elems([k \in 1..n |-> k]) = 1..n
<1> DEFINE s == [k \in 1..n |-> k]
<1>1. Len(s) = n OBVIOUS
<1>2. \A i \in 1..n : s[i] = i OBVIOUS
<1>3. Api!Elems(s) = {s[i] : i \in 1..Len(s)} BY DEF Api!Elems
<1> HIDE DEF s
<1>4. Api!Elems(s) = 1..n BY <1>1, <1>2, <1>3
<1> QED BY <1>4 DEF s

LEMMA ReturnDestroys ==
  ASSUME IInv, Outcome, Return, WithinBounds, memory.fault = "none", memory'.fault = "none"
  PROVE  Api!Next
<1> DEFINE n == Len(handed)
           o == TheResult
<1>1. /\ Parsed /\ pc' = "destroyed" /\ handed' = handed
      /\ memory' = DeleteEach(memory, result.statements)
      /\ result' = [result EXCEPT !.statements = <<>>]
  BY DEF Return, DestroyResult, Parsed
<1>2. /\ n \in Nat /\ DOMAIN handed = 1..n
      /\ o.statements = [k \in 1..n |-> k]
      /\ \A k \in 1..n : handed[k] \in Live(memory)
  BY <1>1, StatementsByPlace
<1>3. handed = result.statements /\ result'.error = result.error
  BY <1>1 DEF Outcome, IInv, ResultForm
<1>4. n <= MaxBatch BY DEF WithinBounds
<1>5. \A k \in 1..n : handed[k] \notin Live(memory')
  BY <1>1, <1>2, <1>3, MemoryIs, DeleteEachDeletes
<1>6. Api!Elems(o.statements) = 1..n BY <1>2, PlacesAre
<1>7. StatementStates' = Api!Deleted(StatementStates, Api!Elems(o.statements))
  <2>1. StatementStates = [k \in 1..MaxBatch |-> IF k \in 1..n THEN "live" ELSE "free"]
    BY <1>2 DEF StatementStates
  <2>2. StatementStates' = [k \in 1..MaxBatch |-> IF k \in 1..n THEN "deleted" ELSE "free"]
    BY <1>1, <1>2, <1>5 DEF StatementStates
  <2> QED BY <1>6, <2>1, <2>2 DEF Api!Deleted
<1>8. /\ o.errorMsg = IF result.error THEN "message" ELSE "null"
      /\ TheResults = [r \in {"result"} |-> o] /\ Constructed = {"result"}
  BY <1>1 DEF TheResult, TheResults, Constructed
<1>9. result.error = (pc = "aborted") BY <1>1 DEF Outcome, Parsed
<1>10. MessageStates' = Api!Deleted(MessageStates, {o.errorMsg})
  <2>1. MessageStates = [m \in {"message"} |-> IF result.error THEN "live" ELSE "free"]
    BY <1>9 DEF MessageStates
  <2>2. MessageStates' = [m \in {"message"} |-> IF result.error THEN "deleted" ELSE "free"]
    BY <1>1, <1>3 DEF MessageStates
  <2> QED BY <1>8, <2>1, <2>2 DEF Api!Deleted
<1>11. \A s \in Api!Elems(o.statements) : StatementStates[s] = "live"
  <2>1. ASSUME NEW k \in 1..n PROVE StatementStates[k] = "live"
    <3>1. k \in 1..MaxBatch BY <1>2, <1>4, MappingAssumption
    <3> QED BY <1>2, <3>1 DEF StatementStates
  <2> QED BY <1>6, <2>1
<1>12. o.errorMsg # "null" => MessageStates[o.errorMsg] = "live"
  BY <1>8, <1>9 DEF MessageStates
<1>13. TheResults' = [TheResults EXCEPT !["result"] = Api!Constructed(<<>>)]
  BY <1>1, <1>8 DEF TheResults, NewResult, Parsed, Api!Constructed
<1>14. Constructed' = Constructed \ {"result"} BY <1>1, <1>8 DEF Constructed, Parsed
<1>15. TheResults["result"] = o BY <1>8
<1> HIDE DEF o
<1>16. Api!Destroy("result")
  BY <1>7, <1>8, <1>10, <1>11, <1>12, <1>13, <1>14, <1>15 DEF Api!Destroy, Api!DeleteFrom
<1> QED BY <1>16 DEF Api!Next, Api!ResultStep

\* ParserResult has the library's Cardinality.
LEMMA SameCardinality == ASSUME NEW S PROVE Api!Cardinality(S) = Cardinality(S)
BY Zenon DEF Api!Cardinality, Cardinality

\* Parameters in their order, each with the place of its statement, are what a parse of
\* ParserResult can sort them to.
LEMMA PlacedAndSorted ==
  ASSUME NEW n \in 1..MaxBatch, NEW q \in 0..MaxParams, NEW home \in [1..q -> 1..n],
         \A i, j \in 1..q : i <= j => home[i] <= home[j],
         NEW ss, ss = [k \in 1..n |-> k]
  PROVE  /\ home \in Api!Placements(ss)
         /\ [k \in 1..q |-> <<home[k], k - 1>>] \in Api!Sortings(Api!BatchParams(ss, home))
<1> DEFINE sorted == [k \in 1..q |-> <<home[k], k - 1>>]
           S == {sorted[k] : k \in 1..q}
<1>1. n \in Nat /\ q \in Nat /\ Len(ss) = n /\ DOMAIN home = 1..q
  BY MappingAssumption
<1>2. home \in Api!Placements(ss)
  <2>1. home \in UNION {[1..k -> 1..Len(ss)] : k \in 0..MaxParams} BY <1>1
  <2>2. \A i, j \in DOMAIN home : i <= j => home[i] <= home[j] BY <1>1
  <2> QED BY <2>1, <2>2 DEF Api!Placements
<1>3. Api!BatchParams(ss, home) = S
  <2>1. \A i \in 1..q : ss[home[i]] = home[i] OBVIOUS
  <2>2. Api!BatchParams(ss, home) = {<<ss[home[i]], i - 1>> : i \in 1..q}
    BY <1>1 DEF Api!BatchParams
  <2> QED BY <2>1, <2>2
<1>4. \A i, j \in 1..q : sorted[i] = sorted[j] => i = j
  <2>1. \A i \in 1..q : sorted[i][2] = i - 1 OBVIOUS
  <2> HIDE DEF sorted
  <2> TAKE i, j \in 1..q
  <2> HAVE sorted[i] = sorted[j]
  <2>2. i - 1 = j - 1 BY <2>1
  <2> QED BY <2>2
<1>5. sorted \in [1..q -> S] /\ DOMAIN sorted = 1..q OBVIOUS
<1>6. Cardinality(S) = q
  <2>1. sorted \in Injection(1..q, S) BY <1>4, <1>5 DEF Injection, IsInjective
  <2>2. sorted \in Surjection(1..q, S) BY <1>5 DEF Surjection
  <2>3. IsFiniteSet(1..q) /\ Cardinality(1..q) = q BY <1>1, FS_Interval
  <2> HIDE DEF sorted, S
  <2> QED BY <2>1, <2>2, <2>3, FS_Surjection
<1>7. \A i, j \in 1..q : i < j => Api!Ival(sorted[i]) <= Api!Ival(sorted[j])
  <2>1. \A i \in 1..q : Api!Ival(sorted[i]) = i - 1 BY DEF Api!Ival
  <2> HIDE DEF sorted
  <2> QED BY <1>1, <2>1
<1>8. Api!Injective(sorted) BY <1>4, <1>5 DEF Api!Injective
<1> HIDE DEF sorted, S
<1>9. sorted \in Api!Sortings(S)
  <2>1. sorted \in [1..Api!Cardinality(S) -> S] BY <1>5, <1>6, SameCardinality
  <2>2. \A i, j \in DOMAIN sorted : i < j => Api!Ival(sorted[i]) <= Api!Ival(sorted[j])
    BY <1>5, <1>7
  <2> QED BY <1>8, <2>1, <2>2 DEF Api!Sortings
<1> QED BY <1>2, <1>3, <1>9 DEF sorted

\* The first statements there are, in order, can be a batch.
LEMMA BatchOfFresh ==
  ASSUME NEW n \in 1..MaxBatch, StatementStates = [k \in 1..MaxBatch |-> "free"],
         NEW ss, ss = [k \in 1..n |-> k]
  PROVE  ss \in Api!Batches
<1>1. Api!FreshStmts = 1..MaxBatch BY DEF Api!FreshStmts
<1>2. \A k \in 1..n : k \in 1..MaxBatch BY MappingAssumption
<1>3. ss \in [1..n -> Api!FreshStmts] BY <1>1, <1>2
<1>4. ss \in UNION {[1..k -> Api!FreshStmts] : k \in 1..MaxBatch} BY <1>3
<1>5. Api!Injective(ss) BY DEF Api!Injective
<1> QED BY <1>4, <1>5 DEF Api!Batches

\* A new result has no parameters, so what is added to them is all there are.
LEMMA NoParameters == Api!Elems(<<>>) = {} /\ ~Api!Stale(NewResult)
<1>1. Api!Elems(<<>>) = {} BY DEF Api!Elems
<1>2. NewResult.parameters = <<>> BY DEF NewResult
<1> QED BY <1>1, <1>2 DEF Api!Stale

\* The state in which a parse ends, in terms of ParserResult, with the statements ss, the places
\* home of the parameters, and these sorted.
EndsWith(ss, home, sorted) ==
  /\ ss \in Api!Batches /\ home \in Api!Placements(ss)
  /\ sorted \in Api!Sortings(Api!BatchParams(ss, home))
  /\ TheResult' = [statements |-> ss, isValid |-> result'.isValid,
                   errorMsg |-> IF result'.error THEN "message" ELSE "null",
                   errorPos |-> IF result'.error THEN "set" ELSE "uninitialised",
                   parameters |-> sorted]
  /\ StatementStates' = Api!Allocated(StatementStates, Api!Elems(ss))

LEMMA ParseHandsOver ==
  ASSUME handed = <<>>, IInv', Outcome', Parsed', ParametersPlaced', WithinBounds', handed' # <<>>
  PROVE  \E ss, home, sorted : EndsWith(ss, home, sorted)
<1> DEFINE m == memory'
           list == handed'
           ps == result'.parameters
           n == Len(list)
           q == Len(ps)
           ss == [k \in 1..n |-> k]
           home == [k \in 1..q |-> HomeOf(m, list, ps[k])]
           sorted == [k \in 1..q |-> <<home[k], k - 1>>]
<1>1. /\ list = result'.statements /\ ps \in Seq(Nat)
      /\ \A k \in 1..q : ps[k] \in Live(m) => m.heap[ps[k]].n = k - 1
  BY DEF Outcome
<1>2. Tidy(m, ToSet(list)) /\ Distinct(list)
  <2> DEFINE R == ValuesOf(yyss, Len(yyss)) \union yylval \union ToSet(result.statements)
  <2>1. (Tidy(memory, R) /\ Distinct(result.statements))' BY DEF IInv, Owners
  <2>2. ToSet(result.statements)' \subseteq R' OBVIOUS
  <2> HIDE DEF R
  <2>3. Tidy(memory', ToSet(result.statements)') BY <2>1, <2>2, Forget
  <2> QED BY <1>1, <2>1, <2>3
<1>3. /\ n \in Nat /\ DOMAIN list = 1..n
      /\ [k \in DOMAIN list |-> Index(list, list[k])] = ss
      /\ \A k \in 1..n : list[k] \in Live(m)
  <2> HIDE DEF m, list
  <2> QED BY <1>2, ByPlace
<1>4. q \in Nat /\ DOMAIN ps = 1..q BY <1>1
<1>5. /\ \A k \in 1..q : \E j \in DOMAIN list : ps[k] \in Reached(m, {list[j]})
      /\ \A j, k \in 1..q : j <= k => HomeOf(m, list, ps[j]) <= HomeOf(m, list, ps[k])
  BY <1>4 DEF ParametersPlaced
<1>6. n \in 1..MaxBatch /\ q \in 0..MaxParams
  <2>1. list \in Seq(Nat) /\ list # <<>> BY <1>2 DEF Distinct
  <2>2. n # 0
    <3> HIDE DEF list
    <3> QED BY <2>1
  <2>3. n <= MaxBatch /\ q <= MaxParams BY DEF WithinBounds
  <2> HIDE DEF n, q
  <2> QED BY <1>3, <1>4, <2>2, <2>3, MappingAssumption
<1> HIDE DEF m, list, ps, n, q
<1>7. home \in [1..q -> 1..n] /\ \A i, j \in 1..q : i <= j => home[i] <= home[j]
  <2>1. \A k \in 1..q : HomeOf(m, list, ps[k]) \in 1..n BY <1>3, <1>5, HomeIs
  <2> QED BY <1>5, <2>1
<1>8. \A k \in 1..q : m.heap[ps[k]].n = k - 1
  <2>1. IsMemory(m) BY <1>2 DEF Tidy
  <2>2. \A S : Reached(m, S) \subseteq Live(m) BY <2>1, ReachedIsLive
  <2> QED BY <1>1, <1>5, <2>2
<1>9. StatementStates = [k \in 1..MaxBatch |-> "free"] BY DEF StatementStates
<1>10. ss \in Api!Batches BY <1>6, <1>9, BatchOfFresh
<1>11. home \in Api!Placements(ss) /\ sorted \in Api!Sortings(Api!BatchParams(ss, home))
  <2> HIDE DEF home
  <2> QED BY <1>6, <1>7, PlacedAndSorted
<1>12. TheResult' = [statements |-> ss, isValid |-> result'.isValid,
                     errorMsg |-> IF result'.error THEN "message" ELSE "null",
                     errorPos |-> IF result'.error THEN "set" ELSE "uninitialised",
                     parameters |-> sorted]
  <2>1. TheResult' =
          [statements |-> [k \in DOMAIN list |-> Index(list, list[k])],
           isValid |-> result'.isValid,
           errorMsg |-> IF result'.error THEN "message" ELSE "null",
           errorPos |-> IF result'.error THEN "set" ELSE "uninitialised",
           parameters |-> [k \in DOMAIN ps |-> <<HomeOf(m, list, ps[k]), m.heap[ps[k]].n>>]]
    BY <1>1 DEF TheResult, m, list, ps
  <2>2. [k \in DOMAIN ps |-> <<HomeOf(m, list, ps[k]), m.heap[ps[k]].n>>] = sorted
    BY <1>4, <1>8
  <2> HIDE DEF ss, sorted
  <2> QED BY <1>3, <2>1, <2>2
<1>13. StatementStates' = Api!Allocated(StatementStates, Api!Elems(ss))
  <2>1. Api!Elems(ss) = 1..n BY <1>3, PlacesAre
  <2>2. StatementStates' = [k \in 1..MaxBatch |-> IF k \in 1..n THEN "live" ELSE "free"]
    BY <1>3 DEF StatementStates, m, list
  <2> HIDE DEF ss
  <2> QED BY <1>9, <2>1, <2>2 DEF Api!Allocated
<1> QED BY <1>10, <1>11, <1>12, <1>13 DEF EndsWith

\* The variables of ParserResult around the end of a parse.
LEMMA AroundTheEnd ==
  ASSUME pc = "parsing", Parsed', Outcome
  PROVE  /\ Constructed = {"result"} /\ Constructed' = {"result"}
         /\ TheResults = [r \in {"result"} |-> NewResult]
         /\ TheResults' = [r \in {"result"} |-> TheResult']
         /\ MessageStates = [m \in {"message"} |-> "free"]
         /\ handed = <<>>
<1>1. ~Parsed /\ handed = <<>> /\ result.error = FALSE BY DEF Parsed, Outcome
<1>2. Constructed = {"result"} /\ Constructed' = {"result"} BY DEF Constructed
<1>3. TheResults = [r \in {"result"} |-> NewResult] BY <1>1 DEF TheResults
<1>4. TheResults' = [r \in {"result"} |-> TheResult'] BY DEF TheResults
<1>5. MessageStates = [m \in {"message"} |-> "free"] BY <1>1 DEF MessageStates
<1> QED BY <1>1, <1>2, <1>3, <1>4, <1>5

\* A result by its members; the truth values are named where they are values of a member.
Record(ss, valid, message, position, parameters) ==
  [statements |-> ss, isValid |-> valid, errorMsg |-> message, errorPos |-> position,
   parameters |-> parameters]

Yes == TRUE
No == FALSE

Unset(ss, parameters) == Record(ss, No, "null", "uninitialised", parameters)
Rejected(ss, parameters) == Record(ss, No, "message", "set", parameters)
Accepted(ss, parameters) == Record(ss, Yes, "null", "uninitialised", parameters)

LEMMA NewIsUnset == NewResult = Unset(<<>>, <<>>)
BY Zenon DEF NewResult, Unset, Record, No

LEMMA Filled ==
  ASSUME NEW ss, <<>> \o ss = ss, NEW parameters
  PROVE  [Api!AddStatements(NewResult, ss) EXCEPT !.parameters = parameters]
           = Unset(ss, parameters)
<1>1. NewResult.statements = <<>> BY NewIsUnset DEF Unset, Record
<1>2. NewResult.statements \o ss = ss BY <1>1, Zenon
<1>3. Api!AddStatements(NewResult, ss) =
        [NewResult EXCEPT !.statements = NewResult.statements \o ss]
  BY Zenon DEF Api!AddStatements
<1>4. Api!AddStatements(NewResult, ss) = [NewResult EXCEPT !.statements = ss]
  BY <1>2, <1>3, Zenon
<1>5. Api!AddStatements(NewResult, ss) = Unset(ss, <<>>) BY <1>4, NewIsUnset DEF Unset, Record
<1> QED BY <1>5 DEF Unset, Record

LEMMA Validated ==
  ASSUME NEW ss, NEW parameters
  PROVE  Api!SetIsValid(Unset(ss, parameters), TRUE) = Accepted(ss, parameters)
<1>1. Api!SetIsValid(Unset(ss, parameters), Yes) = Accepted(ss, parameters)
  BY DEF Api!SetIsValid, Unset, Accepted, Record
<1> QED BY <1>1, Zenon DEF Yes

LEMMA Invalidated ==
  ASSUME NEW ss, NEW parameters
  PROVE  Api!SetIsValid(Api!SetErrorDetails(Unset(ss, parameters), "message"), FALSE)
           = Rejected(ss, parameters)
<1> DEFINE o == [Unset(ss, parameters) EXCEPT !.errorMsg = "message"]
           p == [o EXCEPT !.errorPos = "set"]
<1>1. o = Record(ss, No, "message", "uninitialised", parameters) BY DEF Unset, Record
<1>2. Api!SetErrorDetails(Unset(ss, parameters), "message") = p BY Zenon DEF Api!SetErrorDetails
<1> HIDE DEF o
<1>3. p = Rejected(ss, parameters) BY <1>1 DEF Rejected, Record
<1>4. Api!SetIsValid(Rejected(ss, parameters), No) = Rejected(ss, parameters)
  BY DEF Api!SetIsValid, Rejected, Record
<1> HIDE DEF p
<1> QED BY <1>2, <1>3, <1>4, Zenon DEF No

LEMMA AcceptedIsSuccess ==
  ASSUME pc = "parsing", pc' = "accepted", Outcome, Outcome', IInv', ParametersPlaced',
         WithinBounds', memory.fault = "none", memory'.fault = "none"
  PROVE  Api!Next
<1>1. Parsed' BY DEF Parsed
<1>2. handed' # <<>> BY <1>1 DEF ParametersPlaced
<1>3. /\ Constructed = {"result"} /\ Constructed' = Constructed
      /\ TheResults = [r \in {"result"} |-> NewResult]
      /\ TheResults' = [r \in {"result"} |-> TheResult']
      /\ MessageStates = [m \in {"message"} |-> "free"]
      /\ handed = <<>>
  BY <1>1, AroundTheEnd
<1>4. result'.isValid = TRUE /\ result'.error = FALSE BY DEF Outcome
<1>5. MessageStates' = MessageStates BY <1>3, <1>4 DEF MessageStates
<1>6. PICK ss, home, sorted : EndsWith(ss, home, sorted) BY <1>1, <1>2, <1>3, ParseHandsOver
<1>7. TheResult' = Accepted(ss, sorted) BY <1>4, <1>6, Zenon DEF EndsWith, Accepted, Record, Yes
<1>8. TheResults["result"] = NewResult BY <1>3
<1>9. Api!SetIsValid([Api!AddStatements(NewResult, ss) EXCEPT !.parameters = sorted], TRUE)
        = Accepted(ss, sorted)
  <2>1. <<>> \o ss = ss BY <1>6 DEF EndsWith, Api!Batches
  <2> QED BY <2>1, Filled, Validated
<1>10. TheResults' = [TheResults EXCEPT !["result"] =
         Api!SetIsValid([Api!AddStatements(@, ss) EXCEPT !.parameters = sorted], TRUE)]
  BY <1>3, <1>7, <1>9
<1>11. Api!Elems(TheResults["result"].parameters) \union Api!BatchParams(ss, home)
         = Api!BatchParams(ss, home)
  BY <1>8, NoParameters DEF NewResult
<1>12. ~Api!Stale(TheResults["result"]) BY <1>8, NoParameters
<1>13. Api!ParseSuccess("result")
  BY <1>3, <1>5, <1>6, <1>10, <1>11, <1>12 DEF EndsWith, Api!ParseSuccess, Api!Input
<1> QED BY <1>13 DEF Api!Next, Api!ResultStep

LEMMA RejectedIsError ==
  ASSUME pc = "parsing", pc' = "aborted", Outcome, Outcome', IInv', ParametersPlaced',
         WithinBounds', memory.fault = "none", memory'.fault = "none"
  PROVE  Api!Next
<1>1. Parsed' BY DEF Parsed
<1>2. /\ Constructed = {"result"} /\ Constructed' = Constructed
      /\ TheResults = [r \in {"result"} |-> NewResult]
      /\ TheResults' = [r \in {"result"} |-> TheResult']
      /\ MessageStates = [m \in {"message"} |-> "free"]
      /\ handed = <<>>
  BY <1>1, AroundTheEnd
<1>3. result'.isValid = FALSE /\ result'.error = TRUE BY DEF Outcome
<1>4. /\ MessageStates["message"] = "free"
      /\ MessageStates' = Api!Allocated(MessageStates, {"message"})
  BY <1>2, <1>3 DEF MessageStates, Api!Allocated
<1>5. TheResults["result"] = NewResult BY <1>2
<1>6. CASE handed' = <<>>
  <2>1. result'.statements = <<>> /\ result'.parameters = <<>>
    <3>1. result'.statements = <<>> /\ result'.parameters \in Seq(Nat)
      BY <1>1, <1>6 DEF Outcome
    <3> DEFINE ps == result'.parameters
    <3>2. \A k \in DOMAIN ps : FALSE BY <1>1, <1>6 DEF ParametersPlaced
    <3>3. ps \in Seq(Nat) BY <3>1
    <3> HIDE DEF ps
    <3>4. Len(ps) \in Nat /\ DOMAIN ps = 1..Len(ps) BY <3>3
    <3>5. Len(ps) = 0
      <4>1. Len(ps) # 0 => 1 \in 1..Len(ps) BY <3>4
      <4> QED BY <3>2, <3>4, <4>1
    <3>6. ps = <<>> BY <3>3, <3>5
    <3> QED BY <3>1, <3>6 DEF ps
  <2>2. TheResult' = Rejected(<<>>, <<>>)
    <3>1. TheResult' =
            [statements |-> [k \in DOMAIN result'.statements |->
                               Index(handed', result'.statements[k])],
             isValid |-> result'.isValid, errorMsg |-> "message", errorPos |-> "set",
             parameters |-> [k \in DOMAIN result'.parameters |->
                               <<HomeOf(memory', handed', result'.parameters[k]),
                                 memory'.heap[result'.parameters[k]].n>>]]
      BY <1>3, Zenon DEF TheResult
    <3>2. /\ [k \in DOMAIN result'.statements |-> Index(handed', result'.statements[k])] = <<>>
          /\ [k \in DOMAIN result'.parameters |->
                <<HomeOf(memory', handed', result'.parameters[k]),
                  memory'.heap[result'.parameters[k]].n>>] = <<>>
      BY <2>1
    <3> QED BY <1>3, <3>1, <3>2, Zenon DEF Rejected, Record, No
  <2>3. TheResults' = [TheResults EXCEPT !["result"] =
                         Api!SetIsValid(Api!SetErrorDetails(@, "message"), FALSE)]
    <3>1. Api!SetIsValid(Api!SetErrorDetails(NewResult, "message"), FALSE) = Rejected(<<>>, <<>>)
      BY NewIsUnset, Invalidated
    <3> QED BY <1>2, <2>2, <3>1
  <2>4. StatementStates' = StatementStates BY <1>2, <1>6 DEF StatementStates
  <2>5. Api!ParseError("result") BY <1>2, <1>4, <2>3, <2>4 DEF Api!ParseError
  <2> QED BY <2>5 DEF Api!Next, Api!ResultStep
<1>7. CASE handed' # <<>>
  <2>1. PICK ss, home, sorted : EndsWith(ss, home, sorted) BY <1>1, <1>2, <1>7, ParseHandsOver
  <2>2. TheResult' = Rejected(ss, sorted)
    BY <1>3, <2>1, Zenon DEF EndsWith, Rejected, Record, No
  <2> DEFINE o == [Api!AddStatements(NewResult, ss) EXCEPT !.parameters = sorted]
  <2>3. Api!SetIsValid(Api!SetErrorDetails(o, "message"), FALSE) = Rejected(ss, sorted)
    <3>1. <<>> \o ss = ss BY <2>1 DEF EndsWith, Api!Batches
    <3> QED BY <3>1, Filled, Invalidated
  <2>4. TheResults' = [TheResults EXCEPT !["result"] =
          Api!SetIsValid(Api!SetErrorDetails(
            [Api!AddStatements(@, ss) EXCEPT !.parameters = sorted], "message"), FALSE)]
    BY <1>2, <2>2, <2>3
  <2>5. Api!Elems(TheResults["result"].parameters) \union Api!BatchParams(ss, home)
          = Api!BatchParams(ss, home)
    BY <1>5, NoParameters DEF NewResult
  <2>6. ~Api!Stale(TheResults["result"]) BY <1>5, NoParameters
  <2>7. Api!ParseTrailingError("result")
    BY <1>2, <1>4, <2>1, <2>4, <2>5, <2>6 DEF EndsWith, Api!ParseTrailingError, Api!Input
  <2> QED BY <2>7 DEF Api!Next, Api!ResultStep
<1> QED BY <1>6, <1>7

\* Each step of the program is a step of ParserResult or none.
LEMMA NextRefines ==
  ASSUME Defined, Defined', Outcome, Outcome', [ProgramNext]_program,
         memory.fault = "none", memory'.fault = "none",
         WithinBounds, WithinBounds', ParametersPlaced'
  PROVE  Api!Next \/ UNCHANGED Api!vars
<1>1. pc' # "undefined" BY DEF Outcome
<1>2. IInv' BY <1>1 DEF Defined
<1>3. CASE ParseText /\ Call BY <1>3, CallConstructs
<1>4. CASE ParseText /\ Parse
  <2>1. pc = "parsing" BY <1>4 DEF Parse
  <2>2. IInv BY <2>1 DEF Defined
  <2>3. pc' \in {"parsing", "accepted", "aborted"}
    BY <1>1, <1>4, <2>1, <2>2, ParseEnds DEF GivenUp
  <2>4. CASE pc' = "parsing" BY <2>1, <2>4, ParseStutters
  <2>5. CASE pc' = "accepted" BY <1>2, <2>1, <2>5, AcceptedIsSuccess
  <2>6. CASE pc' = "aborted" BY <1>2, <2>1, <2>6, RejectedIsError
  <2> QED BY <2>3, <2>4, <2>5, <2>6
<1>5. CASE Enter
  <2>1. UNCHANGED <<result, handed, memory, pc>> BY <1>1, <1>5 DEF Enter
  <2> QED BY <2>1, SameMapping
<1>6. CASE Return
  <2>1. pc # "undefined" BY <1>6 DEF Return, DestroyResult
  <2>2. IInv BY <2>1 DEF Defined
  <2> QED BY <1>6, <2>2, ReturnDestroys
<1>7. CASE Exited \/ UNCHANGED program
  <2>1. UNCHANGED <<result, handed, memory, pc>> BY <1>7 DEF Exited, Finished, program, vars
  <2> QED BY <2>1, SameMapping
<1> QED BY <1>3, <1>4, <1>5, <1>6, <1>7 DEF ProgramNext, ParseText

\* A parse is one step of ParserResult, whatever reductions lead to its end: in every run in
\* which no step is undefined and the parameters are where ParametersPlaced says, and for
\* which the mapping has statements and parameters enough, the result is given all statements
\* of the text at once, in order, with the parameters numbered and sorted, whether the text is
\* accepted or has an error, and the destructor deletes them all (`input' of bison_parser.y,
\* SQLParser.cpp and SQLParserResult.cpp).
THEOREM ParseIsOneStep ==
  Program /\ [](PrintingIsDefined /\ WithinBounds /\ ParametersPlaced) => ImplementsParserResult
<1> DEFINE Fine == PrintingIsDefined /\ WithinBounds /\ ParametersPlaced
           KnownOutcome == Defined /\ Outcome
<1>1. ProgramInit => KnownOutcome /\ Api!Init BY InitDefined, InitOutcome, InitMaps
<1>2. KnownOutcome /\ [ProgramNext]_program => KnownOutcome'
  <2> SUFFICES ASSUME Defined, Outcome, [ProgramNext]_program PROVE Defined' /\ Outcome'
    OBVIOUS
  <2>1. Defined' BY ActionsAssumption, NextDefined
  <2> QED BY <2>1, NextOutcome
<1>3. KnownOutcome /\ KnownOutcome' /\ Fine /\ Fine' /\ [ProgramNext]_program
        => [Api!Next]_(Api!vars)
  <2> SUFFICES ASSUME KnownOutcome, KnownOutcome', Fine, Fine', [ProgramNext]_program
               PROVE  Api!Next \/ UNCHANGED Api!vars
    OBVIOUS
  <2> QED BY NextRefines DEF PrintingIsDefined
<1> QED BY <1>1, <1>2, <1>3, PTL DEF Program, ImplementsParserResult, Api!Spec
=============================================================================
