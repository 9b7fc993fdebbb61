---------------------------- MODULE QuotesProofs ----------------------------
(***************************************************************************)
(* What an order costs, and how far requests at once exceed the limit on   *)
(* measurement profiles, for any number of requests, items and edits and   *)
(* any catalogue.                                                          *)
(***************************************************************************)
EXTENDS Quotes, FiniteSetTheorems, SequenceTheorems, WellFoundedInduction, TLAPS

-----------------------------------------------------------------------------
(* The profiles *)

\* The requests that counted and have yet to insert.
Counted == {r \in Request : req[r].at = "addProfile"}

Slots == /\ req = [r \in Request |-> req[r]]
         /\ \A r \in Request : "at" \in DOMAIN req[r]

ProfileInv == /\ Slots
              /\ profiles \in Nat
              /\ profiles + Cardinality(Counted) <= 1 + Cardinality(Request)

LEMMA CountedFinite ==
    IsFiniteSet(Counted) /\ Cardinality(Counted) \in Nat /\ Cardinality(Request) \in Nat
    /\ Cardinality(Counted) <= Cardinality(Request)
<1>1. Counted \subseteq Request BY DEF Counted
<1> QED BY <1>1, RequestAssumption, FS_Subset, FS_CardinalityType

\* A request goes somewhere else than to the insertion, the others stay.
LEMMA GoesElsewhere ==
    ASSUME Slots, NEW r \in Request, NEW q, "at" \in DOMAIN q, q.at # "addProfile",
           Goto(r, q) \/ Disturb(r, q)
    PROVE  Slots' /\ Counted' \subseteq Counted
<1>1. ASSUME NEW s \in Request
      PROVE  /\ "at" \in DOMAIN req'[s]
             /\ req'[s].at = "addProfile" => req[s].at = "addProfile"
  <2>1. CASE s = r BY <2>1 DEF Goto, Disturb, Slots
  <2>2. CASE s # r /\ Goto(r, q) BY <2>2 DEF Goto, Slots
  <2>3. CASE s # r /\ Disturb(r, q) BY <2>3 DEF Disturb, Slots
  <2> QED BY <2>1, <2>2, <2>3
<1>2. req' = [s \in Request |-> req'[s]] BY DEF Goto, Disturb, Slots
<1> QED BY <1>1, <1>2 DEF Slots, Counted

LEMMA NoneCounts ==
    ASSUME ProfileInv, Slots', Counted' \subseteq Counted, UNCHANGED profiles
    PROVE  ProfileInv'
<1>1. Cardinality(Counted') <= Cardinality(Counted) /\ Cardinality(Counted') \in Nat
  BY CountedFinite, FS_Subset, FS_CardinalityType
<1> QED BY <1>1, CountedFinite DEF ProfileInv

LEMMA ProfileStep == ProfileInv /\ [Next]_vars => ProfileInv'
<1> SUFFICES ASSUME ProfileInv, [Next]_vars PROVE ProfileInv' OBVIOUS
<1>0. Slots /\ "at" \in DOMAIN Idle /\ Idle.at # "addProfile" BY DEF ProfileInv, Idle
<1>1. ASSUME NEW r \in Request, BeginCreate(r) PROVE ProfileInv'
  <2>1. PICK q : "at" \in DOMAIN q /\ q.at # "addProfile" /\ Goto(r, q)
    BY <1>1 DEF BeginCreate, Idle
  <2> QED BY <1>0, <1>1, <2>1, GoesElsewhere, NoneCounts DEF BeginCreate
<1>2. ASSUME NEW r \in Request, BeginRead(r) PROVE ProfileInv'
  <2>1. PICK q : "at" \in DOMAIN q /\ q.at # "addProfile" /\ Goto(r, q)
    BY <1>2 DEF BeginRead, Idle
  <2> QED BY <1>0, <1>2, <2>1, GoesElsewhere, NoneCounts DEF BeginRead
<1>3. ASSUME NEW q, "at" \in DOMAIN q, NEW l
      PROVE  "at" \in DOMAIN Advance(q, l) /\ Advance(q, l).at # "addProfile"
  BY <1>3 DEF Advance
<1>4. ASSUME NEW r \in Request, ReadProduct(r) PROVE ProfileInv'
  <2>1. "at" \in DOMAIN req[r] BY <1>0 DEF Slots
  <2>2. PICK q : "at" \in DOMAIN q /\ q.at # "addProfile" /\ Goto(r, q)
    BY <1>0, <1>3, <1>4, <2>1 DEF ReadProduct
  <2> QED BY <1>0, <1>4, <2>2, GoesElsewhere, NoneCounts DEF ReadProduct
<1>5. ASSUME NEW r \in Request, ReadFabric(r) PROVE ProfileInv'
  <2>1. "at" \in DOMAIN req[r] BY <1>0 DEF Slots
  <2>2. PICK q : "at" \in DOMAIN q /\ q.at # "addProfile" /\ Goto(r, q)
    BY <1>0, <1>3, <1>5, <2>1 DEF ReadFabric
  <2> QED BY <1>0, <1>5, <2>2, GoesElsewhere, NoneCounts DEF ReadFabric
<1>6. ASSUME NEW r \in Request, StoreNew(r) \/ StoreRead(r) PROVE ProfileInv'
  <2>1. "at" \in DOMAIN req[r] BY <1>0 DEF Slots
  <2>2. PICK q : /\ "at" \in DOMAIN q /\ q.at # "addProfile"
                 /\ Goto(r, q) \/ Disturb(r, q)
    BY <1>0, <1>6, <2>1 DEF StoreNew, StoreRead
  <2> QED BY <1>0, <1>6, <2>2, GoesElsewhere, NoneCounts DEF StoreNew, StoreRead
<1>7. ASSUME NEW r \in Request, Leave(r) PROVE ProfileInv'
  BY <1>0, <1>7, GoesElsewhere, NoneCounts DEF Leave
<1>8. ASSUME NEW r \in Request, CountProfiles(r) PROVE ProfileInv'
  <2> DEFINE q == [Idle EXCEPT !.at = "addProfile"]
  <2>1. "at" \in DOMAIN q BY DEF Idle
  <2>2. Slots' BY <1>0, <1>8, <2>1 DEF CountProfiles, Goto, Slots
  <2>3. Cardinality(Counted)' \in Nat /\ Cardinality(Counted)' <= Cardinality(Request)
    <3>1. Counted' \subseteq Request BY DEF Counted
    <3> QED BY <3>1, RequestAssumption, FS_Subset, FS_CardinalityType
  <2>4. profiles' = profiles /\ profiles < 2 BY <1>8 DEF CountProfiles
  <2> QED BY <2>2, <2>3, <2>4, CountedFinite DEF ProfileInv
<1>9. ASSUME NEW r \in Request, AddProfile(r) PROVE ProfileInv'
  <2>1. Slots' /\ Counted' = Counted \ {r} /\ r \in Counted
    BY <1>0, <1>9 DEF AddProfile, Goto, Slots, Counted
  <2>2. Cardinality(Counted') = Cardinality(Counted) - 1
    BY <2>1, CountedFinite, FS_RemoveElement
  <2> QED BY <1>9, <2>1, <2>2, CountedFinite DEF AddProfile, ProfileInv
<1>10. CASE Edit
  <2>1. req' = [r \in Request |-> [req[r] EXCEPT !.quiet = @ /\ req[r].at = "idle"]]
    BY <1>10 DEF Edit
  <2>2. Slots' /\ Counted' = Counted BY <1>0, <2>1 DEF Slots, Counted
  <2> QED BY <1>10, <2>2, NoneCounts DEF Edit
<1>11. CASE UNCHANGED vars
  BY <1>0, <1>11, NoneCounts DEF vars, Slots, Counted
<1> QED BY <1>1, <1>2, <1>4, <1>5, <1>6, <1>7, <1>8, <1>9, <1>10, <1>11 DEF Next

\* A customer has at most one profile more than there are requests at once: whoever
\* inserts has counted while there were fewer than two.
THEOREM ProfilesBounded == Spec => []ProfilesAreBounded
<1>1. Init => ProfileInv
  <2> SUFFICES ASSUME Init PROVE ProfileInv OBVIOUS
  <2>1. Counted = {} BY DEF Init, Counted, Idle
  <2>2. Slots BY DEF Init, Slots, Idle
  <2> QED BY <2>1, <2>2, CountedFinite, FS_EmptySet DEF Init, ProfileInv
<1>2. ProfileInv => ProfilesAreBounded BY CountedFinite DEF ProfileInv, ProfilesAreBounded
<1> QED BY <1>1, <1>2, ProfileStep, PTL DEF Spec

-----------------------------------------------------------------------------
(* The cloth of an item *)

LEMMA MaxOfTwo ==
    ASSUME NEW a \in Int, NEW b \in Int
    PROVE  Max({a, b}) = IF a >= b THEN a ELSE b
BY DEF Max

LEMMA LengthNat ==
    ASSUME NEW b \in Measures
    PROVE  TotalLength(b) \in Nat
<1>1. /\ b.length \in Nat /\ b.shoulder \in Nat BY DEF Measures
<1>2. NumLengths(b) \in {1, 2} BY DEF NumLengths
<1> QED BY <1>1, <1>2 DEF TotalLength

\* What Math.round leaves out or adds is half a hundredth of a yard at most.
LEMMA YardsFit ==
    ASSUME NEW b \in Measures
    PROVE  LET need == Max({200 * 18288, IF Complete(b) THEN 1000 * TotalLength(b) ELSE 0})
           IN  /\ need \in Nat /\ Yards(b) \in Nat
               /\ Yards(b) * 18288 >= need - 9144
               /\ Yards(b) * 18288 <= need + 9144
<1> DEFINE d == 1000 * TotalLength(b)
           y == (d + 9144) \div 18288
<1>1. TotalLength(b) \in Nat /\ d \in Nat BY LengthNat
<1>2. y \in Nat /\ 18288 * y <= d + 9144 /\ d + 9144 < 18288 * y + 18288 BY <1>1
<1>3. CASE Complete(b)
  <2>1. Yards(b) = IF 200 >= y THEN 200 ELSE y BY <1>2, <1>3, MaxOfTwo DEF Yards
  <2>2. Max({200 * 18288, d}) = IF 200 * 18288 >= d THEN 200 * 18288 ELSE d
    BY <1>1, MaxOfTwo
  <2> HIDE DEF d, y
  <2> QED BY <1>1, <1>2, <1>3, <2>1, <2>2 DEF d
<1>4. CASE ~Complete(b)
  <2>1. Yards(b) = 200 BY <1>4 DEF Yards
  <2>2. Max({200 * 18288, 0}) = 200 * 18288 BY MaxOfTwo
  <2> QED BY <1>4, <2>1, <2>2
<1> QED BY <1>3, <1>4

\* Math.ceil of a quotient.
LEMMA CeilFits ==
    ASSUME NEW y \in Nat, NEW u \in Nat, u > 0
    PROVE  LET n == (y + u - 1) \div u
           IN  n \in Nat /\ n * u >= y /\ (n - 1) * u < y
OBVIOUS

LEMMA UnitsFit ==
    ASSUME NEW b \in Measures, NEW u \in Nat, u > 0
    PROVE  LET need == Max({200 * 18288, IF Complete(b) THEN 1000 * TotalLength(b) ELSE 0})
           IN  /\ Units(b, u) \in Nat
               /\ Units(b, u) * u * 18288 >= need - 9144
               /\ (Units(b, u) - 1) * u * 18288 < need + 9144
<1> DEFINE need == Max({200 * 18288, IF Complete(b) THEN 1000 * TotalLength(b) ELSE 0})
           n == Units(b, u)
<1>1. /\ need \in Nat /\ Yards(b) \in Nat
      /\ Yards(b) * 18288 >= need - 9144 /\ Yards(b) * 18288 <= need + 9144
  BY YardsFit
<1>2. n \in Nat /\ n * u >= Yards(b) /\ (n - 1) * u < Yards(b) BY <1>1, CeilFits DEF Units
<1> HIDE DEF need, n
<1>3. n * u \in Int /\ (n - 1) * u \in Int BY <1>2
<1>4. n * u * 18288 >= need - 9144 BY <1>1, <1>2, <1>3
<1>5. (n - 1) * u * 18288 < need + 9144 BY <1>1, <1>2, <1>3
<1> QED BY <1>2, <1>4, <1>5 DEF need, n

-----------------------------------------------------------------------------
(* The sum of the lines *)

\* One step of the fold that GrandTotal is made of.
Step(lines, base, g, s) ==
  IF s = {} THEN base
  ELSE LET i == CHOOSE i \in s : TRUE IN lines[i].total + g[s \ {i}]

Sum(lines, base) == FoldSeq(LAMBDA l, n : l.total + n, base, lines)

LEMMA LeastNat ==
    ASSUME NEW T, T \subseteq Nat, T # {}
    PROVE  \E n \in T : \A m \in T : n <= m
<1>1. PICK n \in T : \A m \in T : ~(<<m, n>> \in OpToRel(<, Nat))
  BY NatLessThanWellFounded, WFMin
<1>2. \A m \in T : ~(m < n) BY <1>1 DEF OpToRel
<1> QED BY <1>2

LEMMA SmallerSet ==
    ASSUME NEW s, IsFiniteSet(s), s # {}
    PROVE  /\ (CHOOSE i \in s : TRUE) \in s
           /\ Cardinality(s) \in Nat
           /\ Cardinality(s \ {CHOOSE i \in s : TRUE}) = Cardinality(s) - 1
<1>1. (CHOOSE i \in s : TRUE) \in s OBVIOUS
<1> QED BY <1>1, FS_RemoveElement, FS_CardinalityType

LEMMA IterExists ==
    ASSUME NEW lines, NEW base, IsFiniteSet(DOMAIN lines)
    PROVE  \E g : g = [s \in SUBSET DOMAIN lines |-> Step(lines, base, g, s)]
<1> DEFINE D == DOMAIN lines
           Small(n) == {s \in SUBSET D : Cardinality(s) <= n}
           Done(n) == \E g : g = [s \in Small(n) |-> Step(lines, base, g, s)]
           Bad == {n \in Nat : ~Done(n)}
<1>1. \A s \in SUBSET D : IsFiniteSet(s) /\ Cardinality(s) \in Nat
                          /\ (Cardinality(s) = 0 <=> s = {})
  BY FS_Subset, FS_CardinalityType, FS_EmptySet
<1>2. Bad = {}
  <2> SUFFICES ASSUME Bad # {} PROVE FALSE OBVIOUS
  <2>1. PICK n \in Bad : \A m \in Bad : n <= m
    <3>1. Bad \subseteq Nat OBVIOUS
    <3> HIDE DEF Bad
    <3> QED BY <3>1, LeastNat
  <2>2. CASE n = 0
    <3> DEFINE g == [s \in Small(n) |-> base]
    <3>1. \A s \in Small(n) : s = {} BY <1>1, <2>2
    <3>2. g = [s \in Small(n) |-> Step(lines, base, g, s)] BY <3>1, Zenon DEF Step
    <3> QED BY <2>1, <3>2
  <2>3. CASE n # 0
    <3>1. n - 1 \in Nat /\ n - 1 \notin Bad
      <4>1. n \in Nat BY <2>1
      <4> HIDE DEF Bad
      <4> QED BY <2>1, <2>3, <4>1
    <3>2. PICK g : g = [s \in Small(n-1) |-> Step(lines, base, g, s)] BY <3>1
    <3> DEFINE h == [s \in Small(n) |-> Step(lines, base, g, s)]
    <3>3. \A s \in Small(n-1) : s \in Small(n) /\ h[s] = g[s]
      <4>1. \A s \in Small(n-1) : s \in Small(n) BY <1>1, <2>1
      <4>2. \A s \in Small(n-1) : g[s] = Step(lines, base, g, s) BY <3>2
      <4> QED BY <4>1, <4>2
    <3>4. ASSUME NEW s \in Small(n) PROVE Step(lines, base, g, s) = Step(lines, base, h, s)
      <4>1. CASE s = {} BY <4>1, Zenon DEF Step
      <4>2. CASE s # {}
        <5>1. s \ {CHOOSE i \in s : TRUE} \in Small(n-1)
          BY <1>1, <2>1, <4>2, SmallerSet
        <5>2. g[s \ {CHOOSE i \in s : TRUE}] = h[s \ {CHOOSE i \in s : TRUE}]
          BY <3>3, <5>1
        <5> HIDE DEF h, Small
        <5> QED BY <5>2, Zenon DEF Step
      <4> QED BY <4>1, <4>2
    <3>5. h = [s \in Small(n) |-> Step(lines, base, h, s)] BY <3>4
    <3> QED BY <2>1, <3>5
  <2> QED BY <2>2, <2>3
<1>3. Cardinality(D) \in Nat /\ \A s \in SUBSET D : Cardinality(s) <= Cardinality(D)
  BY FS_Subset, FS_CardinalityType
<1>4. Small(Cardinality(D)) = SUBSET D BY <1>3
<1>5. Done(Cardinality(D)) BY <1>2, <1>3
<1> QED BY <1>4, <1>5

LEMMA SumNat ==
    ASSUME NEW lines, NEW base, IsFiniteSet(DOMAIN lines), base \in Nat,
           \A i \in DOMAIN lines : lines[i].total \in Nat
    PROVE  Sum(lines, base) \in Nat
<1> DEFINE D == DOMAIN lines
           Iter(g) == g = [s \in SUBSET D |-> Step(lines, base, g, s)]
           g == CHOOSE g : Iter(g)
           Bad == {s \in SUBSET D : g[s] \notin Nat}
           Sizes == {Cardinality(s) : s \in Bad}
<1>1. Sum(lines, base) = g[D]
  BY Zenon DEF Sum, FoldSeq, FoldFunction, FoldFunctionOnSet, MapThenFoldSet, Step
<1>2. Iter(g)
  <2>1. \E h : Iter(h) BY IterExists
  <2> HIDE DEF Iter
  <2> QED BY <2>1
<1>3. \A s \in SUBSET D : g[s] = Step(lines, base, g, s)
  <2> HIDE DEF g
  <2> QED BY <1>2
<1> HIDE DEF g
<1>4. Bad = {}
  <2> SUFFICES ASSUME Bad # {} PROVE FALSE OBVIOUS
  <2>1. \A s \in SUBSET D : IsFiniteSet(s) /\ Cardinality(s) \in Nat
    BY FS_Subset, FS_CardinalityType
  <2>2. Sizes \subseteq Nat /\ Sizes # {} BY <2>1
  <2>3. PICK n \in Sizes : \A m \in Sizes : n <= m BY <2>2, LeastNat
  <2>4. PICK s \in Bad : Cardinality(s) = n BY <2>3
  <2>5. s # {} BY <1>3, <2>4, Zenon DEF Step
  <2> DEFINE i == CHOOSE i \in s : TRUE
  <2>6. i \in s /\ Cardinality(s \ {i}) = Cardinality(s) - 1 BY <2>1, <2>4, <2>5, SmallerSet
  <2>7. g[s] = lines[i].total + g[s \ {i}] BY <1>3, <2>4, <2>5, Zenon DEF Step
  <2> HIDE DEF i
  <2>8. Cardinality(s \ {i}) \notin Sizes BY <2>1, <2>3, <2>4, <2>6
  <2>9. s \ {i} \in SUBSET D /\ i \in D BY <2>4, <2>6
  <2>10. g[s \ {i}] \in Nat BY <2>8, <2>9
  <2>11. g[s] \in Nat BY <2>7, <2>9, <2>10
  <2> QED BY <2>4, <2>11
<1> QED BY <1>1, <1>4

LEMMA GrandTotalNat ==
    ASSUME NEW lines, IsFiniteSet(DOMAIN lines),
           \A i \in DOMAIN lines : lines[i].total \in Nat,
           NEW delivery \in DOMAIN DeliveryFee, NEW promo
    PROVE  GrandTotal(lines, delivery, promo) \in Nat
<1> DEFINE sum == Sum(lines, DeliveryFee[delivery])
<1>1. DeliveryFee[delivery] \in Nat BY DEF DeliveryFee, Naira
<1>2. sum \in Nat BY <1>1, SumNat
<1>3. GrandTotal(lines, delivery, promo) = IF promo THEN sum - sum \div 10 ELSE sum
  BY Zenon DEF GrandTotal, Sum
<1> HIDE DEF sum
<1> QED BY <1>2, <1>3

-----------------------------------------------------------------------------
(* The order *)

\* A line with prices of the catalogue, at any moment and not all at the same.
LineOK(l) ==
  /\ l \in Line
  /\ l.ypu > 0 /\ l.qty = Units(l.body, l.ypu) /\ l.cloth = l.perUnit * l.qty
  /\ ~DashInName => l.colour = l.chosen

Priced(l) == LineOK(l) /\ l.total = ItemTotal(l)

OrderOK(o) ==
  /\ o \in Order /\ o.lines # <<>>
  /\ \A i \in DOMAIN o.lines : Priced(o.lines[i])
  /\ o.total = GrandTotal(o.lines, o.delivery, o.promo)

\* A request between the first read of the catalogue and the last.
Busy(q) == q.at \in {"product", "fabric", "store"}

LinesOK(q) ==
  /\ \A i \in DOMAIN q.todo : LineOK(q.todo[i])
  /\ \A i \in DOMAIN q.done : Priced(q.done[i])
  /\ q.at \in {"product", "fabric"} => q.todo # <<>>
  /\ q.at = "fabric" => q.todo[1].chosen # None /\ q.doc \in ProductDoc \cup {Gone}
  /\ q.at = "store" => q.done # <<>>

\* What a read of the order goes by is an order that was there.
WasOK(q) ==
  Busy(q) /\ ~q.make =>
    OrderOK(q.was) /\ q.delivery = q.was.delivery /\ q.promo = q.was.promo

\* The line has the prices the catalogue gives it now.
Current(l) ==
  LET doc == product[l.product]  prop == fabric[Find(l.chosen)]
  IN  /\ doc # Gone => l.base = doc.base
      /\ doc # Gone /\ l.styled /\ doc.style # Gone => l.style = doc.style
      /\ l.chosen # None => l.perUnit = prop.price /\ l.ypu = prop.ypu

\* What a request that nothing disturbed has done is still so.
QuietOK(q) ==
  ~DashInName /\ q.quiet =>
    /\ Busy(q) => \A i \in DOMAIN q.done : Current(q.done[i])
    /\ q.at = "fabric" => q.doc = product[q.todo[1].product]
    /\ Busy(q) /\ ~q.make => order = q.was
    /\ q.at = "answered" =>
         OrderOK(order) /\ \A i \in DOMAIN order.lines : Current(order.lines[i])

RequestType ==
  [at : {"idle", "product", "fabric", "store", "answered", "addProfile"},
   make : BOOLEAN, todo : Seq(Line), done : Seq(Line), doc : ProductDoc \cup {None, Gone},
   was : Order \cup {None}, delivery : DOMAIN DeliveryFee, promo : BOOLEAN,
   shown : Nat \cup {None}, quiet : BOOLEAN]

RequestOK(q) == LinesOK(q) /\ WasOK(q) /\ QuietOK(q)

IndInv ==
  /\ TypeOK
  /\ order # None => OrderOK(order)
  /\ \A r \in Request : RequestOK(req[r])

ItemType == [product : Product, chosen : Colour \cup {None}, styled : BOOLEAN, body : Body]

LEMMA CartItem ==
    ASSUME NEW cart \in Cart, NEW i \in DOMAIN cart
    PROVE  cart[i] \in [product : Product, chosen : Colour \cup {None}, styled : BOOLEAN,
                        body : Measures]
<1> DEFINE R == [product : Product, chosen : Colour \cup {None}, styled : BOOLEAN,
                 body : Measures]
<1>1. cart \in Seq(R) BY CartAssumption
<1> HIDE DEF R
<1>2. cart[i] \in R BY <1>1
<1> QED BY <1>2 DEF R

LEMMA BodyMeasured == Body \subseteq Measures
<1> SUFFICES ASSUME NEW b \in Body PROVE b \in Measures OBVIOUS
<1>1. PICK c \in Cart : \E i \in DOMAIN c : b = c[i].body BY DEF Body, Item
<1>2. PICK i \in DOMAIN c : b = c[i].body BY <1>1
<1> QED BY <1>2, CartItem

LEMMA ItemTyped ==
    ASSUME NEW cart \in Cart, NEW i \in DOMAIN cart
    PROVE  cart[i] \in ItemType
<1>1. cart[i].body \in Body BY DEF Body, Item
<1> QED BY <1>1, CartItem DEF ItemType

LEMMA UnitsNat ==
    ASSUME NEW b \in Body, NEW u \in Nat, u > 0
    PROVE  Units(b, u) \in Nat
<1> DEFINE y == (1000 * TotalLength(b) + 9144) \div 18288
<1>1. b \in Measures BY BodyMeasured
<1>2. TotalLength(b) \in Nat BY <1>1, LengthNat
<1>3. y \in Nat BY <1>2
<1>4. Max({200, y}) \in Nat BY <1>3, MaxOfTwo
<1>5. Yards(b) \in Nat BY <1>4 DEF Yards
<1> QED BY <1>5, CeilFits DEF Units

LEMMA NewLineOK ==
    ASSUME NEW i \in ItemType
    PROVE  LineOK(NewLine(i))
<1>1. i.body \in Body /\ i.product \in Product /\ i.chosen \in Colour \cup {None}
      /\ i.styled \in BOOLEAN
  BY DEF ItemType
<1>2. Units(i.body, 100) \in Nat BY <1>1, UnitsNat
<1>3. NewLine(i) \in Line BY <1>1, <1>2 DEF Line, NewLine
<1> QED BY <1>2, <1>3 DEF LineOK, NewLine

CatalogueOK ==
  /\ product \in [Product -> ProductDoc \cup {Gone}]
  /\ fabric \in [Colour -> [price : Price, ypu : PerUnit] \cup {Gone}]
  /\ fabric[First] # Gone

\* The fields a price is looked up by.
SameItem(l, m) ==
  /\ l.product = m.product /\ l.chosen = m.chosen /\ l.styled = m.styled
  /\ l.body = m.body /\ l.colour = m.colour

LEMMA ProductGiven ==
    ASSUME NEW l, LineOK(l), NEW doc \in ProductDoc \cup {Gone}
    PROVE  LET m == WithProduct(l, doc)
           IN  /\ LineOK(m) /\ SameItem(m, l) /\ m.perUnit = l.perUnit /\ m.ypu = l.ypu
               /\ doc # Gone => m.base = doc.base
               /\ doc # Gone /\ m.styled /\ doc.style # Gone => m.style = doc.style
<1> DEFINE m == WithProduct(l, doc)
<1>1. CASE doc = Gone BY <1>1 DEF WithProduct, SameItem
<1>2. CASE doc # Gone
  <2>1. doc \in ProductDoc BY <1>2
  <2>2. doc.base \in Price /\ doc.style \in Price \cup {Gone} BY <2>1 DEF ProductDoc
  <2>3. doc.base \in Nat /\ (doc.style # Gone => doc.style \in Nat)
    BY <2>2, PriceAssumption
  <2> DEFINE s == IF l.styled /\ doc.style # Gone THEN doc.style ELSE l.style
  <2>4. s \in Nat BY <2>3 DEF LineOK, Line
  <2>5. m = [l EXCEPT !.base = doc.base, !.style = s] BY <1>2, Zenon DEF WithProduct
  <2> HIDE DEF s, m
  <2>6. l \in Line /\ doc.base \in Nat BY <2>3 DEF LineOK
  <2>7. /\ m \in Line /\ m.base = doc.base /\ m.style = s /\ m.product = l.product
        /\ m.chosen = l.chosen /\ m.styled = l.styled /\ m.body = l.body
        /\ m.colour = l.colour /\ m.perUnit = l.perUnit /\ m.ypu = l.ypu
        /\ m.qty = l.qty /\ m.cloth = l.cloth
    BY <2>4, <2>5, <2>6 DEF Line
  <2>8. LineOK(m) BY <2>3, <2>4, <2>7 DEF LineOK
  <2>9. SameItem(m, l) BY <2>7 DEF SameItem
  <2>10. m.styled /\ doc.style # Gone => m.style = doc.style BY <2>7 DEF s
  <2> QED BY <1>2, <2>7, <2>8, <2>9, <2>10 DEF m
<1> QED BY <1>1, <1>2

LEMMA Found ==
    ASSUME CatalogueOK, NEW c
    PROVE  LET f == Find(c)
           IN  /\ f \in Colour /\ fabric[f] # Gone /\ Find(f) = f
               /\ fabric[f].price \in Nat
               /\ fabric[f].ypu \in Nat /\ fabric[f].ypu > 0
<1> DEFINE f == Find(c)
<1>1. f \in Colour /\ fabric[f] # Gone BY FabricAssumption DEF Find, CatalogueOK
<1>2. Find(f) = f BY <1>1 DEF Find
<1> HIDE DEF f
<1>3. fabric[f] \in [price : Price, ypu : PerUnit] BY <1>1 DEF CatalogueOK
<1>4. fabric[f].price \in Price /\ fabric[f].ypu \in PerUnit BY <1>3
<1>5. fabric[f].price \in Nat /\ fabric[f].ypu \in Nat /\ fabric[f].ypu > 0
  BY <1>4, PriceAssumption, FabricAssumption
<1> QED BY <1>1, <1>2, <1>5 DEF f

LEMMA ColourGiven ==
    ASSUME CatalogueOK, NEW l, LineOK(l), NEW x
    PROVE  LET m == WithColour(l, Find(x))
           IN  /\ LineOK(m) /\ SameItem(m, l) /\ m.base = l.base /\ m.style = l.style
               /\ m.perUnit = fabric[Find(x)].price /\ m.ypu = fabric[Find(x)].ypu
<1> DEFINE m == WithColour(l, Find(x))
           p == fabric[Find(x)].price
           u == fabric[Find(x)].ypu
<1>1. p \in Nat /\ u \in Nat /\ u > 0 BY Found
<1>2. m = [l EXCEPT !.perUnit = p, !.ypu = u, !.qty = Units(l.body, u),
                    !.cloth = p * Units(l.body, u)]
  BY DEF WithColour, ClothPrice
<1> HIDE DEF m, p, u
<1>3. l \in Line /\ l.body \in Body BY DEF LineOK, Line
<1>0. Units(l.body, u) \in Nat /\ p * Units(l.body, u) \in Nat BY <1>1, <1>3, UnitsNat
<1>4. /\ m \in Line /\ m.perUnit = p /\ m.ypu = u /\ m.qty = Units(l.body, u)
      /\ m.cloth = p * m.qty /\ m.body = l.body /\ m.base = l.base /\ m.style = l.style
      /\ m.chosen = l.chosen /\ m.colour = l.colour /\ m.styled = l.styled
      /\ m.product = l.product
  BY <1>0, <1>1, <1>2, <1>3 DEF Line
<1>5. LineOK(m) BY <1>1, <1>4 DEF LineOK
<1> QED BY <1>4, <1>5 DEF SameItem, m, p, u

\* computeOrderTotal is within half a kobo of the sum of the parts.
LEMMA TotalRounds ==
    ASSUME NEW l \in Line
    PROVE  /\ ItemTotal(l) \in Nat /\ ItemTotal(l) % 10 = 0
           /\ ItemTotal(l) - (l.base + l.style + l.cloth) \in -4 .. 5
<1> DEFINE t == l.base + l.style + l.cloth
           n == (t + 5) \div 10
<1>1. l.base \in Nat /\ l.style \in Nat /\ l.cloth \in Nat BY DEF Line
<1>2. t \in Nat BY <1>1
<1>3. l.base + l.cloth + l.style + 5 = t + 5 BY <1>1
<1>4. ItemTotal(l) = n * 10 BY <1>3, Zenon DEF ItemTotal
<1>5. n \in Nat /\ n * 10 <= t + 5 /\ t + 5 < n * 10 + 10
  <2> HIDE DEF t
  <2> QED BY <1>2
<1> HIDE DEF n
<1>6. (n * 10) % 10 = 0 /\ n * 10 \in Nat BY <1>5
<1>7. n * 10 - t \in -4 .. 5
  <2> HIDE DEF t
  <2> QED BY <1>2, <1>5
<1> QED BY <1>4, <1>6, <1>7

LEMMA TotalGiven ==
    ASSUME NEW l, LineOK(l)
    PROVE  LET m == WithTotal(l)
           IN  /\ Priced(m) /\ SameItem(m, l) /\ m.base = l.base
               /\ m.style = l.style /\ m.perUnit = l.perUnit /\ m.ypu = l.ypu
<1> DEFINE m == WithTotal(l)
           t == ItemTotal(l)
<1>1. l \in Line BY DEF LineOK
<1>2. t \in Nat BY <1>1, TotalRounds
<1>3. m = [l EXCEPT !.total = t] BY DEF WithTotal
<1> HIDE DEF m, t
<1>4. /\ m \in Line /\ m.total = t /\ m.perUnit = l.perUnit /\ m.ypu = l.ypu
      /\ m.qty = l.qty /\ m.cloth = l.cloth /\ m.body = l.body /\ m.base = l.base
      /\ m.style = l.style /\ m.chosen = l.chosen /\ m.colour = l.colour
      /\ m.styled = l.styled /\ m.product = l.product
  BY <1>1, <1>2, <1>3 DEF Line
<1>5. LineOK(m) BY <1>4 DEF LineOK
<1>6. ItemTotal(m) = t BY <1>4, Zenon DEF ItemTotal, t
<1>7. Priced(m) BY <1>4, <1>5, <1>6 DEF Priced
<1> QED BY <1>4, <1>7 DEF SameItem, m

LEMMA AskedNow ==
    ASSUME CatalogueOK, NEW l, LineOK(l)
    PROVE  Priced(Now(l))
<1> DEFINE doc == product[l.product]
           p == WithProduct(l, doc)
           m == IF l.chosen = None THEN p ELSE WithColour(p, Find(l.chosen))
<1>1. l.product \in Product BY DEF LineOK, Line
<1>2. doc \in ProductDoc \cup {Gone} BY <1>1 DEF CatalogueOK
<1>3. LineOK(p) BY <1>2, ProductGiven
<1>4. LineOK(m) BY <1>3, ColourGiven
<1>5. Now(l) = WithTotal(m) BY DEF Now
<1> HIDE DEF m
<1> QED BY <1>4, <1>5, TotalGiven

\* A line with the catalogue's prices is what it asks.
LEMMA CurrentAsked ==
    ASSUME NEW l, Priced(l), Current(l)
    PROVE  Now(l) = l
<1> DEFINE doc == product[l.product]
           prop == fabric[Find(l.chosen)]
<1>1. /\ l \in Line /\ l.qty = Units(l.body, l.ypu) /\ l.cloth = l.perUnit * l.qty
      /\ l.total = ItemTotal(l)
  BY DEF Priced, LineOK
<1>2. WithProduct(l, doc) = l
  <2>1. CASE doc = Gone BY <2>1 DEF WithProduct
  <2>2. CASE doc # Gone
    <3>1. l.base = doc.base /\ (IF l.styled /\ doc.style # Gone THEN doc.style ELSE l.style) = l.style
      BY <2>2 DEF Current
    <3>2. [l EXCEPT !.base = l.base, !.style = l.style] = l BY <1>1 DEF Line
    <3> QED BY <2>2, <3>1, <3>2 DEF WithProduct
  <2> QED BY <2>1, <2>2
<1>3. l.chosen # None => WithColour(l, Find(l.chosen)) = l
  <2> SUFFICES ASSUME l.chosen # None PROVE WithColour(l, Find(l.chosen)) = l OBVIOUS
  <2>1. prop.price = l.perUnit /\ prop.ypu = l.ypu BY DEF Current
  <2>2. [l EXCEPT !.perUnit = l.perUnit, !.ypu = l.ypu, !.qty = l.qty, !.cloth = l.cloth] = l
    BY <1>1 DEF Line
  <2> QED BY <1>1, <2>1, <2>2 DEF WithColour, ClothPrice
<1>4. WithTotal(l) = l
  <2>1. [l EXCEPT !.total = l.total] = l BY <1>1 DEF Line
  <2> QED BY <1>1, <2>1, Zenon DEF WithTotal
<1> QED BY <1>2, <1>3, <1>4, Zenon DEF Now

\* An item without cloth.
LEMMA DoneWithout ==
    ASSUME CatalogueOK, NEW l, LineOK(l), l.chosen = None
    PROVE  LET m == WithTotal(WithProduct(l, product[l.product]))
           IN  Priced(m) /\ Current(m)
<1> DEFINE doc == product[l.product]
           p == WithProduct(l, doc)
           m == WithTotal(p)
<1>1. l.product \in Product BY DEF LineOK, Line
<1>2. doc \in ProductDoc \cup {Gone} BY <1>1 DEF CatalogueOK
<1>3. /\ LineOK(p) /\ SameItem(p, l)
      /\ doc # Gone => p.base = doc.base
      /\ doc # Gone /\ p.styled /\ doc.style # Gone => p.style = doc.style
  BY <1>2, ProductGiven
<1> HIDE DEF p
<1>4. Priced(m) /\ SameItem(m, p) /\ m.base = p.base /\ m.style = p.style BY <1>3, TotalGiven
<1> HIDE DEF m
<1>5. Current(m) BY <1>3, <1>4 DEF Current, SameItem
<1> QED BY <1>4, <1>5 DEF m, p

\* An item with cloth, priced by the colour chosen or the one noted.
LEMMA DoneWith ==
    ASSUME CatalogueOK, NEW l, LineOK(l), l.chosen # None, NEW doc \in ProductDoc \cup {Gone},
           NEW c, c = Chosen(WithProduct(l, doc)) \/ c = Again(WithProduct(l, doc))
    PROVE  /\ Priced(WithTotal(c))
           /\ ~DashInName /\ doc = product[l.product] => Current(WithTotal(c))
<1> DEFINE p == WithProduct(l, doc)
           m == WithTotal(c)
<1>1. /\ LineOK(p) /\ SameItem(p, l)
      /\ doc # Gone => p.base = doc.base
      /\ doc # Gone /\ p.styled /\ doc.style # Gone => p.style = doc.style
  BY ProductGiven
<1> HIDE DEF p
<1>2. PICK x : /\ LineOK(c) /\ c.product = l.product /\ c.styled = l.styled
               /\ c.base = p.base /\ c.style = p.style
               /\ c.perUnit = fabric[x].price /\ c.ypu = fabric[x].ypu
               /\ ~DashInName => Find(c.chosen) = x
  <2>1. CASE c = Again(p)
    <3>1. c = WithColour(p, Find(p.colour)) BY <2>1 DEF Again
    <3>2. /\ LineOK(c) /\ SameItem(c, p) /\ c.base = p.base /\ c.style = p.style
          /\ c.perUnit = fabric[Find(p.colour)].price /\ c.ypu = fabric[Find(p.colour)].ypu
      BY <1>1, <3>1, ColourGiven
    <3>3. ~DashInName => c.chosen = p.colour BY <1>1, <3>2 DEF LineOK, SameItem
    <3> QED BY <1>1, <3>2, <3>3 DEF SameItem
  <2>2. CASE c = Chosen(p)
    <3> DEFINE x == Find(p.chosen)
               w == WithColour(p, x)
               f == IF DashInName THEN None ELSE x
    <3>1. /\ LineOK(w) /\ SameItem(w, p) /\ w.base = p.base /\ w.style = p.style
          /\ w.perUnit = fabric[x].price /\ w.ypu = fabric[x].ypu
      BY <1>1, ColourGiven
    <3>2. x \in Colour /\ Find(x) = x BY Found
    <3>3. c = [w EXCEPT !.chosen = x, !.colour = f] BY <2>2 DEF Chosen
    <3>4. f \in Colour \cup {None} /\ (~DashInName => f = x) BY <3>2
    <3> HIDE DEF w, x, f
    <3>5. w \in Line BY <3>1 DEF LineOK
    <3>6. /\ c \in Line /\ c.chosen = x /\ c.colour = f /\ c.product = w.product
          /\ c.styled = w.styled /\ c.body = w.body /\ c.base = w.base /\ c.style = w.style
          /\ c.perUnit = w.perUnit /\ c.ypu = w.ypu /\ c.qty = w.qty /\ c.cloth = w.cloth
      BY <3>2, <3>3, <3>4, <3>5 DEF Line
    <3>7. LineOK(c) BY <3>1, <3>4, <3>6 DEF LineOK
    <3> QED BY <1>1, <3>1, <3>2, <3>6, <3>7 DEF SameItem
  <2> QED BY <2>1, <2>2 DEF p
<1>3. Priced(m) /\ SameItem(m, c) /\ m.base = c.base /\ m.style = c.style
      /\ m.perUnit = c.perUnit /\ m.ypu = c.ypu
  BY <1>2, TotalGiven
<1> HIDE DEF m
<1>4. ~DashInName /\ doc = product[l.product] => Current(m)
  BY <1>1, <1>2, <1>3 DEF Current, SameItem
<1> QED BY <1>3, <1>4 DEF m

-----------------------------------------------------------------------------
(* The requests *)

LEMMA TotalNat ==
    ASSUME NEW lines, IsFiniteSet(DOMAIN lines), \A i \in DOMAIN lines : Priced(lines[i]),
           NEW delivery \in DOMAIN DeliveryFee, NEW promo
    PROVE  GrandTotal(lines, delivery, promo) \in Nat
<1>1. \A i \in DOMAIN lines : lines[i].total \in Nat BY DEF Priced, LineOK, Line
<1> QED BY <1>1, GrandTotalNat

LEMMA SeqFinite ==
    ASSUME NEW s \in Seq(Line)
    PROVE  IsFiniteSet(DOMAIN s)
<1>1. DOMAIN s = 1 .. Len(s) /\ Len(s) \in Nat BY LenProperties
<1> QED BY <1>1, FS_Interval

\* The cart as lines, and what the catalogue asks for it.
LEMMA CartLines ==
    ASSUME CatalogueOK, NEW cart \in Cart, NEW delivery \in DOMAIN DeliveryFee, NEW promo
    PROVE  LET lines == NewLines(cart)
           IN  /\ lines \in Seq(Line) /\ lines # <<>>
               /\ \A i \in DOMAIN lines : LineOK(lines[i])
               /\ Quote(lines, delivery, promo) \in Nat
<1> DEFINE lines == NewLines(cart)
           R == [product : Product, chosen : Colour \cup {None}, styled : BOOLEAN,
                 body : Measures]
           asked == [i \in DOMAIN lines |-> Now(lines[i])]
<1>1. cart # <<>> /\ cart \in Seq(R) BY CartAssumption
<1> HIDE DEF R
<1>2. DOMAIN cart = 1 .. Len(cart) /\ Len(cart) \in Nat \ {0}
  BY <1>1, LenProperties, EmptySeq
<1>3. \A i \in DOMAIN cart : lines[i] = NewLine(cart[i]) /\ LineOK(NewLine(cart[i]))
  BY ItemTyped, NewLineOK DEF NewLines
<1>4. DOMAIN lines = 1 .. Len(cart) BY <1>2 DEF NewLines
<1>5. lines = [i \in 1 .. Len(cart) |-> NewLine(cart[i])] BY <1>2 DEF NewLines
<1>6. \A i \in 1 .. Len(cart) : NewLine(cart[i]) \in Line BY <1>2, <1>3 DEF LineOK
<1>7. lines \in Seq(Line)
  <2>1. lines \in [1 .. Len(cart) -> Line] BY <1>5, <1>6
  <2> HIDE DEF lines
  <2> QED BY <1>2, <2>1, SeqDef
<1>8. lines # <<>> BY <1>2, <1>4
<1>9. \A i \in DOMAIN lines : LineOK(lines[i]) BY <1>2, <1>3, <1>4
<1> HIDE DEF lines
<1>10. DOMAIN asked = DOMAIN lines /\ \A i \in DOMAIN asked : Priced(asked[i])
  BY <1>9, AskedNow
<1>11. Quote(lines, delivery, promo) = GrandTotal(asked, delivery, promo) BY DEF Quote
<1> HIDE DEF asked
<1>12. IsFiniteSet(DOMAIN asked) BY <1>7, <1>10, SeqFinite
<1>13. GrandTotal(asked, delivery, promo) \in Nat BY <1>10, <1>12, TotalNat
<1> QED BY <1>7, <1>8, <1>9, <1>11, <1>13 DEF lines

\* One line done, and the next.
LEMMA AdvanceOK ==
    ASSUME NEW q \in RequestType, LinesOK(q), WasOK(q), Busy(q), q.todo # <<>>,
           NEW l, Priced(WithTotal(l))
    PROVE  LET a == Advance(q, l)
           IN  /\ a \in RequestType /\ LinesOK(a) /\ WasOK(a) /\ a.at \in {"product", "store"}
               /\ a.quiet = q.quiet /\ a.make = q.make /\ a.was = q.was
               /\ \A i \in DOMAIN a.done : \/ i \in DOMAIN q.done /\ a.done[i] = q.done[i]
                                           \/ a.done[i] = WithTotal(l)
<1> DEFINE a == Advance(q, l)
           w == WithTotal(l)
           at == IF Len(q.todo) = 1 THEN "store" ELSE "product"
           rest == Tail(q.todo)
           more == Append(q.done, w)
<1>1. q.todo \in Seq(Line) /\ q.done \in Seq(Line) /\ w \in Line
  BY DEF RequestType, Priced, LineOK
<1>2. a = [q EXCEPT !.at = at, !.doc = None, !.todo = rest, !.done = more] BY DEF Advance
<1>3. /\ rest \in Seq(Line) /\ Len(rest) = Len(q.todo) - 1 /\ Len(q.todo) \in Nat \ {0}
      /\ \A i \in 1 .. Len(rest) : rest[i] = q.todo[i+1]
      /\ DOMAIN rest = 1 .. Len(rest) /\ DOMAIN q.todo = 1 .. Len(q.todo)
  BY <1>1, HeadTailProperties, LenProperties, EmptySeq
<1>4. /\ more \in Seq(Line) /\ more # <<>> /\ Len(more) = Len(q.done) + 1
      /\ Len(q.done) \in Nat
      /\ \A i \in 1 .. Len(q.done) : more[i] = q.done[i]
      /\ more[Len(q.done) + 1] = w
      /\ DOMAIN more = 1 .. Len(more) /\ DOMAIN q.done = 1 .. Len(q.done)
  BY <1>1, AppendProperties, LenProperties
<1>5. at \in {"product", "store"} /\ (at = "product" => rest # <<>>)
  <2>1. Len(<<>>) = 0 BY EmptySeq
  <2>2. at = "product" => Len(rest) # 0 BY <1>3
  <2>3. at \in {"product", "store"} OBVIOUS
  <2> HIDE DEF rest, at
  <2>4. rest = <<>> => Len(rest) = 0 BY <2>1
  <2> QED BY <2>2, <2>3, <2>4
<1>6. \A i \in DOMAIN rest : LineOK(rest[i])
  <2>1. \A i \in DOMAIN rest : i + 1 \in DOMAIN q.todo /\ rest[i] = q.todo[i+1] BY <1>3
  <2> QED BY <2>1 DEF LinesOK
<1>7. \A i \in DOMAIN more : \/ i \in DOMAIN q.done /\ more[i] = q.done[i]
                             \/ more[i] = w
  BY <1>4
<1> HIDE DEF a, w, at, rest, more
<1>8. \A i \in DOMAIN more : Priced(more[i]) BY <1>7 DEF LinesOK, w
<1>9. /\ a \in RequestType /\ a.at = at /\ a.doc = None /\ a.todo = rest /\ a.done = more
      /\ a.make = q.make /\ a.was = q.was /\ a.delivery = q.delivery /\ a.promo = q.promo
      /\ a.quiet = q.quiet
  BY <1>2, <1>3, <1>4, <1>5 DEF RequestType
<1>10. LinesOK(a) BY <1>4, <1>5, <1>6, <1>8, <1>9 DEF LinesOK
<1>11. WasOK(a) BY <1>5, <1>9 DEF WasOK, Busy
<1> QED BY <1>5, <1>7, <1>9, <1>10, <1>11 DEF a, w

LEMMA IdleOK == Idle \in RequestType /\ RequestOK(Idle)
<1>1. <<>> \in Seq(Line) /\ DOMAIN <<>> = {} BY EmptySeq
<1>2. Idle \in RequestType BY <1>1 DEF Idle, RequestType, DeliveryFee
<1> QED BY <1>1, <1>2 DEF Idle, RequestOK, LinesOK, WasOK, QuietOK, Busy

LEMMA Kept ==
    ASSUME IndInv
    PROVE  /\ CatalogueOK /\ order \in Order \cup {None} /\ req \in [Request -> RequestType]
           /\ \A r \in Request : req[r] \in RequestType /\ RequestOK(req[r])
BY DEF IndInv, TypeOK, CatalogueOK, RequestType

\* A request goes on and leaves the order and the catalogue alone.
LEMMA GoesOn ==
    ASSUME IndInv, NEW r \in Request, NEW q \in RequestType, RequestOK(q), Goto(r, q),
           UNCHANGED <<product, fabric, order, edits>>, profiles' \in Nat
    PROVE  IndInv'
<1>1. /\ CatalogueOK' /\ (order \in Order \cup {None})' /\ (order # None => OrderOK(order))'
      /\ (edits \in 0 .. MaxEdits)'
  BY Kept DEF IndInv, TypeOK, CatalogueOK, OrderOK
<1>2. (req \in [Request -> RequestType])' BY Kept DEF Goto
<1>3. ASSUME NEW s \in Request PROVE RequestOK(req[s])'
  <2>1. PICK p : p = req'[s] /\ RequestOK(p)
    BY Kept DEF Goto
  <2>2. LinesOK(p)' BY <2>1 DEF RequestOK
  <2>3. WasOK(p)' BY <2>1 DEF RequestOK
  <2>4. QuietOK(p)' BY <2>1 DEF RequestOK, QuietOK, Current, Find
  <2> QED BY <2>1, <2>2, <2>3, <2>4 DEF RequestOK
<1> QED BY <1>1, <1>2, <1>3 DEF IndInv, TypeOK, CatalogueOK, RequestType

\* A request writes the order: who else is under way has to start anew.
LEMMA Writes ==
    ASSUME IndInv, NEW r \in Request, NEW q \in RequestType, LinesOK(q), WasOK(q),
           q.at = "answered", NEW o, OrderOK(o), order' = o,
           q.quiet /\ ~DashInName => \A i \in DOMAIN o.lines : Current(o.lines[i]),
           Disturb(r, q), UNCHANGED <<product, fabric, profiles, edits>>
    PROVE  IndInv'
<1>1. /\ CatalogueOK' /\ (order \in Order \cup {None})' /\ (order # None => OrderOK(order))'
      /\ (edits \in 0 .. MaxEdits)' /\ (profiles \in Nat)'
  BY Kept DEF IndInv, TypeOK, CatalogueOK, OrderOK
<1>2. ASSUME NEW s \in Request, s # r
      PROVE  req'[s] \in RequestType /\ RequestOK(req[s])'
  <2>1. PICK p \in RequestType : p = req[s] /\ RequestOK(p) BY Kept
  <2>2. PICK w : w = [p EXCEPT !.quiet = FALSE] /\ w = req'[s]
    BY <1>2, <2>1 DEF Disturb
  <2>3. /\ w \in RequestType /\ w.quiet = FALSE /\ w.at = p.at /\ w.make = p.make
        /\ w.todo = p.todo /\ w.done = p.done /\ w.doc = p.doc /\ w.was = p.was
        /\ w.delivery = p.delivery /\ w.promo = p.promo
    BY <2>1, <2>2 DEF RequestType
  <2>4. LinesOK(w) BY <2>1, <2>3 DEF RequestOK, LinesOK
  <2>5. WasOK(w) BY <2>1, <2>3 DEF RequestOK, WasOK, Busy
  <2>6. QuietOK(w)' BY <2>3 DEF QuietOK
  <2>7. RequestOK(w)' BY <2>4, <2>5, <2>6 DEF RequestOK
  <2> QED BY <2>2, <2>3, <2>7
<1>3. req'[r] \in RequestType /\ RequestOK(req[r])'
  <2>1. req'[r] = q BY DEF Disturb
  <2>2. q.quiet /\ ~DashInName =>
          OrderOK(order)' /\ \A i \in DOMAIN order'.lines : Current(order.lines[i])'
    BY DEF Current, Find
  <2>3. QuietOK(q)' BY <2>2 DEF QuietOK, Busy
  <2>4. RequestOK(q)' BY <2>3 DEF RequestOK
  <2> QED BY <2>1, <2>4
<1>4. (req \in [Request -> RequestType])'
  <2>1. req' = [s \in Request |-> req'[s]] BY DEF Disturb
  <2>2. \A s \in Request : req'[s] \in RequestType BY <1>2, <1>3
  <2> QED BY <2>1, <2>2
<1>5. \A s \in Request : RequestOK(req[s])' BY <1>2, <1>3
<1> QED BY <1>1, <1>4, <1>5 DEF IndInv, TypeOK, CatalogueOK, RequestType

LEMMA EditKeeps == IndInv /\ Edit => IndInv'
<1> SUFFICES ASSUME IndInv, Edit PROVE IndInv' OBVIOUS
<1>1. CatalogueOK'
  <2>1. CASE /\ \E p \in Product, doc \in ProductDoc \cup {Gone} :
                  product[p] # Gone /\ product' = [product EXCEPT ![p] = doc]
             /\ UNCHANGED fabric
    BY <2>1, Kept DEF CatalogueOK
  <2>2. CASE /\ \E c \in Colour :
                  \E prop \in [price : Price, ypu : PerUnit]
                                \cup (IF c = First THEN {} ELSE {Gone}) :
                    fabric' = [fabric EXCEPT ![c] = prop]
             /\ UNCHANGED product
    <3>0. PICK c \in Colour :
             \E prop \in [price : Price, ypu : PerUnit]
                           \cup (IF c = First THEN {} ELSE {Gone}) :
               fabric' = [fabric EXCEPT ![c] = prop]
      BY <2>2
    <3>1. PICK prop \in [price : Price, ypu : PerUnit]
                         \cup (IF c = First THEN {} ELSE {Gone}) :
            fabric' = [fabric EXCEPT ![c] = prop]
      BY <3>0
    <3>2. prop \in [price : Price, ypu : PerUnit] \cup {Gone} OBVIOUS
    <3>3. fabric' \in [Colour -> [price : Price, ypu : PerUnit] \cup {Gone}]
      BY <3>1, <3>2, Kept DEF CatalogueOK
    <3>4. fabric'[First] # Gone BY <3>1, Kept, FabricAssumption DEF CatalogueOK
    <3> QED BY <2>2, <3>3, <3>4, Kept DEF CatalogueOK
  <2> QED BY <2>1, <2>2 DEF Edit
<1>2. /\ order' = order /\ order \in Order \cup {None} /\ (order # None => OrderOK(order))
      /\ profiles' = profiles /\ profiles \in Nat /\ edits' \in 0 .. MaxEdits
  BY Kept, BoundAssumption DEF IndInv, TypeOK, Edit
<1>3. ASSUME NEW s \in Request
      PROVE  req'[s] \in RequestType /\ RequestOK(req[s])'
  <2>1. PICK p \in RequestType : p = req[s] /\ RequestOK(p) BY Kept
  <2> DEFINE still == p.quiet /\ p.at = "idle"
  <2>2. PICK w : w = [p EXCEPT !.quiet = still] /\ w = req'[s] BY <2>1, Zenon DEF Edit
  <2>3. still \in BOOLEAN OBVIOUS
  <2> HIDE DEF still
  <2>4. /\ w \in RequestType /\ w.quiet = still /\ w.at = p.at /\ w.make = p.make
        /\ w.todo = p.todo /\ w.done = p.done /\ w.doc = p.doc /\ w.was = p.was
        /\ w.delivery = p.delivery /\ w.promo = p.promo
    BY <2>1, <2>2, <2>3 DEF RequestType
  <2>5. LinesOK(w) BY <2>1, <2>4 DEF RequestOK, LinesOK
  <2>6. WasOK(w) BY <2>1, <2>4 DEF RequestOK, WasOK, Busy
  <2>7. w.quiet => w.at = "idle" BY <2>4 DEF still
  <2>8. QuietOK(w)' BY <2>7 DEF QuietOK, Busy
  <2>9. RequestOK(w)' BY <2>5, <2>6, <2>8 DEF RequestOK
  <2> QED BY <2>2, <2>4, <2>9
<1>4. (req \in [Request -> RequestType])'
  <2>1. req' = [s \in Request |-> req'[s]] BY DEF Edit
  <2>2. \A s \in Request : req'[s] \in RequestType BY <1>3
  <2> QED BY <2>1, <2>2
<1>5. \A s \in Request : RequestOK(req[s])' BY <1>3
<1> QED BY <1>1, <1>2, <1>4, <1>5 DEF IndInv, TypeOK, CatalogueOK, RequestType, OrderOK

LEMMA BeginCreateKeeps == IndInv => \A r \in Request : BeginCreate(r) => IndInv'
<1> SUFFICES ASSUME IndInv, NEW r \in Request, BeginCreate(r) PROVE IndInv' OBVIOUS
<1>1. PICK cart \in Cart, delivery \in DOMAIN DeliveryFee, promo \in BOOLEAN :
        \E shown \in {None, Quote(NewLines(cart), delivery, promo)} :
          Goto(r, [Idle EXCEPT !.at = "product", !.make = TRUE, !.todo = NewLines(cart),
                               !.delivery = delivery, !.promo = promo, !.shown = shown])
  BY DEF BeginCreate
<1>2. PICK shown \in {None, Quote(NewLines(cart), delivery, promo)} :
          Goto(r, [Idle EXCEPT !.at = "product", !.make = TRUE, !.todo = NewLines(cart),
                               !.delivery = delivery, !.promo = promo, !.shown = shown])
  BY <1>1
<1> DEFINE lines == NewLines(cart)
           q == [Idle EXCEPT !.at = "product", !.make = TRUE, !.todo = lines,
                             !.delivery = delivery, !.promo = promo, !.shown = shown]
<1>3. /\ lines \in Seq(Line) /\ lines # <<>> /\ \A i \in DOMAIN lines : LineOK(lines[i])
      /\ Quote(lines, delivery, promo) \in Nat
  BY Kept, CartLines
<1>4. shown \in Nat \cup {None} BY <1>3
<1>5. <<>> \in Seq(Line) /\ DOMAIN <<>> = {} BY EmptySeq
<1> HIDE DEF lines
<1>6. /\ q \in RequestType /\ q.at = "product" /\ q.make = TRUE /\ q.todo = lines
      /\ q.done = <<>> /\ q.quiet = TRUE
  BY <1>3, <1>4, <1>5 DEF Idle, RequestType
<1>7. Goto(r, q) BY <1>2 DEF lines
<1> HIDE DEF q
<1>8. RequestOK(q) BY <1>3, <1>5, <1>6 DEF RequestOK, LinesOK, WasOK, QuietOK
<1>9. /\ product' = product /\ fabric' = fabric /\ order' = order /\ edits' = edits
      /\ profiles' \in Nat
  BY DEF IndInv, TypeOK, BeginCreate
<1> QED BY <1>6, <1>7, <1>8, <1>9, GoesOn

LEMMA BeginReadKeeps == IndInv => \A r \in Request : BeginRead(r) => IndInv'
<1> SUFFICES ASSUME IndInv, NEW r \in Request, BeginRead(r) PROVE IndInv' OBVIOUS
<1> DEFINE q == [Idle EXCEPT !.at = "product", !.todo = order.lines, !.was = order,
                             !.delivery = order.delivery, !.promo = order.promo]
<1>1. order # None /\ Goto(r, q) BY DEF BeginRead
<1>2. OrderOK(order) BY <1>1 DEF IndInv
<1>3. /\ order \in Order /\ order.lines \in Seq(Line) /\ order.delivery \in DOMAIN DeliveryFee
      /\ order.promo \in BOOLEAN /\ order.lines # <<>>
      /\ \A i \in DOMAIN order.lines : LineOK(order.lines[i])
  BY <1>2 DEF OrderOK, Order, Priced
<1>4. <<>> \in Seq(Line) /\ DOMAIN <<>> = {} BY EmptySeq
<1>5. /\ q \in RequestType /\ q.at = "product" /\ q.make = FALSE /\ q.todo = order.lines
      /\ q.done = <<>> /\ q.quiet = TRUE /\ q.was = order /\ q.delivery = order.delivery
      /\ q.promo = order.promo
  BY <1>3, <1>4 DEF Idle, RequestType
<1> HIDE DEF q
<1>6. RequestOK(q) BY <1>2, <1>3, <1>4, <1>5 DEF RequestOK, LinesOK, WasOK, QuietOK
<1>7. /\ product' = product /\ fabric' = fabric /\ order' = order /\ edits' = edits
      /\ profiles' \in Nat
  BY DEF IndInv, TypeOK, BeginRead
<1> QED BY <1>1, <1>5, <1>6, <1>7, GoesOn

LEMMA ReadProductKeeps == IndInv => \A r \in Request : ReadProduct(r) => IndInv'
<1> SUFFICES ASSUME IndInv, NEW r \in Request, ReadProduct(r) PROVE IndInv' OBVIOUS
<1>1. PICK q \in RequestType : q = req[r] /\ RequestOK(q) BY Kept
<1>2. q.at = "product" /\ LinesOK(q) /\ WasOK(q) /\ QuietOK(q) /\ Busy(q) /\ q.todo # <<>>
  BY <1>1 DEF ReadProduct, RequestOK, LinesOK, Busy
<1> DEFINE l == q.todo[1]
           doc == product[l.product]
           f == [q EXCEPT !.at = "fabric", !.doc = doc]
           a == Advance(q, WithProduct(l, doc))
<1>3. LineOK(l) /\ l.product \in Product
  <2>1. 1 \in DOMAIN q.todo
    <3>1. q.todo \in Seq(Line) BY DEF RequestType
    <3> QED BY <1>2, <3>1, EmptySeq, LenProperties
  <2> QED BY <1>2, <2>1 DEF LinesOK, LineOK, Line
<1>4. doc \in ProductDoc \cup {Gone} BY <1>3, Kept DEF CatalogueOK
<1>5. \/ Goto(r, Idle)
      \/ l.chosen # None /\ Goto(r, f)
      \/ l.chosen = None /\ Goto(r, a)
  BY <1>1 DEF ReadProduct
<1>6. /\ product' = product /\ fabric' = fabric /\ order' = order /\ edits' = edits
      /\ profiles' \in Nat
  BY DEF IndInv, TypeOK, ReadProduct
<1>7. CASE Goto(r, Idle) BY <1>6, <1>7, IdleOK, GoesOn
<1>8. CASE l.chosen # None /\ Goto(r, f)
  <2>1. PICK g : g = f OBVIOUS
  <2> HIDE DEF doc
  <2>2. /\ g \in RequestType /\ g.at = "fabric" /\ g.doc = doc /\ g.todo = q.todo
        /\ g.done = q.done /\ g.make = q.make /\ g.was = q.was /\ g.quiet = q.quiet
        /\ g.delivery = q.delivery /\ g.promo = q.promo
    BY <1>4, <2>1 DEF RequestType
  <2>3. LinesOK(g) BY <1>2, <1>4, <1>8, <2>2 DEF LinesOK
  <2>4. WasOK(g) BY <1>2, <2>2 DEF WasOK, Busy
  <2>5. QuietOK(g) BY <1>2, <2>2 DEF QuietOK, Busy, doc
  <2>6. RequestOK(g) BY <2>3, <2>4, <2>5 DEF RequestOK
  <2> QED BY <1>6, <1>8, <2>1, <2>2, <2>6, GoesOn
<1>9. CASE l.chosen = None /\ Goto(r, a)
  <2> DEFINE w == WithProduct(l, doc)
  <2>1. Priced(WithTotal(w)) /\ Current(WithTotal(w)) BY <1>3, <1>9, Kept, DoneWithout
  <2> HIDE DEF w
  <2>2. PICK g : g = Advance(q, w) OBVIOUS
  <2>3. /\ g \in RequestType /\ LinesOK(g) /\ WasOK(g) /\ g.at \in {"product", "store"}
        /\ g.quiet = q.quiet /\ g.make = q.make /\ g.was = q.was
        /\ \A i \in DOMAIN g.done : \/ i \in DOMAIN q.done /\ g.done[i] = q.done[i]
                                    \/ g.done[i] = WithTotal(w)
    BY <1>2, <2>1, <2>2, AdvanceOK
  <2>4. QuietOK(g) BY <1>2, <2>1, <2>3 DEF QuietOK, Busy
  <2>5. RequestOK(g) BY <2>3, <2>4 DEF RequestOK
  <2>6. Goto(r, g) BY <1>9, <2>2 DEF w
  <2> QED BY <1>6, <2>3, <2>5, <2>6, GoesOn
<1> QED BY <1>5, <1>7, <1>8, <1>9

LEMMA ReadFabricKeeps == IndInv => \A r \in Request : ReadFabric(r) => IndInv'
<1> SUFFICES ASSUME IndInv, NEW r \in Request, ReadFabric(r) PROVE IndInv' OBVIOUS
<1>1. PICK q \in RequestType : q = req[r] /\ RequestOK(q) BY Kept
<1>2. q.at = "fabric" /\ LinesOK(q) /\ WasOK(q) /\ QuietOK(q) /\ Busy(q) /\ q.todo # <<>>
  BY <1>1 DEF ReadFabric, RequestOK, LinesOK, Busy
<1> DEFINE l == q.todo[1]
           p == WithProduct(l, q.doc)
           c == IF q.make THEN Chosen(p) ELSE Again(p)
<1>3. /\ LineOK(l) /\ l.product \in Product /\ l.chosen # None
      /\ q.doc \in ProductDoc \cup {Gone}
  <2>1. 1 \in DOMAIN q.todo
    <3>1. q.todo \in Seq(Line) BY DEF RequestType
    <3> QED BY <1>2, <3>1, EmptySeq, LenProperties
  <2> QED BY <1>2, <2>1 DEF LinesOK, LineOK, Line
<1>4. c = Chosen(p) \/ c = Again(p) OBVIOUS
<1>5. Goto(r, Idle) \/ Goto(r, Advance(q, c)) BY <1>1 DEF ReadFabric
<1>6. /\ product' = product /\ fabric' = fabric /\ order' = order /\ edits' = edits
      /\ profiles' \in Nat
  BY DEF IndInv, TypeOK, ReadFabric
<1>7. CASE Goto(r, Idle) BY <1>6, <1>7, IdleOK, GoesOn
<1>8. CASE Goto(r, Advance(q, c))
  <2>1. /\ Priced(WithTotal(c))
        /\ ~DashInName /\ q.doc = product[l.product] => Current(WithTotal(c))
    <3> HIDE DEF c
    <3> QED BY <1>3, <1>4, Kept, DoneWith
  <2> HIDE DEF c
  <2>2. PICK g : g = Advance(q, c) OBVIOUS
  <2>3. /\ g \in RequestType /\ LinesOK(g) /\ WasOK(g) /\ g.at \in {"product", "store"}
        /\ g.quiet = q.quiet /\ g.make = q.make /\ g.was = q.was
        /\ \A i \in DOMAIN g.done : \/ i \in DOMAIN q.done /\ g.done[i] = q.done[i]
                                    \/ g.done[i] = WithTotal(c)
    BY <1>2, <2>1, <2>2, AdvanceOK
  <2>4. QuietOK(g) BY <1>2, <2>1, <2>3 DEF QuietOK, Busy
  <2>5. RequestOK(g) BY <2>3, <2>4 DEF RequestOK
  <2>6. Goto(r, g) BY <1>8, <2>2
  <2> QED BY <1>6, <2>3, <2>5, <2>6, GoesOn
<1> QED BY <1>5, <1>7, <1>8

LEMMA StoreNewKeeps == IndInv => \A r \in Request : StoreNew(r) => IndInv'
<1> SUFFICES ASSUME IndInv, NEW r \in Request, StoreNew(r) PROVE IndInv' OBVIOUS
<1>1. PICK q \in RequestType : q = req[r] /\ RequestOK(q) BY Kept
<1>2. /\ q.at = "store" /\ q.make /\ LinesOK(q) /\ QuietOK(q) /\ Busy(q) /\ q.done # <<>>
      /\ \A i \in DOMAIN q.done : Priced(q.done[i])
  BY <1>1 DEF StoreNew, RequestOK, LinesOK, Busy
<1>3. q.done \in Seq(Line) /\ q.delivery \in DOMAIN DeliveryFee /\ q.promo \in BOOLEAN
  BY DEF RequestType
<1> DEFINE total == GrandTotal(q.done, q.delivery, q.promo)
           a == [q EXCEPT !.at = "answered", !.make = FALSE]
<1>4. total \in Nat BY <1>2, <1>3, SeqFinite, TotalNat
<1>5. \/ Goto(r, Idle) /\ UNCHANGED order
      \/ /\ order' = [lines |-> q.done, delivery |-> q.delivery, promo |-> q.promo,
                      total |-> total]
         /\ Disturb(r, a)
  BY <1>1 DEF StoreNew
<1> HIDE DEF total
<1>6. /\ product' = product /\ fabric' = fabric /\ edits' = edits
      /\ profiles' = profiles /\ profiles \in Nat
  BY DEF IndInv, TypeOK, StoreNew
<1>7. CASE Goto(r, Idle) /\ UNCHANGED order BY <1>6, <1>7, IdleOK, GoesOn
<1>8. ASSUME order' = [lines |-> q.done, delivery |-> q.delivery, promo |-> q.promo,
                       total |-> total],
             Disturb(r, a)
      PROVE  IndInv'
  <2>1. PICK o : o = [lines |-> q.done, delivery |-> q.delivery, promo |-> q.promo,
                      total |-> total]
    OBVIOUS
  <2>2. /\ o \in Order /\ o.lines = q.done /\ o.delivery = q.delivery /\ o.promo = q.promo
        /\ o.total = total
    BY <1>3, <1>4, <2>1 DEF Order
  <2>3. OrderOK(o) BY <1>2, <2>2 DEF OrderOK, total
  <2>4. PICK g : g = a OBVIOUS
  <2>5. /\ g \in RequestType /\ g.at = "answered" /\ g.todo = q.todo /\ g.done = q.done
        /\ g.quiet = q.quiet
    BY <2>4 DEF RequestType
  <2>6. LinesOK(g) /\ WasOK(g) BY <1>2, <2>5 DEF LinesOK, WasOK, Busy
  <2>7. g.quiet /\ ~DashInName => \A i \in DOMAIN o.lines : Current(o.lines[i])
    BY <1>2, <2>2, <2>5 DEF QuietOK
  <2>8. order' = o /\ Disturb(r, g) BY <1>8, <2>1, <2>4
  <2> HIDE DEF a
  <2> QED BY <1>6, <2>3, <2>5, <2>6, <2>7, <2>8, Writes
<1> QED BY <1>5, <1>7, <1>8

LEMMA StoreReadKeeps == IndInv => \A r \in Request : StoreRead(r) => IndInv'
<1> SUFFICES ASSUME IndInv, NEW r \in Request, StoreRead(r) PROVE IndInv' OBVIOUS
<1>1. PICK q \in RequestType : q = req[r] /\ RequestOK(q) BY Kept
<1>2. /\ q.at = "store" /\ ~q.make /\ LinesOK(q) /\ WasOK(q) /\ QuietOK(q) /\ Busy(q)
      /\ q.done # <<>> /\ \A i \in DOMAIN q.done : Priced(q.done[i])
  BY <1>1 DEF StoreRead, RequestOK, LinesOK, Busy
<1>3. OrderOK(q.was) /\ q.delivery = q.was.delivery /\ q.promo = q.was.promo
  BY <1>2 DEF WasOK
<1>4. /\ q.done \in Seq(Line) /\ q.delivery \in DOMAIN DeliveryFee /\ q.was \in Order
  BY <1>3 DEF RequestType, OrderOK
<1> DEFINE total == GrandTotal(q.done, q.delivery, q.promo)
           new == [q.was EXCEPT !.lines = q.done, !.total = total]
           a == [q EXCEPT !.at = "answered"]
<1>5. total \in Nat BY <1>2, <1>4, SeqFinite, TotalNat
<1>6. \/ order' = new /\ Disturb(r, a)
      \/ new = q.was /\ UNCHANGED order /\ Goto(r, a)
  BY <1>1 DEF StoreRead
<1> HIDE DEF total
<1>7. PICK o : o = new OBVIOUS
<1>8. /\ o \in Order /\ o.lines = q.done /\ o.delivery = q.delivery /\ o.promo = q.promo
      /\ o.total = total
  BY <1>3, <1>4, <1>5, <1>7 DEF Order
<1>9. OrderOK(o) BY <1>2, <1>8 DEF OrderOK, total
<1>10. PICK g : g = a OBVIOUS
<1>11. /\ g \in RequestType /\ g.at = "answered" /\ g.todo = q.todo /\ g.done = q.done
       /\ g.quiet = q.quiet
  BY <1>10 DEF RequestType
<1>12. LinesOK(g) /\ WasOK(g) BY <1>2, <1>11 DEF LinesOK, WasOK, Busy
<1>13. q.quiet /\ ~DashInName => \A i \in DOMAIN o.lines : Current(o.lines[i])
  BY <1>2, <1>8 DEF QuietOK
<1>14. /\ product' = product /\ fabric' = fabric /\ edits' = edits
       /\ profiles' = profiles /\ profiles \in Nat
  BY DEF IndInv, TypeOK, StoreRead
<1>15. CASE order' = new /\ Disturb(r, a)
  <2>1. order' = o /\ Disturb(r, g) BY <1>7, <1>10, <1>15
  <2> HIDE DEF new, a
  <2> QED BY <1>9, <1>11, <1>12, <1>13, <1>14, <2>1, Writes
<1>16. CASE new = q.was /\ UNCHANGED order /\ Goto(r, a)
  <2>1. o = q.was /\ order' = order /\ Goto(r, g) BY <1>7, <1>10, <1>16
  <2> HIDE DEF new, a
  <2>2. ~DashInName /\ g.quiet => order = o BY <1>2, <1>11, <2>1 DEF QuietOK
  <2>3. QuietOK(g) BY <1>9, <1>11, <1>13, <2>2 DEF QuietOK, Busy
  <2>4. RequestOK(g) BY <1>12, <2>3 DEF RequestOK
  <2> QED BY <1>11, <1>14, <2>1, <2>4, GoesOn
<1> QED BY <1>6, <1>15, <1>16

LEMMA IndInvStep == IndInv /\ [Next]_vars => IndInv'
<1> SUFFICES ASSUME IndInv, [Next]_vars PROVE IndInv' OBVIOUS
<1>1. profiles \in Nat BY DEF IndInv, TypeOK
<1>2. ASSUME NEW r \in Request, Leave(r) PROVE IndInv'
  BY <1>1, <1>2, IdleOK, GoesOn DEF Leave
<1>3. ASSUME NEW r \in Request, CountProfiles(r) PROVE IndInv'
  <2>1. PICK q : q = [Idle EXCEPT !.at = "addProfile"] OBVIOUS
  <2>2. <<>> \in Seq(Line) /\ DOMAIN <<>> = {} BY EmptySeq
  <2>3. q \in RequestType
    BY <2>1, IdleOK DEF RequestType
  <2>4. q.at = "addProfile" /\ q.todo = <<>> /\ q.done = <<>> BY <2>1 DEF Idle
  <2>5. LinesOK(q) BY <2>2, <2>4 DEF LinesOK
  <2>6. WasOK(q) /\ QuietOK(q) BY <2>4 DEF WasOK, QuietOK, Busy
  <2> QED BY <1>1, <1>3, <2>1, <2>3, <2>5, <2>6, GoesOn DEF CountProfiles, RequestOK
<1>4. ASSUME NEW r \in Request, AddProfile(r) PROVE IndInv'
  BY <1>1, <1>4, IdleOK, GoesOn DEF AddProfile
<1>5. CASE UNCHANGED vars
  <2>1. /\ product' = product /\ fabric' = fabric /\ order' = order /\ profiles' = profiles
        /\ edits' = edits /\ req' = req
    BY <1>5 DEF vars
  <2>2. ASSUME NEW s \in Request PROVE RequestOK(req[s])'
    <3>1. PICK p : p = req'[s] /\ RequestOK(p) BY <2>1, Kept
    <3>2. LinesOK(p)' BY <3>1 DEF RequestOK
    <3>3. WasOK(p)' BY <3>1 DEF RequestOK
    <3>4. QuietOK(p)' BY <2>1, <3>1 DEF RequestOK, QuietOK, Current, Find
    <3> QED BY <3>1, <3>2, <3>3, <3>4 DEF RequestOK
  <2> QED BY <2>1, <2>2 DEF IndInv, TypeOK
<1> QED
  BY <1>2, <1>3, <1>4, <1>5, BeginCreateKeeps, BeginReadKeeps, ReadProductKeeps,
     ReadFabricKeeps, StoreNewKeeps, StoreReadKeeps, EditKeeps
  DEF Next

LEMMA Invariant == Spec => []IndInv
<1>1. Init => IndInv
  <2> SUFFICES ASSUME Init PROVE IndInv OBVIOUS
  <2>1. req \in [Request -> RequestType] BY IdleOK DEF Init
  <2>2. \A r \in Request : RequestOK(req[r]) BY IdleOK DEF Init
  <2>3. /\ product \in [Product -> ProductDoc \cup {Gone}]
        /\ fabric \in [Colour -> [price : Price, ypu : PerUnit] \cup {Gone}]
        /\ fabric[First] # Gone
    BY StartAssumption DEF Init
  <2>4. order = None /\ profiles \in Nat /\ edits \in 0 .. MaxEdits
    BY BoundAssumption DEF Init
  <2> QED BY <2>1, <2>2, <2>3, <2>4 DEF IndInv, TypeOK, RequestType
<1> QED BY <1>1, IndInvStep, PTL DEF Spec

\* Documents, orders, lines and requests are of their kind, the totals and prices
\* natural numbers.
THEOREM TypeCorrect == Spec => []TypeOK
<1>1. IndInv => TypeOK BY DEF IndInv
<1> QED BY <1>1, Invariant, PTL

\* The breakdown a customer sees adds up, however the reads of the catalogue, the
\* edits and the writes of the order interleave.
THEOREM BreakdownSums == Spec => []BreakdownAddsUp
<1>1. IndInv => BreakdownAddsUp
  <2> SUFFICES ASSUME IndInv, order # None PROVE BreakdownAddsUp BY DEF BreakdownAddsUp
  <2>1. OrderOK(order) BY DEF IndInv
  <2>2. ASSUME NEW i \in DOMAIN order.lines
        PROVE  LET l == order.lines[i]
               IN  /\ l.total % 10 = 0
                   /\ l.total - (l.base + l.style + l.cloth) \in -4 .. 5
                   /\ l.cloth = l.perUnit * l.qty
    BY <2>1, TotalRounds DEF OrderOK, Priced, LineOK
  <2> QED BY <2>1, <2>2 DEF BreakdownAddsUp, OrderOK
<1> QED BY <1>1, Invariant, PTL

\* The units of a line cover the cloth its measurements need, to half a hundredth of
\* a yard, and with one less they would not: for all measurements and units.
THEOREM UnitsSuffice == Spec => []UnitsFitTheCloth
<1>1. IndInv => UnitsFitTheCloth
  <2> SUFFICES ASSUME IndInv, order # None PROVE UnitsFitTheCloth BY DEF UnitsFitTheCloth
  <2>1. OrderOK(order) BY DEF IndInv
  <2>2. ASSUME NEW i \in DOMAIN order.lines
        PROVE  LET l == order.lines[i]
                   need == Max({200 * 18288,
                                IF Complete(l.body) THEN 1000 * TotalLength(l.body) ELSE 0})
               IN  /\ l.qty * l.ypu * 18288 >= need - 9144
                   /\ (l.qty - 1) * l.ypu * 18288 < need + 9144
    <3>1. PICK l : l = order.lines[i] /\ LineOK(l) BY <2>1 DEF OrderOK, Priced
    <3>2. /\ l.body \in Measures /\ l.ypu \in Nat /\ l.ypu > 0
          /\ l.qty = Units(l.body, l.ypu)
      BY <3>1, BodyMeasured DEF LineOK, Line
    <3> QED BY <3>1, <3>2, UnitsFit
  <2> QED BY <2>2 DEF UnitsFitTheCloth
<1> QED BY <1>1, Invariant, PTL

\* An order made or read while nobody edits the catalogue and nobody else writes it
\* has the total the catalogue asks for it, when the name of the fabric holds no
\* dash of its own: the colour noted is then the one chosen.
THEOREM AnswersCurrent ==
    ASSUME ~DashInName
    PROVE  Spec => []AnswerIsCurrent
<1>1. IndInv => AnswerIsCurrent
  <2> SUFFICES ASSUME IndInv, NEW r \in Request, req[r].at = "answered", req[r].quiet
               PROVE  order.total = Quote(order.lines, order.delivery, order.promo)
    BY DEF AnswerIsCurrent
  <2>1. OrderOK(order) /\ \A i \in DOMAIN order.lines : Current(order.lines[i])
    BY DEF IndInv, RequestOK, QuietOK
  <2>2. \A i \in DOMAIN order.lines : Now(order.lines[i]) = order.lines[i]
    BY <2>1, CurrentAsked DEF OrderOK
  <2>3. order.lines = [i \in DOMAIN order.lines |-> order.lines[i]]
    <3>1. order.lines \in Seq(Line) BY <2>1 DEF OrderOK, Order
    <3> QED BY <3>1
  <2>4. [i \in DOMAIN order.lines |-> Now(order.lines[i])] = order.lines BY <2>2, <2>3
  <2> QED BY <2>1, <2>4 DEF Quote, OrderOK
<1> QED BY <1>1, Invariant, PTL
=============================================================================
