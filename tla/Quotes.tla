------------------------------- MODULE Quotes -------------------------------
(***************************************************************************)
(* What an order costs (packages/api/src/services/orderService.ts): the    *)
(* cloth the tailor's layout needs, the price of each item, delivery and   *)
(* the discount, when the order is made and every time it is read while it *)
(* is PENDING; and the measurement profiles a customer may save.  Product  *)
(* and fabric are read from MongoDB one after the other, item by item,     *)
(* while administrators edit both.  What happens to the order afterwards   *)
(* and its payment are in OrderPayments: here it stays PENDING.            *)
(*                                                                         *)
(* Money is in thousandths of a naira (a tenth of a kobo), cloth in        *)
(* hundredths of a yard and a pattern in twentieths of a centimetre.  The  *)
(* code computes in binary floats and this module exactly: it says nothing *)
(* of the fractions of a kobo the discount's `* 0.1` leaves in a total.    *)
(***************************************************************************)
EXTENDS Integers, SequencesExt

CONSTANTS Product,     \* ObjectIds of products
          Colour,      \* colours of the one fabric: its properties
          First,       \* the colour its properties begin with, never removed
          DashInName,  \* does the name of the fabric hold " -- " itself?
          Cart,        \* what a customer may order: sequences of items
          Price,       \* prices an administrator may enter
          PerUnit,     \* yards in a unit of fabric, in hundredths
          StartProduct, StartFabric,  \* the catalogue at first
          Request,     \* slots for requests in flight
          MaxEdits,    \* bound: edits of the catalogue
          None, Gone

Naira == 1000

\* The schemas (shared/src/schemas/catalog.schema.ts) take any fraction of a naira.
ASSUME PriceAssumption == Price \subseteq Nat
ASSUME RequestAssumption == IsFiniteSet(Request)
ASSUME BoundAssumption == MaxEdits \in Nat
ASSUME FabricAssumption ==
  /\ First \in Colour
  /\ \A u \in PerUnit : u \in Nat /\ u > 0
  /\ Gone \notin [price : Price, ypu : PerUnit]

VARIABLES product,   \* isActive, basePrice and the modifier of the one style
          fabric,    \* priceModifier and yardsPerUnit of each colour
          order,     \* the PENDING order
          profiles,  \* how many measurement profiles the customer saved
          edits, req

vars == <<product, fabric, order, profiles, edits, req>>

-----------------------------------------------------------------------------
(* The cloth an item needs: calculateFabricYards.                          *)
Complete(b) == b.chest > 0 /\ b.hip > 0 /\ b.length > 0 /\ b.shoulder > 0

\* Twice the flat width is the larger circumference and 30 cm of ease; the
\* panels go side by side when that fits the 115 cm of the cloth.
NumLengths(b) == IF Max({b.chest, b.hip}) + 30 > 115 THEN 2 ELSE 1

\* In twentieths of a cm: 0.85 of the height each, 1.5 of the shoulder, 20 cm.
TotalLength(b) == 17 * b.length * NumLengths(b) + 30 * b.shoulder + 400

\* A yard is 91.44 cm; Math.round goes to the nearest, a half up.
Yards(b) == IF ~Complete(b) THEN 200
            ELSE Max({200, (1000 * TotalLength(b) + 9144) \div 18288})

\* Whole units only.
UnitsBegun(b, ypu) == Yards(b) \div ypu
\* Math.ceil
Units(b, ypu) == (Yards(b) + ypu - 1) \div ypu

ClothPrice(b, price, ypu) == price * Units(b, ypu)

-----------------------------------------------------------------------------
(* The price of an order                                                   *)
\* computeOrderTotal rounds to the kobo, ten of these units.
ItemTotal(l) == ((l.base + l.cloth + l.style + 5) \div 10) * 10

DeliveryFee ==
  [none |-> 0, standard |-> 3500 * Naira, express |-> 7500 * Naira]

\* The promo code JHAZ10 takes a tenth off, the delivery included.  Lines and fees
\* are whole in kobo, so the tenth is whole in these units; the code's is a float.
GrandTotal(lines, delivery, promo) ==
  LET sum == FoldSeq(LAMBDA l, n : l.total + n, DeliveryFee[delivery], lines)
  IN  IF promo THEN sum - sum \div 10 ELSE sum

\* A line of an order: the item with the prices it was given.  chosen is the
\* colour in fabricOptionName, colour what colorName holds.
NewLine(i) ==
  [product |-> i.product, chosen |-> i.chosen, styled |-> i.styled, body |-> i.body,
   colour |-> i.chosen, base |-> 0, style |-> 0, perUnit |-> 0, ypu |-> 100,
   qty |-> Units(i.body, 100), cloth |-> 0, total |-> 0]
NewLines(cart) == [i \in DOMAIN cart |-> NewLine(cart[i])]

\* The product's base price and its style's modifier; what is no longer there
\* keeps the price the line had.
WithProduct(l, doc) ==
  IF doc = Gone THEN l
  ELSE [l EXCEPT !.base = doc.base,
                 !.style = IF l.styled /\ doc.style # Gone THEN doc.style ELSE @]

\* fabricDoc.properties.find, or else the first of them.
Find(c) == IF c \in Colour /\ fabric[c] # Gone THEN c ELSE First

WithColour(l, c) ==
  [l EXCEPT !.perUnit = fabric[c].price, !.ypu = fabric[c].ypu,
            !.qty = Units(l.body, fabric[c].ypu),
            !.cloth = ClothPrice(l.body, fabric[c].price, fabric[c].ypu)]

\* createOrder names the colour found; colorName is what follows the first
\* dash of "<fabric> -- <colour>".
Chosen(l) ==
  LET c == Find(l.chosen)
  IN  [WithColour(l, c) EXCEPT !.chosen = c, !.colour = IF DashInName THEN None ELSE c]

\* revalidateOrderPricing looks that colour up, and writes the line anew when
\* the price, the yards per unit or the number of units differs, not the
\* price alone.
AgainIfDearer(l) ==
  IF fabric[Find(l.colour)].price = l.perUnit THEN l ELSE WithColour(l, Find(l.colour))
Again(l) == WithColour(l, Find(l.colour))

WithTotal(l) == [l EXCEPT !.total = ItemTotal(l)]

-----------------------------------------------------------------------------
Idle == [at |-> "idle", make |-> FALSE, todo |-> <<>>, done |-> <<>>, doc |-> None,
         was |-> None, delivery |-> "none", promo |-> FALSE, shown |-> None,
         quiet |-> TRUE]

Item == UNION {{c[i] : i \in DOMAIN c} : c \in Cart}
Body == {i.body : i \in Item}
Line == [product : Product, chosen : Colour \cup {None}, styled : BOOLEAN, body : Body,
         colour : Colour \cup {None}, base : Nat, style : Nat, perUnit : Nat,
         ypu : Nat, qty : Nat, cloth : Nat, total : Nat]
ProductDoc == [active : BOOLEAN, base : Price, style : Price \cup {Gone}]
Order == [lines : Seq(Line), delivery : DOMAIN DeliveryFee, promo : BOOLEAN, total : Nat]

Measures == [chest : Nat, hip : Nat, length : Nat, shoulder : Nat]
\* The schema asks for one item at least; a measurement not given is zero.
ASSUME CartAssumption ==
  \A cart \in Cart :
    /\ cart # <<>>
    /\ cart \in Seq([product : Product, chosen : Colour \cup {None}, styled : BOOLEAN,
                     body : Measures])
ASSUME StartAssumption ==
  /\ StartProduct \in [Product -> ProductDoc \cup {Gone}]
  /\ StartFabric \in [Colour -> [price : Price, ypu : PerUnit] \cup {Gone}]
  /\ StartFabric[First] # Gone

TypeOK ==
  /\ product \in [Product -> ProductDoc \cup {Gone}]
  /\ fabric \in [Colour -> [price : Price, ypu : PerUnit] \cup {Gone}]
  /\ fabric[First] # Gone
  /\ order \in Order \cup {None}
  /\ profiles \in Nat
  /\ edits \in 0 .. MaxEdits
  /\ req \in [Request ->
       [at : {"idle", "product", "fabric", "store", "answered", "addProfile"},
        make : BOOLEAN, todo : Seq(Line), done : Seq(Line), doc : ProductDoc \cup {None, Gone},
        was : Order \cup {None}, delivery : DOMAIN DeliveryFee, promo : BOOLEAN,
        shown : Nat \cup {None}, quiet : BOOLEAN]]

Init ==
  /\ product = StartProduct
  /\ fabric = StartFabric
  /\ order = None
  /\ profiles = 0
  /\ edits = 0
  /\ req = [r \in Request |-> Idle]

Goto(r, q) == req' = [req EXCEPT ![r] = q]

\* quiet is not in the code: nothing a request depends on changed since it
\* began.
Disturb(r, q) ==
  req' = [s \in Request |-> IF s = r THEN q ELSE [req[s] EXCEPT !.quiet = FALSE]]

\* What the catalogue asks for a line, and for an order, at this moment.
Now(l) ==
  LET p == WithProduct(l, product[l.product])
  IN  WithTotal(IF l.chosen = None THEN p ELSE WithColour(p, Find(l.chosen)))
Quote(lines, delivery, promo) ==
  GrandTotal([i \in DOMAIN lines |-> Now(lines[i])], delivery, promo)

(* createOrder begins; the customer may have been shown the total of then. *)
BeginCreate(r) ==
  /\ req[r].at = "idle"
  /\ order = None
  /\ \A s \in Request : ~req[s].make
  /\ \E cart \in Cart, delivery \in DOMAIN DeliveryFee, promo \in BOOLEAN :
       \E shown \in {None, Quote(NewLines(cart), delivery, promo)} :
         Goto(r, [Idle EXCEPT !.at = "product", !.make = TRUE, !.todo = NewLines(cart),
                              !.delivery = delivery, !.promo = promo, !.shown = shown])
  /\ UNCHANGED <<product, fabric, order, profiles, edits>>

(* getOrderById reads the order and calls revalidateOrderPricing.          *)
BeginRead(r) ==
  /\ req[r].at = "idle"
  /\ order # None
  /\ Goto(r, [Idle EXCEPT !.at = "product", !.todo = order.lines, !.was = order,
                          !.delivery = order.delivery, !.promo = order.promo])
  /\ UNCHANGED <<product, fabric, order, profiles, edits>>

\* The line is done: on to the next one, or to the end.
Advance(q, l) ==
  [q EXCEPT !.at = IF Len(q.todo) = 1 THEN "store" ELSE "product", !.doc = None,
            !.todo = Tail(@), !.done = Append(@, WithTotal(l))]

\* createOrder refuses a product that has gone or is not active, and a style it
\* has not once the fabric was read.
Inactive(q, doc) == q.make /\ (doc = Gone \/ ~doc.active)
NoStyle(q, doc) == q.make /\ q.todo[1].styled /\ doc.style = Gone

ReadProduct(r) ==
  LET q == req[r]  l == q.todo[1]  doc == product[l.product]
  IN  /\ q.at = "product"
      /\ Goto(r, IF Inactive(q, doc) THEN Idle
                 ELSE IF l.chosen # None THEN [q EXCEPT !.at = "fabric", !.doc = doc]
                 ELSE IF NoStyle(q, doc) THEN Idle
                 ELSE Advance(q, WithProduct(l, doc)))
      /\ UNCHANGED <<product, fabric, order, profiles, edits>>

ReadFabric(r) ==
  LET q == req[r]  l == WithProduct(q.todo[1], q.doc)
  IN  /\ q.at = "fabric"
      /\ Goto(r, IF NoStyle(q, q.doc) THEN Idle
                 ELSE Advance(q, IF q.make THEN Chosen(l) ELSE Again(l)))
      /\ UNCHANGED <<product, fabric, order, profiles, edits>>

(* The total compared with the one shown, and the order inserted.          *)
StoreNew(r) ==
  LET q == req[r]  total == GrandTotal(q.done, q.delivery, q.promo)
  IN  /\ q.at = "store" /\ q.make
      /\ IF q.shown # None /\ total - q.shown \notin -Naira .. Naira
         THEN Goto(r, Idle) /\ UNCHANGED order
         ELSE /\ order' = [lines |-> q.done, delivery |-> q.delivery,
                           promo |-> q.promo, total |-> total]
              /\ Disturb(r, [q EXCEPT !.at = "answered", !.make = FALSE])
      /\ UNCHANGED <<product, fabric, profiles, edits>>

\* Only the totals are written.
StoreTotals(r) ==
  LET q == req[r]
      new == [q.was EXCEPT !.total = GrandTotal(q.done, q.delivery, q.promo)]
  IN  /\ q.at = "store" /\ ~q.make
      /\ order' = new
      /\ Disturb(r, [q EXCEPT !.at = "answered"])
      /\ UNCHANGED <<product, fabric, profiles, edits>>
(* The order is written when it differs from what was read.                *)
StoreRead(r) ==
  LET q == req[r]
      new == [q.was EXCEPT !.lines = q.done, !.total = GrandTotal(q.done, q.delivery, q.promo)]
  IN  /\ q.at = "store" /\ ~q.make
      /\ IF new # q.was
         THEN order' = new /\ Disturb(r, [q EXCEPT !.at = "answered"])
         ELSE UNCHANGED order /\ Goto(r, [q EXCEPT !.at = "answered"])
      /\ UNCHANGED <<product, fabric, profiles, edits>>

(* The request is over: answered, or failed at one of its awaits.          *)
Leave(r) ==
  /\ req[r].at # "idle"
  /\ Goto(r, Idle)
  /\ UNCHANGED <<product, fabric, order, profiles, edits>>

-----------------------------------------------------------------------------
(* createMeasurement counts, and inserts when there are fewer than two.    *)
CountTwo(r) ==
  /\ req[r].at = "idle"
  /\ profiles <= 2
  /\ Goto(r, [Idle EXCEPT !.at = "addProfile"])
  /\ UNCHANGED <<product, fabric, order, profiles, edits>>
CountProfiles(r) ==
  /\ req[r].at = "idle"
  /\ profiles < 2
  /\ Goto(r, [Idle EXCEPT !.at = "addProfile"])
  /\ UNCHANGED <<product, fabric, order, profiles, edits>>

AddProfile(r) ==
  /\ req[r].at = "addProfile"
  /\ profiles' = profiles + 1
  /\ Goto(r, Idle)
  /\ UNCHANGED <<product, fabric, order, edits>>

-----------------------------------------------------------------------------
(* Administrators: updateProduct, deleteProduct and updateFabric; a fabric *)
(* is never removed, and deletedAt is not looked at here.                  *)
Edit ==
  /\ edits < MaxEdits
  /\ edits' = edits + 1
  /\ \/ /\ \E p \in Product, doc \in ProductDoc \cup {Gone} :
             product[p] # Gone /\ product' = [product EXCEPT ![p] = doc]
        /\ UNCHANGED fabric
     \/ /\ \E c \in Colour :
             \E prop \in [price : Price, ypu : PerUnit] \cup (IF c = First THEN {} ELSE {Gone}) :
               fabric' = [fabric EXCEPT ![c] = prop]
        /\ UNCHANGED product
  /\ req' = [r \in Request |-> [req[r] EXCEPT !.quiet = @ /\ req[r].at = "idle"]]
  /\ UNCHANGED <<order, profiles>>

Next ==
  \/ \E r \in Request :
       \/ BeginCreate(r) \/ BeginRead(r) \/ ReadProduct(r) \/ ReadFabric(r)
       \/ StoreNew(r) \/ StoreRead(r) \/ Leave(r) \/ CountProfiles(r) \/ AddProfile(r)
  \/ Edit

Spec == Init /\ [][Next]_vars

-----------------------------------------------------------------------------
(* Properties *)

\* The total of an order is the sum of its lines, delivery and discount, and
\* each line the sum of its parts to the nearest kobo, with the fabric's price
\* times the units: the breakdown a customer sees adds up however reads of it
\* overlap (orderService.ts:899-929), for prices with fractions of a kobo too.
BreakdownAddsUp ==
  order # None =>
    /\ \A i \in DOMAIN order.lines :
         LET l == order.lines[i]
         IN  /\ l.total % 10 = 0
             /\ l.total - (l.base + l.style + l.cloth) \in -4 .. 5
             /\ l.cloth = l.perUnit * l.qty
    /\ order.total = GrandTotal(order.lines, order.delivery, order.promo)

\* The units ordered cover the cloth the measurements need, but for the half
\* hundredth of a yard Math.round may drop, and none is bought in vain, after
\* any change of the yards in a unit (orderService.ts:343-345, 855-867).
UnitsFitTheCloth ==
  order # None =>
    \A i \in DOMAIN order.lines :
      LET l == order.lines[i]
          \* in the unit of Yards, times 18288
          need == Max({200 * 18288, IF Complete(l.body) THEN 1000 * TotalLength(l.body) ELSE 0})
      IN  /\ l.qty * l.ypu * 18288 >= need - 9144
          /\ (l.qty - 1) * l.ypu * 18288 < need + 9144

\* An order made or read while nobody edits the catalogue and nobody else
\* writes it shows what the catalogue asks for it now, though it was priced
\* item by item (orderService.ts:806-924); a style no longer offered and a
\* colour no longer sold keep what the code falls back to.
AnswerIsCurrent ==
  \A r \in Request :
    req[r].at = "answered" /\ req[r].quiet =>
      order.total = Quote(order.lines, order.delivery, order.promo)

\* However many requests count the profiles at once, a customer has at most
\* one more than there are requests (orderService.ts:975-989): with one at a
\* time, two.
ProfilesAreBounded == profiles <= 1 + Cardinality(Request)
=============================================================================
