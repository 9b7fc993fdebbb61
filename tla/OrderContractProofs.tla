------------------------ MODULE OrderContractProofs ------------------------
(***************************************************************************)
(* Whatever requests overlap, OrderPayments leaves OrderContract only by   *)
(* the writes of overtaken requests; and it keeps it as long as no two     *)
(* requests in flight work on the same order.  For every number of orders, *)
(* requests, references, prices and failures.                              *)
(***************************************************************************)
EXTENDS OrderPaymentsProofs, FiniteSetTheorems

(***************************************************************************)
(* The contract's view of the tables.                                      *)
(***************************************************************************)
\* The payment of the order is on record.
PaidOf(o) == o \in DOMAIN payments /\ payments[o].status = "COMPLETED"

\* A step leaves the rows and jobs of an order as they are.
RowsKept(o) ==
    /\ Exists(o)' <=> Exists(o)
    /\ Exists(o) => orders'[o] = orders[o]
    /\ o \in DOMAIN payments' <=> o \in DOMAIN payments
    /\ o \in DOMAIN payments => payments'[o] = payments[o]
    /\ jobs'[o] = jobs[o]

StageOf(o) ==
    IF ~Exists(o) THEN IF issued[o] = 0 THEN "none" ELSE "gone"
    ELSE IF orders[o].status = "PENDING" THEN "pending" ELSE "placed"

QuoteOf(o) == IF Exists(o) THEN orders[o].total ELSE 0

Charges(o) == {n \in Stamp : Charged(<<o, n>>)}

\* What customers see of an order but its notices stays as it is.
SeenKept(o) ==
    /\ StageOf(o)' = StageOf(o)
    /\ QuoteOf(o)' = QuoteOf(o)
    /\ PaidOf(o)' = PaidOf(o)

\* The view of all orders is the one the contract is instantiated with.
Stages == [o \in Order |-> StageOf(o)]
Quoted == [o \in Order |-> QuoteOf(o)]
Paids == [o \in Order |-> PaidOf(o)]
Counts == [o \in Order |-> Cardinality(Charges(o))]

\* A step that customers do not notice.
Unseen == UNCHANGED <<Stages, Quoted, Paids, Counts, jobs>>

LEMMA UnseenStutters == Unseen => UNCHANGED Contract!contractVars
BY DEF Unseen, Contract!contractVars, Stages, Quoted, Paids, Counts, StageOf, QuoteOf, PaidOf, Charges

\* The charges of an order are counted.
LEMMA ChargesAreFinite ==
    ASSUME NEW o
    PROVE  IsFiniteSet(Charges(o)) /\ Cardinality(Charges(o)) \in Nat
<1>1. IsFiniteSet(Stamp)
  BY MaxRefAssumption, FS_Interval DEF Stamp
<1>2. Charges(o) \subseteq Stamp
  BY DEF Charges
<1> QED BY <1>1, <1>2, FS_Subset, FS_CardinalityType

\* An order with a charge has a positive number of them.
LEMMA ChargedIsCounted ==
    ASSUME NEW o, NEW n \in Stamp, Charged(<<o, n>>)
    PROVE  Cardinality(Charges(o)) > 0
<1>1. n \in Charges(o)
  BY DEF Charges
<1>2. Charges(o) # {}
  BY <1>1
<1> QED BY <1>2, ChargesAreFinite, FS_EmptySet

\* A step that leaves Paystack alone leaves the numbers of charges.
LEMMA CountsKept == ASSUME UNCHANGED txns PROVE UNCHANGED Counts
BY DEF Counts, Charges, Charged

\* A step that leaves rows and jobs alone, and keeps the ids that are taken.
LEMMA UnseenStep ==
    ASSUME UNCHANGED <<orders, payments, jobs>>, UNCHANGED Counts,
           \A o \in Order : issued'[o] = 0 <=> issued[o] = 0
    PROVE  Unseen
<1>1. ASSUME NEW o \in Order PROVE SeenKept(o)
  BY DEF SeenKept, StageOf, QuoteOf, PaidOf, Exists
<1> QED BY <1>1 DEF Unseen, SeenKept, Stages, Quoted, Paids

\* A step on one order changes the view of that order only.
LEMMA OneOrderSeen ==
    ASSUME NEW o \in Order, \A x \in Order : x # o => SeenKept(x)
    PROVE  /\ Stages' = [Stages EXCEPT ![o] = StageOf(o)']
           /\ Quoted' = [Quoted EXCEPT ![o] = QuoteOf(o)']
           /\ Paids' = [Paids EXCEPT ![o] = PaidOf(o)']
<1>1. Stages' = [Stages EXCEPT ![o] = StageOf(o)']
  BY DEF Stages, SeenKept
<1>2. Quoted' = [Quoted EXCEPT ![o] = QuoteOf(o)']
  BY DEF Quoted, SeenKept
<1>3. Paids' = [Paids EXCEPT ![o] = PaidOf(o)']
  BY DEF Paids, SeenKept
<1> QED BY <1>1, <1>2, <1>3

\* A step on one order whose view stays as it was is not noticed.
LEMMA SameView ==
    ASSUME \A x \in Order : SeenKept(x), UNCHANGED <<Counts, jobs>>
    PROVE  Unseen
BY DEF Unseen, SeenKept, Stages, Quoted, Paids

\* The rows decide what is seen of an order that keeps its id.
LEMMA RowsSeen ==
    ASSUME NEW o, RowsKept(o), issued'[o] = issued[o]
    PROVE  SeenKept(o)
BY DEF RowsKept, SeenKept, StageOf, QuoteOf, PaidOf, Exists

\* The steps of the contract, told by the view.
LEMMA PlaceView ==
    ASSUME NEW o \in Order, StageOf(o) = "none", StageOf(o)' = "pending", QuoteOf(o)' \in Price,
           PaidOf(o)' = PaidOf(o), \A x \in Order : x # o => SeenKept(x),
           UNCHANGED <<Counts, jobs>>
    PROVE  Contract!Place(o)
<1>1. Stages[o] = "none"
  BY DEF Stages
<1>2. /\ Stages' = [Stages EXCEPT ![o] = "pending"]
      /\ \E p \in Price : Quoted' = [Quoted EXCEPT ![o] = p]
  BY OneOrderSeen
<1>3. Paids' = Paids
  BY DEF Paids, SeenKept
<1> QED BY <1>1, <1>2, <1>3
        DEF Contract!Place, Stages, Quoted, Paids, Counts, StageOf, QuoteOf, PaidOf, Charges

LEMMA RequoteView ==
    ASSUME NEW o \in Order, StageOf(o) = "pending", ~PaidOf(o), StageOf(o)' = StageOf(o),
           QuoteOf(o)' \in Price, PaidOf(o)' = PaidOf(o), \A x \in Order : x # o => SeenKept(x),
           UNCHANGED <<Counts, jobs>>
    PROVE  Contract!Requote(o)
<1>1. Stages[o] = "pending" /\ ~Paids[o]
  BY DEF Stages, Paids
<1>2. \E p \in Price : Quoted' = [Quoted EXCEPT ![o] = p]
  BY OneOrderSeen
<1>3. Stages' = Stages /\ Paids' = Paids
  BY DEF Stages, Paids, SeenKept
<1> QED BY <1>1, <1>2, <1>3
        DEF Contract!Requote, Stages, Quoted, Paids, Counts, StageOf, QuoteOf, PaidOf, Charges

LEMMA ConfirmView ==
    ASSUME NEW o \in Order, StageOf(o) \in {"pending", "placed"}, Cardinality(Charges(o)) > 0,
           ~PaidOf(o), StageOf(o)' = "placed", PaidOf(o)', QuoteOf(o)' = QuoteOf(o),
           \A x \in Order : x # o => SeenKept(x),
           UNCHANGED <<Counts, jobs>>
    PROVE  Contract!Confirm(o)
<1>1. Stages[o] \in {"pending", "placed"} /\ ~Paids[o] /\ Counts[o] > 0
  BY DEF Stages, Paids, Counts
<1>2. PaidOf(o)' = TRUE
  BY DEF PaidOf
<1>3. /\ Stages' = [Stages EXCEPT ![o] = "placed"]
      /\ Paids' = [Paids EXCEPT ![o] = TRUE]
  BY <1>2, OneOrderSeen
<1>4. Quoted' = Quoted
  BY DEF Quoted, SeenKept
<1> QED BY <1>1, <1>3, <1>4
        DEF Contract!Confirm, Stages, Quoted, Paids, Counts, StageOf, QuoteOf, PaidOf, Charges

LEMMA WorkView ==
    ASSUME NEW o \in Order, StageOf(o) = "pending", StageOf(o)' = "placed",
           QuoteOf(o)' = QuoteOf(o), PaidOf(o)' = PaidOf(o),
           \A x \in Order : x # o => SeenKept(x),
           UNCHANGED <<Counts, jobs>>
    PROVE  Contract!Work(o)
<1>1. Stages[o] = "pending"
  BY DEF Stages
<1>2. Stages' = [Stages EXCEPT ![o] = "placed"]
  BY OneOrderSeen
<1>3. Quoted' = Quoted /\ Paids' = Paids
  BY DEF Quoted, Paids, SeenKept
<1> QED BY <1>1, <1>2, <1>3
        DEF Contract!Work, Stages, Quoted, Paids, Counts, StageOf, QuoteOf, PaidOf, Charges

LEMMA WithdrawView ==
    ASSUME NEW o \in Order, StageOf(o) = "pending", ~PaidOf(o), StageOf(o)' = "gone",
           QuoteOf(o)' = 0, PaidOf(o)' = PaidOf(o),
           \A x \in Order : x # o => SeenKept(x),
           UNCHANGED <<Counts, jobs>>
    PROVE  Contract!Withdraw(o)
<1>1. Stages[o] = "pending" /\ ~Paids[o]
  BY DEF Stages, Paids
<1>2. Stages' = [Stages EXCEPT ![o] = "gone"] /\ Quoted' = [Quoted EXCEPT ![o] = 0]
  BY OneOrderSeen
<1>3. Paids' = Paids
  BY DEF Paids, SeenKept
<1> QED BY <1>1, <1>2, <1>3
        DEF Contract!Withdraw, Stages, Quoted, Paids, Counts, StageOf, QuoteOf, PaidOf, Charges

LEMMA AnnounceView ==
    ASSUME NEW o \in Order, jobs[o] < Cardinality(Charges(o)),
           jobs' = [jobs EXCEPT ![o] = @ + 1],
           \A x \in Order : SeenKept(x), UNCHANGED Counts
    PROVE  Contract!Announce(o)
<1>1. jobs[o] < Counts[o]
  BY DEF Counts
<1>2. Stages' = Stages /\ Quoted' = Quoted /\ Paids' = Paids
  BY DEF Stages, Quoted, Paids, SeenKept
<1> QED BY <1>1, <1>2
        DEF Contract!Announce, Stages, Quoted, Paids, Counts, StageOf, QuoteOf, PaidOf, Charges

LEMMA ChargeView ==
    ASSUME NEW o \in Order, StageOf(o) # "none",
           Cardinality(Charges(o))' = Cardinality(Charges(o)) + 1,
           \A x \in Order : x # o => Charges(x)' = Charges(x),
           \A x \in Order : SeenKept(x), UNCHANGED jobs
    PROVE  Contract!Charge(o)
<1>1. Stages[o] # "none"
  BY DEF Stages
<1>2. Stages' = Stages /\ Quoted' = Quoted /\ Paids' = Paids
  BY DEF Stages, Quoted, Paids, SeenKept
<1>3. Counts' = [Counts EXCEPT ![o] = @ + 1]
  BY DEF Counts
<1> QED BY <1>1, <1>2, <1>3
        DEF Contract!Charge, Stages, Quoted, Paids, Counts, StageOf, QuoteOf, PaidOf, Charges

(***************************************************************************)
(* Every step of the service, whatever else is under way.                  *)
(***************************************************************************)
\* What was going to be written to a pending order was decided by a request
\* that read it as pending.
Decided(q) == q.pc \in {"price", "reprice", "intentInit", "upsert"} => q.status = "PENDING"

DecidedInv == \A r \in Request : Decided(req[r])

LEMMA DecidedGoto ==
    ASSUME Inv, DecidedInv, NEW r \in Request, NEW q, Goto(r, q), Decided(q)
    PROVE  DecidedInv'
<1>1. req \in [Request -> RequestState]
  BY DEF Inv, Shape, TypeOK
<1>2. ASSUME NEW s \in Request
      PROVE  Decided(req'[s])
  BY <1>1 DEF Goto, DecidedInv
<1>3. \A p : Decided(p)' <=> Decided(p)
  BY DEF Decided
<1> QED BY <1>2 DEF DecidedInv, Decided

LEMMA CatchDecided == ASSUME NEW q \in RequestState PROVE Decided(Catch(q)) /\ Decided(IntentGoesOn(q))
<1>1. Decided(IntentGoesOn(q))
  BY DEF IntentGoesOn, Decided, Idle, RequestState
<1>2. Decided(Idle) /\ Decided([q EXCEPT !.pc = "deleteRow"])
  BY DEF Decided, Idle, RequestState
<1> QED BY <1>1, <1>2 DEF Catch

LEMMA AfterGetDecided == ASSUME NEW q \in RequestState PROVE Decided(AfterGet(q))
<1>1. Decided(Idle) /\ Decided([q EXCEPT !.pc = "intentRead", !.amount = 0])
  BY DEF Decided, Idle, RequestState
<1> QED BY <1>1 DEF AfterGet

\* A request that goes on elsewhere has decided nothing new.
LEMMA ElsewhereDecided ==
    ASSUME NEW q, q.pc \notin {"price", "reprice", "intentInit", "upsert"}
    PROVE  Decided(q)
BY DEF Decided

LEMMA ReadPaymentDecided ==
    ASSUME Inv, DecidedInv, NEW r \in Request, NEW q \in RequestState, ReadPayment(r, q)
    PROVE  DecidedInv'
<1> DEFINE p == [q EXCEPT !.pc = "confirmVerify", !.amount = payments[q.order].amount]
<1>1. Goto(r, Idle) \/ Goto(r, p) \/ Goto(r, Catch(q))
  BY DEF ReadPayment
<1>2. p.pc = "confirmVerify" /\ Idle.pc = "idle"
  BY DEF RequestState, Idle
<1>3. Decided(p) /\ Decided(Idle) /\ Decided(Catch(q))
  BY <1>2, ElsewhereDecided, CatchDecided
<1> QED BY <1>1, <1>3, DecidedGoto

LEMMA DecidedStep ==
    ASSUME Inv, DecidedInv, [Next]_vars
    PROVE  DecidedInv'
<1>1. \A r \in Request : req[r] \in RequestState /\ Decided(req[r])
  BY DEF Inv, Shape, TypeOK, DecidedInv
<1>2. Decided(Idle) /\ Idle \in RequestState
  BY IdleShape DEF Decided, Idle, RequestShape
<1>3. ASSUME NEW r \in Request, Goto(r, Idle) \/ Goto(r, Catch(req[r]))
      PROVE  DecidedInv'
  BY <1>1, <1>2, <1>3, CatchDecided, DecidedGoto
<1>4. ASSUME NEW r \in Request,
             NEW pc \in (Pc \ {"price", "reprice", "intentInit", "upsert"}),
             Goto(r, [req[r] EXCEPT !.pc = pc])
      PROVE  DecidedInv'
  <2>1. [req[r] EXCEPT !.pc = pc].pc = pc
    BY <1>1 DEF RequestState
  <2> QED BY <1>4, <2>1, ElsewhereDecided, DecidedGoto
<1>5. ASSUME NEW r \in Request, InsertOrder(r) \/ InitializeOrder(r)
      PROVE  DecidedInv'
  <2>1. [req[r] EXCEPT !.pc = "initialize", !.stamp = 1].pc = "initialize"
    BY <1>1 DEF RequestState
  <2>2. Goto(r, Idle) \/ Goto(r, [req[r] EXCEPT !.pc = "initialize", !.stamp = 1])
    BY <1>5 DEF InsertOrder, InitializeOrder
  <2> QED BY <1>3, <2>1, <2>2, ElsewhereDecided, DecidedGoto
<1>6. ASSUME NEW r \in Request, ConfirmRead(r) \/ ConfirmVerify(r)
      PROVE  DecidedInv'
  <2>1. CASE ConfirmRead(r) BY <1>1, <2>1, ReadPaymentDecided DEF ConfirmRead
  <2>2. CASE ConfirmVerify(r)
    <3>1. \/ Goto(r, [req[r] EXCEPT !.pc = "confirmLock"])
          \/ Goto(r, [req[r] EXCEPT !.pc = "failLock"])
          \/ Goto(r, Idle) \/ Goto(r, Catch(req[r]))
      BY <2>2 DEF ConfirmVerify
    <3> QED BY <1>3, <1>4, <3>1 DEF Pc, ConfirmPc
  <2> QED BY <1>6, <2>1, <2>2
<1>7. ASSUME NEW r \in Request, ConfirmLock(r) \/ FailLock(r) \/ ConfirmWrite(r)
      PROVE  DecidedInv'
  <2>1. \/ Goto(r, [req[r] EXCEPT !.pc = "confirmWrite"])
        \/ Goto(r, [req[r] EXCEPT !.pc = "failWrite"])
        \/ Goto(r, [req[r] EXCEPT !.pc = "enqueue"]) \/ Goto(r, Idle)
    BY <1>7 DEF ConfirmLock, FailLock, ReadAgain, ConfirmWrite
  <2> QED BY <1>3, <1>4, <2>1 DEF Pc, ConfirmPc
<1>8. ASSUME NEW r \in Request, \/ RowGone(r) \/ EnqueueNotification(r) \/ QueueRefuses(r)
                                \/ FailWrite(r) \/ UpsertPayment(r) \/ DeleteRow(r)
                                \/ UpdateWrite(r) \/ Fault(r)
      PROVE  DecidedInv'
  <2>1. Goto(r, Idle) \/ Goto(r, Catch(req[r]))
    BY <1>8 DEF RowGone, EnqueueNotification, QueueRefuses, FailWrite, UpsertPayment, DeleteRow,
                UpdateWrite, Fault
  <2> QED BY <1>3, <2>1
<1>9. ASSUME NEW r \in Request, ComparePrice(r) \/ Reprice(r)
      PROVE  DecidedInv'
  <2> DEFINE c == [req[r] EXCEPT !.pc = "reprice", !.amount = price]
             p == [req[r] EXCEPT !.status = orders[req[r].order].status,
                                 !.total = req[r].amount]
  <2>1. CASE ComparePrice(r)
    <3>1. req[r].pc = "price" /\ c.status = req[r].status
      BY <1>1, <2>1 DEF ComparePrice, At, RequestState
    <3>2. Decided(c)
      BY <1>1, <3>1 DEF Decided
    <3>3. Goto(r, AfterGet(req[r])) \/ Goto(r, c)
      BY <2>1 DEF ComparePrice
    <3> QED BY <1>1, <3>2, <3>3, AfterGetDecided, DecidedGoto
  <2>2. CASE Reprice(r)
    <3>1. CASE Exists(req[r].order)
      <4>1. orders[req[r].order] \in OrderRow
        BY <3>1 DEF Exists, Inv, Shape, TypeOK
      <4>2. p \in RequestState
        BY <1>1, <4>1 DEF RequestState, OrderRow
      <4>3. Goto(r, AfterGet(p))
        BY <2>2, <3>1 DEF Reprice
      <4> HIDE DEF p
      <4> QED BY <4>2, <4>3, AfterGetDecided, DecidedGoto
    <3>2. CASE ~Exists(req[r].order)
      BY <1>3, <2>2, <3>2 DEF Reprice
    <3> QED BY <3>1, <3>2
  <2> QED BY <1>9, <2>1, <2>2
<1>10. ASSUME NEW r \in Request, IntentReadPayment(r) \/ IntentVerify(r) \/ IntentInitialize(r)
       PROVE  DecidedInv'
  <2> DEFINE v == [req[r] EXCEPT !.pc = "intentVerify", !.stamp = payments[req[r].order].stamp]
             u == [req[r] EXCEPT !.pc = "upsert", !.stamp = issued[req[r].order] + 1]
  <2>1. CASE IntentReadPayment(r) \/ IntentVerify(r)
    <3>1. v.pc = "intentVerify"
      BY <1>1 DEF RequestState
    <3>2. Goto(r, v) \/ Goto(r, [req[r] EXCEPT !.pc = "confirmRead"]) \/ Goto(r, IntentGoesOn(req[r]))
      BY <2>1 DEF IntentReadPayment, IntentVerify
    <3> HIDE DEF v
    <3>3. CASE Goto(r, v) BY <3>1, <3>3, ElsewhereDecided, DecidedGoto
    <3>4. CASE Goto(r, [req[r] EXCEPT !.pc = "confirmRead"])
      BY <1>4, <3>4 DEF Pc, ConfirmPc
    <3>5. CASE Goto(r, IntentGoesOn(req[r])) BY <1>1, <3>5, CatchDecided, DecidedGoto
    <3> QED BY <3>2, <3>3, <3>4, <3>5
  <2>2. CASE IntentInitialize(r)
    <3>1. req[r].pc = "intentInit" /\ u.status = req[r].status
      BY <1>1, <2>2 DEF IntentInitialize, At, RequestState
    <3>2. Decided(u)
      BY <1>1, <3>1 DEF Decided
    <3>3. Goto(r, u) \/ Goto(r, Idle)
      BY <2>2 DEF IntentInitialize
    <3> QED BY <1>3, <3>2, <3>3, DecidedGoto
  <2> QED BY <1>10, <2>1, <2>2
<1>11. ASSUME NEW r \in Request, DeleteReadPayment(r) \/ DeleteVerify(r)
       PROVE  DecidedInv'
  <2> DEFINE v == [req[r] EXCEPT !.pc = "deleteVerify", !.stamp = payments[req[r].order].stamp]
             c == [req[r] EXCEPT !.pc = "confirmRead", !.from = "background"]
  <2>1. v.pc = "deleteVerify" /\ c.pc = "confirmRead"
    BY <1>1 DEF RequestState
  <2>2. Goto(r, v) \/ Goto(r, c) \/ Goto(r, [req[r] EXCEPT !.pc = "deleteRow"])
    BY <1>11 DEF DeleteReadPayment, DeleteVerify
  <2> HIDE DEF v, c
  <2>3. CASE Goto(r, v) \/ Goto(r, c) BY <2>1, <2>3, ElsewhereDecided, DecidedGoto
  <2>4. CASE Goto(r, [req[r] EXCEPT !.pc = "deleteRow"]) BY <1>4, <2>4 DEF Pc
  <2> QED BY <2>2, <2>3, <2>4
<1>12. ASSUME NEW r \in Request, NEW ref \in Reference, Webhook(r, ref) \/ VerifyFromClient(r, ref)
       PROVE  DecidedInv'
  <2> DEFINE w == [Idle EXCEPT !.pc = "confirmRead", !.from = "webhook",
                               !.order = ref[1], !.stamp = ref[2]]
             c == [Idle EXCEPT !.pc = "confirmRead", !.order = ref[1], !.stamp = ref[2]]
  <2>1. w \in RequestState /\ c \in RequestState
    BY <1>2 DEF RequestState, Pc, ConfirmPc, Reference
  <2>2. ReadPayment(r, w) \/ ReadPayment(r, c)
    BY <1>12 DEF Webhook, VerifyFromClient
  <2> HIDE DEF w, c
  <2> QED BY <2>1, <2>2, ReadPaymentDecided
<1>13. ASSUME NEW r \in Request, NEW o \in Order,
              CreateOrder(r, o) \/ DeleteOrder(r, o) \/ UpdateOrderStatus(r, o)
       PROVE  DecidedInv'
  <2> DEFINE c == [Idle EXCEPT !.pc = "insert", !.order = o, !.amount = price]
             d == [Idle EXCEPT !.pc = "deleteRead", !.order = o]
  <2>1. CASE CreateOrder(r, o)
    <3>1. Goto(r, c) /\ c.pc = "insert"
      BY <2>1 DEF CreateOrder, Idle
    <3> HIDE DEF c
    <3> QED BY <3>1, ElsewhereDecided, DecidedGoto
  <2>2. CASE DeleteOrder(r, o)
    <3>1. Goto(r, d) /\ d.pc = "deleteRead"
      BY <2>2 DEF DeleteOrder, Idle
    <3> HIDE DEF d
    <3> QED BY <3>1, ElsewhereDecided, DecidedGoto
  <2>3. CASE UpdateOrderStatus(r, o)
    <3>1. PICK target \in UpdateStatus, tailor \in Tailor \cup {NoTailor, KeepTailor} :
              Goto(r, [Idle EXCEPT !.pc = "updateWrite", !.order = o,
                                   !.status = target, !.tailor = tailor])
      BY <2>3, ZenonT(30) DEF UpdateOrderStatus
    <3> DEFINE u == [Idle EXCEPT !.pc = "updateWrite", !.order = o,
                                 !.status = target, !.tailor = tailor]
    <3>2. Goto(r, u) /\ u.pc = "updateWrite"
      BY <3>1 DEF Idle
    <3> HIDE DEF u
    <3> QED BY <3>2, ElsewhereDecided, DecidedGoto
  <2> QED BY <1>13, <2>1, <2>2, <2>3
<1>14. ASSUME NEW r \in Request, NEW o \in Order, GetOrder(r, o) \/ PaymentIntent(r, o)
       PROVE  DecidedInv'
  <2>1. PICK from \in {"client", "intent"} : ReadOrder(r, o, from)
    BY <1>14 DEF GetOrder, PaymentIntent
  <2> DEFINE q == [Idle EXCEPT !.from = from, !.order = o, !.status = orders[o].status,
                               !.total = orders[o].total]
             p == [q EXCEPT !.pc = "price"]
  <2>2. Exists(o) /\ Goto(r, IF q.status = "PENDING" THEN p ELSE AfterGet(q))
    BY <2>1 DEF ReadOrder
  <2>3. orders[o] \in OrderRow
    BY <2>2 DEF Exists, Inv, Shape, TypeOK
  <2>4. q \in RequestState
    BY <1>2, <2>3 DEF Idle, OrderRow, RequestState
  <2>5. p.status = q.status
    BY <2>4 DEF RequestState
  <2> HIDE DEF q
  <2>6. q.status = "PENDING" => Decided(p)
    BY <2>5 DEF Decided
  <2> HIDE DEF p
  <2> QED BY <2>2, <2>4, <2>6, AfterGetDecided, DecidedGoto
<1>15. CASE UNCHANGED req
  BY <1>15 DEF DecidedInv, Decided
<1> QED BY <1>5, <1>6, <1>7, <1>8, <1>9, <1>10, <1>11, <1>12, <1>13, <1>14, <1>15
        DEF Next, Step, Customer, CatalogChange, vars

\* What is proved of every step.
Kept == Contract!ContractNext \/ Unseen

\* A step that reads, or ends a request.
LEMMA ReadSeen == ASSUME UNCHANGED <<txns, orders, payments, issued, jobs>> PROVE Kept
BY CountsKept, UnseenStep DEF Kept

\* What is known of an order that is there: it has its payment.
LEMMA OrderHasPayment ==
    ASSUME Inv, NEW o \in Order, Exists(o)
    PROVE  /\ o \in DOMAIN payments /\ orders[o] \in OrderRow /\ payments[o] \in PaymentRow
           /\ StageOf(o) \in {"pending", "placed"}
           /\ StageOf(o) = "pending" <=> orders[o].status = "PENDING"
           /\ PaidOf(o) <=> AlreadyProcessed(o)
<1>1. o \in DOMAIN payments
  BY DEF Exists, Inv, TableInv, NoOrphanRows
<1>2. orders[o] \in OrderRow /\ payments[o] \in PaymentRow
  BY <1>1 DEF Exists, Inv, Shape, TypeOK
<1> QED BY <1>1, <1>2 DEF StageOf, PaidOf, AlreadyProcessed

\* createOrder inserts the order and its payment: the order is placed.
LEMMA InsertOrderSeen ==
    ASSUME Inv, NEW r \in Request, InsertOrder(r), NEW q, q = req[r]
    PROVE  Kept
<1>0. PICK o : o = q.order
  OBVIOUS
<1>1. /\ q.pc = "insert" /\ UNCHANGED <<txns, jobs>>
      /\ issued' = [issued EXCEPT ![o] = 1]
      /\ orders' = Put(orders, o, [status |-> "PENDING", total |-> q.amount, tailor |-> NoTailor])
      /\ payments' = Put(payments, o, [status |-> "PENDING", stamp |-> 1, amount |-> q.amount])
  BY <1>0 DEF InsertOrder, At
<1>2. RequestShape(q) /\ o \in Order /\ q.amount \in Price
  BY <1>0, <1>1, Underway DEF RequestShape
<1>3. issued[o] = 0 /\ ~Exists(o) /\ o \notin DOMAIN payments
  <2>1. issued[o] = 0
    BY <1>0, <1>1 DEF Inv, IdsAreFresh
  <2> QED BY <2>1 DEF Inv, IdsAreFresh, Exists, TableInv, NoOrphanRows
<1>4. ASSUME NEW x \in Order, x # o
      PROVE  SeenKept(x)
  <2>1. RowsKept(x) /\ issued'[x] = issued[x]
    BY <1>1, <1>2, <1>4 DEF RowsKept, Put, Exists, Inv, Shape, TypeOK
  <2> QED BY <2>1, RowsSeen
<1>5. /\ Exists(o)' /\ orders'[o].status = "PENDING" /\ orders'[o].total = q.amount
      /\ o \in DOMAIN payments' /\ payments'[o].status = "PENDING"
  BY <1>1 DEF Put, Exists
<1>6. StageOf(o) = "none" /\ ~PaidOf(o) /\ StageOf(o)' = "pending" /\ ~PaidOf(o)' /\ QuoteOf(o)' \in Price
  BY <1>2, <1>3, <1>5 DEF StageOf, PaidOf, QuoteOf, Exists
<1>7. PaidOf(o)' = PaidOf(o)
  BY <1>6 DEF PaidOf
<1>8. Contract!Place(o)
  BY <1>1, <1>2, <1>4, <1>6, <1>7, CountsKept, PlaceView
<1> QED BY <1>2, <1>8 DEF Kept, Contract!ContractNext

\* A repricing of an order that is open requotes it; any other is overtaken.
LEMMA RepriceSeen ==
    ASSUME Inv, DecidedInv, NEW r \in Request, Reprice(r), NEW q, q = req[r]
    PROVE  Kept \/ Overtaken(r)
<1>0. PICK o : o = q.order
  OBVIOUS
<1>1. q.pc = "reprice" /\ UNCHANGED <<txns, issued, jobs>> /\ q.status = "PENDING"
  BY DEF Reprice, At, DecidedInv, Decided
<1>2. RequestShape(q) /\ o \in Order /\ q.amount \in Price
  BY <1>0, <1>1, Underway DEF RequestShape
<1>3. CASE ~Exists(o)
  BY <1>0, <1>1, <1>3, ReadSeen DEF Reprice
<1>4. CASE Exists(o) /\ ~Open(o)
  BY <1>0, <1>1, <1>4 DEF Overtaken
<1>5. CASE Exists(o) /\ Open(o)
  <2>1. /\ o \in DOMAIN payments /\ orders[o] \in OrderRow /\ payments[o] \in PaymentRow
        /\ orders[o].status = "PENDING" /\ StageOf(o) = "pending" /\ ~PaidOf(o)
    BY <1>2, <1>5, OrderHasPayment DEF Open
  <2>2. /\ orders' = [orders EXCEPT ![o].total = q.amount]
        /\ payments' = [payments EXCEPT ![o].amount = q.amount]
    BY <1>0, <1>5, <2>1 DEF Reprice
  <2>3. ASSUME NEW x \in Order, x # o
        PROVE  SeenKept(x)
    <3>1. RowsKept(x) /\ issued'[x] = issued[x]
      BY <1>1, <2>2, <2>3 DEF RowsKept, Exists
    <3> QED BY <3>1, RowsSeen
  <2>4. /\ Exists(o)' /\ orders'[o].status = "PENDING" /\ orders'[o].total = q.amount
        /\ o \in DOMAIN payments' /\ payments'[o].status = payments[o].status
    BY <1>5, <2>1, <2>2 DEF Exists, OrderRow, PaymentRow
  <2>5. StageOf(o)' = StageOf(o) /\ QuoteOf(o)' \in Price /\ PaidOf(o)' = PaidOf(o)
    BY <1>2, <2>1, <2>4 DEF StageOf, QuoteOf, PaidOf, Exists
  <2>6. Contract!Requote(o)
    BY <1>1, <1>2, <2>1, <2>3, <2>5, CountsKept, RequoteView
  <2> QED BY <1>2, <2>6 DEF Kept, Contract!ContractNext
<1> QED BY <1>3, <1>4, <1>5

\* What confirmPayment writes for a charge confirms an unpaid order, whatever
\* its status has become, and customers see nothing of a second confirmation
\* (only, where the staff had put the order back, that it is worked on).
LEMMA ConfirmWriteSeen ==
    ASSUME Inv, NEW r \in Request, ConfirmWrite(r), NEW q, q = req[r]
    PROVE  Kept
<1>0. PICK o : o = q.order
  OBVIOUS
<1>1. /\ q.pc = "confirmWrite" /\ HasReference(<<o, q.stamp>>)
      /\ payments' = [payments EXCEPT ![o].status = "COMPLETED"]
      /\ orders' = [orders EXCEPT ![o].status = "CONFIRMED"]
      /\ UNCHANGED <<txns, issued, jobs>>
  BY <1>0 DEF ConfirmWrite, At
<1>2. RequestShape(q) /\ Knows(q) /\ o \in Order /\ q.stamp \in Stamp
  BY <1>0, <1>1, Underway DEF RequestShape, HasOrderAndStamp, ConfirmPc
<1>3. Exists(o)
  BY <1>1 DEF HasReference, Exists, Inv, TableInv, NoOrphanRows
<1>4. /\ o \in DOMAIN payments /\ orders[o] \in OrderRow /\ payments[o] \in PaymentRow
      /\ StageOf(o) \in {"pending", "placed"}
  BY <1>2, <1>3, OrderHasPayment
<1>5. Charged(<<o, q.stamp>>)
  BY <1>0, <1>1, <1>2 DEF Knows
<1>6. ASSUME NEW x \in Order, x # o
      PROVE  SeenKept(x)
  <2>1. RowsKept(x) /\ issued'[x] = issued[x]
    BY <1>1, <1>6 DEF RowsKept, Exists
  <2> QED BY <2>1, RowsSeen
<1>7. /\ Exists(o)' /\ orders'[o].status = "CONFIRMED" /\ orders'[o].total = orders[o].total
      /\ o \in DOMAIN payments' /\ payments'[o].status = "COMPLETED"
  BY <1>1, <1>3, <1>4 DEF Exists, OrderRow, PaymentRow
<1>8. StageOf(o)' = "placed" /\ PaidOf(o)' = TRUE /\ QuoteOf(o)' = QuoteOf(o)
  BY <1>3, <1>7 DEF StageOf, QuoteOf, PaidOf, Exists
<1>9. CASE ~PaidOf(o)
  <2>1. Cardinality(Charges(o)) > 0
    BY <1>2, <1>5, ChargedIsCounted
  <2>2. Contract!Confirm(o)
    BY <1>1, <1>2, <1>4, <1>6, <1>8, <1>9, <2>1, CountsKept, ConfirmView
  <2> QED BY <1>2, <2>2 DEF Kept, Contract!ContractNext
<1>10. CASE PaidOf(o)
  <2>1. PaidOf(o)' = PaidOf(o)
    BY <1>8, <1>10 DEF PaidOf
  <2>2. CASE StageOf(o) = "pending"
    <3>1. Contract!Work(o)
      BY <1>1, <1>2, <1>6, <1>8, <2>1, <2>2, CountsKept, WorkView
    <3> QED BY <1>2, <3>1 DEF Kept, Contract!ContractNext
  <2>3. CASE StageOf(o) = "placed"
    <3>1. SeenKept(o)
      BY <1>8, <2>1, <2>3 DEF SeenKept
    <3>2. ASSUME NEW x \in Order PROVE SeenKept(x)
      <4>1. CASE x = o BY <3>1, <4>1
      <4>2. CASE x # o BY <1>6, <4>2
      <4> QED BY <4>1, <4>2
    <3> QED BY <1>1, <3>2, CountsKept, SameView DEF Kept
  <2> QED BY <1>4, <2>2, <2>3
<1> QED BY <1>9, <1>10

\* A step that writes the payment of an order that is not on record as paid,
\* before it or after it.
LEMMA UnpaidSeen ==
    ASSUME Inv, NEW o \in Order, o \in DOMAIN payments, o \in DOMAIN payments',
           ~AlreadyProcessed(o), payments'[o].status # "COMPLETED",
           \A x \in Order : x # o => RowsKept(x),
           UNCHANGED <<txns, orders, issued, jobs>>
    PROVE  Kept
<1>1. ASSUME NEW x \in Order
      PROVE  SeenKept(x)
  <2>1. CASE x = o
    BY <2>1 DEF SeenKept, StageOf, QuoteOf, PaidOf, Exists, AlreadyProcessed
  <2>2. CASE x # o
    BY <2>2, RowsSeen
  <2> QED BY <2>1, <2>2
<1> QED BY <1>1, CountsKept, SameView DEF Kept

\* A declined charge is put on record: customers see no difference, unless a
\* charge came first.
LEMMA FailWriteSeen ==
    ASSUME Inv, NEW r \in Request, FailWrite(r), NEW q, q = req[r]
    PROVE  Kept \/ Overtaken(r)
<1>0. PICK o : o = q.order
  OBVIOUS
<1>1. /\ q.pc = "failWrite" /\ HasReference(<<o, q.stamp>>)
      /\ payments' = [payments EXCEPT ![o].status = "FAILED"]
      /\ UNCHANGED <<txns, orders, issued, jobs>>
  BY <1>0 DEF FailWrite, At
<1>2. o \in Order /\ o \in DOMAIN payments
  BY <1>0, <1>1, Underway DEF HasReference
<1>3. CASE AlreadyProcessed(o)
  BY <1>0, <1>3 DEF Overtaken
<1>4. CASE ~AlreadyProcessed(o)
  <2>1. payments[o] \in PaymentRow
    BY <1>2 DEF Inv, Shape, TypeOK
  <2>2. o \in DOMAIN payments' /\ payments'[o].status = "FAILED"
    BY <1>1, <1>2, <2>1 DEF PaymentRow
  <2>3. \A x \in Order : x # o => RowsKept(x)
    BY <1>1 DEF RowsKept, Exists
  <2> QED BY <1>1, <1>2, <1>4, <2>2, <2>3, UnpaidSeen
<1> QED BY <1>3, <1>4

\* A new reference takes the place of an unpaid one, unless a charge of the
\* old one came first.
LEMMA UpsertSeen ==
    ASSUME Inv, DecidedInv, NEW r \in Request, UpsertPayment(r), NEW q, q = req[r]
    PROVE  Kept \/ Overtaken(r)
<1>0. PICK o : o = q.order
  OBVIOUS
<1>1. /\ q.pc = "upsert" /\ q.status = "PENDING" /\ UNCHANGED <<txns, orders, issued, jobs>>
  BY DEF UpsertPayment, At, DecidedInv, Decided
<1>2. o \in Order
  BY <1>0, <1>1, Underway
<1>3. CASE ~Exists(o)
  BY <1>0, <1>1, <1>3, ReadSeen DEF UpsertPayment, ForeignKeyHolds
<1>4. CASE Exists(o) /\ AlreadyProcessed(o)
  BY <1>0, <1>1, <1>4 DEF Overtaken
<1>5. CASE Exists(o) /\ ~AlreadyProcessed(o)
  <2>1. o \in DOMAIN payments
    BY <1>2, <1>5, OrderHasPayment
  <2>2. payments' = Put(payments, o, [status |-> "PENDING", stamp |-> q.stamp,
                                      amount |-> q.total])
    BY <1>0, <1>5 DEF UpsertPayment, ForeignKeyHolds
  <2>3. o \in DOMAIN payments' /\ payments'[o].status # "COMPLETED"
    BY <2>2 DEF Put
  <2>4. \A x \in Order : x # o => RowsKept(x)
    BY <1>1, <2>2 DEF RowsKept, Put, Exists
  <2> QED BY <1>1, <1>2, <1>5, <2>1, <2>3, <2>4, UnpaidSeen
<1> QED BY <1>3, <1>4, <1>5

\* The deletion of an order that is open withdraws it; any other is overtaken.
LEMMA DeleteRowSeen ==
    ASSUME Inv, NEW r \in Request, DeleteRow(r), NEW q, q = req[r]
    PROVE  Kept \/ Overtaken(r)
<1>0. PICK o : o = q.order
  OBVIOUS
<1>1. /\ q.pc = "deleteRow" /\ UNCHANGED <<txns, issued, jobs>>
      /\ orders' = Restrict(orders, DOMAIN orders \ {o})
      /\ payments' = Restrict(payments, DOMAIN payments \ {o})
  BY <1>0 DEF DeleteRow, At
<1>2. o \in Order /\ issued[o] > 0
  BY <1>0, <1>1, Underway
<1>3. ASSUME NEW x \in Order, x # o
      PROVE  SeenKept(x)
  <2>1. RowsKept(x) /\ issued'[x] = issued[x]
    BY <1>1, <1>3 DEF RowsKept, Restrict, Exists
  <2> QED BY <2>1, RowsSeen
<1>4. ~Exists(o)' /\ o \notin DOMAIN payments'
  BY <1>1 DEF Exists, Restrict
<1>5. CASE ~Exists(o)
  <2>1. o \notin DOMAIN payments
    BY <1>5 DEF Exists, Inv, TableInv, NoOrphanRows
  <2>2. SeenKept(o)
    BY <1>1, <1>4, <1>5, <2>1 DEF SeenKept, StageOf, QuoteOf, PaidOf, Exists
  <2>3. ASSUME NEW x \in Order PROVE SeenKept(x)
    <3>1. CASE x = o BY <2>2, <3>1
    <3>2. CASE x # o BY <1>3, <3>2
    <3> QED BY <3>1, <3>2
  <2> QED BY <1>1, <2>3, CountsKept, SameView DEF Kept
<1>6. CASE Exists(o) /\ ~Open(o)
  BY <1>0, <1>6 DEF Overtaken
<1>7. CASE Exists(o) /\ Open(o)
  <2>1. StageOf(o) = "pending" /\ ~PaidOf(o)
    BY <1>2, <1>7, OrderHasPayment DEF Open
  <2>2. StageOf(o)' = "gone" /\ QuoteOf(o)' = 0 /\ PaidOf(o)' = PaidOf(o)
    BY <1>1, <1>2, <1>4, <2>1 DEF StageOf, QuoteOf, PaidOf, Exists
  <2>3. Contract!Withdraw(o)
    BY <1>1, <1>2, <1>3, <2>1, <2>2, CountsKept, WithdrawView
  <2> QED BY <1>2, <2>3 DEF Kept, Contract!ContractNext
<1> QED BY <1>5, <1>6, <1>7

\* The staff give an order a status: a pending one is worked on from then on,
\* unless they put it back to PENDING.
LEMMA UpdateWriteSeen ==
    ASSUME Inv, NEW r \in Request, UpdateWrite(r), NEW q, q = req[r]
    PROVE  Kept \/ Reopens(r)
<1>0. PICK o : o = q.order
  OBVIOUS
<1>1. q.pc = "updateWrite" /\ UNCHANGED <<txns, payments, issued, jobs>>
  BY DEF UpdateWrite, At
<1>2. RequestShape(q) /\ o \in Order
  BY <1>0, <1>1, Underway
<1>3. CASE ~Exists(o)
  BY <1>0, <1>1, <1>3, ReadSeen DEF UpdateWrite
<1>4. CASE Exists(o)
  <2>1. orders' = [orders EXCEPT ![o].status = q.status,
                                 ![o].tailor = NewTailor(orders[o].tailor, q.tailor)]
    BY <1>0, <1>4 DEF UpdateWrite
  <2>2. ASSUME NEW x \in Order, x # o
        PROVE  SeenKept(x)
    <3>1. RowsKept(x) /\ issued'[x] = issued[x]
      BY <1>1, <2>1, <2>2 DEF RowsKept, Exists
    <3> QED BY <3>1, RowsSeen
  <2>3. orders[o] \in OrderRow /\ (StageOf(o) = "pending" <=> orders[o].status = "PENDING")
        /\ StageOf(o) \in {"pending", "placed"}
    BY <1>2, <1>4, OrderHasPayment
  <2>4. Exists(o)' /\ orders'[o].status = q.status /\ orders'[o].total = orders[o].total
    BY <1>4, <2>1, <2>3 DEF Exists, OrderRow
  <2>5. /\ StageOf(o)' = IF q.status = "PENDING" THEN "pending" ELSE "placed"
        /\ QuoteOf(o)' = QuoteOf(o) /\ PaidOf(o)' = PaidOf(o)
    BY <1>1, <1>4, <2>4 DEF StageOf, QuoteOf, PaidOf, Exists
  <2>6. CASE q.status = "PENDING" /\ orders[o].status # "PENDING"
    BY <1>0, <1>4, <2>6 DEF Reopens
  <2>7. CASE StageOf(o)' = StageOf(o)
    <3>1. \A x \in Order : SeenKept(x)
      BY <2>2, <2>5, <2>7 DEF SeenKept
    <3> QED BY <1>1, <3>1, CountsKept, SameView DEF Kept
  <2>8. CASE q.status # "PENDING" /\ StageOf(o) = "pending"
    <3>1. Contract!Work(o)
      BY <1>1, <1>2, <2>2, <2>5, <2>8, CountsKept, WorkView
    <3> QED BY <1>2, <3>1 DEF Kept, Contract!ContractNext
  <2> QED BY <2>3, <2>5, <2>6, <2>7, <2>8
<1> QED BY <1>3, <1>4

\* A job more than nobody has announced the charge for; otherwise another
\* confirmation was first.
LEMMA EnqueueSeen ==
    ASSUME Inv, NEW r \in Request, EnqueueNotification(r), NEW q, q = req[r]
    PROVE  Kept \/ Overtaken(r)
<1>0. PICK o : o = q.order
  OBVIOUS
<1>1. /\ q.pc = "enqueue" /\ jobs' = [jobs EXCEPT ![o] = @ + 1]
      /\ UNCHANGED <<txns, orders, payments, issued>>
  BY <1>0 DEF EnqueueNotification, At
<1>2. o \in Order
  BY <1>0, <1>1, Underway
<1>3. jobs[o] \in Nat /\ Cardinality(Charges(o)) \in Nat
  BY <1>2, ChargesAreFinite DEF Inv, Shape, TypeOK
<1>4. CASE jobs[o] < Cardinality(Charges(o))
  <2>1. ASSUME NEW x \in Order PROVE SeenKept(x)
    BY <1>1 DEF SeenKept, StageOf, QuoteOf, PaidOf, Exists
  <2>2. Contract!Announce(o)
    BY <1>1, <1>2, <1>4, <2>1, CountsKept, AnnounceView
  <2> QED BY <1>2, <2>2 DEF Kept, Contract!ContractNext
<1>5. CASE jobs[o] >= Cardinality(Charges(o))
  BY <1>0, <1>5 DEF Overtaken, Charges
<1> QED BY <1>3, <1>4, <1>5


\* Initialising a reference charges nothing.
LEMMA InitializeCounts ==
    ASSUME Inv, NEW ref \in Reference, NEW naira, InitializePayment(ref, naira)
    PROVE  UNCHANGED Counts
<1>1. \A o \in Order, n \in Stamp : Charged(<<o, n>>)' <=> Charged(<<o, n>>)
  BY DEF InitializePayment, Charged, Inv, Shape, TypeOK, PaystackTypeOK, Reference, Txn
<1>2. \A o \in Order : Charges(o)' = Charges(o)
  BY <1>1 DEF Charges
<1> QED BY <1>2 DEF Counts

LEMMA InitializeSeen ==
    ASSUME Inv, NEW r \in Request, InitializeOrder(r) \/ IntentInitialize(r), NEW q, q = req[r]
    PROVE  Kept
<1> DEFINE n == issued[q.order] + 1
<1>1. /\ q.pc \in {"initialize", "intentInit"} /\ UNCHANGED <<orders, payments, jobs>>
  BY DEF InitializeOrder, IntentInitialize, At
<1>2. RequestShape(q) /\ q.order \in Order /\ issued[q.order] > 0
  BY <1>1, Underway
<1>3. CASE InitializeOrder(r)
  <2>1. q.pc = "initialize" /\ UNCHANGED issued /\ InitializePayment(<<q.order, q.stamp>>, q.amount)
    BY <1>3 DEF InitializeOrder, At
  <2>2. <<q.order, q.stamp>> \in Reference
    BY <1>2, <2>1 DEF RequestShape, HasOrderAndStamp, Reference
  <2> QED BY <1>1, <2>1, <2>2, InitializeCounts, UnseenStep DEF Kept
<1>4. CASE n \in Stamp /\ InitializePayment(<<q.order, n>>, q.total)
           /\ issued' = [issued EXCEPT ![q.order] = n]
  <2>1. <<q.order, n>> \in Reference
    BY <1>2, <1>4 DEF Reference
  <2>2. n > 0
    BY <1>4 DEF Stamp
  <2>3. \A o \in Order : issued'[o] = 0 <=> issued[o] = 0
    BY <1>2, <1>4, <2>2 DEF Inv, Shape, TypeOK
  <2> QED BY <1>1, <1>4, <2>1, <2>3, InitializeCounts, UnseenStep DEF Kept
<1>5. CASE UNCHANGED <<txns, issued>>
  BY <1>1, <1>5, ReadSeen
<1> QED BY <1>3, <1>4, <1>5 DEF IntentInitialize

\* The customer pays a reference of an order that was placed: it is charged.
LEMMA CustomerSeen ==
    ASSUME Inv, Customer
    PROVE  Kept
<1>1. UNCHANGED <<orders, payments, issued, jobs, req>>
  BY DEF Customer
<1>2. ASSUME NEW x \in Order PROVE SeenKept(x)
  BY <1>1 DEF SeenKept, StageOf, QuoteOf, PaidOf, Exists
<1>3. ASSUME NEW ref \in Reference, CustomerPays(ref)
      PROVE  Contract!ContractNext
  <2>0. PICK o, n : o = ref[1] /\ n = ref[2]
    OBVIOUS
  <2>1. o \in Order /\ n \in Stamp /\ ref = <<o, n>>
    BY <2>0 DEF Reference
  <2>2. /\ txns[ref].state \in {"open", "failed"}
        /\ txns' = [txns EXCEPT ![ref].state = "success"]
        /\ txns \in [Reference -> Txn]
    BY <1>3 DEF CustomerPays, Inv, Shape, TypeOK, PaystackTypeOK
  <2>3. \A x \in Order, m \in Stamp :
           Charged(<<x, m>>)' <=> Charged(<<x, m>>) \/ <<x, m>> = ref
    BY <2>2 DEF Charged, Reference, Txn
  <2>4. Charges(o)' = Charges(o) \cup {n} /\ n \notin Charges(o)
    BY <2>1, <2>2, <2>3 DEF Charges, Charged
  <2>5. \A x \in Order : x # o => Charges(x)' = Charges(x)
    BY <2>1, <2>3 DEF Charges
  <2>6. Cardinality(Charges(o))' = Cardinality(Charges(o)) + 1
    BY <2>4, ChargesAreFinite, FS_AddElement
  <2>7. StageOf(o) # "none"
    BY <2>0, <2>2 DEF StageOf, Inv, IdsAreFresh
  <2> QED BY <1>1, <1>2, <2>1, <2>5, <2>6, <2>7, ChargeView DEF Contract!ContractNext
<1>4. ASSUME NEW ref \in Reference, ChargeDeclined(ref)
      PROVE  Unseen
  <2>1. \A x \in Order, m \in Stamp : Charged(<<x, m>>)' <=> Charged(<<x, m>>)
    BY <1>4 DEF ChargeDeclined, Charged, Inv, Shape, TypeOK, PaystackTypeOK, Reference, Txn
  <2>2. \A x \in Order : Charges(x)' = Charges(x)
    BY <2>1 DEF Charges
  <2>3. UNCHANGED Counts
    BY <2>2 DEF Counts
  <2> QED BY <1>1, <1>2, <2>3, SameView
<1> QED BY <1>3, <1>4 DEF Customer, Kept

\* Every step of the service and of the world around it.
LEMMA EveryStepSeen ==
    ASSUME Inv, DecidedInv, [Next]_vars
    PROVE  Kept \/ \E r \in Request : Overtaken(r) \/ Reopens(r)
<1>1. ASSUME NEW r \in Request, Step(r)
      PROVE  Kept \/ Overtaken(r) \/ Reopens(r)
  <2>1. CASE InsertOrder(r) BY <2>1, InsertOrderSeen
  <2>2. CASE InitializeOrder(r) \/ IntentInitialize(r) BY <2>2, InitializeSeen
  <2>3. CASE \/ ConfirmRead(r) \/ ConfirmVerify(r) \/ ConfirmLock(r) \/ FailLock(r) \/ RowGone(r)
             \/ ComparePrice(r) \/ IntentReadPayment(r) \/ IntentVerify(r)
             \/ DeleteReadPayment(r) \/ DeleteVerify(r)
    <3>1. UNCHANGED <<txns, orders, payments, issued, jobs>>
      BY <2>3 DEF ConfirmRead, ConfirmVerify, ConfirmLock, FailLock, ReadAgain, RowGone,
                  ComparePrice, IntentReadPayment, IntentVerify, DeleteReadPayment, DeleteVerify
    <3> QED BY <3>1, ReadSeen
  <2>4. CASE ConfirmWrite(r) BY <2>4, ConfirmWriteSeen
  <2>5. CASE FailWrite(r) BY <2>5, FailWriteSeen
  <2>6. CASE EnqueueNotification(r) BY <2>6, EnqueueSeen
  <2>7. CASE Reprice(r) BY <2>7, RepriceSeen
  <2>8. CASE UpsertPayment(r) BY <2>8, UpsertSeen
  <2>9. CASE DeleteRow(r) BY <2>9, DeleteRowSeen
  <2>10. CASE UpdateWrite(r) BY <2>10, UpdateWriteSeen
  <2> QED BY <1>1, <2>1, <2>2, <2>3, <2>4, <2>5, <2>6, <2>7, <2>8, <2>9, <2>10 DEF Step
<1>2. ASSUME NEW r \in Request, Fault(r) \/ QueueRefuses(r)
      PROVE  Kept
  BY <1>2, ReadSeen DEF Fault, QueueRefuses
<1>3. ASSUME NEW r \in Request, NEW ref \in Reference, Webhook(r, ref) \/ VerifyFromClient(r, ref)
      PROVE  Kept
  BY <1>3, ReadSeen DEF Webhook, VerifyFromClient
<1>4. ASSUME NEW r \in Request, NEW o \in Order,
             \/ CreateOrder(r, o) \/ DeleteOrder(r, o) \/ UpdateOrderStatus(r, o)
             \/ GetOrder(r, o) \/ PaymentIntent(r, o)
      PROVE  Kept
  <2>1. CASE CreateOrder(r, o) BY <2>1, ReadSeen DEF CreateOrder
  <2>2. CASE DeleteOrder(r, o) BY <2>2, ReadSeen DEF DeleteOrder
  <2>3. CASE UpdateOrderStatus(r, o) BY <2>3, ReadSeen DEF UpdateOrderStatus
  <2>4. CASE GetOrder(r, o) \/ PaymentIntent(r, o)
    <3>1. PICK from \in {"client", "intent"} : ReadOrder(r, o, from)
      BY <2>4 DEF GetOrder, PaymentIntent
    <3> QED BY <3>1, ReadSeen DEF ReadOrder
  <2> QED BY <1>4, <2>1, <2>2, <2>3, <2>4
<1>5. CASE CatalogChange \/ UNCHANGED vars
  BY <1>5, ReadSeen DEF CatalogChange, vars
<1> QED BY <1>1, <1>2, <1>3, <1>4, <1>5, CustomerSeen DEF Next

(***************************************************************************)
(* Requests that do not overlap: the invariant.                            *)
(***************************************************************************)
\* No two requests work on the same order at once.
NoOverlap ==
    \A r, s \in Request :
        r # s /\ req[r].pc # "idle" /\ req[s].pc # "idle" => req[r].order # req[s].order

\* What a request alone on its order has read is still so.
Current(q) ==
    LET o == q.order
    IN  /\ q.pc \in {"confirmWrite", "failWrite"} /\ HasReference(<<o, q.stamp>>) =>
              ~AlreadyProcessed(o)
        /\ q.pc \in {"price", "reprice", "intentInit", "upsert",
                     "deleteRead", "deleteVerify", "deleteRow"} =>
              Exists(o) /\ orders[o].status = "PENDING"
        /\ q.pc \in {"price", "reprice"} => q.status = "PENDING"
        /\ q.from = "intent" /\ q.pc \in ConfirmPc \cup {"intentRead", "intentVerify"} =>
              Exists(o) /\ orders[o].status = q.status
        /\ q.pc = "enqueue" => jobs[o] = 0 /\ PaidOf(o)
        /\ q.pc = "updateWrite" => q.status # "PENDING"

\* A pending order is unpaid, and only a paid one is announced.
PaidIsPlaced ==
    /\ \A o \in DOMAIN orders :
         orders[o].status = "PENDING" => payments[o].status # "COMPLETED"
    /\ \A o \in Order :
         jobs[o] > 0 => PaidOf(o)

SerialInv == PaidIsPlaced /\ \A r \in Request : Current(req[r])

\* A request whose order is left alone still has what it read.
LEMMA CurrentKept ==
    ASSUME NEW p, RowsKept(p.order), Current(p)
    PROVE  Current(p)'
<1>1. (p.pc \in {"confirmWrite", "failWrite"} /\ HasReference(<<p.order, p.stamp>>) =>
              ~AlreadyProcessed(p.order))'
  BY DEF RowsKept, Current, HasReference, AlreadyProcessed
<1>2. (p.pc \in {"price", "reprice", "intentInit", "upsert",
                 "deleteRead", "deleteVerify", "deleteRow"} =>
              Exists(p.order) /\ orders[p.order].status = "PENDING")'
  BY DEF RowsKept, Current
<1>3. (p.from = "intent" /\ p.pc \in ConfirmPc \cup {"intentRead", "intentVerify"} =>
              Exists(p.order) /\ orders[p.order].status = p.status)'
  BY DEF RowsKept, Current
<1>4. /\ p.pc = "enqueue" => jobs'[p.order] = 0 /\ PaidOf(p.order)'
      /\ p.pc \in {"price", "reprice"} => p.status = "PENDING"
      /\ p.pc = "updateWrite" => p.status # "PENDING"
  BY DEF RowsKept, Current, PaidOf
<1> QED BY <1>1, <1>2, <1>3, <1>4 DEF Current

\* An idle slot has read nothing.
LEMMA IdleIsCurrent == ASSUME NEW q, q.pc = "idle" PROVE Current(q) /\ Current(q)'
BY DEF Current, ConfirmPc

\* A step of a request that writes at most the rows of its own order.
LEMMA OwnRowsStep ==
    ASSUME Inv, NoOverlap, SerialInv, NEW r \in Request, NEW q, Goto(r, q), Current(q)',
           req[r].pc # "idle",
           \A o \in Order : o # req[r].order => RowsKept(o),
           PaidIsPlaced'
    PROVE  SerialInv'
<1>1. req \in [Request -> RequestState] /\ req'[r] = q
  BY DEF Inv, Shape, TypeOK, Goto
<1>2. ASSUME NEW s \in Request, NEW p, p = req[s]
      PROVE  s # r => req'[s] = p /\ Current(p)'
  <2>1. s # r => req'[s] = p
    BY <1>1, <1>2 DEF Goto
  <2>2. CASE p.pc = "idle"
    BY <2>1, <2>2, IdleIsCurrent
  <2>3. CASE p.pc # "idle" /\ s # r
    <3>1. p.order \in Order
      BY <1>2, <2>3, Underway
    <3>2. p.order # req[r].order
      BY <1>2, <2>3 DEF NoOverlap
    <3>3. RowsKept(p.order) /\ Current(p)
      BY <1>2, <3>1, <3>2 DEF SerialInv
    <3> QED BY <2>1, <3>3, CurrentKept
  <2> QED BY <2>2, <2>3
<1>3. ASSUME NEW s \in Request
      PROVE  Current(req[s])'
  <2>1. CASE s = r
    BY <1>1, <2>1 DEF Current
  <2>2. CASE s # r
    BY <1>2, <2>2 DEF Current
  <2> QED BY <2>1, <2>2
<1> QED BY <1>3 DEF SerialInv

\* A step of a request that writes no row and puts no job on the queue.
LEMMA NoWriteStep ==
    ASSUME Inv, SerialInv, NEW r \in Request, NEW q, Goto(r, q), Current(q),
           UNCHANGED <<orders, payments, jobs>>
    PROVE  SerialInv'
<1>1. req \in [Request -> RequestState] /\ req'[r] = q
  BY DEF Inv, Shape, TypeOK, Goto
<1>2. PaidIsPlaced'
  BY DEF SerialInv, PaidIsPlaced, PaidOf
<1>3. \A p : RowsKept(p)
  BY DEF RowsKept, Exists
<1>4. ASSUME NEW s \in Request, NEW p, p = req[s]
      PROVE  s # r => req'[s] = p /\ Current(p)'
  <2>1. Current(p)
    BY <1>4 DEF SerialInv
  <2>2. Current(p)'
    BY <1>3, <2>1, CurrentKept
  <2> QED BY <1>1, <1>4, <2>2 DEF Goto
<1>5. Current(q)'
  BY <1>3, CurrentKept
<1>6. ASSUME NEW s \in Request
      PROVE  Current(req[s])'
  <2>1. CASE s = r
    BY <1>1, <1>5, <2>1 DEF Current
  <2>2. CASE s # r
    BY <1>4, <2>2 DEF Current
  <2> QED BY <2>1, <2>2
<1> QED BY <1>2, <1>6 DEF SerialInv

\* A request whose call threw goes on with what it read.
LEMMA CatchIsCurrent ==
    ASSUME NEW q, RequestShape(q), q.pc # "idle", Current(q)
    PROVE  Current(Catch(q))
<1>1. CASE q.from = "intent" /\ q.pc \in ConfirmPc \cup {"intentVerify"} /\ q.status = "PENDING"
  <2> DEFINE p == [q EXCEPT !.pc = "intentInit", !.stamp = 0, !.amount = 0]
  <2>1. p.pc = "intentInit" /\ p.order = q.order /\ Catch(q) = p
    BY <1>1 DEF RequestShape, RequestState, Catch, IntentGoesOn
  <2>2. Exists(q.order) /\ orders[q.order].status = "PENDING"
    BY <1>1 DEF Current
  <2> HIDE DEF p
  <2> QED BY <2>1, <2>2 DEF Current, ConfirmPc
<1>2. CASE q.from = "intent" /\ q.pc \in ConfirmPc \cup {"intentVerify"} /\ q.status # "PENDING"
  <2>1. Catch(q) = Idle /\ Idle.pc = "idle"
    BY <1>2 DEF Catch, IntentGoesOn, Idle
  <2> QED BY <2>1, IdleIsCurrent
<1>3. CASE ~(q.from = "intent" /\ q.pc \in ConfirmPc \cup {"intentVerify"}) /\ q.pc = "deleteVerify"
  <2> DEFINE p == [q EXCEPT !.pc = "deleteRow"]
  <2>1. p.pc = "deleteRow" /\ p.order = q.order /\ Catch(q) = p
    BY <1>3 DEF RequestShape, RequestState, Catch
  <2>2. Exists(q.order) /\ orders[q.order].status = "PENDING"
    BY <1>3 DEF Current
  <2> HIDE DEF p
  <2> QED BY <2>1, <2>2 DEF Current, ConfirmPc
<1>4. CASE ~(q.from = "intent" /\ q.pc \in ConfirmPc \cup {"intentVerify"}) /\ q.pc # "deleteVerify"
  <2>1. Catch(q) = Idle /\ Idle.pc = "idle"
    BY <1>4 DEF Catch, Idle
  <2> QED BY <2>1, IdleIsCurrent
<1> QED BY <1>1, <1>2, <1>3, <1>4

LEMMA EndsStep ==
    ASSUME Inv, SerialInv, NEW r \in Request, Goto(r, Idle),
           UNCHANGED <<orders, payments, jobs>>
    PROVE  SerialInv'
<1>1. Idle.pc = "idle"
  BY DEF Idle
<1> QED BY <1>1, IdleIsCurrent, NoWriteStep

\* A request under way has what it read.
LEMMA UnderwayCurrent ==
    ASSUME Inv, SerialInv, NEW r \in Request, NEW q, q = req[r], q.pc # "idle"
    PROVE  /\ RequestShape(q) /\ Knows(q) /\ Current(q) /\ q.order \in Order
           /\ q.pc # "insert" => issued[q.order] > 0
BY Underway DEF SerialInv

LEMMA CatchesStep ==
    ASSUME Inv, SerialInv, NEW r \in Request, NEW q, RequestShape(q), q.pc # "idle", Current(q),
           Goto(r, Catch(q)),
           UNCHANGED <<orders, payments, jobs>>
    PROVE  SerialInv'
BY CatchIsCurrent, NoWriteStep

\* The first step of confirmPayment, wherever it is called from.
LEMMA ReadPaymentKeeps ==
    ASSUME Inv, SerialInv, NEW r \in Request, NEW q, RequestShape(q), q.pc = "confirmRead",
           Current(q), ReadPayment(r, q),
           UNCHANGED <<orders, payments, jobs>>
    PROVE  SerialInv'
<1> DEFINE p == [q EXCEPT !.pc = "confirmVerify", !.amount = payments[q.order].amount]
<1>1. CASE Goto(r, Idle)
  BY <1>1, EndsStep
<1>2. CASE Goto(r, p)
  <2>1. /\ p.pc = "confirmVerify" /\ p.from = q.from /\ p.order = q.order
        /\ p.status = q.status
    BY DEF RequestShape, RequestState
  <2>2. Current(p)
    BY <2>1 DEF Current, ConfirmPc
  <2> QED BY <1>2, <2>2, NoWriteStep
<1>3. CASE Goto(r, Catch(q))
  BY <1>3, CatchesStep
<1> QED BY <1>1, <1>2, <1>3 DEF ReadPayment

LEMMA WebhookKeeps ==
    ASSUME Inv, SerialInv, NEW r \in Request, NEW ref \in Reference,
           Webhook(r, ref) \/ VerifyFromClient(r, ref)
    PROVE  SerialInv'
<1> DEFINE w == [Idle EXCEPT !.pc = "confirmRead", !.from = "webhook",
                             !.order = ref[1], !.stamp = ref[2]]
           c == [Idle EXCEPT !.pc = "confirmRead", !.order = ref[1], !.stamp = ref[2]]
<1>1. /\ RequestShape(w) /\ w.pc = "confirmRead" /\ w.from = "webhook"
      /\ RequestShape(c) /\ c.pc = "confirmRead" /\ c.from = "client"
  BY IdleShape DEF Idle, RequestShape, RequestState, Pc, ConfirmPc, HasOrderAndStamp, Reference
<1>2. Current(w) /\ Current(c)
  BY <1>1 DEF Current
<1>3. CASE Webhook(r, ref)
  BY <1>1, <1>2, <1>3, ReadPaymentKeeps DEF Webhook
<1>4. CASE VerifyFromClient(r, ref)
  BY <1>1, <1>2, <1>4, ReadPaymentKeeps DEF VerifyFromClient
<1> QED BY <1>3, <1>4

LEMMA ConfirmVerifyKeeps ==
    ASSUME Inv, SerialInv, NEW r \in Request, ConfirmVerify(r), NEW q, q = req[r]
    PROVE  SerialInv'
<1>1. q.pc = "confirmVerify" /\ UNCHANGED <<orders, payments, jobs>>
  BY DEF ConfirmVerify, At
<1>2. RequestShape(q) /\ Current(q) /\ q.pc # "idle"
  BY <1>1, UnderwayCurrent
<1>3. ASSUME NEW pc \in {"confirmLock", "failLock"}, Goto(r, [q EXCEPT !.pc = pc])
      PROVE  SerialInv'
  <2> DEFINE p == [q EXCEPT !.pc = pc]
  <2>1. p.pc = pc /\ p.from = q.from /\ p.order = q.order /\ p.status = q.status
    BY <1>2 DEF RequestShape, RequestState
  <2>2. Current(p)
    BY <1>1, <1>2, <2>1 DEF Current, ConfirmPc
  <2> QED BY <1>1, <1>3, <2>2, NoWriteStep
<1>4. \/ Goto(r, [q EXCEPT !.pc = "confirmLock"]) \/ Goto(r, [q EXCEPT !.pc = "failLock"])
      \/ Goto(r, Idle) \/ Goto(r, Catch(q))
  BY DEF ConfirmVerify
<1> QED BY <1>1, <1>2, <1>3, <1>4, EndsStep, CatchesStep

\* The payment a transaction goes on to write was not COMPLETED when it looked.
LEMMA ReadAgainKeeps ==
    ASSUME Inv, SerialInv, NEW r \in Request, NEW from, NEW to,
           <<from, to>> \in {<<"confirmLock", "confirmWrite">>, <<"failLock", "failWrite">>},
           ReadAgain(r, from, to), NEW q, q = req[r]
    PROVE  SerialInv'
<1> DEFINE p == [q EXCEPT !.pc = to]
           done == HasReference(<<q.order, q.stamp>>) /\ AlreadyProcessed(q.order)
<1>1. /\ q.pc = from /\ q.pc # "idle" /\ q.pc \in ConfirmPc /\ to \in {"confirmWrite", "failWrite"}
      /\ UNCHANGED <<orders, payments, jobs>>
      /\ Goto(r, Idle) \/ (~done /\ Goto(r, p))
  BY DEF ReadAgain, At, ConfirmPc
<1>2. RequestShape(q) /\ Current(q)
  BY <1>1, UnderwayCurrent
<1>3. CASE ~done /\ Goto(r, p)
  <2>1. /\ p.pc = to /\ p.from = q.from /\ p.order = q.order /\ p.stamp = q.stamp
        /\ p.status = q.status
    BY <1>2 DEF RequestShape, RequestState
  <2>2. Current(p)
    BY <1>1, <1>2, <1>3, <2>1 DEF Current, ConfirmPc
  <2> QED BY <1>1, <1>3, <2>2, NoWriteStep
<1> QED BY <1>1, <1>3, EndsStep

\* getOrderById hands a payment intent the status that is on record.
LEMMA AfterGetCurrent ==
    ASSUME NEW q, q \in RequestState, Exists(q.order), orders[q.order].status = q.status
    PROVE  Current(AfterGet(q))
<1> DEFINE p == [q EXCEPT !.pc = "intentRead", !.amount = 0]
<1>1. CASE q.from = "intent"
  <2>1. p.pc = "intentRead" /\ p.order = q.order /\ p.status = q.status /\ AfterGet(q) = p
    BY <1>1 DEF RequestState, AfterGet
  <2> QED BY <2>1 DEF Current, ConfirmPc
<1>2. CASE q.from # "intent"
  <2>1. AfterGet(q) = Idle /\ Idle.pc = "idle"
    BY <1>2 DEF AfterGet, Idle
  <2> QED BY <2>1, IdleIsCurrent
<1> QED BY <1>1, <1>2

LEMMA ReadOrderKeeps ==
    ASSUME Inv, SerialInv, NEW r \in Request, NEW o \in Order, NEW from \in {"client", "intent"},
           ReadOrder(r, o, from)
    PROVE  SerialInv'
<1> DEFINE q == [Idle EXCEPT !.from = from, !.order = o, !.status = orders[o].status,
                             !.total = orders[o].total]
           p == [q EXCEPT !.pc = "price"]
<1>1. /\ Exists(o) /\ UNCHANGED <<orders, payments, jobs>>
      /\ Goto(r, IF q.status = "PENDING" THEN p ELSE AfterGet(q))
  BY DEF ReadOrder
<1>2. orders[o] \in OrderRow
  BY <1>1 DEF Exists, Inv, Shape, TypeOK
<1>3. q \in RequestState /\ q.pc = "idle" /\ q.order = o /\ q.status = orders[o].status
  BY <1>2, IdleShape DEF Idle, OrderRow, RequestShape, RequestState
<1>4. p.pc = "price" /\ p.order = o /\ p.status = q.status
  BY <1>3 DEF RequestState
<1>5. q.status = "PENDING" => Current(p)
  BY <1>1, <1>3, <1>4 DEF Current, ConfirmPc
<1>6. Current(AfterGet(q))
  BY <1>1, <1>3, AfterGetCurrent
<1> QED BY <1>1, <1>5, <1>6, NoWriteStep

LEMMA ComparePriceKeeps ==
    ASSUME Inv, SerialInv, NEW r \in Request, ComparePrice(r), NEW q, q = req[r]
    PROVE  SerialInv'
<1> DEFINE p == [q EXCEPT !.pc = "reprice", !.amount = price]
<1>1. /\ q.pc = "price" /\ UNCHANGED <<orders, payments, jobs>>
      /\ Goto(r, IF price = q.total THEN AfterGet(q) ELSE p)
  BY DEF ComparePrice, At
<1>2. RequestShape(q) /\ Current(q) /\ q.pc # "idle"
  BY <1>1, UnderwayCurrent
<1>3. /\ q \in RequestState /\ Exists(q.order) /\ orders[q.order].status = "PENDING"
      /\ q.status = "PENDING"
  BY <1>1, <1>2 DEF Current, RequestShape
<1>4. p.pc = "reprice" /\ p.order = q.order /\ p.status = q.status
  BY <1>3 DEF RequestState
<1>5. Current(p)
  BY <1>3, <1>4 DEF Current, ConfirmPc
<1>6. Current(AfterGet(q))
  BY <1>3, AfterGetCurrent
<1> QED BY <1>1, <1>5, <1>6, NoWriteStep

\* A payment intent goes on to a new reference only for a pending order.
LEMMA GoesOnCurrent ==
    ASSUME NEW q, q \in RequestState, Exists(q.order), orders[q.order].status = q.status
    PROVE  Current(IntentGoesOn(q))
<1> DEFINE p == [q EXCEPT !.pc = "intentInit", !.stamp = 0, !.amount = 0]
<1>1. CASE q.status = "PENDING"
  <2>1. p.pc = "intentInit" /\ p.order = q.order /\ IntentGoesOn(q) = p
    BY <1>1 DEF RequestState, IntentGoesOn
  <2> QED BY <1>1, <2>1 DEF Current, ConfirmPc
<1>2. CASE q.status # "PENDING"
  <2>1. IntentGoesOn(q) = Idle /\ Idle.pc = "idle"
    BY <1>2 DEF IntentGoesOn, Idle
  <2> QED BY <2>1, IdleIsCurrent
<1> QED BY <1>1, <1>2

LEMMA IntentReadKeeps ==
    ASSUME Inv, SerialInv, NEW r \in Request, IntentReadPayment(r) \/ IntentVerify(r),
           NEW q, q = req[r]
    PROVE  SerialInv'
<1> DEFINE v == [q EXCEPT !.pc = "intentVerify", !.stamp = payments[q.order].stamp]
           c == [q EXCEPT !.pc = "confirmRead"]
<1>1. /\ q.pc \in {"intentRead", "intentVerify"} /\ UNCHANGED <<orders, payments, jobs>>
      /\ Goto(r, v) \/ Goto(r, c) \/ Goto(r, IntentGoesOn(q))
  BY DEF IntentReadPayment, IntentVerify, At
<1>2. RequestShape(q) /\ Current(q) /\ q.pc # "idle"
  BY <1>1, UnderwayCurrent
<1>3. q \in RequestState /\ Exists(q.order) /\ orders[q.order].status = q.status
  BY <1>1, <1>2 DEF Current, RequestShape
<1>4. /\ v.pc = "intentVerify" /\ v.order = q.order /\ v.status = q.status
      /\ c.pc = "confirmRead" /\ c.order = q.order /\ c.status = q.status
  BY <1>3 DEF RequestState
<1>5. Current(v) /\ Current(c)
  BY <1>3, <1>4 DEF Current, ConfirmPc
<1> QED BY <1>1, <1>3, <1>5, GoesOnCurrent, NoWriteStep

LEMMA DeleteReadKeeps ==
    ASSUME Inv, SerialInv, NEW r \in Request, DeleteReadPayment(r) \/ DeleteVerify(r),
           NEW q, q = req[r]
    PROVE  SerialInv'
<1> DEFINE v == [q EXCEPT !.pc = "deleteVerify", !.stamp = payments[q.order].stamp]
           c == [q EXCEPT !.pc = "confirmRead", !.from = "background"]
           d == [q EXCEPT !.pc = "deleteRow"]
<1>1. /\ q.pc \in {"deleteRead", "deleteVerify"} /\ UNCHANGED <<orders, payments, jobs>>
      /\ Goto(r, v) \/ Goto(r, c) \/ Goto(r, d)
  BY DEF DeleteReadPayment, DeleteVerify, At
<1>2. RequestShape(q) /\ Current(q) /\ q.pc # "idle"
  BY <1>1, UnderwayCurrent
<1>3. q \in RequestState /\ Exists(q.order) /\ orders[q.order].status = "PENDING"
  BY <1>1, <1>2 DEF Current, RequestShape
<1>4. /\ v.pc = "deleteVerify" /\ v.order = q.order
      /\ c.pc = "confirmRead" /\ c.from = "background"
      /\ d.pc = "deleteRow" /\ d.order = q.order
  BY <1>3 DEF RequestState
<1>5. Current(v) /\ Current(c) /\ Current(d)
  BY <1>3, <1>4 DEF Current, ConfirmPc
<1> QED BY <1>1, <1>5, NoWriteStep

\* A request that starts on a pending order, or that will write a status.
LEMMA StartKeeps ==
    ASSUME Inv, SerialInv, "PENDING" \notin UpdateStatus, NEW r \in Request, NEW o \in Order,
           CreateOrder(r, o) \/ DeleteOrder(r, o) \/ UpdateOrderStatus(r, o)
    PROVE  SerialInv'
<1> USE DEF Idle
<1>1. CASE CreateOrder(r, o)
  <2>1. Current([Idle EXCEPT !.pc = "insert", !.order = o, !.amount = price])
    BY DEF Current, ConfirmPc
  <2> QED BY <1>1, <2>1, NoWriteStep DEF CreateOrder
<1>2. CASE DeleteOrder(r, o)
  <2>1. Current([Idle EXCEPT !.pc = "deleteRead", !.order = o])
    BY <1>2 DEF Current, ConfirmPc, DeleteOrder
  <2> QED BY <1>2, <2>1, NoWriteStep DEF DeleteOrder
<1>3. CASE UpdateOrderStatus(r, o)
  <2>1. PICK target \in UpdateStatus, tailor \in Tailor \cup {NoTailor, KeepTailor} :
            Goto(r, [Idle EXCEPT !.pc = "updateWrite", !.order = o,
                                 !.status = target, !.tailor = tailor])
    BY <1>3 DEF UpdateOrderStatus
  <2>2. Current([Idle EXCEPT !.pc = "updateWrite", !.order = o,
                             !.status = target, !.tailor = tailor])
    BY DEF Current, ConfirmPc
  <2> QED BY <1>3, <2>1, <2>2, NoWriteStep DEF UpdateOrderStatus
<1> QED BY <1>1, <1>2, <1>3

\* A request that fails: the row is gone, the queue refuses the job, or a call
\* throws.
LEMMA FaultKeeps ==
    ASSUME Inv, SerialInv, NEW r \in Request, RowGone(r) \/ QueueRefuses(r) \/ Fault(r)
    PROVE  SerialInv'
<1>1. CASE RowGone(r)
  <2>1. /\ Goto(r, Catch(req[r])) /\ req[r].pc # "idle"
        /\ UNCHANGED <<orders, payments, jobs>>
    BY <1>1 DEF RowGone
  <2> QED BY <2>1, UnderwayCurrent, CatchesStep
<1>2. CASE QueueRefuses(r)
  BY <1>2, EndsStep DEF QueueRefuses
<1>3. CASE Fault(r)
  <2>1. /\ Goto(r, Idle) \/ Goto(r, Catch(req[r]))
        /\ UNCHANGED <<orders, payments, jobs>>
    BY <1>3 DEF Fault
  <2>2. CASE Goto(r, Idle)
    BY <2>1, <2>2, EndsStep
  <2>3. CASE Goto(r, Catch(req[r])) /\ req[r].pc # "idle"
    BY <2>1, <2>3, UnderwayCurrent, CatchesStep
  <2>4. CASE Goto(r, Catch(req[r])) /\ req[r].pc = "idle"
    <3>1. Catch(req[r]) = Idle
      BY <2>4 DEF Catch, ConfirmPc
    <3> QED BY <2>1, <2>4, <3>1, EndsStep
  <2> QED BY <2>1, <2>2, <2>3, <2>4
<1> QED BY <1>1, <1>2, <1>3

\* What is known of a pending order: it is unpaid and was not announced.
LEMMA PendingIsUnpaid ==
    ASSUME Inv, SerialInv, NEW o \in Order, Exists(o), orders[o].status = "PENDING"
    PROVE  /\ o \in DOMAIN payments /\ payments[o].status # "COMPLETED"
           /\ jobs[o] = 0
<1>1. o \in DOMAIN payments /\ payments[o].status # "COMPLETED"
  BY DEF SerialInv, PaidIsPlaced, PaidOf, Exists, Inv, TableInv, NoOrphanRows
<1>2. jobs[o] = 0
  BY <1>1 DEF SerialInv, PaidIsPlaced, PaidOf, Inv, Shape, TypeOK
<1> QED BY <1>1, <1>2

\* A pending order stays unpaid, and a paid one announced, when a step writes
\* one order and leaves it so.
LEMMA PaidIsPlacedStep ==
    ASSUME Inv, SerialInv, NEW o \in Order, \A x \in Order : x # o => RowsKept(x),
           Exists(o)' /\ orders'[o].status = "PENDING" => payments'[o].status # "COMPLETED",
           jobs'[o] > 0 => o \in DOMAIN payments' /\ payments'[o].status = "COMPLETED",
           DOMAIN orders' \subseteq Order
    PROVE  PaidIsPlaced'
<1>1. ASSUME NEW x \in DOMAIN orders', orders'[x].status = "PENDING"
      PROVE  payments'[x].status # "COMPLETED"
  <2>1. CASE x = o
    BY <1>1, <2>1 DEF Exists
  <2>2. CASE x # o
    <3>1. x \in DOMAIN orders /\ x \in DOMAIN payments /\ orders'[x] = orders[x]
          /\ payments'[x] = payments[x]
      BY <1>1, <2>2 DEF RowsKept, Exists, Inv, TableInv, NoOrphanRows
    <3> QED BY <1>1, <3>1 DEF SerialInv, PaidIsPlaced, PaidOf
  <2> QED BY <2>1, <2>2
<1>2. ASSUME NEW x \in Order, jobs'[x] > 0
      PROVE  x \in DOMAIN payments' /\ payments'[x].status = "COMPLETED"
  <2>1. CASE x = o
    BY <1>2, <2>1
  <2>2. CASE x # o
    BY <1>2, <2>2 DEF RowsKept, SerialInv, PaidIsPlaced, PaidOf
  <2> QED BY <2>1, <2>2
<1> QED BY <1>1, <1>2 DEF PaidIsPlaced, PaidOf

\* createOrder inserts the order and its payment.
LEMMA InsertOrderKeeps ==
    ASSUME Inv, NoOverlap, SerialInv, NEW r \in Request, InsertOrder(r), NEW q, q = req[r]
    PROVE  SerialInv'
<1> DEFINE p == [q EXCEPT !.pc = "initialize", !.stamp = 1]
<1>0. PICK o : o = q.order
  OBVIOUS
<1>1. /\ q.pc = "insert" /\ Goto(r, p) /\ UNCHANGED <<txns, jobs>>
      /\ issued' = [issued EXCEPT ![o] = 1]
      /\ orders' = Put(orders, o, [status |-> "PENDING", total |-> q.amount, tailor |-> NoTailor])
      /\ payments' = Put(payments, o, [status |-> "PENDING", stamp |-> 1, amount |-> q.amount])
  BY <1>0 DEF InsertOrder, At
<1>2. RequestShape(q) /\ o \in Order /\ q.amount \in Price
  BY <1>0, <1>1, UnderwayCurrent DEF RequestShape
<1>3. issued[o] = 0 /\ ~Exists(o) /\ o \notin DOMAIN payments
  <2>1. issued[o] = 0
    BY <1>0, <1>1 DEF Inv, IdsAreFresh
  <2> QED BY <2>1 DEF Inv, IdsAreFresh, Exists, TableInv, NoOrphanRows
<1>4. ASSUME NEW x \in Order, x # o
      PROVE  RowsKept(x)
  BY <1>1, <1>2, <1>4 DEF RowsKept, Put, Exists, Inv, Shape, TypeOK
<1>5. /\ Exists(o)' /\ orders'[o].status = "PENDING" /\ orders'[o].total = q.amount
      /\ o \in DOMAIN payments' /\ payments'[o].status = "PENDING"
  BY <1>1 DEF Put, Exists
<1>6. PaidIsPlaced'
  <2>1. ASSUME NEW x \in DOMAIN orders', orders'[x].status = "PENDING"
        PROVE  payments'[x].status # "COMPLETED"
    <3>1. CASE x = o
      BY <1>5, <3>1
    <3>2. CASE x # o
      <4>1. x \in DOMAIN orders /\ x \in Order /\ x \in DOMAIN payments
        BY <1>1, <2>1, <3>2 DEF Put, Inv, Shape, TypeOK, TableInv, NoOrphanRows
      <4>2. orders[x].status = "PENDING" /\ payments'[x] = payments[x]
        BY <1>4, <2>1, <3>2, <4>1 DEF RowsKept, Exists
      <4> QED BY <4>1, <4>2 DEF SerialInv, PaidIsPlaced, PaidOf
    <3> QED BY <3>1, <3>2
  <2>2. ASSUME NEW x \in Order, jobs'[x] > 0
        PROVE  x \in DOMAIN payments' /\ payments'[x].status = "COMPLETED"
    <3>1. x \in DOMAIN payments /\ payments[x].status = "COMPLETED" /\ x # o
      BY <1>1, <1>3, <2>2 DEF SerialInv, PaidIsPlaced, PaidOf
    <3> QED BY <1>4, <3>1 DEF RowsKept
  <2> QED BY <2>1, <2>2 DEF PaidIsPlaced, PaidOf
<1>7. Current(p)'
  <2>1. p.pc = "initialize"
    BY <1>2 DEF RequestShape, RequestState
  <2> QED BY <2>1 DEF Current, ConfirmPc
<1> QED BY <1>0, <1>1, <1>4, <1>6, <1>7, OwnRowsStep

\* A repricing leaves a pending, unpaid order pending and unpaid.
LEMMA RepriceKeeps ==
    ASSUME Inv, Shape', NoOverlap, SerialInv, NEW r \in Request, Reprice(r), NEW q, q = req[r]
    PROVE  SerialInv'
<1>0. PICK o : o = q.order
  OBVIOUS
<1>1. q.pc = "reprice" /\ UNCHANGED <<txns, issued, jobs>>
  BY DEF Reprice, At
<1>2. RequestShape(q) /\ Current(q) /\ o \in Order /\ q.amount \in Price
  BY <1>0, <1>1, UnderwayCurrent DEF RequestShape
<1>3. Exists(o) /\ orders[o].status = "PENDING"
  BY <1>0, <1>1, <1>2 DEF Current
<1>4. o \in DOMAIN payments /\ payments[o].status # "COMPLETED" /\ jobs[o] = 0
  BY <1>2, <1>3, PendingIsUnpaid
<1>5. PICK p : p = [q EXCEPT !.status = orders[o].status, !.total = q.amount]
  OBVIOUS
<1>6. /\ orders' = [orders EXCEPT ![o].total = q.amount]
      /\ payments' = [payments EXCEPT ![o].amount = q.amount]
      /\ Goto(r, AfterGet(p))
  BY <1>0, <1>3, <1>4, <1>5 DEF Reprice
<1>7. ASSUME NEW x \in Order, x # o
      PROVE  RowsKept(x)
  BY <1>1, <1>6, <1>7 DEF RowsKept, Exists, Inv, Shape, TypeOK
<1>8. /\ Exists(o)' /\ orders'[o].status = "PENDING" /\ orders'[o].total = q.amount
      /\ o \in DOMAIN payments' /\ payments'[o].status # "COMPLETED"
  BY <1>3, <1>4, <1>6 DEF Exists, Inv, Shape, TypeOK, OrderRow, PaymentRow
<1>9. PaidIsPlaced'
  <2>1. DOMAIN orders' \subseteq Order
    BY DEF Shape, TypeOK
  <2>2. jobs'[o] = 0
    BY <1>1, <1>4
  <2> QED BY <1>2, <1>7, <1>8, <2>1, <2>2, PaidIsPlacedStep
<1>10. Current(AfterGet(p))'
  <2>1. /\ p \in RequestState /\ p.order = o /\ p.status = "PENDING" /\ p.from = q.from
        /\ p.total = q.amount
    BY <1>0, <1>2, <1>3, <1>5 DEF RequestShape, RequestState, OrderStatus
  <2>2. CASE p.from = "intent"
    <3>1. PICK i : i = AfterGet(p)
      OBVIOUS
    <3>2. i.pc = "intentRead" /\ i.order = o /\ i.status = "PENDING"
      BY <2>1, <2>2, <3>1 DEF AfterGet, RequestState
    <3>3. Current(i)'
      BY <1>8, <3>2 DEF Current, ConfirmPc
    <3> QED BY <3>1, <3>3 DEF Current
  <2>3. CASE p.from # "intent"
    <3>1. AfterGet(p) = Idle /\ Idle.pc = "idle"
      BY <2>3 DEF AfterGet, Idle
    <3>2. Current(Idle)'
      BY <3>1, IdleIsCurrent
    <3> QED BY <3>1, <3>2 DEF Current
  <2> QED BY <2>2, <2>3
<1>11. PICK i : i = AfterGet(p)
  OBVIOUS
<1>12. Current(i)' /\ Goto(r, i)
  BY <1>6, <1>10, <1>11 DEF Current
<1> QED BY <1>0, <1>1, <1>7, <1>9, <1>12, OwnRowsStep

\* A charge is recorded the first time, and its job is not on the queue yet.
LEMMA ConfirmWriteKeeps ==
    ASSUME Inv, Shape', NoOverlap, SerialInv, NEW r \in Request, ConfirmWrite(r), NEW q, q = req[r]
    PROVE  SerialInv'
<1> DEFINE p == [q EXCEPT !.pc = "enqueue"]
<1>0. PICK o : o = q.order
  OBVIOUS
<1>1. /\ q.pc = "confirmWrite" /\ HasReference(<<o, q.stamp>>) /\ Goto(r, p)
      /\ payments' = [payments EXCEPT ![o].status = "COMPLETED"]
      /\ orders' = [orders EXCEPT ![o].status = "CONFIRMED"]
      /\ UNCHANGED <<txns, issued, jobs>>
  BY <1>0 DEF ConfirmWrite, At
<1>2. RequestShape(q) /\ Current(q) /\ o \in Order
  BY <1>0, <1>1, UnderwayCurrent
<1>3. o \in DOMAIN payments /\ Exists(o) /\ payments[o].status # "COMPLETED"
  BY <1>0, <1>1, <1>2 DEF HasReference, AlreadyProcessed, Current, Exists, Inv, TableInv,
                          NoOrphanRows
<1>4. jobs[o] = 0
  BY <1>2, <1>3 DEF SerialInv, PaidIsPlaced, PaidOf, Inv, Shape, TypeOK
<1>5. ASSUME NEW x \in Order, x # o
      PROVE  RowsKept(x)
  BY <1>1, <1>5 DEF RowsKept, Exists, Inv, Shape, TypeOK
<1>6. /\ Exists(o)' /\ orders'[o].status = "CONFIRMED" /\ orders'[o].total = orders[o].total
      /\ o \in DOMAIN payments' /\ payments'[o].status = "COMPLETED"
  BY <1>1, <1>3 DEF Exists, Inv, Shape, TypeOK, OrderRow, PaymentRow
<1>7. PaidIsPlaced'
  <2>1. DOMAIN orders' \subseteq Order
    BY DEF Shape, TypeOK
  <2> QED BY <1>2, <1>5, <1>6, <2>1, PaidIsPlacedStep
<1>8. Current(p)'
  <2>1. p.pc = "enqueue" /\ p.order = o
    BY <1>0, <1>2 DEF RequestShape, RequestState
  <2>2. jobs'[o] = 0 /\ PaidOf(o)'
    BY <1>1, <1>4, <1>6 DEF PaidOf
  <2> HIDE DEF p
  <2> QED BY <2>1, <2>2 DEF Current, ConfirmPc
<1> QED BY <1>0, <1>1, <1>5, <1>7, <1>8, OwnRowsStep

\* A charge found declined is put on record.
LEMMA FailWriteKeeps ==
    ASSUME Inv, Shape', NoOverlap, SerialInv, NEW r \in Request, FailWrite(r), NEW q, q = req[r]
    PROVE  SerialInv'
<1>0. PICK o : o = q.order
  OBVIOUS
<1>1. /\ q.pc = "failWrite" /\ HasReference(<<o, q.stamp>>) /\ Goto(r, Idle)
      /\ payments' = [payments EXCEPT ![o].status = "FAILED"]
      /\ UNCHANGED <<txns, orders, issued, jobs>>
  BY <1>0 DEF FailWrite, At
<1>2. RequestShape(q) /\ Current(q) /\ o \in Order
  BY <1>0, <1>1, UnderwayCurrent
<1>3. o \in DOMAIN payments /\ payments[o].status # "COMPLETED"
  BY <1>0, <1>1, <1>2 DEF HasReference, AlreadyProcessed, Current
<1>4. jobs[o] = 0
  BY <1>2, <1>3 DEF SerialInv, PaidIsPlaced, PaidOf, Inv, Shape, TypeOK
<1>5. ASSUME NEW x \in Order, x # o
      PROVE  RowsKept(x)
  BY <1>1, <1>5 DEF RowsKept, Exists, Inv, Shape, TypeOK
<1>6. o \in DOMAIN payments' /\ payments'[o].status = "FAILED"
  BY <1>1, <1>3 DEF Inv, Shape, TypeOK, PaymentRow
<1>7. PaidIsPlaced'
  <2>1. DOMAIN orders' \subseteq Order /\ jobs'[o] = 0
    BY <1>1, <1>4 DEF Shape, TypeOK
  <2> QED BY <1>2, <1>5, <1>6, <2>1, PaidIsPlacedStep
<1>8. Current(Idle)'
  BY IdleIsCurrent DEF Idle
<1> QED BY <1>0, <1>1, <1>5, <1>7, <1>8, OwnRowsStep

\* A new reference replaces that of a pending, unpaid order.
LEMMA UpsertKeeps ==
    ASSUME Inv, Shape', NoOverlap, SerialInv, NEW r \in Request, UpsertPayment(r), NEW q, q = req[r]
    PROVE  SerialInv'
<1>0. PICK o : o = q.order
  OBVIOUS
<1>1. q.pc = "upsert" /\ Goto(r, Idle) /\ UNCHANGED <<txns, orders, issued, jobs>>
  BY DEF UpsertPayment, At
<1>2. RequestShape(q) /\ Current(q) /\ o \in Order
  BY <1>0, <1>1, UnderwayCurrent
<1>3. Exists(o) /\ orders[o].status = "PENDING"
  BY <1>0, <1>1, <1>2 DEF Current
<1>4. o \in DOMAIN payments /\ payments[o].status # "COMPLETED" /\ jobs[o] = 0
  BY <1>2, <1>3, PendingIsUnpaid
<1>5. payments' = Put(payments, o, [status |-> "PENDING", stamp |-> q.stamp, amount |-> q.total])
  BY <1>0, <1>3 DEF UpsertPayment, ForeignKeyHolds
<1>6. ASSUME NEW x \in Order, x # o
      PROVE  RowsKept(x)
  BY <1>1, <1>5, <1>6 DEF RowsKept, Put, Exists, Inv, Shape, TypeOK
<1>7. o \in DOMAIN payments' /\ payments'[o].status = "PENDING"
  BY <1>5 DEF Put
<1>8. PaidIsPlaced'
  <2>1. DOMAIN orders' \subseteq Order /\ jobs'[o] = 0
    BY <1>1, <1>4 DEF Shape, TypeOK
  <2> QED BY <1>2, <1>6, <1>7, <2>1, PaidIsPlacedStep
<1>9. Current(Idle)'
  BY IdleIsCurrent DEF Idle
<1> QED BY <1>0, <1>1, <1>6, <1>8, <1>9, OwnRowsStep

\* A deletion takes a pending, unpaid order.
LEMMA DeleteRowKeeps ==
    ASSUME Inv, Shape', NoOverlap, SerialInv, NEW r \in Request, DeleteRow(r), NEW q, q = req[r]
    PROVE  SerialInv'
<1>0. PICK o : o = q.order
  OBVIOUS
<1>1. /\ q.pc = "deleteRow" /\ Goto(r, Idle) /\ UNCHANGED <<txns, issued, jobs>>
      /\ orders' = Restrict(orders, DOMAIN orders \ {o})
      /\ payments' = Restrict(payments, DOMAIN payments \ {o})
  BY <1>0 DEF DeleteRow, At
<1>2. RequestShape(q) /\ Current(q) /\ o \in Order
  BY <1>0, <1>1, UnderwayCurrent
<1>3. Exists(o) /\ orders[o].status = "PENDING"
  BY <1>0, <1>1, <1>2 DEF Current
<1>4. o \in DOMAIN payments /\ payments[o].status # "COMPLETED" /\ jobs[o] = 0
  BY <1>2, <1>3, PendingIsUnpaid
<1>5. ASSUME NEW x \in Order, x # o
      PROVE  RowsKept(x)
  BY <1>1, <1>5 DEF RowsKept, Restrict, Exists
<1>6. ~Exists(o)' /\ o \notin DOMAIN payments'
  BY <1>1 DEF Exists, Restrict
<1>7. PaidIsPlaced'
  <2>1. DOMAIN orders' \subseteq Order /\ jobs'[o] = 0
    BY <1>1, <1>4 DEF Shape, TypeOK
  <2> QED BY <1>2, <1>5, <1>6, <2>1, PaidIsPlacedStep
<1>8. Current(Idle)'
  BY IdleIsCurrent DEF Idle
<1> QED BY <1>0, <1>1, <1>5, <1>7, <1>8, OwnRowsStep

\* The staff give an order a status other than PENDING.
LEMMA UpdateWriteKeeps ==
    ASSUME Inv, Shape', NoOverlap, SerialInv, NEW r \in Request, UpdateWrite(r), NEW q, q = req[r]
    PROVE  SerialInv'
<1>0. PICK o : o = q.order
  OBVIOUS
<1>1. q.pc = "updateWrite" /\ Goto(r, Idle) /\ UNCHANGED <<txns, payments, issued, jobs>>
  BY DEF UpdateWrite, At
<1>2. RequestShape(q) /\ Current(q) /\ o \in Order /\ q.status # "PENDING"
  BY <1>0, <1>1, UnderwayCurrent DEF Current
<1>3. CASE ~Exists(o)
  <2>1. UNCHANGED orders
    BY <1>0, <1>3 DEF UpdateWrite
  <2> QED BY <1>1, <2>1, EndsStep
<1>4. CASE Exists(o)
  <2>1. orders' = [orders EXCEPT ![o].status = q.status,
                                 ![o].tailor = NewTailor(orders[o].tailor, q.tailor)]
    BY <1>0, <1>4 DEF UpdateWrite
  <2>2. ASSUME NEW x \in Order, x # o
        PROVE  RowsKept(x)
    BY <1>1, <2>1, <2>2 DEF RowsKept, Exists
  <2>3. Exists(o)' /\ orders'[o].status = q.status
    BY <1>4, <2>1 DEF Exists, Inv, Shape, TypeOK, OrderRow
  <2>4. PaidIsPlaced'
    <3>1. DOMAIN orders' \subseteq Order
      BY DEF Shape, TypeOK
    <3>2. jobs'[o] > 0 => o \in DOMAIN payments' /\ payments'[o].status = "COMPLETED"
      BY <1>1, <1>2 DEF SerialInv, PaidIsPlaced, PaidOf
    <3> QED BY <1>2, <2>2, <2>3, <3>1, <3>2, PaidIsPlacedStep
  <2>5. Current(Idle)'
    BY IdleIsCurrent DEF Idle
  <2> QED BY <1>0, <1>1, <2>2, <2>4, <2>5, OwnRowsStep
<1> QED BY <1>3, <1>4

\* A job is put on the queue for an order that is paid.
LEMMA EnqueueKeeps ==
    ASSUME Inv, Shape', NoOverlap, SerialInv, NEW r \in Request, EnqueueNotification(r),
           NEW q, q = req[r]
    PROVE  SerialInv'
<1>0. PICK o : o = q.order
  OBVIOUS
<1>1. /\ q.pc = "enqueue" /\ Goto(r, Idle) /\ jobs' = [jobs EXCEPT ![o] = @ + 1]
      /\ UNCHANGED <<txns, orders, payments, issued>>
  BY <1>0 DEF EnqueueNotification, At
<1>2. Current(q) /\ o \in Order
  BY <1>0, <1>1, UnderwayCurrent
<1>3. \A x \in Order : x # o => RowsKept(x)
  BY <1>1 DEF RowsKept, Exists, Inv, Shape, TypeOK
<1>4. PaidIsPlaced'
  <2>1. PaidOf(o)
    BY <1>0, <1>1, <1>2 DEF Current
  <2>2. /\ DOMAIN orders' \subseteq Order
        /\ o \in DOMAIN payments' /\ payments'[o].status = "COMPLETED"
        /\ Exists(o)' => orders'[o].status # "PENDING"
    BY <1>1, <2>1 DEF Shape, TypeOK, PaidOf, Exists, SerialInv, PaidIsPlaced
  <2> QED BY <1>2, <1>3, <2>2, PaidIsPlacedStep
<1>5. Current(Idle)'
  BY IdleIsCurrent DEF Idle
<1> QED BY <1>0, <1>1, <1>3, <1>4, <1>5, OwnRowsStep

\* A reference is initialised, for a new order or for one that has had one.
LEMMA InitializeKeeps ==
    ASSUME Inv, SerialInv, NEW r \in Request, InitializeOrder(r) \/ IntentInitialize(r),
           NEW q, q = req[r]
    PROVE  SerialInv'
<1> DEFINE n == issued[q.order] + 1
           p == [q EXCEPT !.pc = "upsert", !.stamp = n]
<1>1. /\ q.pc \in {"initialize", "intentInit"} /\ UNCHANGED <<orders, payments, jobs>>
      /\ Goto(r, Idle) \/ (q.pc = "intentInit" /\ Goto(r, p))
  BY DEF InitializeOrder, IntentInitialize, At
<1>2. RequestShape(q) /\ Current(q)
  BY <1>1, UnderwayCurrent
<1>3. CASE q.pc = "intentInit" /\ Goto(r, p)
  <2>1. p.pc = "upsert" /\ p.order = q.order
    BY <1>2 DEF RequestShape, RequestState
  <2>2. Exists(q.order) /\ orders[q.order].status = "PENDING"
    BY <1>2, <1>3 DEF Current
  <2> HIDE DEF p
  <2>3. Current(p)
    BY <2>1, <2>2 DEF Current, ConfirmPc
  <2> QED BY <1>1, <1>3, <2>3, NoWriteStep
<1>4. CASE Goto(r, Idle)
  BY <1>1, <1>4, EndsStep
<1> QED BY <1>1, <1>3, <1>4

\* A step of the customer, of the catalogue or of nobody.
LEMMA WorldKeeps ==
    ASSUME Inv, SerialInv, Customer \/ CatalogChange \/ UNCHANGED vars
    PROVE  SerialInv'
<1>1. UNCHANGED <<orders, payments, jobs, req>>
  BY DEF Customer, CatalogChange, vars
<1>2. \A p : RowsKept(p)
  BY <1>1 DEF RowsKept, Exists
<1>3. ASSUME NEW s \in Request, NEW p, p = req[s]
      PROVE  Current(p)'
  BY <1>2, <1>3, CurrentKept DEF SerialInv
<1>4. \A s \in Request : Current(req[s])'
  BY <1>1, <1>3 DEF Current
<1>5. PaidIsPlaced'
  BY <1>1 DEF SerialInv, PaidIsPlaced, PaidOf
<1> QED BY <1>4, <1>5 DEF SerialInv

\* Every step of the service and of the world around it.
LEMMA EveryStepKeeps ==
    ASSUME Inv, Inv', NoOverlap, SerialInv, "PENDING" \notin UpdateStatus, [Next]_vars
    PROVE  SerialInv'
<1>0. Shape'
  BY DEF Inv
<1>1. ASSUME NEW r \in Request, Step(r)
      PROVE  SerialInv'
  <2>1. CASE InsertOrder(r) BY <2>1, InsertOrderKeeps
  <2>2. CASE InitializeOrder(r) \/ IntentInitialize(r) BY <2>2, InitializeKeeps
  <2>3. CASE ConfirmRead(r)
    <3>1. /\ RequestShape(req[r]) /\ req[r].pc = "confirmRead" /\ Current(req[r])
          /\ ReadPayment(r, req[r]) /\ UNCHANGED <<orders, payments, jobs>>
      BY <2>3, UnderwayCurrent DEF ConfirmRead, At
    <3> QED BY <3>1, ReadPaymentKeeps
  <2>4. CASE ConfirmVerify(r) BY <2>4, ConfirmVerifyKeeps
  <2>5. CASE ConfirmLock(r) BY <2>5, ReadAgainKeeps DEF ConfirmLock
  <2>6. CASE ConfirmWrite(r) BY <1>0, <2>6, ConfirmWriteKeeps
  <2>7. CASE FailLock(r) BY <2>7, ReadAgainKeeps DEF FailLock
  <2>8. CASE FailWrite(r) BY <1>0, <2>8, FailWriteKeeps
  <2>9. CASE RowGone(r) BY <2>9, FaultKeeps
  <2>10. CASE EnqueueNotification(r) BY <1>0, <2>10, EnqueueKeeps
  <2>11. CASE ComparePrice(r) BY <2>11, ComparePriceKeeps
  <2>12. CASE Reprice(r) BY <1>0, <2>12, RepriceKeeps
  <2>13. CASE IntentReadPayment(r) \/ IntentVerify(r) BY <2>13, IntentReadKeeps
  <2>14. CASE UpsertPayment(r) BY <1>0, <2>14, UpsertKeeps
  <2>15. CASE DeleteReadPayment(r) \/ DeleteVerify(r) BY <2>15, DeleteReadKeeps
  <2>16. CASE DeleteRow(r) BY <1>0, <2>16, DeleteRowKeeps
  <2>17. CASE UpdateWrite(r) BY <1>0, <2>17, UpdateWriteKeeps
  <2> QED BY <1>1, <2>1, <2>2, <2>3, <2>4, <2>5, <2>6, <2>7, <2>8, <2>9, <2>10, <2>11, <2>12,
             <2>13, <2>14, <2>15, <2>16, <2>17 DEF Step
<1>2. ASSUME NEW r \in Request, Fault(r) \/ QueueRefuses(r)
      PROVE  SerialInv'
  BY <1>2, FaultKeeps
<1>3. ASSUME NEW r \in Request, NEW ref \in Reference, Webhook(r, ref) \/ VerifyFromClient(r, ref)
      PROVE  SerialInv'
  BY <1>3, WebhookKeeps
<1>4. ASSUME NEW r \in Request, NEW o \in Order,
             CreateOrder(r, o) \/ DeleteOrder(r, o) \/ UpdateOrderStatus(r, o)
      PROVE  SerialInv'
  BY <1>4, StartKeeps
<1>5. ASSUME NEW r \in Request, NEW o \in Order, GetOrder(r, o) \/ PaymentIntent(r, o)
      PROVE  SerialInv'
  BY <1>5, ReadOrderKeeps DEF GetOrder, PaymentIntent
<1> QED BY <1>1, <1>2, <1>3, <1>4, <1>5, WorldKeeps DEF Next

\* Nothing was placed at the start.
LEMMA InitKeeps ==
    ASSUME Init
    PROVE  SerialInv /\ Contract!ContractInit
<1>1. SerialInv
  BY DEF Init, SerialInv, PaidIsPlaced, PaidOf, Current, Idle, ConfirmPc
<1>2. ASSUME NEW o \in Order
      PROVE  StageOf(o) = "none" /\ QuoteOf(o) = 0 /\ PaidOf(o) = FALSE /\ Cardinality(Charges(o)) = 0
  <2>1. StageOf(o) = "none" /\ QuoteOf(o) = 0 /\ PaidOf(o) = FALSE
    BY <1>2 DEF Init, StageOf, QuoteOf, PaidOf, Exists
  <2>2. Charges(o) = {}
    BY DEF Init, PaystackInit, Charges, Charged, Reference
  <2> QED BY <2>1, <2>2, FS_EmptySet
<1>3. /\ Stages = [o \in Order |-> "none"]
      /\ Quoted = [o \in Order |-> 0]
      /\ Paids = [o \in Order |-> FALSE]
      /\ Counts = [o \in Order |-> 0]
  BY <1>2 DEF Stages, Quoted, Paids, Counts
<1>4. jobs = [o \in Order |-> 0]
  BY DEF Init
<1> QED BY <1>1, <1>3, <1>4 DEF Contract!ContractInit, Stages, Quoted, Paids, Counts, StageOf, QuoteOf,
                                PaidOf, Charges

\* What a request alone on its order writes, nobody was before it to write.
LEMMA AloneIsNotOvertaken ==
    ASSUME Inv, SerialInv, NEW r \in Request
    PROVE  ~Overtaken(r) /\ ~Reopens(r)
<1>0. PICK q, o : q = req[r] /\ o = q.order
  OBVIOUS
<1>1. ASSUME q.pc \in {"reprice", "upsert", "deleteRow"}
      PROVE  Open(o)
  <2>1. Exists(o) /\ orders[o].status = "PENDING" /\ o \in Order
    BY <1>0, <1>1, UnderwayCurrent DEF Current
  <2> QED BY <2>1, PendingIsUnpaid DEF Open, AlreadyProcessed
<1>2. ASSUME q.pc = "failWrite", HasReference(<<o, q.stamp>>)
      PROVE  ~AlreadyProcessed(o)
  BY <1>0, <1>2, UnderwayCurrent DEF Current
<1>3. ASSUME q.pc = "enqueue"
      PROVE  jobs[o] < Cardinality(Charges(o))
  <2>1. jobs[o] = 0 /\ q.stamp \in Stamp /\ Charged(<<o, q.stamp>>)
    BY <1>0, <1>3, UnderwayCurrent DEF Current, Knows, RequestShape, HasOrderAndStamp
  <2> QED BY <2>1, ChargedIsCounted
<1>4. ASSUME q.pc = "updateWrite"
      PROVE  q.status # "PENDING"
  BY <1>0, <1>4, UnderwayCurrent DEF Current
<1>5. ~Reopens(r)
  BY <1>0, <1>4 DEF Reopens, UpdateWrite, At
<1>6. jobs[o] >= Cardinality(Charges(o)) => q.pc # "enqueue"
  <2>1. ASSUME q.pc = "enqueue" PROVE jobs[o] \in Nat /\ Cardinality(Charges(o)) \in Nat
    BY <1>0, <2>1, UnderwayCurrent, ChargesAreFinite DEF Inv, Shape, TypeOK
  <2> QED BY <1>3, <2>1
<1>7. ~Overtaken(r)
  BY <1>0, <1>1, <1>2, <1>6
     DEF Overtaken, Open, Reprice, UpsertPayment, DeleteRow, FailWrite, EnqueueNotification, At, Charges
<1> QED BY <1>5, <1>7

(***************************************************************************)
(* The theorems.                                                           *)
(***************************************************************************)
LEMMA DecisionsHold == Spec => []DecidedInv
<1>1. Init => DecidedInv
  BY DEF Init, DecidedInv, Decided, Idle
<1>2. Inv /\ DecidedInv /\ [Next]_vars => DecidedInv'
  BY DecidedStep
<1> QED BY <1>1, <1>2, Invariance, PTL DEF Spec

\* Whatever requests overlap, and whatever fails, a step that customers can
\* notice is one of the contract, unless it is the write of a request that was
\* overtaken since it read, or the staff put an order back to PENDING. What
\* confirmPayment writes for a charge is always a step of the contract.
THEOREM OvertakenBreakContract == Spec => OnlyOvertakenBreakContract
<1>1. ASSUME Inv, DecidedInv, [Next]_vars
      PROVE  [\/ UNCHANGED <<txns, orders, payments, issued, jobs>>
              \/ [Contract!ContractNext]_Contract!contractVars
              \/ \E r \in Request : Overtaken(r) \/ Reopens(r)]_vars
  BY <1>1, EveryStepSeen, UnseenStutters DEF Kept
<1> QED BY <1>1, Invariance, DecisionsHold, PTL DEF Spec, OnlyOvertakenBreakContract

\* As long as no two requests in flight work on the same order, and the staff
\* do not put an order back to PENDING, nobody is overtaken and the service
\* keeps its contract: no paid order is requoted, reopened or withdrawn, none
\* is confirmed without a charge, and none is announced more often than it was
\* charged, whatever fails and whatever requests on other orders do meanwhile.
THEOREM SerialKeepsContract ==
    ASSUME "PENDING" \notin UpdateStatus
    PROVE  Spec /\ []NoOverlap => KeepsContract
<1>1. Init => SerialInv /\ Contract!ContractInit
  BY InitKeeps
<1>2. Inv /\ Inv' /\ NoOverlap /\ SerialInv /\ [Next]_vars => SerialInv'
  BY EveryStepKeeps
<1>3. Inv /\ DecidedInv /\ SerialInv /\ [Next]_vars =>
          [Contract!ContractNext]_Contract!contractVars
  BY EveryStepSeen, AloneIsNotOvertaken, UnseenStutters DEF Kept
<1> QED BY <1>1, <1>2, <1>3, Invariance, DecisionsHold, PTL
        DEF Spec, KeepsContract, Contract!ContractSpec

\* In particular, a service that takes one request at a time keeps it.
THEOREM OneAtATimeKeepsContract ==
    ASSUME "PENDING" \notin UpdateStatus, \A r, s \in Request : r = s
    PROVE  Spec => KeepsContract
<1>1. NoOverlap
  BY DEF NoOverlap
<1> QED BY <1>1, SerialKeepsContract, PTL
=============================================================================
