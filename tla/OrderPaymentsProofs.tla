------------------------ MODULE OrderPaymentsProofs ------------------------
(***************************************************************************)
(* Proofs about OrderPayments, for every number of orders, requests,       *)
(* references, prices and failures.                                        *)
(***************************************************************************)
EXTENDS OrderPayments, TLAPS

(***************************************************************************)
(* Records of requests.                                                    *)
(***************************************************************************)
\* An idle slot has nothing left of an earlier request.
LEMMA IdleShape == RequestShape(Idle)
BY PriceAssumption DEF RequestShape, RequestState, Idle, Pc, ConfirmPc, HasOrderAndStamp, OrderStatus

\* A payment intent that goes on after its check is in good shape.
LEMMA IntentGoesOnShape ==
    ASSUME NEW q, RequestShape(q), q.pc # "idle", q.from = "intent"
    PROVE  RequestShape(IntentGoesOn(q))
<1>1. CASE q.status = "PENDING"
  <2> DEFINE p == [q EXCEPT !.pc = "intentInit", !.stamp = 0, !.amount = 0]
  <2>1. p \in RequestState
    BY DEF RequestShape, RequestState, Pc, ConfirmPc
  <2>2. RequestShape(p)
    BY <2>1 DEF RequestShape, RequestState, ConfirmPc, HasOrderAndStamp
  <2> QED BY <1>1, <2>2 DEF IntentGoesOn
<1>2. CASE q.status # "PENDING"
  BY <1>2, IdleShape DEF IntentGoesOn
<1> QED BY <1>1, <1>2

\* So is a request whose call threw.
LEMMA CatchShape ==
    ASSUME NEW q, RequestShape(q), q.pc # "idle"
    PROVE  RequestShape(Catch(q))
<1>1. CASE q.from = "intent" /\ q.pc \in ConfirmPc \cup {"intentVerify"}
  BY <1>1, IntentGoesOnShape DEF Catch
<1>2. CASE ~(q.from = "intent" /\ q.pc \in ConfirmPc \cup {"intentVerify"}) /\ q.pc = "deleteVerify"
  BY <1>2 DEF Catch, RequestShape, RequestState, Pc, ConfirmPc, HasOrderAndStamp
<1>3. CASE ~(q.from = "intent" /\ q.pc \in ConfirmPc \cup {"intentVerify"}) /\ q.pc # "deleteVerify"
  BY <1>3, IdleShape DEF Catch
<1> QED BY <1>1, <1>2, <1>3

\* And a request whose getOrderById returned.
LEMMA AfterGetShape ==
    ASSUME NEW q, RequestShape(q), q.pc # "idle"
    PROVE  RequestShape(AfterGet(q))
<1>1. CASE q.from = "intent"
  <2> DEFINE p == [q EXCEPT !.pc = "intentRead", !.amount = 0]
  <2>1. p \in RequestState
    BY DEF RequestShape, RequestState, Pc
  <2>2. RequestShape(p)
    BY <1>1, <2>1 DEF RequestShape, RequestState, ConfirmPc, HasOrderAndStamp
  <2> QED BY <1>1, <2>2 DEF AfterGet
<1>2. CASE q.from # "intent"
  BY <1>2, IdleShape DEF AfterGet
<1> QED BY <1>1, <1>2

\* A step that replaces one request by one in good shape keeps the rest.
LEMMA GotoShapes ==
    ASSUME NEW r \in Request, NEW q, RequestShape(q), Goto(r, q),
           req \in [Request -> RequestState], RequestShapes
    PROVE  /\ req' \in [Request -> RequestState]
           /\ RequestShapes'
           /\ req'[r] = q
           /\ \A s \in Request \ {r} : req'[s] = req[s]
BY DEF Goto, RequestShapes, RequestShape

\* Moving on to a step whose locals have been read keeps the shape.
LEMMA MoveShape ==
    ASSUME NEW q, RequestShape(q), q.pc # "idle",
           NEW pc \in Pc, pc \notin {"insert", "initialize", "reprice"},
           pc \in HasOrderAndStamp => q.stamp \in Stamp,
           pc \in {"intentRead", "intentVerify", "intentInit", "upsert"} => q.from = "intent"
    PROVE  RequestShape([q EXCEPT !.pc = pc])
<1> DEFINE p == [q EXCEPT !.pc = pc]
<1>1. p \in RequestState
  BY DEF RequestShape, RequestState
<1> QED BY <1>1 DEF RequestShape, RequestState, HasOrderAndStamp

\* Acknowledging a webhook acknowledges a reference.
LEMMA ReplyType ==
    ASSUME NEW q, RequestShape(q), q.pc \in HasOrderAndStamp, Reply(q), acked \subseteq Reference
    PROVE  acked' \subseteq Reference
BY DEF Reply, Reference, RequestShape, HasOrderAndStamp, ConfirmPc

(***************************************************************************)
(* Type correctness.                                                       *)
(***************************************************************************)
Shape == TypeOK /\ RequestShapes

\* A step that changes a request, the acknowledgements and the faults.
LEMMA RequestStep ==
    ASSUME Shape, NEW r \in Request, NEW q, RequestShape(q), Goto(r, q),
           acked' \subseteq Reference, faults' \in 0..MaxFault,
           UNCHANGED <<txns, orders, payments, history, issued, jobs, price>>
    PROVE  Shape'
BY GotoShapes DEF Shape, TypeOK, PaystackTypeOK

\* The first step of confirmPayment, wherever it is called from.
LEMMA ReadPaymentShape ==
    ASSUME Shape, NEW r \in Request, NEW q, RequestShape(q), q.pc = "confirmRead",
           ReadPayment(r, q),
           UNCHANGED <<txns, orders, payments, history, issued, jobs, price, faults>>
    PROVE  Shape'
<1> DEFINE ref == <<q.order, q.stamp>>
           p == [q EXCEPT !.pc = "confirmVerify", !.amount = payments[q.order].amount]
<1>0. /\ acked \subseteq Reference
      /\ faults' \in 0..MaxFault
      /\ q.pc # "idle" /\ q.pc \in HasOrderAndStamp
  BY DEF Shape, TypeOK, HasOrderAndStamp, ConfirmPc
<1>1. CASE HasReference(ref) /\ AlreadyProcessed(q.order) /\ Goto(r, Idle) /\ Reply(q)
  BY <1>0, <1>1, IdleShape, ReplyType, RequestStep
<1>2. CASE HasReference(ref) /\ Goto(r, p) /\ UNCHANGED acked
  <2>1. payments[q.order].amount \in Price
    BY <1>2 DEF HasReference, Shape, TypeOK, PaymentRow
  <2>2. p \in RequestState
    BY <2>1 DEF RequestShape, RequestState, Pc, ConfirmPc
  <2>3. RequestShape(p)
    BY <1>0, <2>2 DEF RequestShape, RequestState, HasOrderAndStamp, ConfirmPc
  <2> QED BY <1>0, <1>2, <2>3, RequestStep
<1>3. CASE ~HasReference(ref) /\ Goto(r, Catch(q)) /\ UNCHANGED acked
  BY <1>0, <1>3, CatchShape, RequestStep
<1> QED BY <1>1, <1>2, <1>3 DEF ReadPayment

\* Every step keeps the tables and the requests in shape.
LEMMA ShapeStep ==
    ASSUME Shape, [Next]_vars
    PROVE  Shape'
<1> USE DEF Shape
<1>0. /\ acked \subseteq Reference
      /\ faults \in 0..MaxFault
      /\ \A r \in Request : RequestShape(req[r])
  BY DEF TypeOK, RequestShapes
<1>1. ASSUME NEW r \in Request, NEW o \in Order, CreateOrder(r, o)
      PROVE  Shape'
  <2> DEFINE q == [Idle EXCEPT !.pc = "insert", !.order = o, !.amount = price]
  <2>1. RequestShape(q)
    BY IdleShape DEF TypeOK, Idle, RequestShape, RequestState, Pc, ConfirmPc, HasOrderAndStamp
  <2> QED BY <1>0, <1>1, <2>1, RequestStep DEF CreateOrder
<1>2. ASSUME NEW r \in Request, InsertOrder(r)
      PROVE  Shape'
  <2> DEFINE q == req[r]
             o == q.order
             p == [q EXCEPT !.pc = "initialize", !.stamp = 1]
  <2>1. /\ RequestShape(q) /\ q.pc = "insert" /\ o \in Order /\ q.amount \in Price
        /\ 1 \in Stamp
    BY <1>0, <1>2, MaxRefAssumption DEF InsertOrder, At, RequestShape, Stamp
  <2>2. p \in RequestState
    BY <2>1 DEF RequestShape, RequestState, Pc
  <2>3. RequestShape(p)
    BY <2>1, <2>2 DEF RequestShape, RequestState, HasOrderAndStamp, ConfirmPc
  <2>4. req' \in [Request -> RequestState] /\ RequestShapes'
    BY <1>2, <2>3, GotoShapes DEF InsertOrder, TypeOK
  <2>5. DOMAIN orders' \subseteq Order /\ orders' \in [DOMAIN orders' -> OrderRow]
    BY <1>2, <2>1 DEF InsertOrder, Put, TypeOK, OrderRow, OrderStatus
  <2>6. DOMAIN payments' \subseteq Order /\ payments' \in [DOMAIN payments' -> PaymentRow]
    BY <1>2, <2>1 DEF InsertOrder, Put, TypeOK, PaymentRow, PaymentStatus
  <2>7. issued' \in [Order -> Stamp \cup {0}]
    BY <1>2, <2>1 DEF InsertOrder, TypeOK
  <2> QED BY <1>2, <2>4, <2>5, <2>6, <2>7 DEF InsertOrder, TypeOK, PaystackTypeOK
<1>3. ASSUME NEW r \in Request, InitializeOrder(r)
      PROVE  Shape'
  <2> DEFINE q == req[r]
  <2>0. RequestShape(q) /\ q.pc = "initialize"
    BY <1>0, <1>3 DEF InitializeOrder, At
  <2>1. /\ <<q.order, q.stamp>> \in Reference
        /\ q.amount \in Nat
    BY <2>0, PriceAssumption DEF RequestShape, Reference, HasOrderAndStamp
  <2>2. PaystackTypeOK'
    <3>1. ToKobo(q.amount) \in Nat
      BY <2>1 DEF ToKobo
    <3> QED
      BY <1>3, <2>1, <3>1 DEF InitializeOrder, InitializePayment, TypeOK, PaystackTypeOK, Txn, TxnState
  <2>3. req' \in [Request -> RequestState] /\ RequestShapes'
    BY <1>3, IdleShape, GotoShapes DEF InitializeOrder, TypeOK
  <2> QED BY <1>3, <2>2, <2>3 DEF InitializeOrder, TypeOK
<1>4. ASSUME NEW r \in Request, NEW ref \in Reference,
             Webhook(r, ref) \/ VerifyFromClient(r, ref)
      PROVE  Shape'
  <2> DEFINE q(from) == [Idle EXCEPT !.pc = "confirmRead", !.from = from,
                                     !.order = ref[1], !.stamp = ref[2]]
             p == [Idle EXCEPT !.pc = "confirmRead", !.order = ref[1], !.stamp = ref[2]]
  <2>1. RequestShape(q("webhook")) /\ q("webhook").pc = "confirmRead"
    BY IdleShape DEF Idle, RequestShape, RequestState, Pc, ConfirmPc, HasOrderAndStamp, Reference
  <2>2. RequestShape(p) /\ p.pc = "confirmRead"
    BY IdleShape DEF Idle, RequestShape, RequestState, Pc, ConfirmPc, HasOrderAndStamp, Reference
  <2>3. CASE Webhook(r, ref)
    BY <2>1, <2>3, ReadPaymentShape DEF Webhook
  <2>4. CASE VerifyFromClient(r, ref)
    BY <2>2, <2>4, ReadPaymentShape DEF VerifyFromClient
  <2> QED BY <1>4, <2>3, <2>4
<1>5. ASSUME NEW r \in Request, ConfirmRead(r)
      PROVE  Shape'
  BY <1>0, <1>5, ReadPaymentShape DEF ConfirmRead, At
<1>6. ASSUME NEW r \in Request, ConfirmVerify(r)
      PROVE  Shape'
  <2> DEFINE q == req[r]
  <2>1. /\ RequestShape(q) /\ q.pc # "idle" /\ q.pc \in HasOrderAndStamp /\ q.stamp \in Stamp
        /\ faults' \in 0..MaxFault
    BY <1>0, <1>6 DEF ConfirmVerify, At, HasOrderAndStamp, ConfirmPc, RequestShape
  <2>2. RequestShape([q EXCEPT !.pc = "confirmLock"]) /\ RequestShape([q EXCEPT !.pc = "failLock"])
    BY <2>1, MoveShape DEF Pc, ConfirmPc
  <2>3. CASE Goto(r, [q EXCEPT !.pc = "confirmLock"]) /\ UNCHANGED acked
    BY <1>0, <1>6, <2>1, <2>2, <2>3, RequestStep DEF ConfirmVerify
  <2>4. CASE Goto(r, [q EXCEPT !.pc = "failLock"]) /\ UNCHANGED acked
    BY <1>0, <1>6, <2>1, <2>2, <2>4, RequestStep DEF ConfirmVerify
  <2>5. CASE Goto(r, Idle) /\ Reply(q)
    BY <1>0, <1>6, <2>1, <2>5, IdleShape, ReplyType, RequestStep DEF ConfirmVerify
  <2>6. CASE Goto(r, Catch(q)) /\ UNCHANGED acked
    BY <1>0, <1>6, <2>1, <2>6, CatchShape, RequestStep DEF ConfirmVerify
  <2> QED BY <1>6, <2>3, <2>4, <2>5, <2>6 DEF ConfirmVerify
<1>7. ASSUME NEW r \in Request, ConfirmLock(r) \/ FailLock(r)
      PROVE  Shape'
  <2> DEFINE q == req[r]
  <2>1. /\ RequestShape(q) /\ q.pc # "idle" /\ q.pc \in HasOrderAndStamp /\ q.stamp \in Stamp
        /\ faults' \in 0..MaxFault
    BY <1>0, <1>7 DEF ConfirmLock, FailLock, ReadAgain, At, HasOrderAndStamp, ConfirmPc, RequestShape
  <2>2. RequestShape([q EXCEPT !.pc = "confirmWrite"]) /\ RequestShape([q EXCEPT !.pc = "failWrite"])
    BY <2>1, MoveShape DEF Pc, ConfirmPc
  <2>3. CASE Goto(r, Idle) /\ Reply(q)
    BY <1>0, <1>7, <2>1, <2>3, IdleShape, ReplyType, RequestStep DEF ConfirmLock, FailLock, ReadAgain
  <2>4. CASE Goto(r, [q EXCEPT !.pc = "confirmWrite"]) /\ UNCHANGED acked
    BY <1>0, <1>7, <2>1, <2>2, <2>4, RequestStep DEF ConfirmLock, FailLock, ReadAgain
  <2>5. CASE Goto(r, [q EXCEPT !.pc = "failWrite"]) /\ UNCHANGED acked
    BY <1>0, <1>7, <2>1, <2>2, <2>5, RequestStep DEF ConfirmLock, FailLock, ReadAgain
  <2> QED BY <1>7, <2>3, <2>4, <2>5 DEF ConfirmLock, FailLock, ReadAgain
<1>8. ASSUME NEW r \in Request, RowGone(r)
      PROVE  Shape'
  <2>1. RequestShape(Catch(req[r]))
    BY <1>0, <1>8, CatchShape DEF RowGone
  <2> QED BY <1>0, <1>8, <2>1, RequestStep DEF RowGone
<1>9. ASSUME NEW r \in Request, ConfirmWrite(r)
      PROVE  Shape'
  <2> DEFINE q == req[r]
             o == q.order
  <2>1. /\ RequestShape(q) /\ q.pc # "idle" /\ q.stamp \in Stamp /\ o \in Order
    BY <1>0, <1>9 DEF ConfirmWrite, At, HasOrderAndStamp, ConfirmPc, RequestShape
  <2>2. RequestShape([q EXCEPT !.pc = "enqueue"])
    BY <2>1, MoveShape DEF Pc
  <2>3. req' \in [Request -> RequestState] /\ RequestShapes'
    BY <1>9, <2>2, GotoShapes DEF ConfirmWrite, TypeOK
  <2>4. DOMAIN orders' \subseteq Order /\ orders' \in [DOMAIN orders' -> OrderRow]
    BY <1>9, ZenonT(60) DEF ConfirmWrite, TypeOK, OrderRow, OrderStatus
  <2>5. DOMAIN payments' \subseteq Order /\ payments' \in [DOMAIN payments' -> PaymentRow]
    BY <1>9, ZenonT(60) DEF ConfirmWrite, TypeOK, PaymentRow, PaymentStatus
  <2>6. history' \in [Order -> HistoryRows]
    <3>1. history' = history \/ history' = [history EXCEPT ![o].paid = @ + 1]
      BY <1>9 DEF ConfirmWrite, LogConfirmation
    <3> QED BY <2>1, <3>1 DEF TypeOK, HistoryRows
  <2> QED BY <1>9, <2>3, <2>4, <2>5, <2>6 DEF ConfirmWrite, TypeOK, PaystackTypeOK
<1>10. ASSUME NEW r \in Request, EnqueueNotification(r)
       PROVE  Shape'
  <2> DEFINE q == req[r]
  <2>1. /\ RequestShape(q) /\ q.pc \in HasOrderAndStamp /\ q.order \in Order
    BY <1>0, <1>10 DEF EnqueueNotification, At, HasOrderAndStamp, RequestShape
  <2>2. acked' \subseteq Reference
    BY <1>0, <1>10, <2>1, ReplyType DEF EnqueueNotification
  <2>3. req' \in [Request -> RequestState] /\ RequestShapes'
    BY <1>10, IdleShape, GotoShapes DEF EnqueueNotification, TypeOK
  <2>4. jobs' \in [Order -> Nat]
    BY <1>10, <2>1 DEF EnqueueNotification, TypeOK
  <2> QED BY <1>10, <2>2, <2>3, <2>4 DEF EnqueueNotification, TypeOK, PaystackTypeOK
<1>11. ASSUME NEW r \in Request, QueueRefuses(r)
       PROVE  Shape'
  <2> DEFINE q == req[r]
  <2>1. /\ RequestShape(q) /\ q.pc \in HasOrderAndStamp /\ faults' \in 0..MaxFault
    BY <1>0, <1>11, MaxFaultAssumption DEF QueueRefuses, At, HasOrderAndStamp
  <2>2. acked' \subseteq Reference
    BY <1>0, <1>11, <2>1, ReplyType DEF QueueRefuses
  <2> QED BY <1>11, <2>1, <2>2, IdleShape, RequestStep DEF QueueRefuses
<1>12. ASSUME NEW r \in Request, FailWrite(r)
       PROVE  Shape'
  <2> DEFINE q == req[r]
             o == q.order
  <2>1. /\ RequestShape(q) /\ q.pc \in HasOrderAndStamp /\ o \in Order
    BY <1>0, <1>12 DEF FailWrite, At, HasOrderAndStamp, ConfirmPc, RequestShape
  <2>2. acked' \subseteq Reference
    BY <1>0, <1>12, <2>1, ReplyType DEF FailWrite
  <2>3. req' \in [Request -> RequestState] /\ RequestShapes'
    BY <1>12, IdleShape, GotoShapes DEF FailWrite, TypeOK
  <2>4. DOMAIN payments' \subseteq Order /\ payments' \in [DOMAIN payments' -> PaymentRow]
    BY <1>12, ZenonT(60) DEF FailWrite, TypeOK, PaymentRow, PaymentStatus
  <2>5. history' \in [Order -> HistoryRows]
    BY <1>12, <2>1 DEF FailWrite, TypeOK, HistoryRows
  <2> QED BY <1>12, <2>2, <2>3, <2>4, <2>5 DEF FailWrite, TypeOK, PaystackTypeOK
<1>13. ASSUME NEW r \in Request, NEW o \in Order, GetOrder(r, o) \/ PaymentIntent(r, o)
       PROVE  Shape'
  <2>1. ASSUME NEW from \in {"client", "intent"}, ReadOrder(r, o, from)
        PROVE  Shape'
    <3> DEFINE q == [Idle EXCEPT !.from = from, !.order = o, !.status = orders[o].status,
                                 !.total = orders[o].total]
               p == [q EXCEPT !.pc = "price"]
    <3>1. orders[o] \in OrderRow
      BY <2>1 DEF ReadOrder, Exists, TypeOK
    <3>2. q \in RequestState /\ q.pc = "idle" /\ q.from = from /\ q.total \in Price
      BY <3>1, IdleShape DEF Idle, OrderRow, RequestShape, RequestState
    <3>3. p \in RequestState /\ RequestShape(p)
      BY <3>2, ZenonT(60) DEF Idle, RequestShape, RequestState, Pc, ConfirmPc, HasOrderAndStamp
    <3>4. RequestShape(AfterGet(q))
      <4> DEFINE i == [q EXCEPT !.pc = "intentRead", !.amount = 0]
      <4>1. i \in RequestState
        BY <3>2 DEF RequestState, Pc
      <4>2. ASSUME from = "intent" PROVE RequestShape(i)
        BY <3>2, <4>1, <4>2 DEF Idle, RequestShape, RequestState, HasOrderAndStamp, ConfirmPc
      <4> QED BY <3>2, <4>2, IdleShape DEF AfterGet
    <3> QED BY <1>0, <2>1, <3>3, <3>4, RequestStep DEF ReadOrder
  <2> QED BY <1>13, <2>1 DEF GetOrder, PaymentIntent
<1>14. ASSUME NEW r \in Request, ComparePrice(r)
       PROVE  Shape'
  <2> DEFINE q == req[r]
             p == [q EXCEPT !.pc = "reprice", !.amount = price]
  <2>1. RequestShape(q) /\ q.pc = "price" /\ price \in Price
    BY <1>0, <1>14 DEF ComparePrice, At, TypeOK
  <2>2. p \in RequestState
    BY <2>1 DEF RequestShape, RequestState, Pc
  <2>3. RequestShape(p)
    BY <2>1, <2>2 DEF RequestShape, RequestState, HasOrderAndStamp, ConfirmPc
  <2>4. RequestShape(AfterGet(q))
    BY <2>1, AfterGetShape
  <2> QED BY <1>0, <1>14, <2>3, <2>4, RequestStep DEF ComparePrice
<1>15. ASSUME NEW r \in Request, Reprice(r)
       PROVE  Shape'
  <2> DEFINE q == req[r]
             o == q.order
             p == [q EXCEPT !.status = orders[o].status, !.total = q.amount]
  <2>1. RequestShape(q) /\ q.pc = "reprice" /\ q.amount \in Price
    BY <1>0, <1>15 DEF Reprice, At, RequestShape
  <2>2. CASE /\ Exists(o)
             /\ orders' = [orders EXCEPT ![o].total = q.amount]
             /\ payments' = IF o \in DOMAIN payments
                            THEN [payments EXCEPT ![o].amount = q.amount] ELSE payments
             /\ Goto(r, AfterGet(p))
    <3>1. orders[o].status \in OrderStatus
      BY <2>2 DEF Exists, TypeOK, OrderRow
    <3>2. p \in RequestState
      BY <2>1, <3>1 DEF RequestShape, RequestState
    <3>3. RequestShape(p) /\ p.pc # "idle"
      BY <2>1, <3>2 DEF RequestShape, RequestState, HasOrderAndStamp, ConfirmPc
    <3>4. req' \in [Request -> RequestState] /\ RequestShapes'
      BY <2>2, <3>3, AfterGetShape, GotoShapes DEF TypeOK
    <3>5. DOMAIN orders' \subseteq Order /\ orders' \in [DOMAIN orders' -> OrderRow]
      BY <2>1, <2>2 DEF TypeOK, OrderRow
    <3>6. DOMAIN payments' \subseteq Order /\ payments' \in [DOMAIN payments' -> PaymentRow]
      BY <2>1, <2>2 DEF TypeOK, PaymentRow
    <3> QED BY <1>15, <3>4, <3>5, <3>6 DEF Reprice, TypeOK, PaystackTypeOK
  <2>3. CASE Goto(r, Idle) /\ UNCHANGED <<orders, payments>>
    BY <1>0, <1>15, <2>3, IdleShape, RequestStep DEF Reprice
  <2> QED BY <1>15, <2>2, <2>3 DEF Reprice
<1>16. ASSUME NEW r \in Request, IntentReadPayment(r)
       PROVE  Shape'
  <2> DEFINE q == req[r]
             p == [q EXCEPT !.pc = "intentVerify", !.stamp = payments[q.order].stamp]
  <2>1. RequestShape(q) /\ q.pc = "intentRead" /\ q.from = "intent"
    BY <1>0, <1>16 DEF IntentReadPayment, At, RequestShape
  <2>2. RequestShape(IntentGoesOn(q))
    BY <2>1, IntentGoesOnShape
  <2>3. ASSUME q.order \in DOMAIN payments PROVE RequestShape(p)
    <3>1. payments[q.order].stamp \in Stamp
      BY <2>3 DEF TypeOK, PaymentRow
    <3>2. p \in RequestState
      BY <2>1, <3>1 DEF RequestShape, RequestState, Pc
    <3> QED BY <2>1, <3>1, <3>2 DEF RequestShape, RequestState, HasOrderAndStamp, ConfirmPc
  <2> QED BY <1>0, <1>16, <2>2, <2>3, RequestStep DEF IntentReadPayment
<1>17. ASSUME NEW r \in Request, IntentVerify(r)
       PROVE  Shape'
  <2> DEFINE q == req[r]
  <2>1. /\ RequestShape(q) /\ q.pc = "intentVerify" /\ q.from = "intent" /\ q.stamp \in Stamp
    BY <1>0, <1>17 DEF IntentVerify, At, RequestShape, HasOrderAndStamp
  <2>2. RequestShape([q EXCEPT !.pc = "confirmRead"])
    BY <2>1, MoveShape DEF Pc, ConfirmPc
  <2>3. RequestShape(IntentGoesOn(q))
    BY <2>1, IntentGoesOnShape
  <2> QED BY <1>0, <1>17, <2>2, <2>3, RequestStep DEF IntentVerify
<1>18. ASSUME NEW r \in Request, IntentInitialize(r)
       PROVE  Shape'
  <2> DEFINE q == req[r]
             n == issued[q.order] + 1
             p == [q EXCEPT !.pc = "upsert", !.stamp = n]
  <2>1. /\ RequestShape(q) /\ q.pc = "intentInit" /\ q.from = "intent" /\ q.total \in Price
        /\ q.order \in Order
    BY <1>0, <1>18 DEF IntentInitialize, At, RequestShape
  <2>2. CASE /\ n \in Stamp /\ InitializePayment(<<q.order, n>>, q.total)
             /\ issued' = [issued EXCEPT ![q.order] = n] /\ Goto(r, p)
    <3>1. p \in RequestState
      BY <2>1, <2>2 DEF RequestShape, RequestState, Pc
    <3>2. RequestShape(p)
      BY <2>1, <2>2, <3>1 DEF RequestShape, RequestState, HasOrderAndStamp, ConfirmPc
    <3>3. req' \in [Request -> RequestState] /\ RequestShapes'
      BY <2>2, <3>2, GotoShapes DEF TypeOK
    <3>4. ToKobo(q.total) \in Nat /\ <<q.order, n>> \in Reference
      BY <2>1, <2>2, PriceAssumption DEF ToKobo, Reference
    <3>5. PaystackTypeOK'
      BY <2>2, <3>4 DEF InitializePayment, TypeOK, PaystackTypeOK, Txn, TxnState
    <3>6. issued' \in [Order -> Stamp \cup {0}]
      BY <2>1, <2>2 DEF TypeOK
    <3> QED BY <1>18, <3>3, <3>5, <3>6 DEF IntentInitialize, TypeOK
  <2>3. CASE Goto(r, Idle) /\ UNCHANGED <<txns, issued>>
    BY <1>0, <1>18, <2>3, IdleShape, RequestStep DEF IntentInitialize
  <2> QED BY <1>18, <2>2, <2>3 DEF IntentInitialize
<1>19. ASSUME NEW r \in Request, UpsertPayment(r)
       PROVE  Shape'
  <2> DEFINE q == req[r]
             o == q.order
  <2>1. /\ RequestShape(q) /\ q.stamp \in Stamp /\ q.total \in Price /\ o \in Order
    BY <1>0, <1>19 DEF UpsertPayment, At, RequestShape, HasOrderAndStamp
  <2>2. req' \in [Request -> RequestState] /\ RequestShapes'
    BY <1>19, IdleShape, GotoShapes DEF UpsertPayment, TypeOK
  <2>3. DOMAIN payments' \subseteq Order /\ payments' \in [DOMAIN payments' -> PaymentRow]
    BY <1>19, <2>1 DEF UpsertPayment, Put, TypeOK, PaymentRow, PaymentStatus
  <2> QED BY <1>19, <2>2, <2>3 DEF UpsertPayment, TypeOK, PaystackTypeOK
<1>20. ASSUME NEW r \in Request, NEW o \in Order, DeleteOrder(r, o)
       PROVE  Shape'
  <2> DEFINE q == [Idle EXCEPT !.pc = "deleteRead", !.order = o]
  <2>1. RequestShape(q)
    BY IdleShape DEF Idle, RequestShape, RequestState, Pc, ConfirmPc, HasOrderAndStamp
  <2> QED BY <1>0, <1>20, <2>1, RequestStep DEF DeleteOrder
<1>21. ASSUME NEW r \in Request, DeleteReadPayment(r)
       PROVE  Shape'
  <2> DEFINE q == req[r]
             p == [q EXCEPT !.pc = "deleteVerify", !.stamp = payments[q.order].stamp]
  <2>1. RequestShape(q) /\ q.pc = "deleteRead"
    BY <1>0, <1>21 DEF DeleteReadPayment, At
  <2>2. RequestShape([q EXCEPT !.pc = "deleteRow"])
    BY <2>1, MoveShape DEF Pc, ConfirmPc, HasOrderAndStamp
  <2>3. ASSUME q.order \in DOMAIN payments PROVE RequestShape(p)
    <3>1. payments[q.order].stamp \in Stamp
      BY <2>3 DEF TypeOK, PaymentRow
    <3>2. p \in RequestState
      BY <2>1, <3>1 DEF RequestShape, RequestState, Pc
    <3> QED BY <2>1, <3>1, <3>2 DEF RequestShape, RequestState, HasOrderAndStamp, ConfirmPc
  <2> QED BY <1>0, <1>21, <2>2, <2>3, RequestStep DEF DeleteReadPayment
<1>22. ASSUME NEW r \in Request, DeleteVerify(r)
       PROVE  Shape'
  <2> DEFINE q == req[r]
             p == [q EXCEPT !.pc = "confirmRead", !.from = "background"]
  <2>1. RequestShape(q) /\ q.pc = "deleteVerify" /\ q.stamp \in Stamp /\ q.order \in Order
    BY <1>0, <1>22 DEF DeleteVerify, At, RequestShape, HasOrderAndStamp
  <2>2. RequestShape([q EXCEPT !.pc = "deleteRow"])
    BY <2>1, MoveShape DEF Pc, ConfirmPc, HasOrderAndStamp
  <2>3. p \in RequestState
    BY <2>1 DEF RequestShape, RequestState, Pc, ConfirmPc
  <2>4. RequestShape(p)
    BY <2>1, <2>3 DEF RequestShape, RequestState, HasOrderAndStamp, ConfirmPc
  <2> QED BY <1>0, <1>22, <2>2, <2>4, RequestStep DEF DeleteVerify
<1>23. ASSUME NEW r \in Request, DeleteRow(r)
       PROVE  Shape'
  <2>1. req' \in [Request -> RequestState] /\ RequestShapes'
    BY <1>23, IdleShape, GotoShapes DEF DeleteRow, TypeOK
  <2>2. /\ DOMAIN orders' \subseteq Order /\ orders' \in [DOMAIN orders' -> OrderRow]
        /\ DOMAIN payments' \subseteq Order /\ payments' \in [DOMAIN payments' -> PaymentRow]
    BY <1>23 DEF DeleteRow, Restrict, TypeOK
  <2>3. history' \in [Order -> HistoryRows]
    BY <1>23 DEF DeleteRow, TypeOK, HistoryRows, NoHistory
  <2> QED BY <1>23, <2>1, <2>2, <2>3 DEF DeleteRow, TypeOK, PaystackTypeOK
<1>24. ASSUME NEW r \in Request, NEW o \in Order, UpdateOrderStatus(r, o)
       PROVE  Shape'
  <2>1. PICK target \in UpdateStatus, tailor \in Tailor \cup {NoTailor, KeepTailor} :
             Goto(r, [Idle EXCEPT !.pc = "updateWrite", !.order = o,
                                  !.status = target, !.tailor = tailor])
    BY <1>24 DEF UpdateOrderStatus
  <2> DEFINE q == [Idle EXCEPT !.pc = "updateWrite", !.order = o,
                               !.status = target, !.tailor = tailor]
  <2>2. RequestShape(q)
    BY IdleShape, UpdateStatusAssumption
    DEF Idle, RequestShape, RequestState, Pc, ConfirmPc, HasOrderAndStamp
  <2> QED BY <1>0, <1>24, <2>1, <2>2, RequestStep DEF UpdateOrderStatus
<1>25. ASSUME NEW r \in Request, UpdateWrite(r)
       PROVE  Shape'
  <2> DEFINE q == req[r]
             o == q.order
  <2>1. RequestShape(q) /\ o \in Order
    BY <1>0, <1>25 DEF UpdateWrite, At, RequestShape
  <2>2. req' \in [Request -> RequestState] /\ RequestShapes'
    BY <1>25, IdleShape, GotoShapes DEF UpdateWrite, TypeOK
  <2>3. ASSUME Exists(o)
        PROVE  NewTailor(orders[o].tailor, q.tailor) \in Tailor \cup {NoTailor}
    BY <2>1, <2>3 DEF NewTailor, Exists, TypeOK, OrderRow, RequestShape, RequestState
  <2>4. /\ DOMAIN orders' \subseteq Order /\ orders' \in [DOMAIN orders' -> OrderRow]
    <3>1. q.status \in OrderStatus
      BY <2>1 DEF RequestShape, RequestState
    <3> QED BY <1>25, <2>3, <3>1 DEF UpdateWrite, Exists, TypeOK, OrderRow
  <2>5. history' \in [Order -> HistoryRows]
    BY <1>25, <2>1 DEF UpdateWrite, TypeOK, HistoryRows, RequestShape, RequestState
  <2> QED BY <1>25, <2>2, <2>4, <2>5 DEF UpdateWrite, TypeOK, PaystackTypeOK
<1>26. ASSUME NEW r \in Request, Fault(r)
       PROVE  Shape'
  <2>1. faults' \in 0..MaxFault
    BY <1>0, <1>26, MaxFaultAssumption DEF Fault
  <2>2. CASE Goto(r, Idle)
    BY <1>0, <1>26, <2>1, <2>2, IdleShape, RequestStep DEF Fault
  <2>3. CASE Goto(r, Catch(req[r]))
    <3>1. RequestShape(Catch(req[r]))
      <4>1. CASE req[r].pc = "idle"
        BY <4>1, IdleShape DEF Catch, ConfirmPc
      <4>2. CASE req[r].pc # "idle"
        BY <1>0, <4>2, CatchShape
      <4> QED BY <4>1, <4>2
    <3> QED BY <1>0, <1>26, <2>1, <2>3, <3>1, RequestStep DEF Fault
  <2> QED BY <1>26, <2>2, <2>3 DEF Fault
<1>27. CASE Customer
  <2>1. PaystackTypeOK'
    BY <1>27 DEF Customer, CustomerPays, ChargeDeclined, TypeOK, PaystackTypeOK, Txn, TxnState
  <2> QED BY <1>27, <2>1 DEF Customer, TypeOK, RequestShapes
<1>28. CASE CatalogChange
  BY <1>28 DEF CatalogChange, TypeOK, PaystackTypeOK, RequestShapes
<1>29. CASE UNCHANGED vars
  BY <1>29 DEF vars, TypeOK, PaystackTypeOK, RequestShapes
<1> QED
  BY <1>1, <1>2, <1>3, <1>4, <1>5, <1>6, <1>7, <1>8, <1>9, <1>10, <1>11, <1>12, <1>13, <1>14,
     <1>15, <1>16, <1>17, <1>18, <1>19, <1>20, <1>21, <1>22, <1>23, <1>24, <1>25, <1>26, <1>27,
     <1>28, <1>29
  DEF Next, Step

\* The tables are empty and the requests idle at first.
LEMMA ShapeInit ==
    ASSUME Init
    PROVE  Shape
<1>1. PaystackTypeOK
  BY DEF Init, PaystackInit, PaystackTypeOK, Txn, TxnState
<1>2. req \in [Request -> RequestState] /\ RequestShapes
  BY IdleShape DEF Init, RequestShape, RequestShapes
<1> QED
  BY <1>1, <1>2, MaxFaultAssumption DEF Init, Shape, TypeOK, HistoryRows, NoHistory

\* The tables hold well-formed rows and every request well-formed locals.
THEOREM TypeCorrect == Spec => []TypeOK
<1>1. Init => Shape
  BY ShapeInit
<1>2. Shape /\ [Next]_vars => Shape'
  BY ShapeStep
<1>3. Shape => TypeOK
  BY DEF Shape
<1> QED BY <1>1, <1>2, <1>3, PTL DEF Spec

(***************************************************************************)
(* The safety invariant. Lemmas about what a step leaves as it was.        *)
(***************************************************************************)
\* What Paystack has said of a transaction stays said.
TxnsGrow ==
    \A ref \in Reference :
        /\ Charged(ref) => Charged(ref)'
        /\ txns[ref].state \in {"failed", "success"} =>
              (txns[ref].state \in {"failed", "success"})'
        /\ txns[ref].state # "unknown" => (txns[ref].state # "unknown")'

\* The orders that have an id, and their confirmations, stay on record until
\* they are deleted.
LogKept ==
    \A o \in Order :
        issued[o] > 0 /\ Exists(o)' =>
            Exists(o) /\ (ConfirmedLogged(o) => ConfirmedLogged(o)')

\* New acknowledgements are of orders whose confirmation is on record.
AcksAreEarned ==
    \A ref \in acked' \ acked :
        issued[ref[1]] > 0 /\ (Exists(ref[1])' => ConfirmedLogged(ref[1])')

\* What an acknowledgement says stays true.
LEMMA AckedStep ==
    ASSUME Shape, Shape', IdsAreFresh, AckedIsConfirmed, LogKept, AcksAreEarned
    PROVE  AckedIsConfirmed'
BY DEF Shape, TypeOK, IdsAreFresh, AckedIsConfirmed, LogKept, AcksAreEarned, Reference

\* What a request knows stays true while others act.
LEMMA KnowsKept ==
    ASSUME Shape, IdsAreFresh, RequestKnowledge, TxnsGrow, LogKept,
           NEW s \in Request, NEW p, p = req[s]
    PROVE  Knows(p)'
<1> DEFINE ref == <<p.order, p.stamp>>
<1>1. RequestShape(p) /\ Knows(p)
  BY DEF Shape, RequestShapes, RequestKnowledge
<1>2. p.pc \in HasOrderAndStamp \/ (p.from = "webhook" /\ p.pc # "idle") => ref \in Reference
  BY <1>1 DEF RequestShape, HasOrderAndStamp, ConfirmPc, Reference
<1>3. p.pc = "enqueue" => p.order \in Order /\ issued[p.order] > 0
  BY <1>1 DEF IdsAreFresh, RequestShape
<1>4. p.pc = "enqueue" /\ Exists(p.order)' => ConfirmedLogged(p.order)'
  BY <1>1, <1>3 DEF LogKept, Knows
<1>5. /\ Charged(ref) /\ ref \in Reference => Charged(ref)'
      /\ txns[ref].state \in {"failed", "success"} /\ ref \in Reference =>
            (txns[ref].state \in {"failed", "success"})'
      /\ txns[ref].state # "unknown" /\ ref \in Reference => (txns[ref].state # "unknown")'
  BY DEF TxnsGrow
<1>6. (p.pc \in {"confirmLock", "confirmWrite", "enqueue"} => Charged(ref))'
  BY <1>1, <1>2, <1>5 DEF Knows, HasOrderAndStamp, ConfirmPc
<1>7. (p.pc \in {"failLock", "failWrite"} => txns[ref].state \in {"failed", "success"})'
  BY <1>1, <1>2, <1>5 DEF Knows, HasOrderAndStamp, ConfirmPc
<1>8. (p.pc = "upsert" => txns[ref].state # "unknown")'
  BY <1>1, <1>2, <1>5 DEF Knows, HasOrderAndStamp
<1>9. (p.from = "webhook" /\ p.pc # "idle" =>
             /\ Charged(ref)
             /\ p.pc \in {"confirmRead", "confirmVerify", "confirmLock", "confirmWrite", "enqueue"})'
  BY <1>1, <1>2, <1>5 DEF Knows
<1> QED BY <1>4, <1>6, <1>7, <1>8, <1>9 DEF Knows

\* A request that knows what it claims leaves the others what they know.
LEMMA KnowledgeStep ==
    ASSUME Shape, IdsAreFresh, RequestKnowledge, TxnsGrow, LogKept,
           NEW r \in Request, NEW q, RequestShape(q), Goto(r, q), Knows(q)'
    PROVE  RequestKnowledge'
<1>1. /\ req'[r] = q
      /\ \A s \in Request \ {r} : req'[s] = req[s]
  BY GotoShapes DEF Shape, TypeOK
<1>2. ASSUME NEW s \in Request \ {r}, NEW p, p = req[s]
      PROVE  Knows(p)'
  BY <1>2, KnowsKept
<1>3. ASSUME NEW s \in Request
      PROVE  Knows(req[s])'
  <2>1. CASE s = r
    BY <1>1, <2>1 DEF Knows
  <2>2. CASE s # r
    BY <1>1, <1>2, <2>2 DEF Knows
  <2> QED BY <2>1, <2>2
<1> QED BY <1>3 DEF RequestKnowledge

\* What AuditTrail says of one order.
AuditRow(o) ==
    /\ orders[o].status \notin {"PENDING", "CONFIRMED"} =>
           orders[o].status \in history[o].manual
    /\ orders[o].status = "CONFIRMED" => ConfirmedLogged(o)
    /\ payments[o].status = "COMPLETED" => ConfirmedLogged(o)

TableInv ==
    /\ SettledMatchesPaystack
    /\ NoOrphanRows
    /\ AuditTrail
    /\ OneRowPerOutcome
    /\ NoticeIsBacked
    /\ StoredReferenceIsPayable

\* A step that leaves the tables alone keeps what they say of Paystack.
LEMMA TablesKept ==
    ASSUME Shape, TableInv, TxnsGrow, UNCHANGED <<orders, payments, history, jobs>>
    PROVE  TableInv'
<1>1. \A o \in DOMAIN payments : <<o, payments[o].stamp>> \in Reference
  BY DEF Shape, TypeOK, PaymentRow, Reference
<1>2. SettledMatchesPaystack' /\ StoredReferenceIsPayable'
  <2> SUFFICES ASSUME NEW o \in DOMAIN payments
               PROVE  /\ (payments[o].status = "COMPLETED" => Charged(<<o, payments[o].stamp>>))'
                      /\ (payments[o].status = "FAILED" =>
                             txns[<<o, payments[o].stamp>>].state \in {"failed", "success"})'
                      /\ (payments[o].stamp > 1 =>
                             txns[<<o, payments[o].stamp>>].state # "unknown")'
    <3>1. DOMAIN orders' = DOMAIN payments' /\ payments' = payments
      BY DEF TableInv, NoOrphanRows
    <3> QED BY <3>1 DEF SettledMatchesPaystack, StoredReferenceIsPayable
  <2> DEFINE ref == <<o, payments[o].stamp>>
  <2>1. /\ payments[o].status = "COMPLETED" => Charged(ref)
        /\ payments[o].status = "FAILED" => txns[ref].state \in {"failed", "success"}
        /\ payments[o].stamp > 1 => txns[ref].state # "unknown"
    BY DEF TableInv, SettledMatchesPaystack, StoredReferenceIsPayable, NoOrphanRows
  <2> QED BY <1>1, <2>1 DEF TxnsGrow
<1>3. NoOrphanRows' /\ AuditTrail' /\ OneRowPerOutcome'
  BY DEF TableInv, NoOrphanRows, AuditTrail, OneRowPerOutcome, ConfirmedLogged
<1>4. NoticeIsBacked'
  BY DEF TableInv, NoticeIsBacked, TxnsGrow, Reference
<1> QED BY <1>2, <1>3, <1>4 DEF TableInv

\* A step of a request that holds an id, or drops it, keeps the ids fresh.
LEMMA FreshStep ==
    ASSUME Shape, IdsAreFresh, AcksAreEarned,
           NEW r \in Request, NEW q, RequestShape(q), Goto(r, q),
           acked' \subseteq Reference,
           (\A o \in DOMAIN orders : issued[o] > 0)',
           (\A ref \in Reference : txns[ref].state # "unknown" => issued[ref[1]] > 0)',
           \A o \in Order : issued[o] > 0 => issued'[o] > 0,
           q.pc # "idle" => q.pc # "insert" /\ issued'[q.order] > 0,
           \A s \in Request \ {r} : req[s].pc = "insert" => issued'[req[s].order] = 0
    PROVE  IdsAreFresh'
<1>1. /\ req'[r] = q
      /\ \A s \in Request \ {r} : req'[s] = req[s]
  BY GotoShapes DEF Shape, TypeOK
<1>2. (\A ref \in acked : issued[ref[1]] > 0)'
  BY DEF IdsAreFresh, AcksAreEarned, Reference
<1>3. \A s \in Request : req'[s].pc \notin {"idle", "insert"} => issued'[req'[s].order] > 0
  BY <1>1 DEF IdsAreFresh, Shape, RequestShapes, RequestShape
<1>4. ASSUME NEW s \in Request, req'[s].pc = "insert"
      PROVE  /\ issued'[req'[s].order] = 0
             /\ \A t \in Request \ {s} : req'[t].pc # "idle" => req'[t].order # req'[s].order
  <2>1. s # r /\ req'[s] = req[s] /\ issued'[req[s].order] = 0
    BY <1>1, <1>4
  <2>2. ASSUME NEW t \in Request \ {s}, req'[t].pc # "idle"
        PROVE  req'[t].order # req'[s].order
    <3>1. CASE t = r
      <4>1. issued'[req'[t].order] > 0
        BY <1>1, <2>2, <3>1
      <4> QED BY <2>1, <4>1
    <3>2. CASE t # r
      BY <1>1, <1>4, <2>1, <2>2, <3>2 DEF IdsAreFresh
    <3> QED BY <3>1, <3>2
  <2> QED BY <2>1, <2>2
<1> QED BY <1>2, <1>3, <1>4 DEF IdsAreFresh

(***************************************************************************)
(* Every step keeps the invariant.                                         *)
(***************************************************************************)
Inv == Shape /\ RequestKnowledge /\ IdsAreFresh /\ TableInv /\ AckedIsConfirmed

\* A step that reads: it changes one request and may acknowledge a webhook.
LEMMA QuietStep ==
    ASSUME Inv, Shape', NEW r \in Request, NEW q, RequestShape(q), Goto(r, q), Knows(q),
           UNCHANGED <<txns, orders, payments, history, issued, jobs>>,
           AcksAreEarned,
           q.pc # "idle" => q.pc # "insert" /\ issued[q.order] > 0
    PROVE  Inv'
<1> USE DEF Inv
<1>1. TxnsGrow /\ LogKept
  BY DEF TxnsGrow, LogKept, Charged, Exists, ConfirmedLogged
<1>2. Knows(q)'
  BY DEF Knows, Charged, Exists, ConfirmedLogged
<1>3. RequestKnowledge'
  BY <1>1, <1>2, KnowledgeStep
<1>4. IdsAreFresh'
  <2>1. /\ acked' \subseteq Reference
        /\ (\A o \in DOMAIN orders : issued[o] > 0)'
        /\ (\A ref \in Reference : txns[ref].state # "unknown" => issued[ref[1]] > 0)'
        /\ \A s \in Request \ {r} : req[s].pc = "insert" => issued'[req[s].order] = 0
    BY DEF IdsAreFresh, Shape, TypeOK
  <2> QED BY <2>1, FreshStep
<1>5. TableInv' /\ AckedIsConfirmed'
  BY <1>1, TablesKept, AckedStep
<1> QED BY <1>3, <1>4, <1>5

\* An idle slot claims nothing, and a caught exception claims no more.
LEMMA KnowsIdle == Knows(Idle)
BY DEF Knows, Idle

LEMMA KnowsCatch ==
    ASSUME NEW q, RequestShape(q), q.pc # "idle", Knows(q)
    PROVE  /\ Knows(Catch(q))
           /\ Catch(q).pc # "insert"
           /\ Catch(q).pc # "idle" => Catch(q).order = q.order
<1>1. CASE q.from = "intent" /\ q.pc \in ConfirmPc \cup {"intentVerify"}
  <2> DEFINE p == [q EXCEPT !.pc = "intentInit", !.stamp = 0, !.amount = 0]
  <2>1. p.pc = "intentInit" /\ p.from = "intent" /\ p.order = q.order
    BY <1>1 DEF RequestShape, RequestState
  <2>2. Knows(p)
    BY <2>1 DEF Knows
  <2>3. Catch(q) \in {p, Idle}
    BY <1>1 DEF Catch, IntentGoesOn
  <2>4. CASE Catch(q) = p
    BY <2>1, <2>2, <2>4
  <2>5. CASE Catch(q) = Idle
    BY <2>5, KnowsIdle DEF Idle
  <2> HIDE DEF p
  <2> QED BY <2>3, <2>4, <2>5
<1>2. CASE ~(q.from = "intent" /\ q.pc \in ConfirmPc \cup {"intentVerify"}) /\ q.pc = "deleteVerify"
  <2> DEFINE p == [q EXCEPT !.pc = "deleteRow"]
  <2>1. /\ p.pc = "deleteRow" /\ p.from = q.from /\ p.order = q.order /\ p.stamp = q.stamp
        /\ Catch(q) = p
    BY <1>2 DEF Catch, RequestShape, RequestState
  <2> QED BY <1>2, <2>1 DEF Knows
<1>3. CASE ~(q.from = "intent" /\ q.pc \in ConfirmPc \cup {"intentVerify"}) /\ q.pc # "deleteVerify"
  BY <1>3, KnowsIdle DEF Catch, Idle
<1> QED BY <1>1, <1>2, <1>3

\* A payment found COMPLETED has its confirmation on record, so a webhook may
\* be told so.
LEMMA DoneIsEarned ==
    ASSUME Inv, NEW q, RequestShape(q), q.pc \in HasOrderAndStamp, issued[q.order] > 0,
           HasReference(<<q.order, q.stamp>>), AlreadyProcessed(q.order), Reply(q),
           UNCHANGED <<orders, history>>
    PROVE  AcksAreEarned
<1>1. q.order \in DOMAIN orders /\ payments[q.order].status = "COMPLETED"
  BY DEF Inv, TableInv, NoOrphanRows, HasReference, AlreadyProcessed
<1>2. ConfirmedLogged(q.order)'
  BY <1>1 DEF Inv, TableInv, AuditTrail, ConfirmedLogged
<1> QED BY <1>2 DEF AcksAreEarned, Reply

\* The first step of confirmPayment, wherever it is called from.
LEMMA ReadPaymentStep ==
    ASSUME Inv, Shape', NEW r \in Request, NEW q, RequestShape(q), q.pc = "confirmRead",
           Knows(q), issued[q.order] > 0, ReadPayment(r, q),
           UNCHANGED <<txns, orders, payments, history, issued, jobs>>
    PROVE  Inv'
<1> DEFINE ref == <<q.order, q.stamp>>
           p == [q EXCEPT !.pc = "confirmVerify", !.amount = payments[q.order].amount]
<1>0. /\ q.pc # "idle" /\ q.pc \in HasOrderAndStamp
      /\ UNCHANGED acked => AcksAreEarned
  BY DEF HasOrderAndStamp, ConfirmPc, AcksAreEarned
<1>1. CASE HasReference(ref) /\ AlreadyProcessed(q.order) /\ Goto(r, Idle) /\ Reply(q)
  <2>1. AcksAreEarned
    BY <1>0, <1>1, DoneIsEarned
  <2>2. Idle.pc = "idle"
    BY DEF Idle
  <2> QED BY <1>1, <2>1, <2>2, IdleShape, KnowsIdle, QuietStep
<1>2. CASE HasReference(ref) /\ Goto(r, p) /\ UNCHANGED acked
  <2>1. payments[q.order].amount \in Price
    BY <1>2 DEF HasReference, Inv, Shape, TypeOK, PaymentRow
  <2>2. /\ p \in RequestState /\ p.pc = "confirmVerify" /\ p.from = q.from
        /\ p.order = q.order /\ p.stamp = q.stamp
    BY <2>1 DEF RequestShape, RequestState, Pc, ConfirmPc
  <2>3. RequestShape(p)
    BY <1>0, <2>2 DEF RequestShape, RequestState, HasOrderAndStamp, ConfirmPc
  <2>4. Knows(p)
    BY <1>0, <2>2 DEF Knows
  <2> QED BY <1>0, <1>2, <2>2, <2>3, <2>4, QuietStep
<1>3. CASE ~HasReference(ref) /\ Goto(r, Catch(q)) /\ UNCHANGED acked
  BY <1>0, <1>3, CatchShape, KnowsCatch, QuietStep
<1> QED BY <1>1, <1>2, <1>3 DEF ReadPayment

\* A request under way is in good shape, knows what it claims and has an
\* order whose id is taken.
LEMMA Underway ==
    ASSUME Inv, NEW r \in Request, NEW q, q = req[r], q.pc # "idle"
    PROVE  /\ RequestShape(q) /\ Knows(q) /\ q.order \in Order
           /\ q.pc # "insert" => issued[q.order] > 0
BY DEF Inv, Shape, RequestShapes, RequestShape, RequestKnowledge, IdsAreFresh

\* A call of a request throws.
LEMMA CatchStep ==
    ASSUME Inv, Shape', NEW r \in Request, NEW q, q = req[r], q.pc # "idle",
           Goto(r, Catch(q)),
           UNCHANGED <<txns, orders, payments, history, issued, jobs, acked>>
    PROVE  Inv'
<1>1. RequestShape(q) /\ Knows(q) /\ (q.pc # "insert" => issued[q.order] > 0)
  BY Underway
<1>2. q.pc = "insert" => Catch(q).pc = "idle"
  BY DEF Catch, ConfirmPc, Idle
<1>3. AcksAreEarned
  BY DEF AcksAreEarned
<1>4. RequestShape(Catch(q)) /\ Knows(Catch(q))
  BY <1>1, CatchShape, KnowsCatch
<1>5. Catch(q).pc # "idle" => Catch(q).pc # "insert" /\ issued[Catch(q).order] > 0
  BY <1>1, <1>2, KnowsCatch
<1> QED BY <1>3, <1>4, <1>5, QuietStep

\* A request ends without a reply.
LEMMA EndStep ==
    ASSUME Inv, Shape', NEW r \in Request, Goto(r, Idle),
           UNCHANGED <<txns, orders, payments, history, issued, jobs, acked>>
    PROVE  Inv'
<1>1. Idle.pc = "idle" /\ AcksAreEarned
  BY DEF Idle, AcksAreEarned
<1> QED BY <1>1, IdleShape, KnowsIdle, QuietStep

\* A step that writes the tables of orders that exist.
LEMMA WriteStep ==
    ASSUME Inv, Shape', NEW r \in Request, NEW q, RequestShape(q), Goto(r, q), Knows(q)',
           TxnsGrow, LogKept, AcksAreEarned, TableInv', UNCHANGED issued,
           DOMAIN orders' \subseteq DOMAIN orders,
           (\A ref \in Reference : txns[ref].state # "unknown" => issued[ref[1]] > 0)',
           q.pc # "idle" => q.pc # "insert" /\ issued[q.order] > 0
    PROVE  Inv'
<1> USE DEF Inv
<1>1. RequestKnowledge' /\ AckedIsConfirmed'
  BY KnowledgeStep, AckedStep
<1>2. IdsAreFresh'
  <2>1. /\ acked' \subseteq Reference
        /\ (\A o \in DOMAIN orders : issued[o] > 0)'
        /\ \A s \in Request \ {r} : req[s].pc = "insert" => issued'[req[s].order] = 0
    BY DEF IdsAreFresh, Shape, TypeOK
  <2> QED BY <2>1, FreshStep
<1> QED BY <1>1, <1>2

\* A step of the world around the requests.
LEMMA WorldStep ==
    ASSUME Inv, Shape', TxnsGrow,
           \A ref \in Reference : txns'[ref].state # "unknown" => txns[ref].state # "unknown",
           UNCHANGED <<orders, payments, history, issued, jobs, acked, req>>
    PROVE  Inv'
<1> USE DEF Inv
<1>1. LogKept /\ AcksAreEarned
  BY DEF LogKept, AcksAreEarned, Exists, ConfirmedLogged
<1>2. RequestKnowledge'
  <2>1. ASSUME NEW s \in Request, NEW p, p = req[s]
        PROVE  Knows(p)'
    BY <1>1, <2>1, KnowsKept
  <2> QED BY <2>1 DEF RequestKnowledge, Knows
<1>3. IdsAreFresh'
  BY DEF IdsAreFresh
<1> QED BY <1>1, <1>2, <1>3, TablesKept, AckedStep

\* The writes of confirmPayment for a charge.
LEMMA ConfirmWriteStep ==
    ASSUME Inv, Shape', NEW r \in Request, ConfirmWrite(r),
           NEW q, q = req[r], NEW o, o = q.order, NEW p, p = [q EXCEPT !.pc = "enqueue"]
    PROVE  Inv'
<1> DEFINE ref == <<o, q.stamp>>
<1> USE DEF Inv
<1>1. /\ q.pc = "confirmWrite" /\ RequestShape(q) /\ Knows(q)
      /\ o \in Order /\ issued[o] > 0 /\ q.stamp \in Stamp /\ Charged(ref)
  BY Underway DEF ConfirmWrite, At, Knows, RequestShape, HasOrderAndStamp, ConfirmPc
<1>2. /\ o \in DOMAIN payments /\ payments[o].stamp = q.stamp /\ DOMAIN payments = DOMAIN orders
      /\ payments' = [payments EXCEPT ![o].status = "COMPLETED"]
      /\ orders' = [orders EXCEPT ![o].status = "CONFIRMED"]
      /\ history' = LogConfirmation(o)
      /\ Goto(r, p)
      /\ UNCHANGED <<txns, issued, jobs, price, acked, faults>>
  BY DEF ConfirmWrite, HasReference, TableInv, NoOrphanRows
<1>3. /\ p.pc = "enqueue" /\ p.from = q.from /\ p.order = o /\ p.stamp = q.stamp
      /\ RequestShape(p)
  BY <1>1, MoveShape DEF Pc, HasOrderAndStamp, RequestShape, RequestState
<1>4. /\ history' \in [Order -> HistoryRows] /\ history \in [Order -> HistoryRows]
      /\ \A x \in Order \ {o} : history'[x] = history[x]
      /\ history'[o].failed = history[o].failed
      /\ history'[o].manual = history[o].manual
      /\ history'[o].paid = IF ConfirmedLogged(o) THEN history[o].paid ELSE history[o].paid + 1
  <2>1. history \in [Order -> HistoryRows] /\ history' \in [Order -> HistoryRows]
    BY DEF Shape, TypeOK
  <2>2. CASE ConfirmedLogged(o)
    BY <1>2, <2>1, <2>2 DEF LogConfirmation
  <2>3. CASE ~ConfirmedLogged(o)
    <3>1. history' = [history EXCEPT ![o].paid = history[o].paid + 1]
      BY <1>2, <2>3 DEF LogConfirmation
    <3> QED BY <1>1, <2>1, <2>3, <3>1 DEF HistoryRows
  <2> QED BY <2>2, <2>3
<1>5. /\ ConfirmedLogged(o)'
      /\ \A x \in Order : ConfirmedLogged(x) => ConfirmedLogged(x)'
      /\ history'[o].paid <= 1
  <2>1. history[o].paid \in Nat /\ history[o].paid <= 1
    BY <1>1, <1>4 DEF HistoryRows, TableInv, OneRowPerOutcome
  <2>2. CASE ConfirmedLogged(o)
    BY <1>1, <1>4, <2>1, <2>2 DEF ConfirmedLogged
  <2>3. CASE ~ConfirmedLogged(o)
    <3>1. history[o].paid = 0 /\ history'[o].paid = 1
      BY <1>4, <2>1, <2>3 DEF ConfirmedLogged
    <3> QED BY <1>1, <1>4, <3>1 DEF ConfirmedLogged
  <2> QED BY <2>2, <2>3
<1>6. TxnsGrow /\ LogKept /\ AcksAreEarned
  BY <1>2, <1>5 DEF TxnsGrow, LogKept, AcksAreEarned, Charged, Exists
<1>7. Knows(p)'
  BY <1>1, <1>2, <1>3, <1>5 DEF Knows, Charged
<1>8. TableInv'
  <2>1. SettledMatchesPaystack' /\ StoredReferenceIsPayable'
    BY <1>1, <1>2, SMTT(45) DEF TableInv, SettledMatchesPaystack, StoredReferenceIsPayable, Charged,
                      Shape, TypeOK, PaymentRow
  <2>2. NoOrphanRows'
    BY <1>1, <1>2, <1>4 DEF TableInv, NoOrphanRows
  <2>3. AuditTrail'
    BY <1>1, <1>2, <1>4, <1>5 DEF TableInv, AuditTrail, Shape, TypeOK, OrderRow, PaymentRow
  <2>4. OneRowPerOutcome'
    BY <1>1, <1>4, <1>5 DEF TableInv, OneRowPerOutcome
  <2>5. NoticeIsBacked'
    <3>1. \A x \in Order : \A n \in Stamp : Charged(<<x, n>>)' = Charged(<<x, n>>)
      BY <1>2 DEF Charged
    <3>2. \A x \in Order \ {o} : jobs'[x] = jobs[x] /\ history'[x] = history[x]
      BY <1>2, <1>4
    <3> HIDE DEF Inv
    <3> QED BY <1>1, <3>1, <3>2 DEF Inv, TableInv, NoticeIsBacked
  <2> QED BY <2>1, <2>2, <2>3, <2>4, <2>5 DEF TableInv
<1>9. /\ DOMAIN orders' \subseteq DOMAIN orders
      /\ (\A x \in Reference : txns[x].state # "unknown" => issued[x[1]] > 0)'
  BY <1>2 DEF IdsAreFresh
<1> QED BY <1>1, <1>2, <1>3, <1>6, <1>7, <1>8, <1>9, WriteStep

\* The writes of confirmPayment for a declined charge. A webhook never gets
\* there: it is called for a charge, and a charge is final.
LEMMA FailWriteStep ==
    ASSUME Inv, Shape', NEW r \in Request, FailWrite(r),
           NEW q, q = req[r], NEW o, o = q.order
    PROVE  Inv'
<1> DEFINE ref == <<o, q.stamp>>
<1> USE DEF Inv
<1>1. /\ q.pc = "failWrite" /\ RequestShape(q) /\ Knows(q) /\ q.from # "webhook"
      /\ o \in Order /\ q.stamp \in Stamp /\ txns[ref].state \in {"failed", "success"}
  BY Underway DEF FailWrite, At, Knows, RequestShape, HasOrderAndStamp, ConfirmPc
<1>2. /\ o \in DOMAIN payments /\ payments[o].stamp = q.stamp /\ DOMAIN payments = DOMAIN orders
      /\ payments' = [payments EXCEPT ![o].status = "FAILED"]
      /\ history' = IF history[o].failed > 0 THEN history
                    ELSE [history EXCEPT ![o].failed = @ + 1]
      /\ Goto(r, Idle)
      /\ UNCHANGED <<txns, orders, issued, jobs, acked>>
  BY <1>1 DEF FailWrite, HasReference, TableInv, NoOrphanRows, Reply
<1>3. /\ history \in [Order -> HistoryRows]
      /\ \A x \in Order : history'[x].paid = history[x].paid /\ history'[x].manual = history[x].manual
      /\ \A x \in Order \ {o} : history'[x] = history[x]
      /\ history'[o].failed = IF history[o].failed > 0 THEN history[o].failed
                              ELSE history[o].failed + 1
  BY <1>1, <1>2 DEF Shape, TypeOK, HistoryRows
<1>4. /\ \A x \in Order : ConfirmedLogged(x)' = ConfirmedLogged(x)
      /\ \A x \in Order : history'[x].failed <= 1
  BY <1>1, <1>3 DEF ConfirmedLogged, HistoryRows, TableInv, OneRowPerOutcome
<1>5. TxnsGrow /\ LogKept /\ AcksAreEarned
  BY <1>2, <1>4 DEF TxnsGrow, LogKept, AcksAreEarned, Charged, Exists
<1>6. TableInv'
  <2>1. SettledMatchesPaystack' /\ StoredReferenceIsPayable'
    BY <1>1, <1>2, SMTT(45) DEF TableInv, SettledMatchesPaystack, StoredReferenceIsPayable, Charged,
                      Shape, TypeOK, PaymentRow
  <2>2. NoOrphanRows'
    BY <1>1, <1>2, <1>3 DEF TableInv, NoOrphanRows
  <2>3. AuditTrail'
    <3>1. DOMAIN orders \subseteq Order /\ AuditTrail /\ DOMAIN payments = DOMAIN orders
      BY <1>2 DEF TableInv, Shape, TypeOK
    <3>2. \A x \in DOMAIN payments : payments'[x].status = "COMPLETED" => payments[x].status = "COMPLETED"
      BY <1>2 DEF Shape, TypeOK, PaymentRow
    <3> QED BY <1>2, <1>3, <1>4, <3>1, <3>2 DEF AuditTrail
  <2>4. OneRowPerOutcome'
    BY <1>3, <1>4 DEF TableInv, OneRowPerOutcome
  <2>5. NoticeIsBacked'
    BY <1>2, <1>3 DEF TableInv, NoticeIsBacked, Charged
  <2> QED BY <2>1, <2>2, <2>3, <2>4, <2>5 DEF TableInv
<1>7. /\ DOMAIN orders' \subseteq DOMAIN orders
      /\ (\A x \in Reference : txns[x].state # "unknown" => issued[x[1]] > 0)'
      /\ Knows(Idle)' /\ Idle.pc = "idle"
  BY <1>2 DEF IdsAreFresh, Knows, Idle
<1> QED BY <1>2, <1>5, <1>6, <1>7, IdleShape, WriteStep

\* A new order has an id no reference, request or acknowledgement knows.
LEMMA CreateOrderStep ==
    ASSUME Inv, Shape', NEW r \in Request, NEW o \in Order, CreateOrder(r, o),
           NEW q, q = [Idle EXCEPT !.pc = "insert", !.order = o, !.amount = price]
    PROVE  Inv'
<1> USE DEF Inv
<1>1. /\ q.pc = "insert" /\ q.from = "client" /\ q.order = o
      /\ Goto(r, q) /\ issued[o] = 0 /\ \A s \in Request : req[s].order # o
      /\ UNCHANGED <<txns, orders, payments, history, issued, jobs, acked>>
  BY DEF CreateOrder, Idle
<1>2. /\ req'[r] = q
      /\ \A s \in Request \ {r} : req'[s] = req[s]
  BY <1>1 DEF Goto, Shape, TypeOK
<1>3. TxnsGrow /\ LogKept /\ AcksAreEarned
  BY <1>1 DEF TxnsGrow, LogKept, AcksAreEarned, Charged, Exists, ConfirmedLogged
<1>4. RequestKnowledge'
  <2>1. Knows(q)'
    BY <1>1 DEF Knows
  <2>2. RequestShape(q)
    BY IdleShape DEF Idle, RequestShape, RequestState, Pc, ConfirmPc, HasOrderAndStamp, Shape, TypeOK
  <2> QED BY <1>1, <1>3, <2>1, <2>2, KnowledgeStep
<1>5. IdsAreFresh'
  <2>1. ASSUME NEW s \in Request
        PROVE  /\ req'[s].pc \notin {"idle", "insert"} => issued'[req'[s].order] > 0
               /\ req'[s].pc = "insert" =>
                     /\ issued'[req'[s].order] = 0
                     /\ \A t \in Request \ {s} :
                           req'[t].pc # "idle" => req'[t].order # req'[s].order
    <3>1. CASE s = r
      <4>1. req'[s].pc = "insert" /\ req'[s].order = o /\ issued'[o] = 0
        BY <1>1, <1>2, <3>1
      <4>2. \A t \in Request \ {s} : req'[t].order # o
        <5>1. \A t \in Request \ {r} : req'[t] = req[t] /\ req[t].order # o
          BY <1>1, <1>2
        <5> QED BY <3>1, <5>1
      <4> QED BY <4>1, <4>2
    <3>2. CASE s # r
      <4>1. req'[s] = req[s] /\ req[s].order # o
        BY <1>1, <1>2, <3>2
      <4>2. \A t \in Request \ {s} : req'[t] = req[t] \/ req'[t].order = o
        BY <1>1, <1>2
      <4> QED BY <1>1, <4>1, <4>2 DEF IdsAreFresh
    <3> QED BY <3>1, <3>2
  <2> QED BY <1>1, <2>1 DEF IdsAreFresh
<1> QED BY <1>1, <1>3, <1>4, <1>5, TablesKept, AckedStep

LEMMA InsertOrderStep ==
    ASSUME Inv, Shape', NEW r \in Request, InsertOrder(r),
           NEW q, q = req[r], NEW o, o = q.order,
           NEW p, p = [q EXCEPT !.pc = "initialize", !.stamp = 1]
    PROVE  Inv'
<1> USE DEF Inv
<1>1. /\ q.pc = "insert" /\ o \in Order /\ RequestShape(q) /\ Knows(q) /\ issued[o] = 0
      /\ \A s \in Request \ {r} : req[s].pc # "idle" => req[s].order # o
  BY Underway DEF InsertOrder, At, IdsAreFresh
<1>2. /\ o \notin DOMAIN orders /\ o \notin DOMAIN payments
      /\ \A ref \in Reference : ref[1] = o => txns[ref].state = "unknown"
  BY <1>1 DEF IdsAreFresh, TableInv, NoOrphanRows
<1>3. /\ issued' = [issued EXCEPT ![o] = 1]
      /\ DOMAIN orders' = DOMAIN orders \cup {o}
      /\ DOMAIN payments' = DOMAIN payments \cup {o}
      /\ \A x \in DOMAIN orders : orders'[x] = orders[x]
      /\ \A x \in DOMAIN payments : payments'[x] = payments[x]
      /\ orders'[o].status = "PENDING" /\ payments'[o].status = "PENDING"
      /\ payments'[o].stamp = 1
      /\ Goto(r, p)
      /\ UNCHANGED <<txns, history, jobs, acked>>
  BY <1>2 DEF InsertOrder, Put
<1>4. /\ issued \in [Order -> Stamp \cup {0}]
      /\ \A x \in Order \ {o} : issued'[x] = issued[x]
      /\ issued'[o] = 1
  BY <1>1, <1>3 DEF Shape, TypeOK
<1>5. /\ p.pc = "initialize" /\ p.order = o /\ p.from = q.from /\ p.from # "webhook"
      /\ RequestShape(p)
  <2>1. p.pc = "initialize" /\ p.order = o /\ p.from = q.from
    BY DEF RequestShape, RequestState
  <2>2. RequestShape(p)
    BY <1>1, <1>3, GotoShapes DEF Shape, RequestShapes, Goto, TypeOK
  <2>3. q.from # "webhook"
    BY <1>1, <1>2 DEF Knows, RequestShape, Reference, Charged
  <2> QED BY <2>1, <2>2, <2>3
<1>6. TxnsGrow /\ LogKept /\ AcksAreEarned
  BY <1>1, <1>3, <1>4 DEF TxnsGrow, LogKept, AcksAreEarned, Charged, Exists, ConfirmedLogged
<1>7. RequestKnowledge'
  <2>1. Knows(p)'
    BY <1>5 DEF Knows
  <2> QED BY <1>3, <1>5, <1>6, <2>1, KnowledgeStep
<1>8. IdsAreFresh'
  <2>1. /\ acked' \subseteq Reference
        /\ (\A x \in DOMAIN orders : issued[x] > 0)'
        /\ (\A ref \in Reference : txns[ref].state # "unknown" => issued[ref[1]] > 0)'
        /\ \A x \in Order : issued[x] > 0 => issued'[x] > 0
    BY <1>1, <1>3, <1>4 DEF IdsAreFresh, Shape, TypeOK, Reference
  <2>2. ASSUME NEW s \in Request \ {r}, req[s].pc = "insert"
        PROVE  issued'[req[s].order] = 0
    <3>1. req[s].order \in Order \ {o} /\ issued[req[s].order] = 0
      BY <1>1, <2>2, Underway DEF IdsAreFresh
    <3> QED BY <1>4, <3>1
  <2> QED BY <1>3, <1>4, <1>5, <1>6, <2>1, <2>2, FreshStep
<1>9. TableInv'
  <2>1. SettledMatchesPaystack' /\ StoredReferenceIsPayable'
    BY <1>1, <1>3 DEF TableInv, SettledMatchesPaystack, StoredReferenceIsPayable, Charged
  <2>2. NoOrphanRows' /\ OneRowPerOutcome'
    BY <1>1, <1>3 DEF TableInv, NoOrphanRows, OneRowPerOutcome
  <2>3. AuditTrail'
    BY <1>1, <1>3 DEF TableInv, AuditTrail, NoOrphanRows, ConfirmedLogged
  <2>4. NoticeIsBacked'
    BY <1>3 DEF TableInv, NoticeIsBacked, Charged
  <2> QED BY <2>1, <2>2, <2>3, <2>4 DEF TableInv
<1> QED BY <1>6, <1>7, <1>8, <1>9, AckedStep

\* What InitializePayment does to the transactions.
LEMMA InitializeGrows ==
    ASSUME Shape, NEW ref \in Reference, NEW naira, InitializePayment(ref, naira)
    PROVE  /\ TxnsGrow
           /\ txns'[ref].state = "open"
           /\ \A x \in Reference \ {ref} : txns'[x] = txns[x]
BY DEF InitializePayment, TxnsGrow, Charged, Shape, TypeOK, PaystackTypeOK

LEMMA InitializeOrderStep ==
    ASSUME Inv, Shape', NEW r \in Request, InitializeOrder(r),
           NEW q, q = req[r], NEW ref, ref = <<q.order, q.stamp>>
    PROVE  Inv'
<1> USE DEF Inv
<1>1. /\ q.pc = "initialize" /\ RequestShape(q) /\ issued[q.order] > 0
      /\ ref \in Reference
  BY Underway DEF InitializeOrder, At, RequestShape, HasOrderAndStamp, Reference
<1>2. /\ InitializePayment(ref, q.amount) /\ Goto(r, Idle)
      /\ UNCHANGED <<orders, payments, history, issued, jobs, acked>>
  BY DEF InitializeOrder
<1>3. TxnsGrow /\ LogKept /\ AcksAreEarned /\ TableInv'
  BY <1>1, <1>2, InitializeGrows, TablesKept
  DEF LogKept, AcksAreEarned, Exists, ConfirmedLogged
<1>4. (\A x \in Reference : txns[x].state # "unknown" => issued[x[1]] > 0)'
  BY <1>1, <1>2, InitializeGrows DEF IdsAreFresh
<1>5. Knows(Idle)' /\ Idle.pc = "idle"
  BY DEF Knows, Idle
<1> QED BY <1>2, <1>3, <1>4, <1>5, IdleShape, WriteStep

\* The job is for an order Paystack has charged.
LEMMA EnqueueStep ==
    ASSUME Inv, Shape', NEW r \in Request, EnqueueNotification(r),
           NEW q, q = req[r], NEW o, o = q.order
    PROVE  Inv'
<1> USE DEF Inv
<1>1. /\ q.pc = "enqueue" /\ RequestShape(q) /\ Knows(q) /\ issued[o] > 0
      /\ o \in Order /\ q.stamp \in Stamp /\ Charged(<<o, q.stamp>>)
  BY Underway DEF EnqueueNotification, At, Knows, RequestShape, HasOrderAndStamp
<1>2. /\ Goto(r, Idle) /\ Reply(q)
      /\ \A x \in Order \ {o} : jobs'[x] = jobs[x]
      /\ UNCHANGED <<txns, orders, payments, history, issued>>
  BY <1>1 DEF EnqueueNotification, Shape, TypeOK
<1>3. TxnsGrow /\ LogKept
  BY <1>2 DEF TxnsGrow, LogKept, Charged, Exists, ConfirmedLogged
<1>4. AcksAreEarned
  BY <1>1, <1>2 DEF AcksAreEarned, Reply, Knows, Exists, ConfirmedLogged
<1>5. TableInv'
  <2>1. NoticeIsBacked'
    BY <1>1, <1>2 DEF TableInv, NoticeIsBacked, Charged
  <2> QED BY <1>2, <2>1 DEF TableInv, SettledMatchesPaystack, NoOrphanRows, AuditTrail,
        OneRowPerOutcome, StoredReferenceIsPayable, Charged, ConfirmedLogged
<1>6. Knows(Idle)' /\ Idle.pc = "idle"
  BY DEF Knows, Idle
<1>7. (\A x \in Reference : txns[x].state # "unknown" => issued[x[1]] > 0)'
  BY <1>2 DEF IdsAreFresh
<1> QED BY <1>2, <1>3, <1>4, <1>5, <1>6, <1>7, IdleShape, WriteStep

\* A repricing changes no status and no reference.
LEMMA RepriceStep ==
    ASSUME Inv, Shape', NEW r \in Request, Reprice(r),
           NEW q, q = req[r], NEW o, o = q.order, Exists(o),
           NEW p, p = AfterGet([q EXCEPT !.status = orders[o].status, !.total = q.amount])
    PROVE  Inv'
<1> USE DEF Inv
<1>1. q.pc = "reprice" /\ RequestShape(q) /\ issued[o] > 0 /\ o \in Order
  BY Underway DEF Reprice, At
<1>2. /\ orders' = [orders EXCEPT ![o].total = q.amount]
      /\ payments' = IF o \in DOMAIN payments
                     THEN [payments EXCEPT ![o].amount = q.amount] ELSE payments
      /\ Goto(r, p)
      /\ UNCHANGED <<txns, history, issued, jobs, acked>>
  BY DEF Reprice
<1>3. /\ DOMAIN orders' = DOMAIN orders /\ DOMAIN payments' = DOMAIN payments
      /\ \A x \in DOMAIN orders : orders'[x].status = orders[x].status
      /\ \A x \in DOMAIN payments : /\ payments'[x].status = payments[x].status
                                    /\ payments'[x].stamp = payments[x].stamp
  BY <1>2 DEF Shape, TypeOK, OrderRow, PaymentRow
<1>4. RequestShape(p)
  <2>1. req'[r] = p
    BY <1>2 DEF Goto, Shape, TypeOK
  <2> QED BY <2>1 DEF Shape, RequestShapes, RequestShape
<1>5. p.pc \in {"idle", "intentRead"} /\ (p.pc # "idle" => p.order = o /\ p.from = "intent")
  BY <1>1 DEF AfterGet, Idle, RequestShape, RequestState
<1>6. Knows(p)'
  BY <1>5 DEF Knows
<1>7. TxnsGrow /\ LogKept /\ AcksAreEarned
  BY <1>2, <1>3 DEF TxnsGrow, LogKept, AcksAreEarned, Charged, Exists, ConfirmedLogged
<1>8. TableInv'
  <2>1. SettledMatchesPaystack'
    BY <1>2, <1>3 DEF TableInv, SettledMatchesPaystack, Charged
  <2>2. StoredReferenceIsPayable'
    BY <1>2, <1>3 DEF TableInv, StoredReferenceIsPayable
  <2>3. NoOrphanRows' /\ OneRowPerOutcome' /\ NoticeIsBacked'
    BY <1>2, <1>3 DEF TableInv, NoOrphanRows, OneRowPerOutcome, NoticeIsBacked, Charged
  <2>4. AuditTrail'
    <3>1. DOMAIN payments = DOMAIN orders
      BY DEF TableInv, NoOrphanRows
    <3> QED BY <1>2, <1>3, <3>1 DEF TableInv, AuditTrail, ConfirmedLogged
  <2> QED BY <2>1, <2>2, <2>3, <2>4 DEF TableInv
<1>9. (\A x \in Reference : txns[x].state # "unknown" => issued[x[1]] > 0)'
  BY <1>2 DEF IdsAreFresh
<1> QED BY <1>1, <1>2, <1>3, <1>4, <1>5, <1>6, <1>7, <1>8, <1>9, WriteStep

\* A payment intent gets a reference of its own from Paystack.
LEMMA IntentInitializeStep ==
    ASSUME Inv, Shape', NEW r \in Request, At(r, "intentInit"),
           NEW q, q = req[r], NEW o, o = q.order, NEW n \in Stamp, NEW ref, ref = <<o, n>>,
           NEW p, p = [q EXCEPT !.pc = "upsert", !.stamp = n],
           InitializePayment(ref, q.total), issued' = [issued EXCEPT ![o] = n], Goto(r, p),
           UNCHANGED <<orders, payments, history, jobs, acked>>
    PROVE  Inv'
<1> USE DEF Inv
<1>1. /\ q.pc = "intentInit" /\ RequestShape(q) /\ q.from = "intent"
      /\ issued[o] > 0 /\ o \in Order /\ ref \in Reference
  BY Underway DEF At, RequestShape, Reference
<1>2. /\ TxnsGrow /\ txns'[ref].state = "open"
      /\ \A x \in Reference \ {ref} : txns'[x] = txns[x]
  BY <1>1, InitializeGrows
<1>3. LogKept /\ AcksAreEarned /\ TableInv'
  BY <1>2, TablesKept DEF LogKept, AcksAreEarned, Exists, ConfirmedLogged
<1>4. p.pc = "upsert" /\ p.order = o /\ p.stamp = n /\ p.from = "intent"
  BY <1>1 DEF RequestShape, RequestState
<1>5. RequestShape(p)
  <2>1. p \in RequestState
    BY <1>1, ZenonT(60) DEF RequestShape, RequestState, Pc
  <2> QED BY <1>1, <1>4, <2>1 DEF RequestShape, RequestState, HasOrderAndStamp, ConfirmPc
<1>6. Knows(p)'
  BY <1>2, <1>4 DEF Knows
<1>7. /\ issued'[o] = n /\ n > 0
      /\ \A x \in Order \ {o} : issued'[x] = issued[x]
      /\ \A x \in Order : issued[x] > 0 => issued'[x] > 0
  BY <1>1 DEF Shape, TypeOK, Stamp
<1>8. IdsAreFresh'
  <2>1. /\ acked' \subseteq Reference
        /\ (\A x \in DOMAIN orders : issued[x] > 0)'
    BY <1>7 DEF IdsAreFresh, Shape, TypeOK
  <2>2. (\A x \in Reference : txns[x].state # "unknown" => issued[x[1]] > 0)'
    BY <1>1, <1>2, <1>7 DEF IdsAreFresh, Reference
  <2>3. ASSUME NEW s \in Request \ {r}, req[s].pc = "insert"
        PROVE  issued'[req[s].order] = 0
    <3>1. req[s].order \in Order /\ issued[req[s].order] = 0
      BY <2>3, Underway DEF IdsAreFresh
    <3> QED BY <1>1, <1>7, <3>1
  <2> QED BY <1>3, <1>4, <1>5, <1>7, <2>1, <2>2, <2>3, FreshStep, ZenonT(60)
<1> QED BY <1>2, <1>3, <1>5, <1>6, <1>8, KnowledgeStep, AckedStep

\* The reference a payment intent stores is known to Paystack.
LEMMA UpsertPaymentStep ==
    ASSUME Inv, Shape', NEW r \in Request, UpsertPayment(r), NEW q, q = req[r], NEW o, o = q.order
    PROVE  Inv'
<1> USE DEF Inv
<1>1. /\ q.pc = "upsert" /\ o \in Order /\ q.stamp \in Stamp
      /\ txns[<<o, q.stamp>>].state # "unknown"
  BY Underway DEF UpsertPayment, At, RequestShape, Knows, HasOrderAndStamp
<1>2. Goto(r, Idle) /\ UNCHANGED <<txns, orders, history, issued, jobs, acked>>
  BY DEF UpsertPayment
<1>3. /\ DOMAIN payments' = DOMAIN payments
      /\ \A x \in DOMAIN payments \ {o} : payments'[x] = payments[x]
      /\ o \in DOMAIN payments =>
            payments'[o].status = "PENDING" /\ payments'[o].stamp = q.stamp
  <2>1. DOMAIN payments = DOMAIN orders
    BY DEF TableInv, NoOrphanRows
  <2>2. CASE Exists(o)
    BY <2>1, <2>2 DEF UpsertPayment, ForeignKeyHolds, Put, Exists
  <2>3. CASE ~Exists(o)
    BY <2>1, <2>3 DEF UpsertPayment, ForeignKeyHolds, Exists
  <2> QED BY <2>2, <2>3
<1>4. TxnsGrow /\ LogKept /\ AcksAreEarned
  BY <1>2 DEF TxnsGrow, LogKept, AcksAreEarned, Charged, Exists, ConfirmedLogged
<1>5. TableInv'
  <2>1. SettledMatchesPaystack' /\ StoredReferenceIsPayable'
    BY <1>1, <1>2, <1>3 DEF TableInv, SettledMatchesPaystack, StoredReferenceIsPayable, Charged
  <2>2. NoOrphanRows' /\ OneRowPerOutcome' /\ NoticeIsBacked'
    BY <1>2, <1>3 DEF TableInv, NoOrphanRows, OneRowPerOutcome, NoticeIsBacked, Charged
  <2>3. AuditTrail'
    BY <1>2, <1>3 DEF TableInv, AuditTrail, NoOrphanRows, ConfirmedLogged
  <2> QED BY <2>1, <2>2, <2>3 DEF TableInv
<1>6. Knows(Idle)' /\ Idle.pc = "idle"
  BY DEF Knows, Idle
<1>7. (\A x \in Reference : txns[x].state # "unknown" => issued[x[1]] > 0)'
  BY <1>2 DEF IdsAreFresh
<1> QED BY <1>2, <1>4, <1>5, <1>6, <1>7, IdleShape, WriteStep

\* A deletion takes the payment and the history of the order with it.
LEMMA DeleteRowStep ==
    ASSUME Inv, Shape', NEW r \in Request, DeleteRow(r), NEW o, o = req[r].order
    PROVE  Inv'
<1> USE DEF Inv
<1>0. o \in Order
  BY Underway DEF DeleteRow, At
<1>1. /\ Goto(r, Idle) /\ UNCHANGED <<txns, issued, jobs, acked>>
      /\ DOMAIN orders' = DOMAIN orders \ {o} /\ DOMAIN payments' = DOMAIN payments \ {o}
      /\ \A x \in DOMAIN orders \ {o} : orders'[x] = orders[x]
      /\ \A x \in DOMAIN payments \ {o} : payments'[x] = payments[x]
      /\ history' = [history EXCEPT ![o] = NoHistory]
  BY DEF DeleteRow, Restrict
<1>2. /\ \A x \in Order \ {o} : history'[x] = history[x]
      /\ history'[o] = NoHistory
  BY <1>0, <1>1 DEF Shape, TypeOK
<1>3. TxnsGrow /\ LogKept /\ AcksAreEarned
  BY <1>1, <1>2 DEF TxnsGrow, LogKept, AcksAreEarned, Charged, Exists, ConfirmedLogged
<1>4. TableInv'
  <2>1. SettledMatchesPaystack' /\ StoredReferenceIsPayable'
    BY <1>1 DEF TableInv, SettledMatchesPaystack, StoredReferenceIsPayable, Charged
  <2>2. NoOrphanRows'
    BY <1>1, <1>2 DEF TableInv, NoOrphanRows
  <2>3. OneRowPerOutcome' /\ NoticeIsBacked'
    BY <1>1, <1>2 DEF TableInv, OneRowPerOutcome, NoticeIsBacked, Charged, NoHistory
  <2>4. AuditTrail'
    BY <1>1, <1>2 DEF TableInv, AuditTrail, NoOrphanRows, ConfirmedLogged, Shape, TypeOK
  <2> QED BY <2>1, <2>2, <2>3, <2>4 DEF TableInv
<1>5. Knows(Idle)' /\ Idle.pc = "idle"
  BY DEF Knows, Idle
<1>6. (\A x \in Reference : txns[x].state # "unknown" => issued[x[1]] > 0)'
  BY <1>1 DEF IdsAreFresh
<1> QED BY <1>1, <1>3, <1>4, <1>5, <1>6, IdleShape, WriteStep

\* A status the staff write is logged.
LEMMA UpdateWriteStep ==
    ASSUME Inv, Shape', NEW r \in Request, UpdateWrite(r),
           NEW q, q = req[r], NEW o, o = q.order, Exists(o)
    PROVE  Inv'
<1> USE DEF Inv
<1>1. o \in Order /\ q.pc = "updateWrite"
  BY Underway DEF UpdateWrite, At
<1>2. /\ orders' = [orders EXCEPT ![o].status = q.status,
                                  ![o].tailor = NewTailor(orders[o].tailor, q.tailor)]
      /\ history' = [history EXCEPT ![o].manual = history[o].manual \cup {q.status}]
      /\ Goto(r, Idle)
      /\ UNCHANGED <<txns, payments, issued, jobs, acked>>
  BY DEF UpdateWrite
<1>3. /\ DOMAIN orders' = DOMAIN orders
      /\ \A x \in DOMAIN orders \ {o} : orders'[x] = orders[x]
      /\ orders'[o].status = q.status
  <2>1. orders[o] \in OrderRow /\ o \in DOMAIN orders
    BY DEF Exists, Shape, TypeOK
  <2> HIDE DEF Inv
  <2> QED BY <1>2, <2>1 DEF OrderRow
<1>4. /\ \A x \in Order : history'[x].paid = history[x].paid /\ history'[x].failed = history[x].failed
      /\ \A x \in Order \ {o} : history'[x] = history[x]
      /\ history'[o].manual = history[o].manual \cup {q.status}
  <2>1. history \in [Order -> HistoryRows]
    BY DEF Shape, TypeOK
  <2> HIDE DEF Inv
  <2> QED BY <1>1, <1>2, <2>1 DEF HistoryRows
<1>5. /\ \A x \in Order : ConfirmedLogged(x) => ConfirmedLogged(x)'
      /\ q.status = "CONFIRMED" => ConfirmedLogged(o)'
  BY <1>1, <1>4 DEF ConfirmedLogged
<1>6. TxnsGrow /\ LogKept /\ AcksAreEarned
  BY <1>2, <1>3, <1>5 DEF TxnsGrow, LogKept, AcksAreEarned, Charged, Exists
<1>7. TableInv'
  <2>1. SettledMatchesPaystack' /\ StoredReferenceIsPayable'
    BY <1>2 DEF TableInv, SettledMatchesPaystack, StoredReferenceIsPayable, Charged
  <2>2. NoOrphanRows'
    BY <1>2, <1>3, <1>4 DEF TableInv, NoOrphanRows, Exists
  <2>3. OneRowPerOutcome' /\ NoticeIsBacked'
    BY <1>2, <1>4 DEF TableInv, OneRowPerOutcome, NoticeIsBacked, Charged
  <2>4. AuditTrail'
    <3>1. DOMAIN orders \subseteq Order /\ AuditTrail
      BY DEF TableInv, Shape, TypeOK
    <3>2. ASSUME NEW x \in DOMAIN orders
          PROVE  (AuditRow(x))'
      <4>1. AuditRow(x) /\ x \in Order
        BY <3>1, <3>2 DEF AuditTrail, AuditRow
      <4>2. CASE x = o
        BY <1>2, <1>3, <1>4, <1>5, <4>1, <4>2 DEF AuditRow
      <4>3. CASE x # o
        BY <1>2, <1>3, <1>4, <1>5, <4>1, <4>3 DEF AuditRow
      <4> QED BY <4>2, <4>3
    <3> QED BY <1>3, <3>2 DEF AuditTrail, AuditRow
  <2> QED BY <2>1, <2>2, <2>3, <2>4 DEF TableInv
<1>8. Knows(Idle)' /\ Idle.pc = "idle"
  BY DEF Knows, Idle
<1>9. (\A x \in Reference : txns[x].state # "unknown" => issued[x[1]] > 0)'
  BY <1>2 DEF IdsAreFresh
<1> QED BY <1>2, <1>3, <1>6, <1>7, <1>8, <1>9, IdleShape, WriteStep

\* The reads of a transaction, and what it does with what it finds.
LEMMA ReadAgainStep ==
    ASSUME Inv, Shape', NEW r \in Request, NEW from, NEW to,
           <<from, to>> \in {<<"confirmLock", "confirmWrite">>, <<"failLock", "failWrite">>},
           ReadAgain(r, from, to), NEW q, q = req[r]
    PROVE  Inv'
<1> DEFINE p == [q EXCEPT !.pc = to]
           done == HasReference(<<q.order, q.stamp>>) /\ AlreadyProcessed(q.order)
<1>1. /\ q.pc = from /\ q.pc # "idle" /\ q.pc # "insert" /\ q.pc \in HasOrderAndStamp
      /\ UNCHANGED <<txns, orders, payments, history, issued, jobs>>
      /\ \/ done /\ Goto(r, Idle) /\ Reply(q)
         \/ ~done /\ Goto(r, p) /\ UNCHANGED acked
  BY DEF ReadAgain, At, HasOrderAndStamp, ConfirmPc
<1>2. RequestShape(q) /\ Knows(q) /\ issued[q.order] > 0
  BY <1>1, Underway
<1>3. CASE done /\ Goto(r, Idle) /\ Reply(q)
  <2>1. AcksAreEarned /\ Idle.pc = "idle"
    BY <1>1, <1>2, <1>3, DoneIsEarned DEF Idle
  <2> QED BY <1>1, <1>3, <2>1, IdleShape, KnowsIdle, QuietStep
<1>4. CASE Goto(r, p) /\ UNCHANGED acked
  <2>1. /\ p.pc = to /\ p.from = q.from /\ p.order = q.order /\ p.stamp = q.stamp
        /\ RequestShape(p) /\ AcksAreEarned
    BY <1>1, <1>2, <1>4, MoveShape, ZenonT(60)
    DEF RequestShape, RequestState, Pc, ConfirmPc, HasOrderAndStamp, AcksAreEarned
  <2>2. Knows(p)
    BY <1>1, <1>2, <2>1 DEF Knows
  <2> HIDE DEF p
  <2> QED BY <1>1, <1>2, <1>4, <2>1, <2>2, QuietStep
<1> QED BY <1>1, <1>3, <1>4

\* What the verification answers is what the request knows from then on.
LEMMA ConfirmVerifyStep ==
    ASSUME Inv, Shape', NEW r \in Request, ConfirmVerify(r), NEW q, q = req[r]
    PROVE  Inv'
<1> DEFINE ref == <<q.order, q.stamp>>
           v == VerifyPayment(ref)
           p == [q EXCEPT !.pc = "confirmLock"]
           f == [q EXCEPT !.pc = "failLock"]
<1>1. /\ q.pc = "confirmVerify" /\ q.pc # "idle" /\ q.pc # "insert" /\ q.pc \in HasOrderAndStamp
      /\ UNCHANGED <<txns, orders, payments, history, issued, jobs>>
  BY DEF ConfirmVerify, At, HasOrderAndStamp, ConfirmPc
<1>2. /\ RequestShape(q) /\ Knows(q) /\ issued[q.order] > 0
      /\ ref \in Reference /\ txns[ref] \in Txn
  BY <1>1, Underway DEF RequestShape, Reference, Inv, Shape, TypeOK, PaystackTypeOK
<1>3. /\ v.status = "success" => Charged(ref)
      /\ v.status = "failed" => txns[ref].state = "failed"
      /\ v.status = "abandoned" => txns[ref].state = "open"
  <2> DEFINE st == txns[ref].state
  <2>1. /\ st \in TxnState
        /\ v.status = CASE st = "unknown" -> "error" [] st = "open" -> "abandoned" [] OTHER -> st
    BY <1>2 DEF VerifyPayment, Txn
  <2> HIDE DEF st, v
  <2> QED BY <2>1 DEF TxnState, Charged, st
<1>4. q.from = "webhook" => Charged(ref)
  BY <1>1, <1>2 DEF Knows
<1>5. CASE v.status = "success" /\ Goto(r, p) /\ UNCHANGED acked
  <2>1. /\ p.pc = "confirmLock" /\ p.from = q.from /\ p.order = q.order /\ p.stamp = q.stamp
        /\ RequestShape(p) /\ AcksAreEarned
    BY <1>1, <1>2, <1>5, MoveShape, ZenonT(60)
    DEF RequestShape, RequestState, Pc, ConfirmPc, HasOrderAndStamp, AcksAreEarned
  <2>2. Knows(p)
    BY <1>3, <1>5, <2>1 DEF Knows
  <2> HIDE DEF p
  <2> QED BY <1>1, <1>2, <1>5, <2>1, <2>2, QuietStep
<1>6. CASE v.status = "failed" /\ Goto(r, f) /\ UNCHANGED acked
  <2>1. /\ f.pc = "failLock" /\ f.from = q.from /\ f.order = q.order /\ f.stamp = q.stamp
        /\ RequestShape(f) /\ AcksAreEarned
    BY <1>1, <1>2, <1>6, MoveShape, ZenonT(60)
    DEF RequestShape, RequestState, Pc, ConfirmPc, HasOrderAndStamp, AcksAreEarned
  <2>2. f.from # "webhook"
    BY <1>3, <1>4, <1>6, <2>1 DEF Charged
  <2>3. Knows(f)
    BY <1>3, <1>6, <2>1, <2>2 DEF Knows
  <2> HIDE DEF f
  <2> QED BY <1>1, <1>2, <1>6, <2>1, <2>3, QuietStep
<1>7. CASE v.status = "abandoned" /\ Goto(r, Idle) /\ Reply(q)
  <2>1. q.from # "webhook"
    BY <1>3, <1>4, <1>7 DEF Charged
  <2> QED BY <1>1, <1>7, <2>1, EndStep DEF Reply
<1>8. CASE Goto(r, Catch(q)) /\ UNCHANGED acked
  BY <1>1, <1>8, CatchStep
<1> QED BY <1>5, <1>6, <1>7, <1>8 DEF ConfirmVerify

\* A request that has read what it needs moves on to a step that claims
\* nothing yet.
LEMMA MoveStep ==
    ASSUME Inv, Shape', NEW r \in Request, NEW q, q.pc \in Pc \ {"insert", "upsert", "enqueue"},
           q.pc \notin {"confirmLock", "confirmWrite", "failLock", "failWrite"},
           q.from # "webhook" \/ q.pc = "idle", Goto(r, q),
           q.pc # "idle" => q.order \in Order /\ issued[q.order] > 0,
           UNCHANGED <<txns, orders, payments, history, issued, jobs, acked>>
    PROVE  Inv'
<1>1. RequestShape(q)
  <2>1. req'[r] = q
    BY DEF Goto, Inv, Shape, TypeOK
  <2> QED BY <2>1 DEF Shape, RequestShapes, RequestShape
<1>2. Knows(q)
  BY DEF Knows
<1>3. AcksAreEarned
  BY DEF AcksAreEarned
<1> QED BY <1>1, <1>2, <1>3, QuietStep

\* Every step of the service and of the world around it keeps the invariant.
LEMMA InvStep ==
    ASSUME Inv, [Next]_vars
    PROVE  Inv'
<1>0. Shape /\ Shape' /\ RequestShapes
  BY ShapeStep DEF Inv, Shape
<1>1. ASSUME NEW r \in Request, NEW o \in Order, CreateOrder(r, o)
      PROVE  Inv'
  BY <1>0, <1>1, CreateOrderStep
<1>2. ASSUME NEW r \in Request, InsertOrder(r)
      PROVE  Inv'
  BY <1>0, <1>2, InsertOrderStep
<1>3. ASSUME NEW r \in Request, InitializeOrder(r)
      PROVE  Inv'
  BY <1>0, <1>3, InitializeOrderStep
<1>4. ASSUME NEW r \in Request, NEW ref \in Reference, Webhook(r, ref)
      PROVE  Inv'
  <2> DEFINE q == [Idle EXCEPT !.pc = "confirmRead", !.from = "webhook",
                               !.order = ref[1], !.stamp = ref[2]]
  <2>1. /\ ref = <<ref[1], ref[2]>> /\ ref[1] \in Order /\ ref[2] \in Stamp
        /\ issued[ref[1]] > 0 /\ Charged(ref)
    BY <1>4 DEF Webhook, Reference, Charged, Inv, IdsAreFresh
  <2>2. RequestShape(q)
    BY <2>1, IdleShape DEF Idle, RequestShape, RequestState, Pc, ConfirmPc, HasOrderAndStamp
  <2>3. q.pc = "confirmRead" /\ q.order = ref[1] /\ q.stamp = ref[2] /\ q.from = "webhook"
    BY DEF Idle
  <2>4. Knows(q)
    BY <2>1, <2>3 DEF Knows
  <2> QED BY <1>0, <1>4, <2>1, <2>2, <2>3, <2>4, ReadPaymentStep DEF Webhook
<1>5. ASSUME NEW r \in Request, NEW ref \in Reference, VerifyFromClient(r, ref)
      PROVE  Inv'
  <2> DEFINE q == [Idle EXCEPT !.pc = "confirmRead", !.order = ref[1], !.stamp = ref[2]]
  <2>1. ref[1] \in Order /\ ref[2] \in Stamp /\ issued[ref[1]] > 0
    BY <1>5 DEF VerifyFromClient, Reference, Inv, IdsAreFresh
  <2>2. RequestShape(q)
    BY <2>1, IdleShape DEF Idle, RequestShape, RequestState, Pc, ConfirmPc, HasOrderAndStamp
  <2>3. q.pc = "confirmRead" /\ q.order = ref[1] /\ q.from = "client"
    BY DEF Idle
  <2>4. Knows(q)
    BY <2>3 DEF Knows
  <2> QED BY <1>0, <1>5, <2>1, <2>2, <2>3, <2>4, ReadPaymentStep DEF VerifyFromClient
<1>6. ASSUME NEW r \in Request, ConfirmRead(r)
      PROVE  Inv'
  <2>1. /\ req[r].pc = "confirmRead" /\ ReadPayment(r, req[r])
        /\ UNCHANGED <<txns, orders, payments, history, issued, jobs>>
    BY <1>6 DEF ConfirmRead, At
  <2>2. RequestShape(req[r]) /\ Knows(req[r]) /\ issued[req[r].order] > 0
    BY <2>1, Underway
  <2> QED BY <1>0, <2>1, <2>2, ReadPaymentStep
<1>7. ASSUME NEW r \in Request, ConfirmVerify(r)
      PROVE  Inv'
  BY <1>0, <1>7, ConfirmVerifyStep
<1>8. ASSUME NEW r \in Request, ConfirmLock(r) \/ FailLock(r)
      PROVE  Inv'
  <2>1. CASE ConfirmLock(r)
    <3>1. ReadAgain(r, "confirmLock", "confirmWrite")
      BY <2>1 DEF ConfirmLock
    <3> QED BY <1>0, <3>1, ReadAgainStep
  <2>2. CASE FailLock(r)
    BY <1>0, <2>2, ReadAgainStep DEF FailLock
  <2> QED BY <1>8, <2>1, <2>2
<1>9. ASSUME NEW r \in Request, RowGone(r)
      PROVE  Inv'
  BY <1>0, <1>9, CatchStep DEF RowGone
<1>10. ASSUME NEW r \in Request, ConfirmWrite(r)
       PROVE  Inv'
  BY <1>0, <1>10, ConfirmWriteStep
<1>11. ASSUME NEW r \in Request, EnqueueNotification(r)
       PROVE  Inv'
  BY <1>0, <1>11, EnqueueStep
<1>12. ASSUME NEW r \in Request, QueueRefuses(r)
       PROVE  Inv'
  <2>1. /\ req[r].pc = "enqueue" /\ Goto(r, Idle) /\ Reply(req[r])
        /\ UNCHANGED <<txns, orders, payments, history, issued, jobs>>
    BY <1>12 DEF QueueRefuses, At
  <2>2. Knows(req[r]) /\ issued[req[r].order] > 0
    BY <2>1, Underway
  <2>3. AcksAreEarned /\ Idle.pc = "idle"
    BY <2>1, <2>2 DEF AcksAreEarned, Reply, Knows, Idle, Exists, ConfirmedLogged
  <2> QED BY <1>0, <2>1, <2>3, IdleShape, KnowsIdle, QuietStep
<1>13. ASSUME NEW r \in Request, FailWrite(r)
       PROVE  Inv'
  BY <1>0, <1>13, FailWriteStep
<1>14. ASSUME NEW r \in Request, NEW o \in Order, NEW from \in {"client", "intent"},
              ReadOrder(r, o, from)
       PROVE  Inv'
  <2> DEFINE q == [Idle EXCEPT !.from = from, !.order = o, !.status = orders[o].status,
                               !.total = orders[o].total]
             p == [q EXCEPT !.pc = "price"]
  <2>1. issued[o] > 0
    BY <1>14 DEF ReadOrder, Exists, Inv, IdsAreFresh
  <2>2. p.pc = "price" /\ p.order = o /\ p.from = from
    BY DEF Idle
  <2>3. /\ AfterGet(q).pc \in {"idle", "intentRead"}
        /\ AfterGet(q).pc # "idle" => AfterGet(q).order = o /\ AfterGet(q).from = "intent"
    BY DEF AfterGet, Idle
  <2>4. CASE Goto(r, p)
    <3> HIDE DEF p
    <3> QED BY <1>0, <1>14, <2>1, <2>2, <2>4, MoveStep DEF ReadOrder, Pc
  <2>5. CASE Goto(r, AfterGet(q))
    <3> HIDE DEF q
    <3> QED BY <1>0, <1>14, <2>1, <2>3, <2>5, MoveStep DEF ReadOrder, Pc
  <2> QED BY <1>14, <2>4, <2>5 DEF ReadOrder
<1>15. ASSUME NEW r \in Request, ComparePrice(r)
       PROVE  Inv'
  <2> DEFINE q == req[r]
             p == [q EXCEPT !.pc = "reprice", !.amount = price]
  <2>1. /\ q.pc = "price" /\ RequestShape(q) /\ Knows(q) /\ q.order \in Order
        /\ issued[q.order] > 0 /\ q.from # "webhook"
    BY <1>15, Underway DEF ComparePrice, At, Knows
  <2>2. p.pc = "reprice" /\ p.order = q.order /\ p.from = q.from
    BY <2>1 DEF RequestShape, RequestState
  <2>3. /\ AfterGet(q).pc \in {"idle", "intentRead"}
        /\ AfterGet(q).pc # "idle" => AfterGet(q).order = q.order /\ AfterGet(q).from = "intent"
    BY <2>1 DEF AfterGet, Idle, RequestShape, RequestState
  <2>4. CASE Goto(r, p)
    <3> HIDE DEF p
    <3> QED BY <1>0, <1>15, <2>1, <2>2, <2>4, MoveStep DEF ComparePrice, Pc
  <2>5. CASE Goto(r, AfterGet(q))
    <3> HIDE DEF q
    <3> QED BY <1>0, <1>15, <2>1, <2>3, <2>5, MoveStep DEF ComparePrice, Pc
  <2> QED BY <1>15, <2>4, <2>5 DEF ComparePrice
<1>16. ASSUME NEW r \in Request, Reprice(r)
       PROVE  Inv'
  <2>1. CASE Exists(req[r].order)
    BY <1>0, <1>16, <2>1, RepriceStep
  <2>2. CASE ~Exists(req[r].order)
    BY <1>0, <1>16, <2>2, EndStep DEF Reprice
  <2> QED BY <2>1, <2>2
<1>17. ASSUME NEW r \in Request, NEW q, q = req[r], Goto(r, IntentGoesOn(q)),
              q.pc \in {"intentRead", "intentVerify"},
              UNCHANGED <<txns, orders, payments, history, issued, jobs, acked>>
       PROVE  Inv'
  <2> DEFINE p == [q EXCEPT !.pc = "intentInit", !.stamp = 0, !.amount = 0]
  <2>1. RequestShape(q) /\ q.order \in Order /\ issued[q.order] > 0 /\ q.from = "intent"
    BY <1>17, Underway DEF RequestShape
  <2>2. p.pc = "intentInit" /\ p.order = q.order /\ p.from = "intent"
    BY <2>1 DEF RequestShape, RequestState
  <2>3. CASE Goto(r, p)
    <3> HIDE DEF p
    <3> QED BY <1>0, <1>17, <2>1, <2>2, <2>3, MoveStep DEF Pc
  <2>4. CASE Goto(r, Idle)
    BY <1>0, <1>17, <2>4, EndStep
  <2> QED BY <1>17, <2>3, <2>4 DEF IntentGoesOn
<1>18. ASSUME NEW r \in Request, IntentReadPayment(r)
       PROVE  Inv'
  <2> DEFINE q == req[r]
             p == [q EXCEPT !.pc = "intentVerify", !.stamp = payments[q.order].stamp]
  <2>1. /\ q.pc = "intentRead" /\ RequestShape(q) /\ q.order \in Order
        /\ issued[q.order] > 0 /\ q.from = "intent"
    BY <1>18, Underway DEF IntentReadPayment, At, RequestShape
  <2>2. p.pc = "intentVerify" /\ p.order = q.order /\ p.from = "intent"
    BY <2>1 DEF RequestShape, RequestState
  <2>3. CASE Goto(r, p)
    <3> HIDE DEF p
    <3> QED BY <1>0, <1>18, <2>1, <2>2, <2>3, MoveStep DEF IntentReadPayment, Pc, ConfirmPc
  <2>4. CASE Goto(r, IntentGoesOn(q))
    BY <1>17, <1>18, <2>1, <2>4 DEF IntentReadPayment
  <2> QED BY <1>18, <2>3, <2>4 DEF IntentReadPayment
<1>19. ASSUME NEW r \in Request, IntentVerify(r)
       PROVE  Inv'
  <2> DEFINE q == req[r]
             p == [q EXCEPT !.pc = "confirmRead"]
  <2>1. /\ q.pc = "intentVerify" /\ RequestShape(q) /\ q.order \in Order
        /\ issued[q.order] > 0 /\ q.from = "intent"
    BY <1>19, Underway DEF IntentVerify, At, RequestShape
  <2>2. p.pc = "confirmRead" /\ p.order = q.order /\ p.from = "intent"
    BY <2>1 DEF RequestShape, RequestState
  <2>3. CASE Goto(r, p)
    <3> HIDE DEF p
    <3> QED BY <1>0, <1>19, <2>1, <2>2, <2>3, MoveStep DEF IntentVerify, Pc, ConfirmPc
  <2>4. CASE Goto(r, IntentGoesOn(q))
    BY <1>17, <1>19, <2>1, <2>4 DEF IntentVerify
  <2> QED BY <1>19, <2>3, <2>4 DEF IntentVerify
<1>20. ASSUME NEW r \in Request, IntentInitialize(r)
       PROVE  Inv'
  <2> DEFINE q == req[r]
             n == issued[q.order] + 1
  <2>1. At(r, "intentInit") /\ UNCHANGED <<orders, payments, history, jobs, acked>>
    BY <1>20 DEF IntentInitialize
  <2>2. CASE n \in Stamp
    BY <1>0, <1>20, <2>1, <2>2, IntentInitializeStep DEF IntentInitialize
  <2>3. CASE n \notin Stamp
    BY <1>0, <1>20, <2>1, <2>3, EndStep DEF IntentInitialize
  <2> QED BY <2>2, <2>3
<1>21. ASSUME NEW r \in Request, UpsertPayment(r)
       PROVE  Inv'
  BY <1>0, <1>21, UpsertPaymentStep
<1>22. ASSUME NEW r \in Request, NEW o \in Order, DeleteOrder(r, o)
       PROVE  Inv'
  <2> DEFINE p == [Idle EXCEPT !.pc = "deleteRead", !.order = o]
  <2>1. issued[o] > 0 /\ p.pc = "deleteRead" /\ p.order = o /\ p.from = "client"
    BY <1>22 DEF DeleteOrder, Exists, Inv, IdsAreFresh, Idle
  <2>2. Goto(r, p)
    BY <1>22 DEF DeleteOrder
  <2> HIDE DEF p
  <2> QED BY <1>0, <1>22, <2>1, <2>2, MoveStep DEF DeleteOrder, Pc
<1>23. ASSUME NEW r \in Request, NEW q, q = req[r],
              Goto(r, [q EXCEPT !.pc = "deleteRow"]), q.pc \in {"deleteRead", "deleteVerify"},
              UNCHANGED <<txns, orders, payments, history, issued, jobs, acked>>
       PROVE  Inv'
  <2> DEFINE p == [q EXCEPT !.pc = "deleteRow"]
  <2>1. RequestShape(q) /\ q.order \in Order /\ issued[q.order] > 0 /\ q.from # "webhook"
    BY <1>23, Underway DEF Knows
  <2>2. p.pc = "deleteRow" /\ p.order = q.order /\ p.from = q.from
    BY <2>1 DEF RequestShape, RequestState
  <2>3. Goto(r, p)
    BY <1>23
  <2> HIDE DEF p
  <2> QED BY <1>0, <1>23, <2>1, <2>2, <2>3, MoveStep DEF Pc
<1>24. ASSUME NEW r \in Request, DeleteReadPayment(r)
       PROVE  Inv'
  <2> DEFINE q == req[r]
             p == [q EXCEPT !.pc = "deleteVerify", !.stamp = payments[q.order].stamp]
  <2>1. /\ q.pc = "deleteRead" /\ RequestShape(q) /\ q.order \in Order
        /\ issued[q.order] > 0 /\ q.from # "webhook"
    BY <1>24, Underway DEF DeleteReadPayment, At, Knows
  <2>2. p.pc = "deleteVerify" /\ p.order = q.order /\ p.from = q.from
    BY <2>1 DEF RequestShape, RequestState
  <2>3. CASE Goto(r, p)
    <3> HIDE DEF p
    <3> QED BY <1>0, <1>24, <2>1, <2>2, <2>3, MoveStep DEF DeleteReadPayment, Pc
  <2>4. CASE Goto(r, [q EXCEPT !.pc = "deleteRow"])
    BY <1>23, <1>24, <2>1, <2>4 DEF DeleteReadPayment
  <2> QED BY <1>24, <2>3, <2>4 DEF DeleteReadPayment
<1>25. ASSUME NEW r \in Request, DeleteVerify(r)
       PROVE  Inv'
  <2> DEFINE q == req[r]
             p == [q EXCEPT !.pc = "confirmRead", !.from = "background"]
  <2>1. q.pc = "deleteVerify" /\ RequestShape(q) /\ q.order \in Order /\ issued[q.order] > 0
    BY <1>25, Underway DEF DeleteVerify, At
  <2>2. p.pc = "confirmRead" /\ p.order = q.order /\ p.from = "background"
    BY <2>1 DEF RequestShape, RequestState
  <2>3. CASE Goto(r, p)
    <3> HIDE DEF p
    <3> QED BY <1>0, <1>25, <2>1, <2>2, <2>3, MoveStep DEF DeleteVerify, Pc, ConfirmPc
  <2>4. CASE Goto(r, [q EXCEPT !.pc = "deleteRow"])
    BY <1>23, <1>25, <2>1, <2>4 DEF DeleteVerify
  <2> QED BY <1>25, <2>3, <2>4 DEF DeleteVerify
<1>26. ASSUME NEW r \in Request, DeleteRow(r)
       PROVE  Inv'
  BY <1>0, <1>26, DeleteRowStep
<1>27. ASSUME NEW r \in Request, NEW o \in Order, UpdateOrderStatus(r, o)
       PROVE  Inv'
  <2>1. PICK target \in UpdateStatus, tailor \in Tailor \cup {NoTailor, KeepTailor} :
             Goto(r, [Idle EXCEPT !.pc = "updateWrite", !.order = o,
                                  !.status = target, !.tailor = tailor])
    BY <1>27 DEF UpdateOrderStatus
  <2> DEFINE p == [Idle EXCEPT !.pc = "updateWrite", !.order = o,
                               !.status = target, !.tailor = tailor]
  <2>2. issued[o] > 0 /\ p.pc = "updateWrite" /\ p.order = o /\ p.from = "client"
    BY <1>27 DEF UpdateOrderStatus, Exists, Inv, IdsAreFresh, Idle
  <2>3. Goto(r, p)
    BY <2>1
  <2> HIDE DEF p
  <2> QED BY <1>0, <1>27, <2>2, <2>3, MoveStep DEF UpdateOrderStatus, Pc
<1>28. ASSUME NEW r \in Request, UpdateWrite(r)
       PROVE  Inv'
  <2>1. CASE Exists(req[r].order)
    BY <1>0, <1>28, <2>1, UpdateWriteStep
  <2>2. CASE ~Exists(req[r].order)
    BY <1>0, <1>28, <2>2, EndStep DEF UpdateWrite
  <2> QED BY <2>1, <2>2
<1>29. ASSUME NEW r \in Request, Fault(r)
       PROVE  Inv'
  <2>1. UNCHANGED <<txns, orders, payments, history, issued, jobs, acked>>
    BY <1>29 DEF Fault
  <2>2. CASE Goto(r, Idle)
    BY <1>0, <2>1, <2>2, EndStep
  <2>3. CASE Goto(r, Catch(req[r])) /\ req[r].pc # "idle"
    BY <1>0, <2>1, <2>3, CatchStep
  <2>4. req[r].pc = "idle" => Catch(req[r]) = Idle
    BY DEF Catch, ConfirmPc
  <2> QED BY <1>29, <2>2, <2>3, <2>4 DEF Fault
<1>30. CASE Customer
  <2>1. PICK ref \in Reference : CustomerPays(ref) \/ ChargeDeclined(ref)
    BY <1>30 DEF Customer
  <2>2. /\ TxnsGrow
        /\ \A x \in Reference : txns'[x].state # "unknown" => txns[x].state # "unknown"
    BY <1>0, <2>1 DEF CustomerPays, ChargeDeclined, TxnsGrow, Charged, Shape, TypeOK,
                      PaystackTypeOK, Txn
  <2> QED BY <1>0, <1>30, <2>2, WorldStep DEF Customer
<1>31. CASE CatalogChange \/ UNCHANGED vars
  <2>1. UNCHANGED <<txns, orders, payments, history, issued, jobs, acked, req>>
    BY <1>31 DEF CatalogChange, vars
  <2>2. TxnsGrow
    BY <2>1 DEF TxnsGrow, Charged
  <2> QED BY <1>0, <2>1, <2>2, WorldStep
<1>32. ASSUME NEW r \in Request, Step(r)
       PROVE  Inv'
  BY <1>2, <1>3, <1>6, <1>7, <1>8, <1>9, <1>10, <1>11, <1>13, <1>15, <1>16, <1>18, <1>19, <1>20,
     <1>21, <1>24, <1>25, <1>26, <1>28, <1>32 DEF Step
<1>33. ASSUME NEW r \in Request, NEW o \in Order, GetOrder(r, o) \/ PaymentIntent(r, o)
       PROVE  Inv'
  BY <1>14, <1>33 DEF GetOrder, PaymentIntent
<1> QED
  BY <1>1, <1>4, <1>5, <1>12, <1>22, <1>27, <1>29, <1>30, <1>31, <1>32, <1>33 DEF Next

\* The service starts in the invariant: no order, no transaction, no request.
LEMMA InvInit ==
    ASSUME Init, Shape
    PROVE  Inv
<1>1. RequestKnowledge
  BY DEF Init, RequestKnowledge, Knows, Idle
<1>2. IdsAreFresh
  BY DEF Init, IdsAreFresh, Idle, PaystackInit
<1>3. TableInv /\ AckedIsConfirmed
  BY DEF Init, TableInv, SettledMatchesPaystack, NoOrphanRows, AuditTrail, OneRowPerOutcome,
         NoticeIsBacked, StoredReferenceIsPayable, AckedIsConfirmed, NoHistory
<1> QED BY <1>1, <1>2, <1>3 DEF Inv

\* From the initial state on, in every step: the invariant holds.
THEOREM Invariance == Spec => []Inv
<1>1. Init => Inv
  <2> SUFFICES ASSUME Init PROVE Inv
    OBVIOUS
  <2>1. Shape
    BY ShapeInit
  <2> QED BY <2>1, InvInit
<1>2. Inv /\ [Next]_vars => Inv'
  BY InvStep
<1> QED BY <1>1, <1>2, PTL DEF Spec

\* The invariant the runs check is the one that is proved.
THEOREM InductiveInvariant == Spec => []IndInv
<1>1. Inv => IndInv
  BY DEF Inv, Shape, TableInv, IndInv
<1> QED BY <1>1, Invariance, PTL

\* A payment on record is COMPLETED only for a reference Paystack charged and
\* FAILED only for one it declined, whatever confirmations, repricings, payment
\* intents, deletions, failures and status updates overlap.
THEOREM SettledPaymentsAreReal == Spec => []SettledMatchesPaystack
<1>1. IndInv => SettledMatchesPaystack
  BY DEF IndInv
<1> QED BY <1>1, InductiveInvariant, PTL

\* Orders, payments and history come and go together.
THEOREM NoRowIsOrphaned == Spec => []NoOrphanRows
<1>1. IndInv => NoOrphanRows
  BY DEF IndInv
<1> QED BY <1>1, InductiveInvariant, PTL

\* The history accounts for the state of every order.
THEOREM HistoryAccountsForState == Spec => []AuditTrail
<1>1. IndInv => AuditTrail
  BY DEF IndInv
<1> QED BY <1>1, InductiveInvariant, PTL

\* Concurrent confirmations leave one row for each outcome.
THEOREM ConfirmationIsLoggedOnce == Spec => []OneRowPerOutcome
<1>1. IndInv => OneRowPerOutcome
  BY DEF IndInv
<1> QED BY <1>1, InductiveInvariant, PTL

\* No customer is told of a confirmation that no charge backs.
THEOREM NoticesAreBacked == Spec => []NoticeIsBacked
<1>1. IndInv => NoticeIsBacked
  BY DEF IndInv
<1> QED BY <1>1, InductiveInvariant, PTL

\* A reference that a payment intent stored can be paid.
THEOREM StoredReferencesArePayable == Spec => []StoredReferenceIsPayable
<1>1. IndInv => StoredReferenceIsPayable
  BY DEF IndInv
<1> QED BY <1>1, InductiveInvariant, PTL

\* A webhook is answered 200 only once the confirmation is on record.
THEOREM AcksAreConfirmed == Spec => []AckedIsConfirmed
<1>1. IndInv => AckedIsConfirmed
  BY DEF IndInv
<1> QED BY <1>1, InductiveInvariant, PTL
=============================================================================
