--------------------------- MODULE OrderPayments ---------------------------
(***************************************************************************)
(* packages/api/src/services/orderService.ts: orders, their payments and   *)
(* status history in PostgreSQL, and the requests that work on them        *)
(* concurrently.                                                           *)
(*                                                                         *)
(* A request runs as a sequence of steps separated by the awaits of the    *)
(* code, and keeps what it has read in local variables: its record in req. *)
(* PostgreSQL runs at READ COMMITTED, so a SELECT inside a transaction is a *)
(* step of its own that locks nothing; the writes of a transaction start   *)
(* with the UPDATE that takes the row lock and are one step with the       *)
(* commit. A table is a function whose domain is the set of its keys.      *)
(***************************************************************************)
EXTENDS Paystack, FiniteSets, Functions

CONSTANTS Request,       \* slots for requests in flight at one moment
          Operation,     \* the operations clients ask for
          UpdateStatus,  \* statuses staff ask for in PATCH /:orderId/status
          Tailor,        \* users with role TAILOR
          NoTailor, KeepTailor, NoOrder,
          MaxFault       \* bound: failures of a call, a server or the queue

OrderStatus == {"PENDING", "CONFIRMED", "IN_PRODUCTION", "READY",
                "DISPATCHED", "DELIVERED", "CANCELLED"}
PaymentStatus == {"PENDING", "COMPLETED", "FAILED"}

ASSUME UpdateStatusAssumption == UpdateStatus \subseteq OrderStatus
ASSUME MaxFaultAssumption == MaxFault \in Nat

VARIABLES
    orders,    \* table Order
    payments,  \* table Payment, by its unique orderId
    history,   \* table OrderStatusHistory, summarised per order
    issued,    \* per order, how many references have been generated
    jobs,      \* per order, "order-confirmed" jobs put on the queue
    price,     \* the total the catalogue gives an order today
    acked,     \* references whose webhook was answered 200
    faults,    \* failures so far
    req        \* the requests in flight

vars == <<txns, orders, payments, history, issued, jobs, price, acked, faults, req>>

OrderRow == [status : OrderStatus, total : Price, tailor : Tailor \cup {NoTailor}]
PaymentRow == [status : PaymentStatus, stamp : Stamp, amount : Price]

\* paid, failed: rows written by confirmPayment; manual: statuses of the rows
\* written by updateOrderStatus.
HistoryRows == [paid : Nat, failed : Nat, manual : SUBSET OrderStatus]
NoHistory == [paid |-> 0, failed |-> 0, manual |-> {}]

ConfirmPc == {"confirmRead", "confirmVerify", "confirmLock", "confirmWrite",
              "failLock", "failWrite"}
Pc == ConfirmPc \cup
      {"idle", "insert", "initialize", "enqueue", "price", "reprice",
       "intentRead", "intentVerify", "intentInit", "upsert",
       "deleteRead", "deleteVerify", "deleteRow", "updateWrite"}

\* status and total are the order as the request read it (for updateWrite,
\* what it writes); amount is the payment amount or the price it read.
RequestState ==
    [pc : Pc, from : {"client", "webhook", "intent", "background"},
     order : Order \cup {NoOrder}, stamp : Stamp \cup {0},
     amount : Price \cup {0}, total : Price \cup {0}, status : OrderStatus,
     tailor : Tailor \cup {NoTailor, KeepTailor}]

Idle == [pc |-> "idle", from |-> "client", order |-> NoOrder, stamp |-> 0,
         amount |-> 0, total |-> 0, status |-> "PENDING", tailor |-> KeepTailor]

TypeOK ==
    /\ PaystackTypeOK
    /\ DOMAIN orders \subseteq Order /\ orders \in [DOMAIN orders -> OrderRow]
    /\ DOMAIN payments \subseteq Order /\ payments \in [DOMAIN payments -> PaymentRow]
    /\ history \in [Order -> HistoryRows]
    /\ issued \in [Order -> Stamp \cup {0}]
    /\ jobs \in [Order -> Nat]
    /\ price \in Price
    /\ acked \subseteq Reference
    /\ faults \in 0..MaxFault
    /\ req \in [Request -> RequestState]

Init ==
    /\ PaystackInit
    /\ orders = [o \in {} |-> NoOrder]
    /\ payments = [o \in {} |-> NoOrder]
    /\ history = [o \in Order |-> NoHistory]
    /\ issued = [o \in Order |-> 0]
    /\ jobs = [o \in Order |-> 0]
    /\ price \in Price
    /\ acked = {}
    /\ faults = 0
    /\ req = [r \in Request |-> Idle]

-----------------------------------------------------------------------------
(***************************************************************************)
(* Tables, and the ways a request goes on.                                 *)
(***************************************************************************)
Put(table, key, row) ==
    [k \in DOMAIN table \cup {key} |-> IF k = key THEN row ELSE table[k]]

Exists(o) == o \in DOMAIN orders

\* Faulty variant of HasReference: the payment is found by its order.
AnyReference(ref) == ref[1] \in DOMAIN payments

\* where: { reference }
HasReference(ref) ==
    /\ ref[1] \in DOMAIN payments
    /\ payments[ref[1]].stamp = ref[2]

ConfirmedLogged(o) == history[o].paid > 0 \/ "CONFIRMED" \in history[o].manual

\* Faulty variants of AlreadyProcessed: any outcome counts, or none does.
AnyOutcome(o) == payments[o].status # "PENDING"
NeverProcessed(o) == FALSE

AlreadyProcessed(o) == payments[o].status = "COMPLETED"

\* Faulty variants of LogConfirmation: the row is always inserted, or never
\* when the order has any other row.
LogAlways(o) == [history EXCEPT ![o].paid = @ + 1]
LogFirstOnly(o) ==
    IF history[o] = NoHistory THEN [history EXCEPT ![o].paid = 1] ELSE history

\* The history with a CONFIRMED row for o, inserted unless there is one.
LogConfirmation(o) ==
    IF ConfirmedLogged(o) THEN history ELSE [history EXCEPT ![o].paid = @ + 1]

\* Faulty variant of ForeignKeyHolds: no constraint on Payment.orderId.
NoForeignKey(o) == TRUE

\* Payment.orderId references Order.id.
ForeignKeyHolds(o) == Exists(o)

\* Faulty variant of NewTailor: an absent tailorId is written as it is.
TailorAsAsked(tailor, asked) == asked

\* tailorId is written only when the request has one.
NewTailor(tailor, asked) == IF asked = KeepTailor THEN tailor ELSE asked

At(r, pc) == req[r].pc = pc

Goto(r, q) == req' = [req EXCEPT ![r] = q]

\* initializeOrderPayment after its check of the old reference: an order it
\* read as PENDING gets a new reference, any other is refused (400).
IntentGoesOn(q) ==
    IF q.status = "PENDING" THEN [q EXCEPT !.pc = "intentInit", !.stamp = 0, !.amount = 0]
    ELSE Idle

\* Where a request goes on when the call it makes throws: the payment intent
\* swallows what its check of the old reference throws, confirmPayment
\* included; deletePendingOrder swallows an error of the verification.
Catch(q) ==
    IF q.from = "intent" /\ q.pc \in ConfirmPc \cup {"intentVerify"} THEN IntentGoesOn(q)
    ELSE IF q.pc = "deleteVerify" THEN [q EXCEPT !.pc = "deleteRow"]
    ELSE Idle

\* confirmPayment returns: the webhook is answered 200, a payment intent
\* replies alreadyPaid.
Reply(q) == acked' = IF q.from = "webhook" THEN acked \cup {<<q.order, q.stamp>>} ELSE acked

-----------------------------------------------------------------------------
(***************************************************************************)
(* createOrder: prices the items, inserts order and payment in one         *)
(* transaction, then initialises the reference with Paystack.              *)
(***************************************************************************)
\* The id the database will give the row is fixed here; the set Order bounds
\* how many orders are ever created.
CreateOrder(r, o) ==
    /\ "create" \in Operation
    /\ req[r] = Idle
    /\ issued[o] = 0 /\ \A s \in Request : req[s].order # o
    /\ Goto(r, [Idle EXCEPT !.pc = "insert", !.order = o, !.amount = price])
    /\ UNCHANGED <<txns, orders, payments, history, issued, jobs, price, acked, faults>>

InsertOrder(r) ==
    LET q == req[r]
        o == q.order
    IN  /\ At(r, "insert")
        /\ issued' = [issued EXCEPT ![o] = 1]
        /\ orders' = Put(orders, o, [status |-> "PENDING", total |-> q.amount,
                                     tailor |-> NoTailor])
        /\ payments' = Put(payments, o, [status |-> "PENDING", stamp |-> 1,
                                         amount |-> q.amount])
        /\ Goto(r, [q EXCEPT !.pc = "initialize", !.stamp = 1])
        /\ UNCHANGED <<txns, history, jobs, price, acked, faults>>

InitializeOrder(r) ==
    /\ At(r, "initialize")
    /\ InitializePayment(<<req[r].order, req[r].stamp>>, req[r].amount)
    /\ Goto(r, Idle)
    /\ UNCHANGED <<orders, payments, history, issued, jobs, price, acked, faults>>

-----------------------------------------------------------------------------
(***************************************************************************)
(* confirmPayment, asked for by the webhook, by the customer's browser, by *)
(* a payment intent or by a refused deletion.                              *)
(***************************************************************************)
ReadPayment(r, q) ==
    LET ref == <<q.order, q.stamp>>
    IN  \/ /\ HasReference(ref)
           /\ AlreadyProcessed(q.order)
           /\ Goto(r, Idle)
           /\ Reply(q)
        \/ /\ HasReference(ref)
           /\ ~AlreadyProcessed(q.order)
           /\ Goto(r, [q EXCEPT !.pc = "confirmVerify",
                                !.amount = payments[q.order].amount])
           /\ UNCHANGED acked
        \/ /\ ~HasReference(ref)
           /\ Goto(r, Catch(q))
           /\ UNCHANGED acked

\* Paystack calls the webhook for a charge, and again until it gets a 200.
Webhook(r, ref) ==
    /\ req[r] = Idle
    /\ Charged(ref)
    /\ ref \notin acked
    /\ ReadPayment(r, [Idle EXCEPT !.pc = "confirmRead", !.from = "webhook",
                                   !.order = ref[1], !.stamp = ref[2]])
    /\ UNCHANGED <<txns, orders, payments, history, issued, jobs, price, faults>>

\* POST /verify/:reference with a reference the customer was given.
VerifyFromClient(r, ref) ==
    /\ "verify" \in Operation
    /\ req[r] = Idle
    /\ txns[ref].state # "unknown"
    /\ ReadPayment(r, [Idle EXCEPT !.pc = "confirmRead", !.order = ref[1],
                                   !.stamp = ref[2]])
    /\ UNCHANGED <<txns, orders, payments, history, issued, jobs, price, faults>>

ConfirmRead(r) ==
    /\ At(r, "confirmRead")
    /\ ReadPayment(r, req[r])
    /\ UNCHANGED <<txns, orders, payments, history, issued, jobs, price, faults>>

\* The amount compared is the one read before the verification.
ConfirmVerify(r) ==
    LET q == req[r]
        v == VerifyPayment(<<q.order, q.stamp>>)
    IN  /\ At(r, "confirmVerify")
        /\ \/ /\ v.status = "success" /\ v.amount = q.amount
              /\ Goto(r, [q EXCEPT !.pc = "confirmLock"])
              /\ UNCHANGED acked
           \/ /\ v.status = "failed"
              /\ Goto(r, [q EXCEPT !.pc = "failLock"])
              /\ UNCHANGED acked
           \/ /\ v.status = "abandoned"
              /\ Goto(r, Idle)
              /\ Reply(q)
           \/ /\ v.status = "error" \/ (v.status = "success" /\ v.amount # q.amount)
              /\ Goto(r, Catch(q))
              /\ UNCHANGED acked
        /\ UNCHANGED <<txns, orders, payments, history, issued, jobs, price, faults>>

\* findUnique inside the transaction: it locks nothing. A row that is gone
\* is noticed by the update that follows.
ReadAgain(r, from, to) ==
    LET q == req[r]
        done == HasReference(<<q.order, q.stamp>>) /\ AlreadyProcessed(q.order)
    IN  /\ At(r, from)
        /\ \/ done /\ Goto(r, Idle) /\ Reply(q)
           \/ ~done /\ Goto(r, [q EXCEPT !.pc = to]) /\ UNCHANGED acked
        /\ UNCHANGED <<txns, orders, payments, history, issued, jobs, price, faults>>

ConfirmLock(r) == ReadAgain(r, "confirmLock", "confirmWrite")
FailLock(r) == ReadAgain(r, "failLock", "failWrite")

\* payment.update throws when no row has the reference any more.
RowGone(r) ==
    /\ req[r].pc \in {"confirmWrite", "failWrite"}
    /\ ~HasReference(<<req[r].order, req[r].stamp>>)
    /\ Goto(r, Catch(req[r]))
    /\ UNCHANGED <<txns, orders, payments, history, issued, jobs, price, acked, faults>>

ConfirmWrite(r) ==
    LET q == req[r]
        o == q.order
    IN  /\ At(r, "confirmWrite")
        /\ HasReference(<<o, q.stamp>>)
        /\ payments' = [payments EXCEPT ![o].status = "COMPLETED"]
        /\ orders' = [orders EXCEPT ![o].status = "CONFIRMED"]
        /\ history' = LogConfirmation(o)
        /\ Goto(r, [q EXCEPT !.pc = "enqueue"])
        /\ UNCHANGED <<txns, issued, jobs, price, acked, faults>>

\* After the commit the job is added to the queue without waiting for it, and
\* the call returns.
EnqueueNotification(r) ==
    /\ At(r, "enqueue")
    /\ jobs' = [jobs EXCEPT ![req[r].order] = @ + 1]
    /\ Goto(r, Idle)
    /\ Reply(req[r])
    /\ UNCHANGED <<txns, orders, payments, history, issued, price, faults>>

\* Redis refuses the job: logged, and the call returns all the same.
QueueRefuses(r) ==
    /\ At(r, "enqueue")
    /\ faults < MaxFault
    /\ faults' = faults + 1
    /\ Goto(r, Idle)
    /\ Reply(req[r])
    /\ UNCHANGED <<txns, orders, payments, history, issued, jobs, price>>

FailWrite(r) ==
    LET q == req[r]
        o == q.order
    IN  /\ At(r, "failWrite")
        /\ HasReference(<<o, q.stamp>>)
        /\ payments' = [payments EXCEPT ![o].status = "FAILED"]
        /\ history' = IF history[o].failed > 0 THEN history
                      ELSE [history EXCEPT ![o].failed = @ + 1]
        /\ Goto(r, Idle)
        /\ Reply(q)
        /\ UNCHANGED <<txns, orders, issued, jobs, price, faults>>

-----------------------------------------------------------------------------
(***************************************************************************)
(* getOrderById: reading a PENDING order revalidates its price, for the    *)
(* order page ("client") and as the first part of a payment intent.        *)
(***************************************************************************)
AfterGet(q) == IF q.from = "intent" THEN [q EXCEPT !.pc = "intentRead", !.amount = 0] ELSE Idle

\* Faulty variant of ReadOrder: an order of any status is priced again.
PriceAnyOrder(r, o, from) ==
    /\ req[r] = Idle
    /\ Exists(o)
    /\ Goto(r, [Idle EXCEPT !.pc = "price", !.from = from, !.order = o,
                            !.status = orders[o].status, !.total = orders[o].total])
    /\ UNCHANGED <<txns, orders, payments, history, issued, jobs, price, acked, faults>>

ReadOrder(r, o, from) ==
    LET q == [Idle EXCEPT !.from = from, !.order = o, !.status = orders[o].status,
                          !.total = orders[o].total]
    IN  /\ req[r] = Idle
        /\ Exists(o)
        /\ Goto(r, IF q.status = "PENDING" THEN [q EXCEPT !.pc = "price"] ELSE AfterGet(q))
        /\ UNCHANGED <<txns, orders, payments, history, issued, jobs, price, acked, faults>>

GetOrder(r, o) == "get" \in Operation /\ ReadOrder(r, o, "client")
PaymentIntent(r, o) == "intent" \in Operation /\ ReadOrder(r, o, "intent")

\* revalidateOrderPricing reads the catalogue ...
ComparePrice(r) ==
    LET q == req[r]
    IN  /\ At(r, "price")
        /\ Goto(r, IF price = q.total THEN AfterGet(q)
                   ELSE [q EXCEPT !.pc = "reprice", !.amount = price])
        /\ UNCHANGED <<txns, orders, payments, history, issued, jobs, price, acked, faults>>

\* ... and writes the new total to the order and its payment, whatever their
\* status has become; the order it returns is the one it wrote.
Reprice(r) ==
    LET q == req[r]
        o == q.order
    IN  /\ At(r, "reprice")
        /\ \/ /\ Exists(o)
              /\ orders' = [orders EXCEPT ![o].total = q.amount]
              /\ payments' = IF o \in DOMAIN payments
                             THEN [payments EXCEPT ![o].amount = q.amount] ELSE payments
              /\ Goto(r, AfterGet([q EXCEPT !.status = orders[o].status, !.total = q.amount]))
           \/ /\ ~Exists(o)
              /\ Goto(r, Idle)
              /\ UNCHANGED <<orders, payments>>
        /\ UNCHANGED <<txns, history, issued, jobs, price, acked, faults>>

-----------------------------------------------------------------------------
(***************************************************************************)
(* initializeOrderPayment, after getOrderById.                             *)
(***************************************************************************)
IntentReadPayment(r) ==
    LET q == req[r]
    IN  /\ At(r, "intentRead")
        /\ Goto(r, IF q.order \in DOMAIN payments
                   THEN [q EXCEPT !.pc = "intentVerify", !.stamp = payments[q.order].stamp]
                   ELSE IntentGoesOn(q))
        /\ UNCHANGED <<txns, orders, payments, history, issued, jobs, price, acked, faults>>

IntentVerify(r) ==
    LET q == req[r]
    IN  /\ At(r, "intentVerify")
        /\ Goto(r, IF VerifyPayment(<<q.order, q.stamp>>).status = "success"
                   THEN [q EXCEPT !.pc = "confirmRead"] ELSE IntentGoesOn(q))
        /\ UNCHANGED <<txns, orders, payments, history, issued, jobs, price, acked, faults>>

\* A new reference for the total the request read. When Paystack refuses it,
\* and at the bound on references, the request fails.
IntentInitialize(r) ==
    LET q == req[r]
        n == issued[q.order] + 1
    IN  /\ At(r, "intentInit")
        /\ \/ /\ n \in Stamp
              /\ InitializePayment(<<q.order, n>>, q.total)
              /\ issued' = [issued EXCEPT ![q.order] = n]
              /\ Goto(r, [q EXCEPT !.pc = "upsert", !.stamp = n])
           \/ /\ n \notin Stamp
              /\ Goto(r, Idle)
              /\ UNCHANGED <<txns, issued>>
        /\ UNCHANGED <<orders, payments, history, jobs, price, acked, faults>>

\* The payment row is overwritten whatever its status has become; for an
\* order that is gone the foreign key refuses the insert.
UpsertPayment(r) ==
    LET q == req[r]
        o == q.order
    IN  /\ At(r, "upsert")
        /\ payments' = IF ForeignKeyHolds(o)
                       THEN Put(payments, o, [status |-> "PENDING", stamp |-> q.stamp,
                                              amount |-> q.total])
                       ELSE payments
        /\ Goto(r, Idle)
        /\ UNCHANGED <<txns, orders, history, issued, jobs, price, acked, faults>>

-----------------------------------------------------------------------------
(***************************************************************************)
(* deletePendingOrder.                                                     *)
(***************************************************************************)
DeleteOrder(r, o) ==
    /\ "delete" \in Operation
    /\ req[r] = Idle
    /\ Exists(o)
    /\ orders[o].status = "PENDING"
    /\ Goto(r, [Idle EXCEPT !.pc = "deleteRead", !.order = o])
    /\ UNCHANGED <<txns, orders, payments, history, issued, jobs, price, acked, faults>>

DeleteReadPayment(r) ==
    LET q == req[r]
    IN  /\ At(r, "deleteRead")
        /\ Goto(r, IF q.order \in DOMAIN payments
                   THEN [q EXCEPT !.pc = "deleteVerify", !.stamp = payments[q.order].stamp]
                   ELSE [q EXCEPT !.pc = "deleteRow"])
        /\ UNCHANGED <<txns, orders, payments, history, issued, jobs, price, acked, faults>>

\* A charge found now refuses the deletion and confirms in the background.
DeleteVerify(r) ==
    LET q == req[r]
    IN  /\ At(r, "deleteVerify")
        /\ Goto(r, IF VerifyPayment(<<q.order, q.stamp>>).status = "success"
                   THEN [q EXCEPT !.pc = "confirmRead", !.from = "background"]
                   ELSE [q EXCEPT !.pc = "deleteRow"])
        /\ UNCHANGED <<txns, orders, payments, history, issued, jobs, price, acked, faults>>

\* order.delete by id; payment and history rows go with it (onDelete: Cascade).
DeleteRow(r) ==
    LET o == req[r].order
    IN  /\ At(r, "deleteRow")
        /\ orders' = Restrict(orders, DOMAIN orders \ {o})
        /\ payments' = Restrict(payments, DOMAIN payments \ {o})
        /\ history' = [history EXCEPT ![o] = NoHistory]
        /\ Goto(r, Idle)
        /\ UNCHANGED <<txns, issued, jobs, price, acked, faults>>

-----------------------------------------------------------------------------
(***************************************************************************)
(* updateOrderStatus: the checks are made on the order read first.         *)
(***************************************************************************)
AdminMayUpdate(row, target) == row.status = "CANCELLED" => target = "CANCELLED"

TailorMayUpdate(row, target) ==
    /\ row.tailor \in Tailor
    /\ target \in {"IN_PRODUCTION", "READY"}
    /\ row.status \in {"PENDING", "CONFIRMED", "IN_PRODUCTION"}

UpdateOrderStatus(r, o) ==
    /\ "update" \in Operation
    /\ req[r] = Idle
    /\ Exists(o)
    /\ \E target \in UpdateStatus, tailor \in Tailor \cup {NoTailor, KeepTailor} :
         /\ \/ AdminMayUpdate(orders[o], target)
            \/ TailorMayUpdate(orders[o], target) /\ tailor = KeepTailor
         /\ Goto(r, [Idle EXCEPT !.pc = "updateWrite", !.order = o,
                                 !.status = target, !.tailor = tailor])
    /\ UNCHANGED <<txns, orders, payments, history, issued, jobs, price, acked, faults>>

UpdateWrite(r) ==
    LET q == req[r]
        o == q.order
    IN  /\ At(r, "updateWrite")
        /\ \/ /\ Exists(o)
              /\ orders' = [orders EXCEPT ![o].status = q.status,
                                          ![o].tailor = NewTailor(orders[o].tailor, q.tailor)]
              /\ history' = [history EXCEPT ![o].manual = @ \cup {q.status}]
           \/ /\ ~Exists(o)
              /\ UNCHANGED <<orders, history>>
        /\ Goto(r, Idle)
        /\ UNCHANGED <<txns, payments, issued, jobs, price, acked, faults>>

-----------------------------------------------------------------------------
(***************************************************************************)
(* The world around the requests.                                          *)
(***************************************************************************)
\* A call throws (database, network, a transaction rolled back as a deadlock
\* victim), or the server dies under the request.
Fault(r) ==
    /\ faults < MaxFault
    /\ faults' = faults + 1
    /\ req[r] # Idle
    /\ \E q \in {Idle, Catch(req[r])} : Goto(r, q)
    /\ UNCHANGED <<txns, orders, payments, history, issued, jobs, price, acked>>

Customer ==
    /\ \E ref \in Reference : CustomerPays(ref) \/ ChargeDeclined(ref)
    /\ UNCHANGED <<orders, payments, history, issued, jobs, price, acked, faults, req>>

\* An administrator changes a price in the catalogue.
CatalogChange ==
    /\ price' \in Price \ {price}
    /\ UNCHANGED <<txns, orders, payments, history, issued, jobs, acked, faults, req>>

\* A request that is under way takes its next step.
Step(r) ==
    \/ InsertOrder(r) \/ InitializeOrder(r)
    \/ ConfirmRead(r) \/ ConfirmVerify(r) \/ ConfirmLock(r) \/ ConfirmWrite(r)
    \/ FailLock(r) \/ FailWrite(r) \/ RowGone(r) \/ EnqueueNotification(r)
    \/ ComparePrice(r) \/ Reprice(r)
    \/ IntentReadPayment(r) \/ IntentVerify(r) \/ IntentInitialize(r) \/ UpsertPayment(r)
    \/ DeleteReadPayment(r) \/ DeleteVerify(r) \/ DeleteRow(r)
    \/ UpdateWrite(r)

Next ==
    \/ \E r \in Request :
         \/ Step(r) \/ Fault(r) \/ QueueRefuses(r)
         \/ \E ref \in Reference : Webhook(r, ref) \/ VerifyFromClient(r, ref)
         \/ \E o \in Order : \/ CreateOrder(r, o) \/ GetOrder(r, o) \/ PaymentIntent(r, o)
                             \/ DeleteOrder(r, o) \/ UpdateOrderStatus(r, o)
    \/ Customer
    \/ CatalogChange

Spec == Init /\ [][Next]_vars

\* Node runs a request to its end, and Paystack keeps calling the webhook of
\* a charge until it is answered 200, so some call finds the server ready.
Fairness ==
    /\ \A r \in Request : WF_vars(Step(r))
    /\ \A ref \in Reference : SF_vars(\E r \in Request : Webhook(r, ref))

FairSpec == Spec /\ Fairness

-----------------------------------------------------------------------------
(***************************************************************************)
(* Properties.                                                             *)
(***************************************************************************)
\* The database never says more than Paystack does: a COMPLETED payment
\* carries a reference that was charged, a FAILED one a reference that was
\* declined at least once. confirmPayment writes the status steps after it
\* asked Paystack, and a payment intent may replace the reference meanwhile.
SettledMatchesPaystack ==
    \A o \in DOMAIN payments :
        LET ref == <<o, payments[o].stamp>>
        IN  /\ payments[o].status = "COMPLETED" => Charged(ref)
            /\ payments[o].status = "FAILED" => txns[ref].state \in {"failed", "success"}

\* Orders and payments come and go together, and a deleted order leaves no
\* history: a payment intent that is about to write when the order is
\* deleted, or a status update, must not bring rows back.
NoOrphanRows ==
    /\ DOMAIN payments = DOMAIN orders
    /\ \A o \in Order \ DOMAIN orders : history[o] = NoHistory

\* The history accounts for the state of the order: the status it has, when
\* it is not the first one, was logged, and a COMPLETED payment has its
\* confirmation on record, whoever wrote the status in between.
AuditTrail ==
    \A o \in DOMAIN orders :
        /\ orders[o].status \notin {"PENDING", "CONFIRMED"} =>
               orders[o].status \in history[o].manual
        /\ orders[o].status = "CONFIRMED" => ConfirmedLogged(o)
        /\ payments[o].status = "COMPLETED" => ConfirmedLogged(o)

\* However often and however concurrently a reference is confirmed or found
\* declined, the history has one row for it (the concurrency test of
\* orderService.test.ts, and the guard before the insert).
OneRowPerOutcome ==
    \A o \in Order : history[o].paid <= 1 /\ history[o].failed <= 1

\* The customer is told the order is confirmed, and the history says it was
\* paid, only when Paystack charged a reference of that order.
NoticeIsBacked ==
    \A o \in Order :
        jobs[o] > 0 \/ history[o].paid > 0 => \E n \in Stamp : Charged(<<o, n>>)

\* A payment intent stores a reference only after Paystack knows it: the only
\* payment that cannot be paid is one whose order creation was interrupted.
StoredReferenceIsPayable ==
    \A o \in DOMAIN payments :
        payments[o].stamp > 1 => txns[<<o, payments[o].stamp>>].state # "unknown"

\* Paystack stops calling the webhook of a charge only when the order has its
\* confirmation on record, or is gone.
AckedIsConfirmed ==
    \A ref \in acked : Exists(ref[1]) => ConfirmedLogged(ref[1])

\* A charge of the current reference, for the amount on record, that the
\* history does not know.
Waiting(ref) ==
    /\ Charged(ref)
    /\ HasReference(ref)
    /\ payments[ref[1]].amount = FromKobo(txns[ref].kobo)
    /\ ~ConfirmedLogged(ref[1])

\* Such a charge does not wait for ever: its confirmation is recorded, unless
\* a repricing, a new reference or a deletion comes first. Redelivery of the
\* webhook makes up for the calls that failed.
ChargeIsRecorded == \A ref \in Reference : Waiting(ref) ~> ~Waiting(ref)

-----------------------------------------------------------------------------
(* What comments and messages of the code promise and overlapping requests *)
(* break.  Put in place of OnlyPendingIsDeleted in OrderPayments_deleted,  *)
(* each is violated; the README says by what.                              *)

\* One confirmation notice per charge: "Enqueue notification job only if this
\* call actually processed the payment".
OneNoticePerCharge ==
    \A o \in Order : jobs[o] <= Cardinality({n \in Stamp : Charged(<<o, n>>)})

\* "Re-checking inside transaction to prevent race conditions": a payment that
\* is COMPLETED does not become FAILED.
CompletedIsNotFailed ==
    [][\A o \in DOMAIN payments \cap DOMAIN payments' :
          payments[o].status = "COMPLETED" => payments'[o].status # "FAILED"]_payments

\* "Prevent transitions from CANCELLED status for data integrity".
CancelledIsFinal ==
    [][\A o \in DOMAIN orders \cap DOMAIN orders' :
          orders[o].status = "CANCELLED" => orders'[o].status = "CANCELLED"]_orders

\* "Only pending orders can be cancelled": no other order is deleted.
OnlyPendingIsDeleted ==
    [][\A o \in DOMAIN orders : o \notin DOMAIN orders' => orders[o].status = "PENDING"]_orders

\* "Cannot create payment intent for order with status ...": a payment that
\* is COMPLETED is not put back to PENDING under a new reference.
CompletedIsNotReopened ==
    [][\A o \in DOMAIN payments \cap DOMAIN payments' :
          payments[o].status = "COMPLETED" => payments'[o].stamp = payments[o].stamp]_payments

-----------------------------------------------------------------------------
(***************************************************************************)
(* The invariant behind the safety properties: what a request at each of   *)
(* its steps has read, and what it knows of Paystack and of the tables.    *)
(***************************************************************************)
HasOrderAndStamp == ConfirmPc \cup {"initialize", "enqueue", "intentVerify", "upsert", "deleteVerify"}

\* The locals a step uses have been read.
RequestShape(q) ==
    /\ q \in RequestState
    /\ q.pc # "idle" => q.order \in Order
    /\ q.pc \in HasOrderAndStamp => q.stamp \in Stamp
    /\ q.pc \in {"insert", "initialize", "reprice"} => q.amount \in Price
    /\ q.pc \in {"intentRead", "intentVerify", "intentInit", "upsert"} => q.from = "intent"
    /\ q.from = "intent" => q.total \in Price
    /\ q.from = "webhook" /\ q.pc # "idle" => q.stamp \in Stamp

RequestShapes == \A r \in Request : RequestShape(req[r])

\* What a request has learned from Paystack stays true until it writes.
Knows(q) ==
    LET ref == <<q.order, q.stamp>>
    IN  /\ q.pc \in {"confirmLock", "confirmWrite", "enqueue"} => Charged(ref)
        /\ q.pc \in {"failLock", "failWrite"} => txns[ref].state \in {"failed", "success"}
        /\ q.pc = "upsert" => txns[ref].state # "unknown"
        /\ q.pc = "enqueue" /\ Exists(q.order) => ConfirmedLogged(q.order)
        /\ q.from = "webhook" /\ q.pc # "idle" =>
              /\ Charged(ref)
              /\ q.pc \in {"confirmRead", "confirmVerify", "confirmLock", "confirmWrite", "enqueue"}

RequestKnowledge == \A r \in Request : Knows(req[r])

\* An id is given to one order only, so what was confirmed once stays so.
IdsAreFresh ==
    /\ \A o \in DOMAIN orders : issued[o] > 0
    /\ \A ref \in Reference : txns[ref].state # "unknown" => issued[ref[1]] > 0
    /\ \A ref \in acked : issued[ref[1]] > 0
    /\ \A r \in Request :
         /\ req[r].pc \notin {"idle", "insert"} => issued[req[r].order] > 0
         /\ req[r].pc = "insert" =>
               /\ issued[req[r].order] = 0
               /\ \A s \in Request \ {r} :
                     req[s].pc # "idle" => req[s].order # req[r].order

IndInv ==
    /\ TypeOK
    /\ RequestShapes
    /\ RequestKnowledge
    /\ IdsAreFresh
    /\ SettledMatchesPaystack
    /\ NoOrphanRows
    /\ AuditTrail
    /\ OneRowPerOutcome
    /\ NoticeIsBacked
    /\ StoredReferenceIsPayable
    /\ AckedIsConfirmed

(***************************************************************************)
(* The order service as its customers see it.                              *)
(***************************************************************************)
Contract == INSTANCE OrderContract WITH
    stage   <- [o \in Order |->
                   IF ~Exists(o) THEN IF issued[o] = 0 THEN "none" ELSE "gone"
                   ELSE IF orders[o].status = "PENDING" THEN "pending" ELSE "placed"],
    quote   <- [o \in Order |-> IF Exists(o) THEN orders[o].total ELSE 0],
    paid    <- [o \in Order |->
                   o \in DOMAIN payments /\ payments[o].status = "COMPLETED"],
    charges <- [o \in Order |-> Cardinality({n \in Stamp : Charged(<<o, n>>)})],
    notices <- jobs

\* The service keeps the contract: no paid order is requoted, reopened or
\* withdrawn, no order is confirmed without a charge or announced twice for
\* one. The code keeps it as long as requests do not overlap.
KeepsContract == Contract!ContractSpec

\* A request writes what it decided on a pending, unpaid order, or about a
\* payment it saw was not COMPLETED or a charge nobody had announced, and the
\* order is that no longer.
Open(o) == orders[o].status = "PENDING" /\ ~AlreadyProcessed(o)

Overtaken(r) ==
    LET q == req[r]
        o == q.order
    IN  \/ Reprice(r) /\ q.status = "PENDING" /\ Exists(o) /\ ~Open(o)
        \/ UpsertPayment(r) /\ q.status = "PENDING" /\ Exists(o) /\ AlreadyProcessed(o)
        \/ DeleteRow(r) /\ Exists(o) /\ ~Open(o)
        \/ FailWrite(r) /\ AlreadyProcessed(o)
        \/ EnqueueNotification(r) /\ jobs[o] >= Cardinality({n \in Stamp : Charged(<<o, n>>)})

\* The staff put an order back to PENDING.
Reopens(r) ==
    LET q == req[r]
        o == q.order
    IN  UpdateWrite(r) /\ q.status = "PENDING" /\ Exists(o) /\ orders[o].status # "PENDING"

\* However requests overlap, nothing but the writes of overtaken requests and
\* of the staff leaves the contract: what confirmPayment writes for a charge,
\* above all, is always a step of it.
OnlyOvertakenBreakContract ==
    [][\/ UNCHANGED <<txns, orders, payments, issued, jobs>>
       \/ [Contract!ContractNext]_Contract!contractVars
       \/ \E r \in Request : Overtaken(r) \/ Reopens(r)]_vars
=============================================================================
