# Jhaz Imprints: models and proofs

A TLA+ development kept beside the code of the Jhaz Imprints shop (a monorepo of
an Express order API on PostgreSQL, a catalogue service on MongoDB, a gateway,
and Redis between them). It says what the parts of the system promise, checks it
with TLC on small instances, and proves the most important of it with TLAPS for
every size. Paths below are relative to the repository.

## 1. The system

| Component | State it keeps | Operations | Interacts with |
|---|---|---|---|
| **Orders and payments** `packages/api/src/services/orderService.ts` | PostgreSQL tables Order, Payment, OrderStatusHistory | create order, confirm payment (webhook, browser, payment intent, refused deletion), read and reprice, payment intent, delete, staff status update | Paystack (HTTP), catalogue (MongoDB reads), notification queue (BullMQ) |
| **Paystack client** `services/paystackService.ts` | none of its own; Paystack keeps the transactions | initialise, verify, check a webhook's signature | Paystack, which calls the webhook back |
| **Pricing and profiles** `services/pricingEngine.ts`, the pricing half of `orderService.ts` | items and totals of pending orders; table Measurement | cloth and units of an item, item total, delivery, discount, repricing on every read; save a measurement profile | catalogue (MongoDB reads, one document at a time), orders |
| **Notifications** `queues/notificationWorker.ts` | BullMQ jobs in Redis | take `order-confirmed`, mail the customer, mail the shop | orders (producer), mail providers, the process it runs in |
| **Catalogue replication** `catalog-service/src/redis.ts`, `api/src/queues/catalogEventWorker.ts` | Redis stream and consumer group, table CachedProduct | publish after a product change, read, acknowledge, upsert or delete | catalogue service, orders |
| **Authentication** `services/authService.ts`, `handlers/auth.ts` | User row (password, lockout, refresh token, one-time code, reset link), cookies | register, log in, verify the code, refresh, log out, password reset | mail providers, gateway |
| **Catalogue service** `catalog-service/src/services` | MongoDB products, categories, fabrics, fabric categories | create, update, delete, list | Cloudinary, replication, orders |
| **Processes and connections** `api/src/app.ts`, `catalog-service/src/server.ts`, `catalog-db/src/connection.ts` | connection, retry counter, countdown timer, shutdown in progress | connect with backoff, reconnect, give up and exit, shut down | MongoDB, PostgreSQL, Redis, the orchestrator |
| **Gateway** `gateway/` | none but its tables | authenticate, check permissions, choose the service, proxy, drain | both services |

The hard part of the system is the first row: four kinds of callers confirm,
reprice, replace, cancel and delete the same order at the same time, every
operation reads, waits for Paystack or the catalogue, and then writes what it
decided before it waited. Paystack redelivers its webhook, a checkout link
outlives the order it was made for, and nothing but the row locks of PostgreSQL
at READ COMMITTED orders the writes. The same habit - read, await, write by id -
runs through authentication (bcrypt and mail in between), the catalogue service
(several MongoDB commands without a transaction) and pricing (one document per
await), so that overlapping requests are the common theme of the models.

What makes each component correct:

* **Orders**: the tables never say more than Paystack does; rows of an order
  come and go together; the history accounts for the state; one row per outcome
  however many confirmations overlap; no notice without a charge; no webhook
  acknowledged before the confirmation is on record; a charge is recorded in the
  end. A paid order is not repriced, reopened, failed or deleted, a cancelled one
  not confirmed, a charge not announced twice - which the code does *not* keep
  (section 10).
* **Pricing**: the breakdown adds up, the units cover the cloth, and an
  undisturbed answer shows today's price.
* **Notifications**: a job tries both mails, mails a customer at most once more
  than it stalled, and ends.
* **Replication**: every event is processed once; a row never goes back to an
  older version; the last word published about a product is the one kept; the
  table goes through the states of the catalogue in order. How much of this holds
  depends on how many admins write and how many API processes read (section 4).
* **Authentication**: locks follow failures; a session was earned with the
  password on record; a code and a link work once; all of it but for updates that
  were overtaken, and for a code that lifts a lock (section 10).
* **Catalogue**: a fabric and its category refer to each other; the default style
  is one offered; a product's categories were real ones.
* **Processes**: a lost connection ends in a reconnection or an exit; a process
  told to stop while it has MongoDB stops; once the servers are back, so are both
  services.
* **Gateway**: its tables and the routes agree; a call's handler runs at most
  once; every call is answered once what its handler waits for is there.

## 2. Modules and plan

| Module | What it is | State of the plan |
|---|---|---|
| `Paystack`, `OrderPayments`, `OrderContract` | orders, their payments and the promise to a customer | done |
| `OrderPaymentsProofs` | type, inductive invariant, seven safety properties | done |
| `OrderContractProofs` | only overtaken requests leave OrderContract; requests that do not overlap keep it | done |
| `CatalogReplication`, `Replica`, `CatalogReplicationProofs` | the stream and the table, and what a copy can promise; the first implements the second when nothing fails and requests come one at a time | done |
| `AuthSession`, `AccountContract`, `AuthSessionProofs` | requests on one account; the account with one request at a time; the first implements the second but for overtaken updates | done |
| `ServiceLifecycle`, `NotificationQueue`, `NotificationQueueProofs` | the processes; the queue, composed with the process its worker lives in | done |
| `CatalogAdmin`, `CatalogAdminProofs` | requests on the documents of the catalogue | done |
| `Quotes`, `QuotesProofs` | the price of an order as the catalogue changes; profiles | done |
| `Gateway`, `GatewayProofs` | four tables and the way of a call | done |

Each `MC...` module only adds the sets of symmetries, the constraints and the
values that a configuration cannot spell.

Left: `RowLocks`, the transactions of orderService statement by statement with
row locks, implementing the atomic writes OrderPayments takes them for, up to the
deadlocks PostgreSQL breaks (confirmPayment locks payment then order, repricing
and deletion the other way round).

## 3. Orders and payments: the model

`Paystack` is the provider as the client sees it: transactions by reference, an
amount fixed when the transaction is initialised, and a state that only the
customer changes. A declined transaction can be tried again and succeed
(an assumption about Paystack: the checkout link stays open after a decline).
A charge is final. Unknown references make the call fail.

`OrderPayments` is orderService.ts. Its variables are the three tables (functions
whose domain is the set of keys), `history` summarised per order as counts of the
rows confirmPayment writes and the set of statuses staff wrote, `issued` (how
many references an order has had), `jobs` (order-confirmed jobs per order),
`price` (what the catalogue makes of the order today), `acked` (references whose
webhook got its 200), `faults`, and `req`: one record per request in flight, with
its program counter and the local variables that survive an await.

An action is the code between two awaits:

| Code | Actions |
|---|---|
| createOrder | CreateOrder (prices the items), InsertOrder (the transaction), InitializeOrder (Paystack, after the commit) |
| confirmPayment | ReadPayment (in Webhook, VerifyFromClient, ConfirmRead), ConfirmVerify, then ConfirmLock, ConfirmWrite, EnqueueNotification or QueueRefuses; or FailLock, FailWrite; RowGone where the update finds no row |
| getOrderById, revalidateOrderPricing | GetOrder or PaymentIntent, ComparePrice, Reprice |
| initializeOrderPayment | PaymentIntent ..., IntentReadPayment, IntentVerify (then confirmPayment from ConfirmRead, or on), IntentInitialize, UpsertPayment |
| deletePendingOrder | DeleteOrder, DeleteReadPayment, DeleteVerify, DeleteRow |
| updateOrderStatus | UpdateOrderStatus, UpdateWrite |
| exceptions, crashes | Fault: the request ends, or goes on where the code catches (Catch) |

Granularity. Prisma's interactive transactions run at READ COMMITTED. The SELECT
a transaction starts with locks nothing, so it is a step of its own (ConfirmLock,
FailLock). The writes start with the UPDATE of a row, which waits for any other
writer of the row; what the transaction reads after it, it reads while holding
the lock, so the rest of the transaction with its commit is one step. A
transaction aborted as a deadlock victim is a Fault.

Left out: authorisation (each caller of the model may do what it asks, except
for the rules about the status and the tailor of an order), the signature of a
webhook (webhooks are genuine), items, images and notes, the second read of the
order in confirmPayment (it can only find the order deleted, which the update
finds as well). A payment is REFUNDED nowhere in the code. A price is one number
here; how it comes about is in `Quotes`.

`OrderContract` is what a customer of the service may rely on, in seven steps:
placed, requoted while pending and unpaid, charged, confirmed after a charge,
announced at most once per charge, worked on, withdrawn while pending and unpaid.
OrderPayments implements it as long as no two requests in flight work on one order
(run orders_serial; proved for any number of orders and requests, section 12).
When they do overlap, OnlyOvertakenBreakContract says which steps may leave it,
and that no other does: a quote, a new reference or a deletion by a request whose
order was settled since it read it, a declined charge written over a confirmed
payment, the second notice of one charge (`Overtaken`), and staff putting an order
back to PENDING (`Reopens`). What confirmPayment writes for a charge is never
among them.

## 4. Replication: the model

`CatalogReplication` holds both ends of the Redis stream. The stream is the
sequence of all entries ever added, with two positions: `trimmed`, up to which
MAXLEN has cut it, and `taken`, up to which the consumer group has handed it out;
`pending` is the group's list of unacknowledged entries. A consumer's batch is an
interval `next..last`, since XREADGROUP with `>` hands out consecutive entries.
A row is its slug, unique in MongoDB and in PostgreSQL, and the number of the
catalogue write it came from, which stands for the other fields; the number of an
absent row is that of the write that removed it. (Nothing in the repository reads
CachedProduct yet: orders price from MongoDB.)

| Code | Actions |
|---|---|
| create, update, deleteProductHandler | CreateProduct, UpdateProduct, DeleteProduct (the MongoDB call), then PublishCatalogEvent, PublishIsLost (the error it swallows, or a crash) or PublishIsRepeated |
| fabric handlers | ChangeFabric, then the same; the worker ignores these events |
| startCatalogEventWorker | StartCatalogEventWorker, StartFails (returns for good) |
| its loop | ReadStream, ReadNothing, ReadIsLost; for each message Acknowledge or AcknowledgeFails, then ProcessEvent, ProcessEventRejected (slug taken, row gone) or ProcessEventFails (PostgreSQL away) |
| SIGTERM, crash | Exit; the process may start again |

Assumed of what is outside the repository: Redis keeps the order of XADDs, hands
an entry to one consumer of a group, and trims at its own discretion but never
below MAXLEN; ioredis sends a command again when the connection broke before its
reply (`maxRetriesPerRequest: null`); a MongoDB write of one document and a
Prisma upsert or delete by id are atomic. The trimming of the dead-letter stream
and the JSON text of an event are left out: the producer's JSON always parses.

`Replica` is what an asynchronous copy can promise at best: it passes through
every state of its source in order. The refinement reads the backlog off the
unprocessed part of the stream and the event about to be published (`ToCome`):
one state of the catalogue for every event. That the worker processes a prefix of
the stream, so that what is unprocessed begins after as many entries as were
handled, is part of what the proof shows and not of the model's actions.

## 5. Pricing and profiles: the model

`Quotes` is what an order costs. Units are exact: money in thousandths of a
naira, cloth in hundredths of a yard, patterns in twentieths of a centimetre. The
code computes in binary floats, which are not modelled: its discount is `* 0.1`
(orderService.ts:421, 900) and Paystack is sent `amount * 100` unrounded
(paystackService.ts:80), so that a total of 9006.3 naira, which is 10007 less
JHAZ10, goes out as 900629.9999999999 kobo where the model has 900630. Nothing is
claimed here of the kobo a total comes to. Prices may have fractions of a naira,
as the schemas allow, down to a tenth of a kobo. The formulas (`Yards`, `Units`,
`ItemTotal`, `GrandTotal`) are calculateFabricYards and the pricing engine with
their roundings; `UnitsFitTheCloth` compares them with the need they round.

| Code | Actions |
|---|---|
| createOrder | BeginCreate, then per item ReadProduct and, if a fabric was chosen, ReadFabric, then StoreNew (compares with expectedTotal, within a naira) |
| getOrderById, revalidateOrderPricing | BeginRead, the same two reads per item, StoreRead (writes when something differs) |
| createMeasurement | CountProfiles, AddProfile |
| the catalogue's administrators | Edit: a product changes, is deactivated or goes; a colour changes or goes |
| an error at any await | Leave |

What the code reads item by item the model reads item by item, so a price may
change between two items of one order. On a later read a product that has been
hard-deleted keeps its old prices, and a fabric is never removed from MongoDB
(its `deletedAt` is not looked at here), only its colours are.

`quiet` is not in the code: it says that nothing a request depends on was written
since it began, and makes AnswerIsCurrent the statement that the only reason for
a stale answer is a change in its midst.
ProfilesAreBounded gives the true limit of the count-then-insert: two for one
request at a time, one more for every further request in flight.

`DashInName` says whether the fabric's own name holds the separator of
"<fabric> — <colour>". With TRUE, AnswerIsCurrent is violated (section 10).

## 6. Authentication: the model

`AuthSession` is one account, any number of browsers, and requests on it, each
cut where the code awaits. Tokens are named by the second they were signed in,
because a refresh token holds the user's data and that second and nothing else.
The code's three tiers of lockout are two here: one that passes, one for good.

| Code | Actions |
|---|---|
| register | Register, InsertUser, StoreToken, RegisterAnswers |
| login | Login (which branch the password and the device lead to), LoginFails; StoreCode, MailCode, AnswerTemp; LoginSucceeds, StoreLogin, LoginAnswers |
| verifyAdminOtp | VerifyAdminOtp, StoreVerified, VerifyAnswers |
| refresh | Refresh, Rotate, RefreshAnswers |
| logout | Logout: it ends the browser's cookie only (section 10) |
| requestPasswordReset, resetPassword | RequestPasswordReset, MailLink, ResetPassword, CleanReset, StorePassword |
| time, failures | Tick, RowExpires, BrowserExpires, Break |

`AccountContract` is the same account when every operation takes effect at once.
KeepsContract says the two differ only by updates that were *overtaken*: the row
no longer holds what the request read and goes by (`Overtaken` lists that, per
update). That is the precise shape of what may go wrong here, and the only one:
two requests redeeming one code, wrong passwords counted once, a rotation after a
reset. Codes and links are numbered, and the contract has each good once. Its
Redeem is for an account that is not locked; verifyAdminOtp looks at no lock, so a
code mailed before the lock came signs in and lifts it, and KeepsContract names
that step as the other exception (`UnlocksByCode`). `row.under` is not in the code: the password the session on record was
earned with, or -1 if the request that wrote it had been overtaken; with it
SessionsAreEarned says that a reset ends the sessions of the old password. That
LockFollowsFailures holds whatever is overtaken shows that the check of a count
without a lock (authService.ts:131) never decides.

## 7. Gateway: the model

`Gateway` holds the four places where it is written who may do what - the public
routes of `auth.js`, the permissions of `rbac.js`, the service map of
`routes/index.js`, and the routes of both services in the order they are mounted
with their roles and CSRF checks - and the way of a call through them: Receive
(the middleware), Serve (first route that fits, authenticate, authorize, CSRF),
Handle, Reply; Limited and ServiceLimits (a rate limit may refuse at any time);
ProxyFails (refused or reset, before or after the handler ran); stops
and starts of the services; gracefulShutdown, Exit, Start. The calls are all
routes with all kinds of callers, and paths nobody serves. A caller has a role, no
token, an expired one, or a valid one that names no role, such as the device token
(authService.ts:339), which has the same secret. Headers and bodies are left out.

`backends` says whether the databases, Redis and the providers answer. The gateway
sets no response timeout (proxyRequest.js:91-102), and a handler may wait for them
without end: the catalogue's writes await the publication, whose client keeps the
command until Redis is back (`maxRetriesPerRequest: null`, redis.ts:7).

The divergences the tables do have are named in TablesAgree rather than hidden:
`rbac.js` keeps tailors from `GET /api/v1/categories`, from changing their
profile and from the other calls of `KeptFromTailors` though the services would
not; logout and the fabric formula ask for a token at the gateway only; and a
token without a role passes `rbac.js` (89-91) and is refused by the service (401,
authenticate.ts:69). Of paths: `GET /health` with a customer's token is 403, since
no role is granted it; the gateway's own 404 is reached only by a token without a
role, since no role is granted a path outside the service map. One grant is for
nothing: `rbac.js:73` lets tailors read `/api/v1/admin/products`, where the
catalogue service has no GET and its router refuses all but administrators. (The
model has no such call, as no route is one.)

## 8. Catalogue service: the model

`CatalogAdmin` is the administrators' requests on fabric categories, fabrics,
product categories and products, as far as documents refer to each other. An
action is one MongoDB command with the code up to the next; Fail ends a request
between any two. The list of fabrics in a category is a set ($addToSet, $pull).

Two requests that share a document have *met*; what a request that met another,
or stopped half-way, wrote is `disturbed`. Both are ghosts, and the properties
say that nothing but these breaks the references. Alone and uninterrupted, each
operation leaves them consistent. Some things are as they are in the code and are
not judged: moving a soft-deleted fabric lists it again; a move to a category that
does not exist answers 404 with the fabric already off its old list; an empty
default style passes an update (`Blank`); a product keeps the name of a category
that is deleted.

Publication of the changes is in CatalogReplication; names, descriptions and
pictures, which nothing refers to, are left out.

## 9. Processes and the notification queue: the model

`ServiceLifecycle` is the core API and the catalogue service as processes:
Connect, ConnectFails, Retry (the backoff of connection.ts), CheckSql, the
listeners LinkLost and LinkBack with the 30 second countdown, CountdownEnds,
Signal with the steps of each gracefulShutdown, Kill, Start by the orchestrator
(`restart: unless-stopped`). Delays are not counted: a timer may fire whenever it
is set. `NotificationQueue` extends it, because the worker runs inside the core
API and ends with it: the end of that process, however it came about, loses the
jobs being added and leaves those at work as orphans (`Losses`, part of every
step of a process).

| Code | Actions |
|---|---|
| confirmPayment's `add` (not awaited) | Confirm, Added |
| BullMQ's worker | Take, Complete, Stalled |
| handleOrderConfirmed | SendCustomer, SendAdmin |

What the model shows about shutdown: `mongoose.disconnect()` raises
"disconnected", whose listener starts the countdown again; when Redis does
not answer `quit()`, it is this countdown that ends the process (ShutdownEnds,
and its mutant without the listeners). The event tells of a change, so there is
none when the link was lost already: MongoDB lost, then a signal, which clears the
timer (connection.ts:114-117), then a Redis that does not answer (server.ts:138)
leave nothing but the orchestrator's Kill to end the process. ShutdownEnds is
therefore about a process that has MongoDB as it closes the connection; without
that premise the run violates it, with just these three faults. Outside the model: a lock that expires
while its worker lives, two API processes on one queue, and Redis evicting jobs
(`allkeys-lru`, docker-compose.yml:186). ADMIN_EMAIL is taken to be configured.

## 10. Where the code and its words disagree

Two are violation runs with a counterexample of a dozen steps:

* **deleted** - deletePendingOrder checks the status, asks Paystack, and deletes
  by id alone, so an order confirmed meanwhile is deleted with its payment
  (against orderService.ts:1120).
* **replication_dlq** - processEvent catches its own errors, so a failed event,
  already acknowledged, is gone instead of in the dead-letter stream (against
  catalogEventWorker.ts:60). No server has to fail for it: one admin creates a
  product, another deletes it before the first has published, and the deletion is
  published before the creation, so that its delete finds no row. (A slug that one
  product gives up and another takes is a second way there, not TLC's.)

The others are of the same kind and stated beside them. Each of the first four is
violated when it takes the place of OnlyPendingIsDeleted in
`OrderPayments_deleted.cfg` (OneNoticePerCharge as an INVARIANT):

* `CancelledIsFinal` - confirmPayment writes CONFIRMED whatever the status, so a
  late charge revives a cancelled order (against orderService.ts:1232); add
  "update" to Operation and set UpdateStatus to {"CANCELLED"}.
* `OneNoticePerCharge` - two overlapping confirmations both enqueue the notice:
  the re-check in the transaction takes no lock (against orderService.ts:674). The
  history row is written once all the same.
* `CompletedIsNotFailed` - FAILED from an older verification is written over
  COMPLETED (against orderService.ts:513).
* `CompletedIsNotReopened` - the status is checked before the calls to Paystack
  and the row then written by id alone (against orderService.ts:1053).
  revalidateOrderPricing has the same pattern around its call to the catalogue.
* `PermanentLockStays` (PROPERTY in `AuthSession.cfg`) - 20 failures are a
  "permanent lockout (admin unlock required)" (authService.ts:102; "admin
  intervention required", db/prisma/schema.prisma:56). verifyAdminOtp (278-313)
  looks at no lock and clears it: an administrator's code mailed before the last
  failures opens the account.
* `ResetOpensAccount` (PROPERTY in `AuthSession.cfg`) - the message of a locked
  account says to wait "or reset your password" (authService.ts:126);
  resetPassword leaves the failures and the lock as they are.
* `AnswerIsCurrent` with `DashInName = TRUE` in `Quotes.cfg` - colorName is what
  stands between the first " — " of the fabric's label and the next
  (orderService.ts:395), so for a fabric whose own name holds one it is not the
  colour, and the next read prices the order as the fabric's first colour.
* Notifications: "Jobs are retried up to 3 times" (README.md:358) applies to no
  failed mail, as the handler swallows both errors and returns; three attempts are
  configured and no step of the model, or of the code, uses them.
* Logout "invalidates a user's refresh token" (authService.ts:389), but the
  cookie's path is `/api/auth/refresh` (handlers/auth.ts:22), so the browser does
  not send it to `/api/auth/logout`: the row keeps the token (`Logout`).
* `/api/health` says MongoDB is connected for ever after the first connection
  (app.ts:46 sets the flag and nothing clears it). Not modelled.

OrderContract holds again as soon as requests do not overlap (orders_serial), so
each of the order's needs concurrency, or for CancelledIsFinal a charge after the
cancellation.

## 11. Runs

| Run | Instance | What it shows |
|---|---|---|
| orders_safety | all operations but the plain read of an order, which a payment intent begins with anyway; 2 requests, 2 references, 2 prices, no tailor | four safety invariants, the inductive invariant of the proofs (type correctness and the other three are conjuncts of it), and that only overtaken requests leave OrderContract |
| orders_live | create, verify, intent; 2 requests, 1 failure; FairSpec | a charge gets its confirmation on record; the three invariants a failure could break |
| orders_serial | all operations, 1 request, 1 failure | the service implements OrderContract when requests do not overlap |
| deleted | create, verify, get, intent, delete; 2 requests | section 10 |
| replication_worker | 2 admin requests, 1 API process, 2 products, 2 slugs, 3 writes, 2 failures, MAXLEN 1 | each entry is handled once; the last word applied is kept; rows go back only if overtaken |
| replication_replica | 1 admin request, 1 API process, 4 writes, no failure; FairSpec | implements Replica and catches up |
| replication_dlq | 2 admin requests, no failure | section 10 |
| sessions | 2 browsers, 2 requests, 2 seconds or 2 codes or links, 1 reset | locks, sessions, and that only overtaken updates and a code that lifts a lock leave AccountContract |
| gateway | 1 call at a time out of all of them; FairSpec | the tables agree but where named, no route hides another, handlers run once, calls are answered once backends stay |
| catalogue | 2 requests; 2 fabric categories and 2 fabrics, or 1 product with 2 styles and 1 category | references hold but for requests that met or stopped |
| services | both processes, 1 retry, 3 failures or signals with 1 job or 2 with 2 jobs; FairSpec | countdown and link, mails, and the three liveness properties |
| quotes | 2 requests, 2 edits, 2 prices, carts of one and two items; 2 profiles | the price of an order through edits of the catalogue |

Bounds. `Order` is how many orders are ever created, `MaxRef` references per
order, `Price` the totals the catalogue can give, `Request` requests in flight at
one moment (slots are reused, so any number of requests in sequence), `MaxFault`
failures, `Operation` and `UpdateStatus` what is asked. One order is enough for
the interactions, which are all about one order: two orders share no row. Two
references are enough for "old" and "new", two prices for "changed", and two
requests for every race found here; the proofs cover any number of each. Tailors
work on orders in orders_serial; no run has staff put an order back to PENDING, which
multiplies the states: that this step is one of those that may leave the contract
(`Reopens`), and what the invariants say after it, is left to the proofs.

Replication: `MaxWrite` writes to the catalogue, `BatchSize` (10 in the code) 2,
so that a batch can be left half done, `MaxLen` (10000) 1 where trimming matters.
Two products and two slugs are what a slug conflict needs, three writes what an
overtaken update or a slug given up and taken again needs.

Sessions: `MaxClock` 2 so that tokens of one second and of different seconds both
occur, `Tier1` 1 and `Tier3` 2 (5 and 20 in the code) so that both locks are
reached, `MaxSecrets` 2 codes or links, so that a new one can be lost to the
clean-up of an old one, `MaxPassword` 1 reset. Constraint `ClockOrSecrets` has a
second second or a second secret, but not both; the proofs have any number.

Gateway: calls share nothing but the processes they run in, and the proof of
its three invariants has any number at a time.

Catalogue: two categories are what a move needs, two fabrics what tells a list
from its members. Constraint `Apart` keeps a run from mixing the fabrics' half
with the products' half, which share no document; the same for profiles and orders
in `quotes`.

Services: `MAX_RETRIES` 1 (5 in the code) has a retry and an end of retries;
`Concurrency` 1 (5) with two jobs makes one wait; `MaxStalled` 1 is BullMQ's
default; three faults are MongoDB lost, a signal and Redis lost. Action constraint
`FaultsOrJobs` allows the second job only with two faults: it holds back
handing-over, failures and signals, about which no fairness is assumed, so the
liveness properties are checked on complete behaviours.

Quotes: prices of 1 and of 2.995 naira, which has a fraction of a kobo, units of 1.00 and 1.50 yards; two edits
are one between two reads of a request and one after it.

Deadlock is not checked in replication_worker (a worker whose start failed stays
away once the failures and writes are used up), sessions (the clock and the
secrets run out and every request has ended), catalogue (ObjectIds are never used
twice, so the run ends when all are used and gone) and services (with the faults
used up, both processes serving and all jobs ended, nothing is left to do).

Request slots are interchangeable and no property tells them apart, hence the
symmetry, and so are products, slugs, admin requests, API processes, browsers,
fabrics, categories and styles; the liveness runs and `replication_replica` go
without it.

Fairness. Orders: a request that can take its next step takes it (Node's event
loop runs every continuation; calls to Paystack and PostgreSQL return or throw),
and a webhook for a charge that is deliverable again and again is delivered
(Paystack retries until it gets a 200, and a server that is up accepts it).
Nothing is assumed of customers, browsers, staff or the catalogue. Replication: a
publication that was begun and a consumer that can go on do go on, and an API
process that is down starts (the container is restarted). Services: weak fairness
of what a process does by itself, its restart included, and of each job's next step;
nothing of servers and signals - the liveness properties say "once every server
stays reachable". Gateway (`Advances`): a service that is up serves and replies, a
handler goes on while its backends answer, and a call to a process that is not
there, or no longer, ends in an error. Nothing is assumed of clients, signals,
starts and backends, and no other failure of a connection is relied on;
EveryCallIsAnswered has the premise that the backends answer from some time on.

Definitions such as AnyOutcome, LogAlways or CountDown stand before the definition
they are a variant of. They are plausible mistakes (a dropped guard, a check of
the wrong field) that no specification uses; each property of a passing run is
violated when one of them replaces the original.

## 12. Proofs

`OrderPaymentsProofs` proves, for every number of orders, references, requests,
prices and failures, under the assumptions named in the modules
(MaxRefAssumption, PriceAssumption, UpdateStatusAssumption, MaxFaultAssumption):
TypeCorrect, InductiveInvariant, and from it each safety invariant of the runs.

The invariants are not inductive. That ConfirmWrite may write COMPLETED follows
from what the request was told by Paystack several steps earlier, so the
strengthening says, for each step of a request, which locals it has read
(RequestShapes) and what it knows (RequestKnowledge: at confirmWrite its
reference was charged, at failWrite it was declined, at enqueue the order, if it
is still there, has its confirmation on record). That this knowledge does not go
stale rests on two facts: Paystack never takes back a charge (TxnsGrow), and an id
is given to one order only (IdsAreFresh), without which a deleted and recreated
order would inherit acknowledgements. The proof goes action by action; QuietStep
covers the actions that only read, WriteStep those that write, and each writing
action has a lemma of its own.

`CatalogReplicationProofs` proves, for any number of products, slugs, admin
requests, API processes, entries and failures, CatalogTypeCorrect and
EntriesAreHandledOnce; the latter needs that an entry being applied has been
acknowledged already (AppliedIsAcknowledged). With one API process (OneWorker)
it proves LastWordsAreKept: entries are processed in the order of the stream
(ReadInOrder), hence a row is what its last applied entry says
(RowsFollowStream); and RowsGoBackIfOvertaken: a row is what some applied entry
says (RowsAreApplied), which is behind the entry in hand. With one admin request
at a time as well (OneAdmin) the stream is sorted by write for each product
(StreamIsSorted, since what an admin has yet to publish is later than all of it:
AdminIsLatest), so that rows never go back: CacheGoesForward.
Both hypotheses are needed: with two admin requests publications may overtake
each other, with two processes batches may.

TableIsReplica is the refinement of Replica, with those two hypotheses, with no
failure (`MaxFault = 0`: a lost publication or a failed upsert skips a state for
good) and as long as Redis trims nothing unread (`[](trimmed <= taken)`);
TableIsReplicaOfShortHistory drops the last where the stream has room for every
write. The invariant has two parts. InStep: the handled entries are the first n,
and what the worker has in hand is the next. InSync: applying the events to come
to the table gives the catalogue, and no event of them can fail at its turn
(Fits), which is why ProcessEventRejected never happens here: an event is added
to the queue in the state of the catalogue that admitted the write, and the table
will be in that state when the event's turn comes. Applying events is `State`,
the last event about each product; that one event more is one step more
(StateStep) and that two runs over the same events agree (StatesAgree) are proved
by the least number at which they would not, since an induction principle cannot
be cited.

`OrderContractProofs` proves OvertakenBreakContract, step by step: each action that
writes rows or adds a job is the contract's step of that name, seen through the
refinement, or its request is overtaken. On top of the invariant of
`OrderPaymentsProofs` it needs only that a request about to requote an order or to
replace its reference had read PENDING (DecidedInv). This does not go stale, being
about locals; that the row has changed since is what Overtaken says.

The refinement of OrderContract follows: SerialKeepsContract, for any number of orders, requests, references, prices and failures, in every
behaviour in which no two requests in flight work on one order (NoOverlap), and
OneAtATimeKeepsContract, where there is one request. Its other hypothesis,
that `UpdateStatus` has no PENDING, is needed since staff may otherwise reopen a
paid order. On top of the above it needs SerialInv, under which nobody is overtaken
(AloneIsNotOvertaken): a completed payment belongs to an order that was placed, and what a
request has read of its order is so still (Current) - while the same is false as
soon as requests overlap, which is all that separates the code from the contract.
A first version was not inductive: at "enqueue" Current must also say that the
payment is on record and no job queued yet, or a second announcement could not
be excluded.

`AuthSessionProofs` proves, for any number of browsers, requests, seconds, codes,
links and resets and any tiers (TierAssumption, BoundAssumption,
NobodyAssumption): TypeCorrect; LocksFollowFailures (with what a request at
LoginFails may have read: its count was below the last tier); SessionsEarned; and
ContractKept, the refinement of AccountContract. The last goes action by action:
a step that does not touch the row stutters, one that was overtaken is excused, a
redeemed code finds a lock or none, and any other step finds in the row what it
read, so that it is the contract's step of the same name. Codes and links are
numbered as they are sent, so that each step that stores one is a sending.

`NotificationQueueProofs` proves, for any number of jobs, retries, failures and
stalls (RetriesAssumption, QueueAssumption): TypeCorrect; CountdownsFollowLinks,
from an invariant of the processes (LinkOK: a process in backoff has attempts
left, one still connecting has no connection and no countdown, one about to close
its connection has one); MailedOncePerRuns, from what each place of a job says of its mails
(MailOK: at most `stalls` were sent before the customer's mail of this run).

`CatalogAdminProofs` proves all four invariants of its run, for any number of
requests, fabrics, categories, products and styles (NoneAssumption; and
ObjectIdAssumption: MongoDB never gives two documents one id). TypeCorrect needs
only what a request holds at each place. ListsStayInStep needs most: for a fabric that is not disturbed, either
nobody is moving it and the lists agree, or one request is and, unless it met
another, the lists are as its place says - still on the old list only at "pull",
on none at "push" or "add" (FabricOK, MoveOK); that a request which deletes a category and met no one
has seen every fabric that names it (DeletionsOK); and that two requests which
share a document have met (MeetOK), so that a request that met none works alone.
DefaultStaysOffered needs what an update that met none leaves of its product
(UpdateOK), CategoriesStayKnown that a category once looked up has been there.

`QuotesProofs` proves ProfilesBounded for any finite number of requests
(RequestAssumption) and any catalogue: the profiles and the requests that have
counted and not yet inserted are together at most 1 + |Request|. Of the price of an
order it proves, for any carts, catalogue and number of edits and requests
(CartAssumption, StartAssumption, PriceAssumption, FabricAssumption,
BoundAssumption: what the schemas allow), TypeCorrect,
BreakdownSums, UnitsSuffice and AnswersCurrent. Any moment of a request
has lines that are each consistent in themselves, though priced from catalogues of
different moments (LineOK, Priced); a total is a number because every line is,
by the least number of lines whose sum would not be (the sum is a fold); that a
line is rounded to the nearest kobo is TotalRounds;
UnitsSuffice is arithmetic about Math.round and Math.ceil for all measurements.
AnswersCurrent needs what an undisturbed request knows (QuietOK: the lines it has
done have today's prices, the document in its hands is today's, the order is the
one it read) and that the fabric's name holds no dash (`~DashInName`, without which
it is false, section 10).

`GatewayProofs` proves, for any number of calls at a time, HandlersRunOnce, from the
count of runs each place of a call allows, and RoutesAreNotShadowed and
FourTablesAgree, from what each place says of its call (Tells: a call in flight
passed the gateway's tables, a refusal is the one they give, a name is the call's
own). These rest on TablesOfCall, about any call a client can make. The tables are
constants, but the prover cannot evaluate them, and comparing every call with every
route would be thousands of obligations; so a table is called good when it is in
order (no route shadows a later one), lies under its prefixes and agrees with the
gateway (GoodTable). Each router is shown in order by the first words of its
routes, mounting keeps that (MountIsGood), tables under different prefixes can be
joined (ConcatTables, PrefixesApart), and the gateway's side is argued once for each
kind of route instead of each route (AuthAgrees, OrdersAgrees, ReadAgrees,
AdminAgrees). The route a call fills in is then the first that fits it (OwnRoute).

Each invariant found for a proof was checked with TLC on the instance of the run
of its property before it was proved; OrderPayments' IndInv still is, in
orders_safety.

Only model-checked: the liveness properties (ChargeIsRecorded, EntriesAreHandled,
ServiceComesBack, ShutdownEnds, JobsEnd, EveryCallIsAnswered: fairness is out of
the prover's reach), and the violations. Every safety property and every action
property of a passing run is a theorem; the type invariant of Quotes is proved only.

## 13. Not modelled

* E-mail templates, seed data, container and build files, and the declarations of
  `packages/shared`: text, data and shapes of input; what the schemas admit is what
  the modules take as input.
* Searches, listings and uploads: reads and hand-overs that change nothing the
  other operations look at.
* Orders: authorisation and webhook signatures, items and images, listings; that
  two references made in one millisecond are equal (orderService.ts:459), where
  the unique index makes the later request fail.
* Pricing: binary floats, and with them whether what Paystack is asked is whole in
  kobo (section 5); updateMeasurement.
* Authentication: profile changes, the list of tailors, the service of breached
  passwords (a refusal, which Break is), CSRF tokens (Gateway has who must send
  one), hashing.
* Notifications: handleStatusUpdated, for a job nobody adds; mail providers beyond
  taking a mail or not.
* Catalogue: changes of fields nothing refers to; that addCategory answers 500 and
  not 409 when two requests insert one slug.
* Gateway: headers, bodies, and the counts of the rate limits.
