------------------------- MODULE CatalogReplication -------------------------
(***************************************************************************)
(* Replication of the product catalogue. The catalogue service changes a   *)
(* product in MongoDB and then publishes an event on a Redis stream        *)
(* (packages/catalog-service/src/handlers/adminProducts.ts and redis.ts);  *)
(* a worker of the order API reads the stream through a consumer group and *)
(* writes the table CachedProduct                                          *)
(* (packages/api/src/queues/catalogEventWorker.ts).                        *)
(*                                                                         *)
(* The stream is the sequence of all entries ever added; the first trimmed *)
(* of them are gone, and the group has handed out the first taken of them. *)
(* A row is its slug, which is unique in both databases, and the number of *)
(* the catalogue write it came from, which stands for its other fields.    *)
(* An absent row has the slug NoSlug.                                      *)
(***************************************************************************)
EXTENDS Integers, Sequences, FiniteSets

CONSTANTS Product,     \* ids MongoDB may give to products
          Slug, NoSlug,
          NoProduct,   \* the id of an event that is not about a product
          Admin,       \* admin requests in flight in the catalogue service
          Worker,      \* API processes; each runs one consumer of the group
          BatchSize,   \* COUNT of xreadgroup
          MaxLen,      \* MAXLEN of the stream
          MaxWrite,    \* bound: writes to the catalogue
          MaxFault     \* bound: failures

ASSUME NamesAssumption == NoSlug \notin Slug /\ NoProduct \notin Product
ASSUME BatchSizeAssumption == BatchSize \in Nat \ {0}
ASSUME MaxLenAssumption == MaxLen \in Nat
ASSUME BoundsAssumption == MaxWrite \in Nat /\ MaxFault \in Nat

VARIABLES
    catalog,   \* MongoDB: the row of every product id
    writes,    \* writes to the catalogue so far
    admin,     \* per admin request, the event it has yet to publish, if any
    stream, trimmed, taken,
    pending,   \* entries handed out by the group and not acknowledged
    worker,    \* per API process, where its consumer is
    next,      \* the batch in its hands is the entries next..last
    last,
    cache,     \* table CachedProduct
    applied,   \* entries processed without an error
    failed,    \* entries whose processing failed
    dlq,       \* entries in the dead-letter stream
    faults     \* failures so far

mongo == <<catalog, writes>>
redis == <<stream, trimmed, taken, pending, dlq>>
api == <<worker, next, last>>
table == <<cache, applied, failed>>
vars == <<catalog, writes, admin, stream, trimmed, taken, pending, worker,
          next, last, cache, applied, failed, dlq, faults>>

Row == [slug: Slug \union {NoSlug}, write: 0..MaxWrite]
Absent == [slug |-> NoSlug, write |-> 0]

EventType == {"PRODUCT_CREATED", "PRODUCT_UPDATED", "PRODUCT_DELETED",
              "FABRIC_CHANGED"}
Event == [type: EventType, id: Product \union {NoProduct}, row: Row]
NoEvent == [type |-> "NONE", id |-> NoProduct, row |-> Absent]

Entries == 1..Len(stream)

Place == {"off", "stopped", "reading", "acking", "applying"}

Init ==
    /\ catalog = [p \in Product |-> Absent]
    /\ writes = 0
    /\ admin = [a \in Admin |-> NoEvent]
    /\ stream = <<>>
    /\ trimmed = 0
    /\ taken = 0
    /\ pending = {}
    /\ worker = [w \in Worker |-> "off"]
    /\ next = [w \in Worker |-> 1]
    /\ last = [w \in Worker |-> 0]
    /\ cache = [p \in Product |-> Absent]
    /\ applied = {}
    /\ failed = {}
    /\ dlq = {}
    /\ faults = 0

Fails ==
    /\ faults < MaxFault
    /\ faults' = faults + 1

(***************************************************************************)
(* The catalogue service. A request changes MongoDB in one atomic call,    *)
(* and only then publishes; a request that is refused changes nothing.     *)
(***************************************************************************)

Exists(rows, p) == rows[p].slug # NoSlug
SlugTaken(rows, p, s) == \E q \in Product \ {p}: rows[q].slug = s

(* A write of product p by request a, with the event it will publish. *)
WriteProduct(a, p, slug, type) ==
    LET row == [slug |-> slug, write |-> writes + 1]
    IN /\ admin[a] = NoEvent
       /\ writes < MaxWrite
       /\ writes' = writes + 1
       /\ catalog' = [catalog EXCEPT ![p] = row]
       /\ admin' = [admin EXCEPT ![a] = [type |-> type, id |-> p, row |-> row]]
       /\ UNCHANGED <<redis, api, table, faults>>

CreateProduct(a) == \E p \in Product, s \in Slug:
    /\ catalog[p] = Absent
    /\ ~SlugTaken(catalog, p, s)
    /\ WriteProduct(a, p, s, "PRODUCT_CREATED")

UpdateProduct(a) == \E p \in Product, s \in Slug:
    /\ Exists(catalog, p)
    /\ ~SlugTaken(catalog, p, s)
    /\ WriteProduct(a, p, s, "PRODUCT_UPDATED")

DeleteProduct(a) == \E p \in Product:
    /\ Exists(catalog, p)
    /\ WriteProduct(a, p, NoSlug, "PRODUCT_DELETED")

(* Changes of fabrics are published on the same stream. *)
ChangeFabric(a) ==
    /\ admin[a] = NoEvent
    /\ writes < MaxWrite
    /\ writes' = writes + 1
    /\ admin' = [admin EXCEPT ![a] = [NoEvent EXCEPT !.type = "FABRIC_CHANGED"]]
    /\ UNCHANGED <<catalog, redis, api, table, faults>>

(* XADD with MAXLEN ~: at least MaxLen entries stay, how many more is up to *)
(* Redis.                                                                   *)
AddEntry(event) ==
    /\ stream' = Append(stream, event)
    /\ trimmed' \in trimmed..Len(stream')
    /\ trimmed' = trimmed \/ Len(stream') - trimmed' >= MaxLen
    /\ UNCHANGED <<taken, pending, dlq>>

PublishCatalogEvent(a) ==
    /\ admin[a] # NoEvent
    /\ AddEntry(admin[a])
    /\ admin' = [admin EXCEPT ![a] = NoEvent]
    /\ UNCHANGED <<mongo, api, table, faults>>

(* XADD fails, and the handler answers as if it had not; or the catalogue  *)
(* service dies before it is sent.                                         *)
PublishIsLost(a) ==
    /\ admin[a] # NoEvent
    /\ Fails
    /\ admin' = [admin EXCEPT ![a] = NoEvent]
    /\ UNCHANGED <<mongo, redis, api, table>>

(* The connection breaks before the reply: ioredis sends XADD once more. *)
PublishIsRepeated(a) ==
    /\ admin[a] # NoEvent
    /\ Fails
    /\ AddEntry(admin[a])
    /\ UNCHANGED <<mongo, admin, api, table>>

(***************************************************************************)
(* The worker.                                                             *)
(***************************************************************************)

(* The group is created at 0-0, or exists already; taken is its position. *)
StartCatalogEventWorker(w) ==
    /\ worker[w] = "off"
    /\ worker' = [worker EXCEPT ![w] = "reading"]
    /\ UNCHANGED <<mongo, admin, redis, next, last, table, faults>>

(* Any other error of XGROUP CREATE: the worker returns, the API stays up. *)
StartFails(w) ==
    /\ worker[w] = "off"
    /\ Fails
    /\ worker' = [worker EXCEPT ![w] = "stopped"]
    /\ UNCHANGED <<mongo, admin, redis, next, last, table>>

(* The consumer goes to a place outside its loop over a batch. *)
Leave(w, place) ==
    /\ worker' = [worker EXCEPT ![w] = place]
    /\ next' = [next EXCEPT ![w] = 1]
    /\ last' = [last EXCEPT ![w] = 0]

FirstUnreadFromStart == trimmed + 1
FirstUnread == IF taken < trimmed THEN trimmed + 1 ELSE taken + 1
FullBatch == FirstUnread + BatchSize - 1
LastOfBatch ==
    IF Len(stream) < FirstUnread + BatchSize THEN Len(stream)
    ELSE FullBatch

FullBatchToRead == FullBatch <= Len(stream)
SomethingToRead == FirstUnread <= Len(stream)

(* XREADGROUP with id ">": entries the group has handed to nobody. *)
HandOut ==
    /\ SomethingToRead
    /\ taken' = LastOfBatch
    /\ pending' = pending \union (FirstUnread..LastOfBatch)
    /\ UNCHANGED <<stream, trimmed, dlq>>

ReadStream(w) ==
    /\ worker[w] = "reading"
    /\ HandOut
    /\ worker' = [worker EXCEPT ![w] = "acking"]
    /\ next' = [next EXCEPT ![w] = FirstUnread]
    /\ last' = [last EXCEPT ![w] = LastOfBatch]
    /\ UNCHANGED <<mongo, admin, table, faults>>

(* BLOCK runs out with nothing to read, and the loop goes round. *)
ReadNothing(w) ==
    /\ worker[w] = "reading"
    /\ ~SomethingToRead
    /\ UNCHANGED vars

(* The reply is lost; the call, sent again or made anew, asks for ">" too. *)
ReadIsLost(w) ==
    /\ worker[w] = "reading"
    /\ Fails
    /\ HandOut
    /\ UNCHANGED <<mongo, admin, api, table>>

AcknowledgeNothing(w) ==
    /\ worker[w] = "acking"
    /\ worker' = [worker EXCEPT ![w] = "applying"]
    /\ UNCHANGED <<mongo, admin, redis, next, last, table, faults>>
Acknowledge(w) ==
    /\ worker[w] = "acking"
    /\ worker' = [worker EXCEPT ![w] = "applying"]
    /\ pending' = pending \ {next[w]}
    /\ UNCHANGED <<mongo, admin, stream, trimmed, taken, dlq, next, last,
                   table, faults>>

(* XACK throws, executed by Redis or not: the rest of the batch is dropped. *)
AcknowledgeFails(w) ==
    /\ worker[w] = "acking"
    /\ Fails
    /\ Leave(w, "reading")
    /\ pending' \in {pending, pending \ {next[w]}}
    /\ UNCHANGED <<mongo, admin, stream, trimmed, taken, dlq, table>>

(* Whether processEvent gets through: an upsert needs its slug, a delete   *)
(* its row.                                                                *)
CanProcess(event) ==
    CASE event.type \in {"PRODUCT_CREATED", "PRODUCT_UPDATED"} ->
             ~SlugTaken(cache, event.id, event.row.slug)
      [] event.type = "PRODUCT_DELETED" -> Exists(cache, event.id)
      [] OTHER -> TRUE

CreatedOnly(event) ==
    IF event.id \in Product /\ (event.type = "PRODUCT_DELETED" \/ ~Exists(cache, event.id))
    THEN [cache EXCEPT ![event.id] = event.row]
    ELSE cache
Processed(event) ==
    IF event.id \in Product THEN [cache EXCEPT ![event.id] = event.row] ELSE cache

(* The end of the loop's body: the next message, or the next read. *)
NextMessage(w) ==
    \/ /\ next[w] < last[w]
       /\ worker' = [worker EXCEPT ![w] = "acking"]
       /\ next' = [next EXCEPT ![w] = @ + 1]
       /\ UNCHANGED last
    \/ /\ next[w] = last[w]
       /\ Leave(w, "reading")

ProcessEvent(w) ==
    /\ worker[w] = "applying"
    /\ CanProcess(stream[next[w]])
    /\ cache' = Processed(stream[next[w]])
    /\ applied' = applied \union {next[w]}
    /\ NextMessage(w)
    /\ UNCHANGED <<mongo, admin, redis, failed, faults>>

(* processEvent catches its own error and returns, so its caller, which    *)
(* would write to the dead-letter stream, sees none.                       *)
ProcessingFailed(w) ==
    /\ worker[w] = "applying"
    /\ failed' = failed \union {next[w]}
    /\ NextMessage(w)
    /\ UNCHANGED <<mongo, admin, redis, cache, applied>>

ProcessEventRejected(w) ==
    /\ worker[w] = "applying"
    /\ ~CanProcess(stream[next[w]])
    /\ ProcessingFailed(w)
    /\ UNCHANGED faults

(* PostgreSQL is away. *)
ProcessEventFails(w) ==
    /\ worker[w] = "applying"
    /\ stream[next[w]].id \in Product
    /\ Fails
    /\ ProcessingFailed(w)

(* The process ends, by SIGTERM or a crash, with what it holds. *)
Exit(w) ==
    /\ worker[w] # "off"
    /\ Fails
    /\ Leave(w, "off")
    /\ UNCHANGED <<mongo, admin, redis, table>>

Consume(w) ==
    \/ StartCatalogEventWorker(w)
    \/ ReadStream(w)
    \/ Acknowledge(w)
    \/ ProcessEvent(w)
    \/ ProcessEventRejected(w)

Next ==
    \/ \E a \in Admin: \/ CreateProduct(a)
                       \/ UpdateProduct(a)
                       \/ DeleteProduct(a)
                       \/ ChangeFabric(a)
                       \/ PublishCatalogEvent(a)
                       \/ PublishIsLost(a)
                       \/ PublishIsRepeated(a)
    \/ \E w \in Worker: \/ Consume(w)
                        \/ ReadNothing(w)
                        \/ StartFails(w)
                        \/ ReadIsLost(w)
                        \/ AcknowledgeFails(w)
                        \/ ProcessEventFails(w)
                        \/ Exit(w)

Spec == Init /\ [][Next]_vars

(* Both event loops run; an API process that is down is started again. *)
FairSpec ==
    /\ Spec
    /\ \A a \in Admin: WF_vars(PublishCatalogEvent(a))
    /\ \A w \in Worker: WF_vars(Consume(w))

-----------------------------------------------------------------------------

Holds(w) == worker[w] \in {"acking", "applying"}
InHand(w) == IF Holds(w) THEN next[w]..last[w] ELSE {}
Handled == applied \union failed

(* Type invariant: every variable keeps its shape, and batches and sets of *)
(* entries lie within what the group has handed out.                       *)
TypeOK ==
    /\ catalog \in [Product -> Row] /\ cache \in [Product -> Row]
    /\ writes \in 0..MaxWrite
    /\ admin \in [Admin -> Event \union {NoEvent}]
    /\ stream \in Seq(Event)
    /\ trimmed \in 0..Len(stream) /\ taken \in 0..Len(stream)
    /\ worker \in [Worker -> Place]
    /\ next \in [Worker -> Nat] /\ last \in [Worker -> Nat]
    /\ \A w \in Worker: Holds(w) => next[w] \in 1..last[w] /\ last[w] <= taken
    /\ pending \in SUBSET (1..taken)
    /\ applied \in SUBSET (1..taken) /\ failed \in SUBSET (1..taken)
    /\ dlq \in SUBSET (1..taken)
    /\ faults \in 0..MaxFault

(* No entry is processed twice, in whatever order API processes start, die *)
(* and read: what a worker holds is held by no other and processed by      *)
(* none, an entry is applied or failed and not both, and what has been     *)
(* processed is never pending, so that a poison message is not delivered   *)
(* again (catalogEventWorker.ts, ACK before processing).                   *)
EachEntryIsHandledOnce ==
    /\ \A v, w \in Worker: v # w => InHand(v) \intersect InHand(w) = {}
    /\ \A w \in Worker: InHand(w) \intersect Handled = {}
    /\ applied \intersect failed = {}
    /\ pending \intersect Handled = {}

About(p) == {i \in Entries: stream[i].id = p}
LastAbout(p, i) == i \in About(p) /\ \A j \in About(p): j <= i

(* With one API process, a row of CachedProduct is the product as it is in *)
(* the catalogue whenever the last entry of the stream about it is of its  *)
(* last write and has been applied, whatever was lost, failed, repeated or *)
(* overtaken before (publishCatalogEvent after the write; the worker's     *)
(* sequential loop).                                                       *)
LastWordIsKept ==
    \A p \in Product: \A i \in applied:
        LastAbout(p, i) /\ stream[i].row = catalog[p] => cache[p] = catalog[p]

PublishedInOrder(p) ==
    \A i, j \in About(p): i < j => stream[i].row.write <= stream[j].row.write

(* With one API process, a row returns to an earlier state of its product, *)
(* or a deleted product comes back, only if publications of the product    *)
(* overtook each other; losing, repeating, failing and restarting do not   *)
(* do it (order of the stream, reads of ">").                              *)
OnlyOvertakenRowsGoBack ==
    [][\A p \in Product:
           cache'[p].write < cache[p].write => ~PublishedInOrder(p)]_vars

(* With one admin request at a time as well, no row goes back. *)
CacheNeverGoesBack ==
    [][\A p \in Product: cache'[p].write >= cache[p].write]_vars

(* Every entry is processed in the end (fairness of the worker's loop;     *)
(* the group starts at 0-0, so entries older than the group count too).    *)
EntriesAreHandled ==
    \A i \in 1..MaxWrite: i \in Entries ~> i \in Handled

(* What the worker's comment promises of a failure: "If processing fails,  *)
(* the event goes to the DLQ instead." (catalogEventWorker.ts:60)          *)
FailuresReachTheDLQ == failed \subseteq dlq

(* The states of the catalogue the table has yet to go through, when there *)
(* is one admin request at a time and one API process: one state for every *)
(* event that is published or about to be.                                 *)
ToCome ==
    LET event == admin[CHOOSE a \in Admin: TRUE]
    IN SubSeq(stream, Cardinality(Handled) + 1, Len(stream))
       \o IF event = NoEvent THEN <<>> ELSE <<event>>

After(events, n) == [p \in Product |->
    LET about == {i \in 1..n: events[i].id = p}
    IN IF about = {} THEN cache[p]
       ELSE events[CHOOSE i \in about: \A j \in about: j <= i].row]

Replica == INSTANCE Replica WITH
    source <- catalog, copy <- cache,
    backlog <- [n \in DOMAIN ToCome |-> After(ToCome, n)],
    Key <- Product, Value <- Row, None <- Absent

(* When requests do not overlap and nothing fails, CachedProduct goes      *)
(* through the states of the catalogue one by one and in order, however    *)
(* far behind: it is never a mixture of two of them.                       *)
IsReplica == Replica!Spec

=============================================================================
