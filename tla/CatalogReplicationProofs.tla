---------------------- MODULE CatalogReplicationProofs ----------------------
(***************************************************************************)
(* Proofs about CatalogReplication, for any number of products, admin      *)
(* requests, API processes, entries and failures.                          *)
(***************************************************************************)
EXTENDS CatalogReplication, SequenceTheorems, FiniteSetTheorems, WellFoundedInduction, TLAPS

-----------------------------------------------------------------------------
(* Lemmas about the pieces an action is made of. *)

(* What appending an event to the stream does to its length and elements. *)
LEMMA StreamGrows ==
    ASSUME NEW s \in Seq(Event), NEW e \in Event
    PROVE  /\ Append(s, e) \in Seq(Event)
           /\ Len(Append(s, e)) = Len(s) + 1
           /\ \A i \in 1..Len(s): Append(s, e)[i] = s[i]
           /\ Append(s, e)[Len(s) + 1] = e
  BY AppendProperties

(* The bounds of the batch a read returns. *)
LEMMA BatchBounds ==
    ASSUME TypeOK, SomethingToRead
    PROVE  /\ FirstUnread \in Nat /\ LastOfBatch \in Nat
           /\ taken < FirstUnread /\ FirstUnread <= LastOfBatch
           /\ LastOfBatch <= Len(stream)
  <1>1. Len(stream) \in Nat /\ taken \in 0..Len(stream) /\ trimmed \in 0..Len(stream)
    BY DEF TypeOK
  <1> QED
    BY <1>1, BatchSizeAssumption DEF FirstUnread, LastOfBatch, FullBatch, SomethingToRead

LEMMA EventTypes ==
    ASSUME TypeOK, NEW a \in Admin, admin[a] # NoEvent
    PROVE  admin[a] \in Event
  BY DEF TypeOK

-----------------------------------------------------------------------------
(* Type correctness. *)

LEMMA TypeInit == Init => TypeOK
  <1> SUFFICES ASSUME Init PROVE TypeOK
    OBVIOUS
  <1>1. Absent \in Row
    BY BoundsAssumption DEF Absent, Row
  <1>2. stream = <<>> /\ Len(stream) = 0 /\ stream \in Seq(Event)
    BY DEF Init
  <1> QED
    BY <1>1, <1>2, BoundsAssumption DEF Init, TypeOK, Place, Holds

(* A write of a product keeps the types. *)
LEMMA WriteProductTypes ==
    ASSUME TypeOK, NEW a \in Admin, NEW p \in Product,
           NEW s \in Slug \union {NoSlug}, NEW t \in EventType,
           WriteProduct(a, p, s, t)
    PROVE  TypeOK'
  <1> DEFINE row == [slug |-> s, write |-> writes + 1]
  <1>1. row \in Row /\ writes + 1 \in 0..MaxWrite
    BY BoundsAssumption DEF WriteProduct, TypeOK, Row
  <1>2. [type |-> t, id |-> p, row |-> row] \in Event
    BY <1>1 DEF Event
  <1>3. catalog' \in [Product -> Row] /\ admin' \in [Admin -> Event \union {NoEvent}]
    BY <1>1, <1>2 DEF WriteProduct, TypeOK
  <1> QED
    BY <1>1, <1>3 DEF WriteProduct, TypeOK, redis, api, table, Holds

LEMMA AddEntryTypes ==
    ASSUME TypeOK, NEW e \in Event, AddEntry(e)
    PROVE  /\ stream' \in Seq(Event)
           /\ Len(stream') = Len(stream) + 1
           /\ trimmed' \in 0..Len(stream')
           /\ UNCHANGED <<taken, pending, dlq>>
  <1>1. stream \in Seq(Event) /\ trimmed \in 0..Len(stream) /\ Len(stream) \in Nat
    BY DEF TypeOK
  <1>2. stream' = Append(stream, e)
    BY DEF AddEntry
  <1>3. stream' \in Seq(Event) /\ Len(stream') = Len(stream) + 1
    BY <1>1, <1>2, StreamGrows
  <1> QED
    BY <1>1, <1>3 DEF AddEntry

LEMMA TypeStep == TypeOK /\ [Next]_vars => TypeOK'
  <1> SUFFICES ASSUME TypeOK, [Next]_vars PROVE TypeOK'
    OBVIOUS
  <1> USE BoundsAssumption DEF mongo, redis, api, table
  <1>1. ASSUME NEW a \in Admin, CreateProduct(a) PROVE TypeOK'
    BY <1>1, WriteProductTypes DEF CreateProduct, EventType
  <1>2. ASSUME NEW a \in Admin, UpdateProduct(a) PROVE TypeOK'
    BY <1>2, WriteProductTypes DEF UpdateProduct, EventType
  <1>3. ASSUME NEW a \in Admin, DeleteProduct(a) PROVE TypeOK'
    BY <1>3, WriteProductTypes DEF DeleteProduct, EventType
  <1>4. ASSUME NEW a \in Admin, ChangeFabric(a) PROVE TypeOK'
    <2>1. Absent \in Row
      BY DEF Absent, Row
    <2>2. [NoEvent EXCEPT !.type = "FABRIC_CHANGED"] \in Event
      BY <2>1 DEF NoEvent, Event, EventType
    <2> QED
      BY <1>4, <2>2 DEF ChangeFabric, TypeOK, Holds
  <1>5. ASSUME NEW a \in Admin, PublishCatalogEvent(a) PROVE TypeOK'
    <2>1. admin[a] \in Event /\ AddEntry(admin[a])
      BY <1>5, EventTypes DEF PublishCatalogEvent
    <2>2. /\ stream' \in Seq(Event) /\ Len(stream') = Len(stream) + 1
          /\ trimmed' \in 0..Len(stream') /\ UNCHANGED <<taken, pending, dlq>>
      BY <2>1, AddEntryTypes
    <2> QED
      BY <1>5, <2>2 DEF PublishCatalogEvent, TypeOK, Holds
  <1>6. ASSUME NEW a \in Admin, PublishIsLost(a) PROVE TypeOK'
    BY <1>6 DEF PublishIsLost, Fails, TypeOK, Holds
  <1>7. ASSUME NEW a \in Admin, PublishIsRepeated(a) PROVE TypeOK'
    <2>1. admin[a] \in Event /\ AddEntry(admin[a])
      BY <1>7, EventTypes DEF PublishIsRepeated
    <2>2. /\ stream' \in Seq(Event) /\ Len(stream') = Len(stream) + 1
          /\ trimmed' \in 0..Len(stream') /\ UNCHANGED <<taken, pending, dlq>>
      BY <2>1, AddEntryTypes
    <2> QED
      BY <1>7, <2>2 DEF PublishIsRepeated, Fails, TypeOK, Holds
  <1>8. ASSUME NEW w \in Worker, StartCatalogEventWorker(w) PROVE TypeOK'
    BY <1>8 DEF StartCatalogEventWorker, TypeOK, Place, Holds
  <1>9. ASSUME NEW w \in Worker, StartFails(w) PROVE TypeOK'
    BY <1>9 DEF StartFails, Fails, TypeOK, Place, Holds
  <1>10. ASSUME NEW w \in Worker, ReadStream(w) PROVE TypeOK'
    <2>1. /\ FirstUnread \in Nat /\ LastOfBatch \in Nat /\ taken < FirstUnread
          /\ FirstUnread <= LastOfBatch /\ LastOfBatch <= Len(stream)
      BY <1>10, BatchBounds DEF ReadStream, HandOut
    <2>2. /\ taken' = LastOfBatch /\ next' = [next EXCEPT ![w] = FirstUnread]
          /\ last' = [last EXCEPT ![w] = LastOfBatch]
          /\ worker' = [worker EXCEPT ![w] = "acking"]
          /\ pending' = pending \union (FirstUnread..LastOfBatch)
      BY <1>10 DEF ReadStream, HandOut
    <2>3. next' \in [Worker -> Nat] /\ last' \in [Worker -> Nat]
          /\ worker' \in [Worker -> Place]
      BY <2>1, <2>2 DEF TypeOK, Place
    <2>4. ASSUME NEW v \in Worker, Holds(v)' PROVE next'[v] \in 1..last'[v] /\ last'[v] <= taken'
      BY <2>1, <2>2, <2>4 DEF TypeOK, Holds
    <2>5. pending' \in SUBSET (1..taken')
      BY <2>1, <2>2 DEF TypeOK
    <2> QED
      BY <1>10, <2>1, <2>2, <2>3, <2>4, <2>5 DEF ReadStream, HandOut, TypeOK
  <1>11. ASSUME NEW w \in Worker, ReadIsLost(w) PROVE TypeOK'
    <2>1. /\ FirstUnread \in Nat /\ LastOfBatch \in Nat /\ taken < FirstUnread
          /\ FirstUnread <= LastOfBatch /\ LastOfBatch <= Len(stream)
      BY <1>11, BatchBounds DEF ReadIsLost, HandOut
    <2>2. pending' \in SUBSET (1..taken')
      BY <1>11, <2>1 DEF ReadIsLost, HandOut, TypeOK
    <2>3. \A v \in Worker: Holds(v)' => next'[v] \in 1..last'[v] /\ last'[v] <= taken'
      BY <1>11, <2>1 DEF ReadIsLost, HandOut, TypeOK, Holds
    <2> QED
      BY <1>11, <2>1, <2>2, <2>3 DEF ReadIsLost, HandOut, Fails, TypeOK
  <1>12. ASSUME NEW w \in Worker, Acknowledge(w) PROVE TypeOK'
    BY <1>12 DEF Acknowledge, TypeOK, Place, Holds
  <1>13. ASSUME NEW w \in Worker, AcknowledgeFails(w) PROVE TypeOK'
    BY <1>13 DEF AcknowledgeFails, Leave, Fails, TypeOK, Place, Holds
  <1>14. ASSUME NEW w \in Worker, NextMessage(w), worker[w] = "applying"
         PROVE  /\ worker' \in [Worker -> Place]
                /\ next' \in [Worker -> Nat] /\ last' \in [Worker -> Nat]
                /\ \A v \in Worker: Holds(v)' =>
                       next'[v] \in 1..last'[v] /\ last'[v] <= taken
                /\ next[w] \in 1..taken
    <2>1. /\ next[w] \in Nat /\ last[w] \in Nat /\ taken \in Nat
          /\ 1 <= next[w] /\ next[w] <= last[w] /\ last[w] <= taken
      BY <1>14 DEF TypeOK, Holds
    <2>2. /\ worker \in [Worker -> Place]
          /\ next \in [Worker -> Nat] /\ last \in [Worker -> Nat]
          /\ \A v \in Worker: Holds(v) => next[v] \in 1..last[v] /\ last[v] <= taken
      BY DEF TypeOK
    <2>3. CASE /\ next[w] < last[w]
               /\ worker' = [worker EXCEPT ![w] = "acking"]
               /\ next' = [next EXCEPT ![w] = @ + 1]
               /\ UNCHANGED last
      <3>1. worker' \in [Worker -> Place] /\ next' \in [Worker -> Nat]
        BY <2>1, <2>2, <2>3 DEF Place
      <3>2. ASSUME NEW v \in Worker, Holds(v)'
            PROVE  next'[v] \in 1..last'[v] /\ last'[v] <= taken
        BY <2>1, <2>2, <2>3, <3>2 DEF Holds
      <3> QED
        BY <2>1, <2>2, <2>3, <3>1, <3>2
    <2>4. CASE next[w] = last[w] /\ Leave(w, "reading")
      <3>1. /\ worker' \in [Worker -> Place] /\ next' \in [Worker -> Nat]
            /\ last' \in [Worker -> Nat]
        BY <2>2, <2>4 DEF Leave, Place
      <3>2. ASSUME NEW v \in Worker, Holds(v)'
            PROVE  next'[v] \in 1..last'[v] /\ last'[v] <= taken
        BY <2>1, <2>2, <2>4, <3>2 DEF Holds, Leave
      <3> QED
        BY <2>1, <3>1, <3>2
    <2> QED
      BY <1>14, <2>3, <2>4 DEF NextMessage
  <1>15. ASSUME NEW w \in Worker, ProcessEvent(w) PROVE TypeOK'
    <2>1. next[w] \in 1..Len(stream) /\ stream[next[w]] \in Event
      BY <1>14, <1>15 DEF ProcessEvent, TypeOK
    <2>2. cache' \in [Product -> Row]
      BY <1>15, <2>1 DEF ProcessEvent, Processed, TypeOK, Event
    <2> QED
      BY <1>14, <1>15, <2>2 DEF ProcessEvent, TypeOK
  <1>16. ASSUME NEW w \in Worker, ProcessEventRejected(w) PROVE TypeOK'
    <2>1. next[w] \in 1..taken /\ failed' = failed \union {next[w]}
      BY <1>14, <1>16 DEF ProcessEventRejected, ProcessingFailed
    <2> QED
      BY <1>14, <1>16, <2>1 DEF ProcessEventRejected, ProcessingFailed, TypeOK
  <1>17. ASSUME NEW w \in Worker, ProcessEventFails(w) PROVE TypeOK'
    <2>1. next[w] \in 1..taken /\ failed' = failed \union {next[w]}
      BY <1>14, <1>17 DEF ProcessEventFails, ProcessingFailed
    <2>2. faults' \in 0..MaxFault
      BY <1>17 DEF ProcessEventFails, Fails, TypeOK
    <2> QED
      BY <1>14, <1>17, <2>1, <2>2 DEF ProcessEventFails, ProcessingFailed, TypeOK
  <1>18. ASSUME NEW w \in Worker, Exit(w) PROVE TypeOK'
    BY <1>18 DEF Exit, Leave, Fails, TypeOK, Place, Holds
  <1>19. CASE UNCHANGED vars
    BY <1>19 DEF vars, TypeOK, Holds
  <1>20. ASSUME NEW w \in Worker, ReadNothing(w) PROVE TypeOK'
    BY <1>19, <1>20 DEF ReadNothing
  <1> QED
    BY <1>1, <1>2, <1>3, <1>4, <1>5, <1>6, <1>7, <1>8, <1>9, <1>10, <1>11,
       <1>12, <1>13, <1>15, <1>16, <1>17, <1>18, <1>19, <1>20
    DEF Next, Consume

(* The types of the stream, of the worker's batch and of both tables hold  *)
(* in every state, for every size of the system.                           *)
THEOREM CatalogTypeCorrect == Spec => []TypeOK
  BY TypeInit, TypeStep, PTL DEF Spec

-----------------------------------------------------------------------------
(* Each entry is handled once. What makes it inductive: an entry that is    *)
(* being applied has been acknowledged already.                             *)

AppliedIsAcknowledged ==
    \A w \in Worker: worker[w] = "applying" => next[w] \notin pending

OnceInv == TypeOK /\ EachEntryIsHandledOnce /\ AppliedIsAcknowledged

(* A step that hands out nothing and processes nothing. *)
LEMMA OnceKept ==
    ASSUME OnceInv, UNCHANGED <<applied, failed>>, pending' \subseteq pending,
           \A v \in Worker: InHand(v)' \subseteq InHand(v),
           \A v \in Worker: worker'[v] = "applying" =>
               \/ worker[v] = "applying" /\ next'[v] = next[v]
               \/ next'[v] \notin pending'
    PROVE  EachEntryIsHandledOnce' /\ AppliedIsAcknowledged'
  <1>1. ASSUME NEW v \in Worker, NEW w \in Worker, v # w
        PROVE  InHand(v)' \intersect InHand(w)' = {}
    BY <1>1 DEF OnceInv, EachEntryIsHandledOnce
  <1>2. Handled' = Handled
    BY DEF Handled
  <1>3. \A w \in Worker: InHand(w)' \intersect Handled' = {}
    BY <1>2 DEF OnceInv, EachEntryIsHandledOnce
  <1>4. AppliedIsAcknowledged'
    BY DEF OnceInv, AppliedIsAcknowledged
  <1> QED
    BY <1>1, <1>2, <1>3, <1>4 DEF OnceInv, EachEntryIsHandledOnce

(* A step that leaves the worker and what it holds alone. *)
LEMMA OnceQuiet ==
    ASSUME OnceInv, UNCHANGED <<worker, next, last, applied, failed, pending>>
    PROVE  EachEntryIsHandledOnce' /\ AppliedIsAcknowledged'
  <1>1. \A v \in Worker: InHand(v)' = InHand(v)
    BY DEF InHand, Holds
  <1> QED
    BY <1>1, OnceKept

(* A consumer leaves its loop over the batch. *)
LEMMA LeaveDrops ==
    ASSUME TypeOK, NEW w \in Worker, NEW place \in {"off", "stopped", "reading"},
           Leave(w, place)
    PROVE  /\ \A v \in Worker: InHand(v)' \subseteq InHand(v)
           /\ InHand(w)' = {}
           /\ \A v \in Worker: worker'[v] = "applying" =>
                  worker[v] = "applying" /\ next'[v] = next[v]
  BY DEF TypeOK, Leave, InHand, Holds

(* The end of the loop's body drops the entry that was processed. *)
LEMMA NextMessageDrops ==
    ASSUME TypeOK, NEW w \in Worker, NextMessage(w), worker[w] = "applying"
    PROVE  /\ next[w] \in InHand(w)
           /\ \A v \in Worker: InHand(v)' \subseteq InHand(v)
           /\ next[w] \notin InHand(w)'
           /\ \A v \in Worker: worker'[v] = "applying" =>
                  v # w /\ worker[v] = "applying" /\ next'[v] = next[v]
  <1>1. /\ next[w] \in Nat /\ last[w] \in Nat /\ next[w] <= last[w]
        /\ next \in [Worker -> Nat] /\ last \in [Worker -> Nat]
        /\ worker \in [Worker -> Place]
    BY DEF TypeOK, Holds
  <1>2. CASE /\ next[w] < last[w]
             /\ worker' = [worker EXCEPT ![w] = "acking"]
             /\ next' = [next EXCEPT ![w] = @ + 1]
             /\ UNCHANGED last
    BY <1>1, <1>2 DEF InHand, Holds
  <1>3. CASE next[w] = last[w] /\ Leave(w, "reading")
    BY <1>1, <1>3 DEF InHand, Holds, Leave
  <1> QED
    BY <1>2, <1>3 DEF NextMessage

(* An entry in a consumer's hands is processed, one way or the other. *)
LEMMA OnceProcessed ==
    ASSUME OnceInv, NEW w \in Worker, NextMessage(w), worker[w] = "applying",
           \/ applied' = applied \union {next[w]} /\ UNCHANGED failed
           \/ failed' = failed \union {next[w]} /\ UNCHANGED applied,
           UNCHANGED pending
    PROVE  EachEntryIsHandledOnce' /\ AppliedIsAcknowledged'
  <1>1. /\ next[w] \in InHand(w)
        /\ \A v \in Worker: InHand(v)' \subseteq InHand(v)
        /\ next[w] \notin InHand(w)'
        /\ \A v \in Worker: worker'[v] = "applying" =>
               v # w /\ worker[v] = "applying" /\ next'[v] = next[v]
    BY NextMessageDrops DEF OnceInv
  <1>2. Handled' = Handled \union {next[w]} /\ next[w] \notin Handled
    BY <1>1 DEF Handled, OnceInv, EachEntryIsHandledOnce
  <1>3. ASSUME NEW u \in Worker, NEW v \in Worker, u # v
        PROVE  InHand(u)' \intersect InHand(v)' = {}
    BY <1>1, <1>3 DEF OnceInv, EachEntryIsHandledOnce
  <1>4. ASSUME NEW v \in Worker
        PROVE  InHand(v)' \intersect Handled' = {}
    <2>1. next[w] \notin InHand(v)'
      BY <1>1 DEF OnceInv, EachEntryIsHandledOnce
    <2> QED
      BY <1>1, <1>2, <2>1 DEF OnceInv, EachEntryIsHandledOnce
  <1>5. applied' \intersect failed' = {}
    BY <1>2 DEF Handled, OnceInv, EachEntryIsHandledOnce
  <1>6. pending' \intersect Handled' = {}
    BY <1>2 DEF OnceInv, EachEntryIsHandledOnce, AppliedIsAcknowledged
  <1>7. AppliedIsAcknowledged'
    BY <1>1 DEF OnceInv, AppliedIsAcknowledged
  <1> QED
    BY <1>3, <1>4, <1>5, <1>6, <1>7 DEF EachEntryIsHandledOnce

(* What the group hands out is new: nobody holds it and nobody processed it. *)
LEMMA HandOutIsNew ==
    ASSUME TypeOK, HandOut
    PROVE  /\ pending' = pending \union (FirstUnread..LastOfBatch)
           /\ Handled \intersect (FirstUnread..LastOfBatch) = {}
           /\ \A v \in Worker: InHand(v) \intersect (FirstUnread..LastOfBatch) = {}
           /\ \A v \in Worker: Holds(v) => next[v] \notin FirstUnread..LastOfBatch
  <1>1. FirstUnread \in Nat /\ LastOfBatch \in Nat /\ taken \in Nat /\ taken < FirstUnread
    BY BatchBounds DEF HandOut, TypeOK
  <1>2. Handled \subseteq 1..taken
    BY DEF Handled, TypeOK
  <1>3. \A v \in Worker: Holds(v) => /\ next[v] \in Nat /\ last[v] \in Nat
                                     /\ next[v] <= taken /\ last[v] <= taken
    BY <1>1 DEF TypeOK
  <1> QED
    BY <1>1, <1>2, <1>3 DEF HandOut, InHand

LEMMA OnceInit == Init => OnceInv
  BY TypeInit DEF Init, OnceInv, EachEntryIsHandledOnce, AppliedIsAcknowledged,
                  InHand, Holds, Handled

LEMMA OnceStep == OnceInv /\ [Next]_vars => OnceInv'
  <1> SUFFICES ASSUME OnceInv, [Next]_vars
               PROVE  EachEntryIsHandledOnce' /\ AppliedIsAcknowledged'
    BY TypeStep DEF OnceInv
  <1> USE DEF mongo, redis, api, table
  <1>0. TypeOK
    BY DEF OnceInv
  <1>1. ASSUME NEW a \in Admin,
               \/ CreateProduct(a) \/ UpdateProduct(a) \/ DeleteProduct(a)
               \/ ChangeFabric(a) \/ PublishCatalogEvent(a)
               \/ PublishIsLost(a) \/ PublishIsRepeated(a)
        PROVE  EachEntryIsHandledOnce' /\ AppliedIsAcknowledged'
    <2>1. UNCHANGED <<worker, next, last, applied, failed, pending>>
      BY <1>1 DEF CreateProduct, UpdateProduct, DeleteProduct, WriteProduct,
                  ChangeFabric, PublishCatalogEvent, PublishIsLost,
                  PublishIsRepeated, AddEntry
    <2> QED
      BY <2>1, OnceQuiet
  <1>2. ASSUME NEW w \in Worker, StartCatalogEventWorker(w) \/ StartFails(w)
        PROVE  EachEntryIsHandledOnce' /\ AppliedIsAcknowledged'
    <2>1. \A v \in Worker: InHand(v)' \subseteq InHand(v)
      BY <1>0, <1>2 DEF StartCatalogEventWorker, StartFails, InHand, Holds, TypeOK
    <2>2. \A v \in Worker: worker'[v] = "applying" => worker[v] = "applying"
      BY <1>0, <1>2 DEF StartCatalogEventWorker, StartFails, TypeOK
    <2> QED
      BY <1>2, <2>1, <2>2, OnceKept DEF StartCatalogEventWorker, StartFails
  <1>3. ASSUME NEW w \in Worker, ReadStream(w)
        PROVE  EachEntryIsHandledOnce' /\ AppliedIsAcknowledged'
    <2> DEFINE new == FirstUnread..LastOfBatch
    <2>1. /\ pending' = pending \union new
          /\ Handled \intersect new = {}
          /\ \A v \in Worker: InHand(v) \intersect new = {}
          /\ \A v \in Worker: Holds(v) => next[v] \notin new
      BY <1>0, <1>3, HandOutIsNew DEF ReadStream
    <2>2. InHand(w)' = new /\ Handled' = Handled
      BY <1>0, <1>3 DEF ReadStream, InHand, Holds, Handled, TypeOK
    <2>3. \A v \in Worker \ {w}: InHand(v)' = InHand(v)
      BY <1>0, <1>3 DEF ReadStream, InHand, Holds, TypeOK
    <2>4. ASSUME NEW u \in Worker, NEW v \in Worker, u # v
          PROVE  InHand(u)' \intersect InHand(v)' = {}
      BY <2>1, <2>2, <2>3, <2>4 DEF OnceInv, EachEntryIsHandledOnce
    <2>5. \A v \in Worker: InHand(v)' \intersect Handled' = {}
      BY <2>1, <2>2, <2>3 DEF OnceInv, EachEntryIsHandledOnce
    <2>6. applied' \intersect failed' = {} /\ pending' \intersect Handled' = {}
      BY <1>3, <2>1, <2>2 DEF ReadStream, OnceInv, EachEntryIsHandledOnce
    <2>7. AppliedIsAcknowledged'
      <3>1. ASSUME NEW v \in Worker, worker'[v] = "applying"
            PROVE  v # w /\ worker[v] = "applying" /\ next'[v] = next[v]
        BY <1>0, <1>3, <3>1 DEF ReadStream, TypeOK
      <3> QED
        BY <2>1, <3>1 DEF OnceInv, AppliedIsAcknowledged, Holds
    <2> QED
      BY <2>4, <2>5, <2>6, <2>7 DEF EachEntryIsHandledOnce
  <1>4. ASSUME NEW w \in Worker, ReadIsLost(w)
        PROVE  EachEntryIsHandledOnce' /\ AppliedIsAcknowledged'
    <2> DEFINE new == FirstUnread..LastOfBatch
    <2>1. /\ pending' = pending \union new
          /\ Handled \intersect new = {}
          /\ \A v \in Worker: Holds(v) => next[v] \notin new
      BY <1>0, <1>4, HandOutIsNew DEF ReadIsLost
    <2>2. /\ \A v \in Worker: InHand(v)' = InHand(v)
          /\ Handled' = Handled /\ UNCHANGED <<worker, next, applied, failed>>
      BY <1>4 DEF ReadIsLost, InHand, Holds, Handled
    <2>3. AppliedIsAcknowledged'
      BY <2>1, <2>2 DEF OnceInv, AppliedIsAcknowledged, Holds
    <2> QED
      BY <2>1, <2>2, <2>3 DEF OnceInv, EachEntryIsHandledOnce
  <1>5. ASSUME NEW w \in Worker, Acknowledge(w)
        PROVE  EachEntryIsHandledOnce' /\ AppliedIsAcknowledged'
    <2>1. \A v \in Worker: InHand(v)' = InHand(v)
      BY <1>0, <1>5 DEF Acknowledge, InHand, Holds, TypeOK
    <2>2. \A v \in Worker: worker'[v] = "applying" =>
              \/ worker[v] = "applying" /\ next'[v] = next[v]
              \/ next'[v] \notin pending'
      BY <1>0, <1>5 DEF Acknowledge, TypeOK
    <2> QED
      BY <1>5, <2>1, <2>2, OnceKept DEF Acknowledge
  <1>6. ASSUME NEW w \in Worker, AcknowledgeFails(w)
        PROVE  EachEntryIsHandledOnce' /\ AppliedIsAcknowledged'
    <2>1. /\ \A v \in Worker: InHand(v)' \subseteq InHand(v)
          /\ \A v \in Worker: worker'[v] = "applying" =>
                 worker[v] = "applying" /\ next'[v] = next[v]
      BY <1>0, <1>6, LeaveDrops DEF AcknowledgeFails
    <2> QED
      BY <1>6, <2>1, OnceKept DEF AcknowledgeFails
  <1>7. ASSUME NEW w \in Worker, ProcessEvent(w)
        PROVE  EachEntryIsHandledOnce' /\ AppliedIsAcknowledged'
    BY <1>7, OnceProcessed DEF ProcessEvent
  <1>8. ASSUME NEW w \in Worker, ProcessEventRejected(w) \/ ProcessEventFails(w)
        PROVE  EachEntryIsHandledOnce' /\ AppliedIsAcknowledged'
    BY <1>8, OnceProcessed
    DEF ProcessEventRejected, ProcessEventFails, ProcessingFailed
  <1>9. ASSUME NEW w \in Worker, Exit(w)
        PROVE  EachEntryIsHandledOnce' /\ AppliedIsAcknowledged'
    <2>1. /\ \A v \in Worker: InHand(v)' \subseteq InHand(v)
          /\ \A v \in Worker: worker'[v] = "applying" =>
                 worker[v] = "applying" /\ next'[v] = next[v]
      BY <1>0, <1>9, LeaveDrops DEF Exit
    <2> QED
      BY <1>9, <2>1, OnceKept DEF Exit
  <1>10. CASE UNCHANGED vars
    BY <1>10, OnceQuiet DEF vars
  <1>11. ASSUME NEW w \in Worker, ReadNothing(w)
         PROVE  EachEntryIsHandledOnce' /\ AppliedIsAcknowledged'
    BY <1>10, <1>11 DEF ReadNothing
  <1> QED
    BY <1>1, <1>2, <1>3, <1>4, <1>5, <1>6, <1>7, <1>8, <1>9, <1>10, <1>11
    DEF Next, Consume

(* However many API processes read, die and start, no entry is processed   *)
(* twice, and none that has been processed is pending.                     *)
THEOREM EntriesAreHandledOnce == Spec => []EachEntryIsHandledOnce
  <1>1. OnceInv => EachEntryIsHandledOnce
    BY DEF OnceInv
  <1> QED
    BY <1>1, OnceInit, OnceStep, PTL DEF Spec

-----------------------------------------------------------------------------
(* One API process: rows follow the stream. *)

OneWorker == \A v, w \in Worker: v = w

(* Entries are processed in the order of the stream ... *)
ReadInOrder ==
    \A w \in Worker: Holds(w) => \A i \in Handled: i < next[w]

(* ... so the row of a product is what its last applied entry says. *)
RowsFollowStream ==
    \A p \in Product: \A i \in applied:
        i \in About(p) /\ (\A j \in applied: j \in About(p) => j <= i)
            => cache[p] = stream[i].row

RowInv == TypeOK /\ ReadInOrder /\ RowsFollowStream

(* The stream only grows. *)
LEMMA StreamKept ==
    ASSUME TypeOK, [Next]_vars
    PROVE  /\ Entries \subseteq Entries'
           /\ \A i \in Entries: stream'[i] = stream[i]
           /\ UNCHANGED stream \/ \E a \in Admin: admin[a] # NoEvent /\ AddEntry(admin[a])
  <1> USE DEF mongo, redis, api, table
  <1>1. CASE UNCHANGED stream
    BY <1>1 DEF Entries
  <1>2. ASSUME NEW a \in Admin, admin[a] # NoEvent, AddEntry(admin[a])
        PROVE  /\ Entries \subseteq Entries'
               /\ \A i \in Entries: stream'[i] = stream[i]
    BY <1>2, EventTypes, StreamGrows DEF AddEntry, Entries, TypeOK
  <1>3. UNCHANGED stream \/ \E a \in Admin: admin[a] # NoEvent /\ AddEntry(admin[a])
    <2>1. CASE \E a \in Admin: PublishCatalogEvent(a) \/ PublishIsRepeated(a)
      BY <2>1 DEF PublishCatalogEvent, PublishIsRepeated
    <2>2. CASE \E a \in Admin: \/ CreateProduct(a) \/ UpdateProduct(a)
                               \/ DeleteProduct(a) \/ ChangeFabric(a)
                               \/ PublishIsLost(a)
      BY <2>2 DEF CreateProduct, UpdateProduct, DeleteProduct, WriteProduct,
                  ChangeFabric, PublishIsLost
    <2>3. CASE \E w \in Worker: \/ StartCatalogEventWorker(w) \/ StartFails(w)
                                \/ ReadStream(w) \/ ReadIsLost(w)
                                \/ Acknowledge(w) \/ AcknowledgeFails(w)
      BY <2>3 DEF StartCatalogEventWorker, StartFails, ReadStream, ReadIsLost,
                  HandOut, Acknowledge, AcknowledgeFails
    <2>4. CASE \E w \in Worker: \/ ProcessEvent(w) \/ ProcessEventRejected(w)
                                \/ ProcessEventFails(w) \/ Exit(w) \/ ReadNothing(w)
      BY <2>4 DEF ProcessEvent, ProcessEventRejected, ProcessEventFails,
                  ProcessingFailed, Exit, ReadNothing, vars
    <2>5. CASE UNCHANGED vars
      BY <2>5 DEF vars
    <2> QED
      BY <2>1, <2>2, <2>3, <2>4, <2>5 DEF Next, Consume
  <1> QED
    BY <1>1, <1>2, <1>3

(* A step that applies nothing leaves rows where the stream put them. *)
LEMMA RowsKept ==
    ASSUME TypeOK, RowsFollowStream, [Next]_vars, UNCHANGED <<cache, applied>>
    PROVE  RowsFollowStream'
  <1>1. /\ Entries \subseteq Entries'
        /\ \A i \in Entries: stream'[i] = stream[i]
        /\ applied \subseteq Entries
    BY StreamKept DEF TypeOK, Entries
  <1>2. \A p \in Product, i \in applied: i \in About(p)' <=> i \in About(p)
    BY <1>1 DEF About
  <1> QED
    BY <1>1, <1>2 DEF RowsFollowStream

(* Handled entries are behind what a consumer holds after any step that    *)
(* processes nothing.                                                      *)
LEMMA OrderKept ==
    ASSUME TypeOK, ReadInOrder, UNCHANGED <<applied, failed>>,
           \A w \in Worker: Holds(w)' =>
               \/ Holds(w) /\ next'[w] = next[w]
               \/ next'[w] \in Nat /\ next'[w] > taken
    PROVE  ReadInOrder'
  <1>1. Handled' = Handled /\ Handled \subseteq 1..taken /\ taken \in Nat
    BY DEF Handled, TypeOK
  <1> QED
    BY <1>1 DEF ReadInOrder

LEMMA OrderProcessed ==
    ASSUME OneWorker, TypeOK, ReadInOrder, NEW w \in Worker, NextMessage(w),
           worker[w] = "applying", Handled' = Handled \union {next[w]}
    PROVE  ReadInOrder'
  <1>1. /\ next[w] \in Nat /\ next \in [Worker -> Nat]
        /\ worker \in [Worker -> Place] /\ Holds(w) /\ Handled \subseteq Nat
    BY DEF TypeOK, Holds, Handled
  <1>2. \A v \in Worker: v = w
    BY DEF OneWorker
  <1>3. Holds(w)' => next'[w] = next[w] + 1
    BY <1>1 DEF NextMessage, Leave, Holds
  <1>4. \A i \in Handled: i < next[w]
    BY <1>1 DEF ReadInOrder
  <1>5. ASSUME Holds(w)' PROVE \A i \in Handled': i < next'[w]
    BY <1>1, <1>3, <1>4, <1>5
  <1> QED
    BY <1>2, <1>5 DEF ReadInOrder

LEMMA RowApplied ==
    ASSUME RowInv, NEW w \in Worker, ProcessEvent(w)
    PROVE  RowsFollowStream'
  <1> DEFINE n == next[w]
  <1>1. /\ n \in Entries /\ Holds(w) /\ UNCHANGED stream
        /\ applied' = applied \union {n} /\ applied \subseteq Nat /\ n \in Nat
    BY DEF RowInv, TypeOK, Holds, ProcessEvent, Entries, redis
  <1>2. \A i \in applied: i < n
    BY <1>1 DEF RowInv, ReadInOrder, Handled
  <1>3. \A p \in Product: About(p)' = About(p)
    BY <1>1 DEF About, Entries
  <1>4. ASSUME NEW p \in Product, NEW i \in applied', i \in About(p)',
               \A j \in applied': j \in About(p)' => j <= i
        PROVE  cache'[p] = stream'[i].row
    <2>1. CASE stream[n].id = p
      <3>1. n \in About(p)' /\ n <= i
        BY <1>1, <1>3, <1>4, <2>1 DEF About
      <3>2. i = n
        BY <1>1, <1>2, <1>4, <3>1
      <3> QED
        BY <1>1, <2>1, <3>2 DEF ProcessEvent, Processed, RowInv, TypeOK
    <2>2. CASE stream[n].id # p
      <3>1. i # n /\ i \in applied /\ cache'[p] = cache[p]
        BY <1>1, <1>3, <1>4, <2>2 DEF About, ProcessEvent, Processed, RowInv, TypeOK
      <3>2. \A j \in applied: j \in About(p) => j <= i
        BY <1>1, <1>3, <1>4
      <3> QED
        BY <1>1, <1>3, <1>4, <3>1, <3>2 DEF RowInv, RowsFollowStream
    <2> QED
      BY <2>1, <2>2
  <1> QED
    BY <1>4 DEF RowsFollowStream

LEMMA RowInit == Init => RowInv
  BY TypeInit DEF Init, RowInv, ReadInOrder, RowsFollowStream, Holds

LEMMA RowStep == OneWorker /\ RowInv /\ [Next]_vars => RowInv'
  <1> SUFFICES ASSUME OneWorker, RowInv, [Next]_vars
               PROVE  ReadInOrder' /\ RowsFollowStream'
    BY TypeStep DEF RowInv
  <1> USE DEF mongo, redis, api, table
  <1>0. TypeOK /\ ReadInOrder /\ RowsFollowStream
    BY DEF RowInv
  <1>1. ASSUME NEW a \in Admin,
               \/ CreateProduct(a) \/ UpdateProduct(a) \/ DeleteProduct(a)
               \/ ChangeFabric(a) \/ PublishCatalogEvent(a)
               \/ PublishIsLost(a) \/ PublishIsRepeated(a)
        PROVE  ReadInOrder' /\ RowsFollowStream'
    <2>1. UNCHANGED <<worker, next, last, applied, failed, cache>>
      BY <1>1 DEF CreateProduct, UpdateProduct, DeleteProduct, WriteProduct,
                  ChangeFabric, PublishCatalogEvent, PublishIsLost,
                  PublishIsRepeated
    <2>2. \A w \in Worker: Holds(w)' => Holds(w) /\ next'[w] = next[w]
      BY <2>1 DEF Holds
    <2> QED
      BY <1>0, <2>1, <2>2, OrderKept, RowsKept
  <1>2. ASSUME NEW w \in Worker,
               \/ StartCatalogEventWorker(w) \/ StartFails(w) \/ ReadIsLost(w)
               \/ Acknowledge(w)
        PROVE  ReadInOrder' /\ RowsFollowStream'
    <2>1. UNCHANGED <<next, applied, failed, cache>>
      BY <1>2 DEF StartCatalogEventWorker, StartFails, ReadIsLost, Acknowledge
    <2>2. \A v \in Worker: Holds(v)' => Holds(v) /\ next'[v] = next[v]
      BY <1>0, <1>2, <2>1 DEF StartCatalogEventWorker, StartFails, ReadIsLost,
                              Acknowledge, Holds, TypeOK
    <2> QED
      BY <1>0, <2>1, <2>2, OrderKept, RowsKept
  <1>3. ASSUME NEW w \in Worker, ReadStream(w)
        PROVE  ReadInOrder' /\ RowsFollowStream'
    <2>1. UNCHANGED <<applied, failed, cache>>
      BY <1>3 DEF ReadStream
    <2>2. FirstUnread \in Nat /\ FirstUnread > taken
      BY <1>0, <1>3, BatchBounds DEF ReadStream, HandOut, TypeOK
    <2>3. ASSUME NEW v \in Worker, Holds(v)'
          PROVE  \/ Holds(v) /\ next'[v] = next[v]
                 \/ next'[v] \in Nat /\ next'[v] > taken
      BY <1>0, <1>3, <2>2, <2>3 DEF ReadStream, Holds, TypeOK
    <2> QED
      BY <1>0, <2>1, <2>3, OrderKept, RowsKept
  <1>4. ASSUME NEW w \in Worker, AcknowledgeFails(w) \/ Exit(w)
        PROVE  ReadInOrder' /\ RowsFollowStream'
    <2>1. UNCHANGED <<applied, failed, cache>>
      BY <1>4 DEF AcknowledgeFails, Exit
    <2>2. \A v \in Worker: Holds(v)' => Holds(v) /\ next'[v] = next[v]
      BY <1>0, <1>4 DEF AcknowledgeFails, Exit, Leave, Holds, TypeOK
    <2> QED
      BY <1>0, <2>1, <2>2, OrderKept, RowsKept
  <1>5. ASSUME NEW w \in Worker, ProcessEvent(w)
        PROVE  ReadInOrder' /\ RowsFollowStream'
    <2>1. Handled' = Handled \union {next[w]}
      BY <1>5 DEF ProcessEvent, Handled
    <2> QED
      BY <1>0, <1>5, <2>1, OrderProcessed, RowApplied DEF ProcessEvent
  <1>6. ASSUME NEW w \in Worker, ProcessEventRejected(w) \/ ProcessEventFails(w)
        PROVE  ReadInOrder' /\ RowsFollowStream'
    <2>1. ProcessingFailed(w)
      BY <1>6 DEF ProcessEventRejected, ProcessEventFails
    <2>2. Handled' = Handled \union {next[w]}
      BY <2>1 DEF ProcessingFailed, Handled
    <2> QED
      BY <1>0, <2>1, <2>2, OrderProcessed, RowsKept DEF ProcessingFailed
  <1>7. CASE UNCHANGED vars
    <2>1. \A w \in Worker: Holds(w)' => Holds(w) /\ next'[w] = next[w]
      BY <1>7 DEF vars, Holds
    <2> QED
      BY <1>0, <1>7, <2>1, OrderKept, RowsKept DEF vars
  <1>8. ASSUME NEW w \in Worker, ReadNothing(w)
        PROVE  ReadInOrder' /\ RowsFollowStream'
    BY <1>7, <1>8 DEF ReadNothing
  <1> QED
    BY <1>1, <1>2, <1>3, <1>4, <1>5, <1>6, <1>7, <1>8 DEF Next, Consume

(* With one API process, and whatever fails, gets lost or is repeated: once *)
(* the last entry about a product is that of its last write and has been    *)
(* applied, CachedProduct has the product as it is in the catalogue.        *)
THEOREM LastWordsAreKept == ASSUME OneWorker PROVE Spec => []LastWordIsKept
  <1>1. Init => RowInv
    BY RowInit
  <1>2. RowInv /\ [Next]_vars => RowInv'
    BY RowStep
  <1>3. RowInv => LastWordIsKept
    BY DEF RowInv, RowsFollowStream, LastWordIsKept, LastAbout
  <1> QED
    BY <1>1, <1>2, <1>3, PTL DEF Spec

-----------------------------------------------------------------------------
(* One API process: rows go back only if publications overtook each other. *)

(* A row is absent since ever, or what an applied entry says. *)
RowsAreApplied ==
    \A p \in Product: \/ cache[p] = Absent
                      \/ \E i \in applied: i \in About(p) /\ cache[p] = stream[i].row

(* The versions in a well-typed state are numbers. *)
LEMMA WritesAreNumbers ==
    ASSUME TypeOK
    PROVE  /\ writes \in Nat
           /\ \A i \in Entries: stream[i] \in Event /\ stream[i].row.write \in Nat
           /\ \A p \in Product: cache[p].write \in Nat
  <1>1. \A i \in Entries: stream[i] \in Event
    BY DEF TypeOK, Entries
  <1>2. \A e \in Event: e.row.write \in Nat
    BY BoundsAssumption DEF Event, Row
  <1>3. \A p \in Product: cache[p].write \in Nat
    BY BoundsAssumption DEF TypeOK, Row
  <1>4. writes \in Nat
    BY BoundsAssumption DEF TypeOK
  <1> QED
    BY <1>1, <1>2, <1>3, <1>4

(* The table changes when an event is processed, and then so. *)
LEMMA TableChanges ==
    ASSUME TypeOK, [Next]_vars
    PROVE  \/ UNCHANGED <<cache, applied>>
           \/ \E w \in Worker:
                  /\ Holds(w) /\ next[w] \in Entries /\ UNCHANGED stream
                  /\ applied' = applied \union {next[w]}
                  /\ \A p \in Product:
                         cache'[p] = IF stream[next[w]].id = p
                                     THEN stream[next[w]].row ELSE cache[p]
  <1> USE DEF mongo, redis, api, table
  <1>1. ASSUME NEW w \in Worker, ProcessEvent(w)
        PROVE  /\ Holds(w) /\ next[w] \in Entries /\ UNCHANGED stream
               /\ applied' = applied \union {next[w]}
               /\ \A p \in Product:
                      cache'[p] = IF stream[next[w]].id = p
                                  THEN stream[next[w]].row ELSE cache[p]
    BY <1>1 DEF ProcessEvent, Processed, TypeOK, Holds, Entries
  <1>2. CASE \E a \in Admin: \/ CreateProduct(a) \/ UpdateProduct(a)
                             \/ DeleteProduct(a) \/ ChangeFabric(a)
                             \/ PublishCatalogEvent(a) \/ PublishIsLost(a)
                             \/ PublishIsRepeated(a)
    BY <1>2 DEF CreateProduct, UpdateProduct, DeleteProduct, WriteProduct,
                ChangeFabric, PublishCatalogEvent, PublishIsLost,
                PublishIsRepeated
  <1>3. CASE \E w \in Worker: \/ StartCatalogEventWorker(w) \/ StartFails(w)
                              \/ ReadStream(w) \/ ReadNothing(w) \/ ReadIsLost(w)
                              \/ Acknowledge(w) \/ AcknowledgeFails(w)
    BY <1>3 DEF StartCatalogEventWorker, StartFails, ReadStream, ReadNothing,
                ReadIsLost, Acknowledge, AcknowledgeFails, vars
  <1>4. CASE \E w \in Worker: \/ ProcessEventRejected(w) \/ ProcessEventFails(w)
                              \/ Exit(w)
    BY <1>4 DEF ProcessEventRejected, ProcessEventFails, ProcessingFailed, Exit
  <1>5. CASE UNCHANGED vars
    BY <1>5 DEF vars
  <1> QED
    BY <1>1, <1>2, <1>3, <1>4, <1>5 DEF Next, Consume

LEMMA RowsAppliedStep ==
    ASSUME TypeOK, RowsAreApplied, [Next]_vars
    PROVE  RowsAreApplied'
  <1>1. /\ Entries \subseteq Entries'
        /\ \A i \in Entries: stream'[i] = stream[i]
    BY StreamKept
  <1>2. \A p \in Product: \A i \in About(p): i \in About(p)' /\ stream'[i] = stream[i]
    BY <1>1 DEF About
  <1>3. CASE UNCHANGED <<cache, applied>>
    BY <1>2, <1>3 DEF RowsAreApplied
  <1>4. ASSUME NEW w \in Worker, next[w] \in Entries,
               applied' = applied \union {next[w]},
               \A p \in Product:
                   cache'[p] = IF stream[next[w]].id = p
                               THEN stream[next[w]].row ELSE cache[p]
        PROVE  RowsAreApplied'
    <2>1. ASSUME NEW p \in Product, stream[next[w]].id = p
          PROVE  next[w] \in About(p)' /\ cache'[p] = stream'[next[w]].row
      BY <1>1, <1>4, <2>1 DEF About
    <2>2. ASSUME NEW p \in Product, stream[next[w]].id # p
          PROVE  cache'[p] = cache[p] /\ applied \subseteq applied'
      BY <1>4, <2>2
    <2> QED
      BY <1>2, <1>4, <2>1, <2>2 DEF RowsAreApplied
  <1> QED
    BY <1>3, <1>4, TableChanges

LEMMA RowsGoForward ==
    ASSUME RowInv, RowsAreApplied, [Next]_vars, NEW p \in Product, PublishedInOrder(p)
    PROVE  cache'[p].write >= cache[p].write
  <1>0. TypeOK
    BY DEF RowInv
  <1>1. CASE UNCHANGED cache
    BY <1>0, <1>1, WritesAreNumbers
  <1>2. ASSUME NEW w \in Worker, Holds(w), next[w] \in Entries,
               \A q \in Product:
                   cache'[q] = IF stream[next[w]].id = q
                               THEN stream[next[w]].row ELSE cache[q]
        PROVE  cache'[p].write >= cache[p].write
    <2>1. CASE stream[next[w]].id # p
      BY <1>0, <1>2, <2>1, WritesAreNumbers
    <2>2. CASE stream[next[w]].id = p /\ cache[p] = Absent
      BY <1>0, <1>2, <2>2, WritesAreNumbers DEF Absent
    <2>3. ASSUME stream[next[w]].id = p, NEW i \in applied, i \in About(p),
                 cache[p] = stream[i].row
          PROVE  cache'[p].write >= cache[p].write
      <3>1. i < next[w] /\ next[w] \in About(p)
        BY <1>2, <2>3 DEF RowInv, ReadInOrder, Handled, About
      <3>2. stream[i].row.write <= stream[next[w]].row.write
        BY <2>3, <3>1 DEF PublishedInOrder
      <3>3. stream[i].row.write \in Nat /\ stream[next[w]].row.write \in Nat
        BY <1>0, <1>2, <2>3, WritesAreNumbers DEF About
      <3> QED
        BY <1>2, <2>3, <3>2, <3>3
    <2> QED
      BY <2>1, <2>2, <2>3 DEF RowsAreApplied
  <1> QED
    BY <1>0, <1>1, <1>2, TableChanges

(* With one API process a row goes back only if the publications of its    *)
(* product overtook each other, whatever else fails.                       *)
THEOREM RowsGoBackIfOvertaken ==
    ASSUME OneWorker PROVE Spec => OnlyOvertakenRowsGoBack
  <1>1. Init => RowInv /\ RowsAreApplied
    BY RowInit DEF Init, RowsAreApplied
  <1>2. RowInv /\ RowsAreApplied /\ [Next]_vars => (RowInv /\ RowsAreApplied)'
    BY RowStep, RowsAppliedStep DEF RowInv
  <1>3. RowInv /\ RowsAreApplied /\ [Next]_vars =>
            [\A p \in Product:
                 cache'[p].write < cache[p].write => ~PublishedInOrder(p)]_vars
    <2> SUFFICES ASSUME RowInv, RowsAreApplied, [Next]_vars, NEW p \in Product,
                        PublishedInOrder(p), cache'[p].write < cache[p].write
                 PROVE  UNCHANGED vars
      OBVIOUS
    <2>1. cache[p].write \in Nat /\ cache'[p].write \in Nat
      <3>1. TypeOK /\ TypeOK'
        BY TypeStep DEF RowInv
      <3> QED
        BY <3>1, BoundsAssumption DEF TypeOK, Row
    <2> QED
      BY <2>1, RowsGoForward
  <1> QED
    BY <1>1, <1>2, <1>3, PTL DEF Spec, OnlyOvertakenRowsGoBack

-----------------------------------------------------------------------------
(* One admin request at a time: publications do not overtake each other.   *)

OneAdmin == \A a, b \in Admin: a = b

WritesAreCounted ==
    /\ \A i \in Entries: stream[i].row.write <= writes
    /\ \A a \in Admin: admin[a] # NoEvent => admin[a].row.write <= writes

StreamIsSorted == \A p \in Product: PublishedInOrder(p)

AdminIsLatest ==
    \A p \in Product: \A a \in Admin: admin[a].id = p =>
        \A i \in About(p): stream[i].row.write <= admin[a].row.write

OrderInv == TypeOK /\ WritesAreCounted /\ StreamIsSorted /\ AdminIsLatest

(* A step that publishes nothing and writes nothing. *)
LEMMA OrderQuiet ==
    ASSUME OrderInv, UNCHANGED <<writes, stream>>,
           \A a \in Admin: admin'[a] \in {admin[a], NoEvent}
    PROVE  WritesAreCounted' /\ StreamIsSorted' /\ AdminIsLatest'
  <1>1. Entries' = Entries /\ \A p \in Product: About(p)' = About(p)
    BY DEF Entries, About
  <1>2. NoEvent.id \notin Product
    BY NamesAssumption DEF NoEvent
  <1>3. WritesAreCounted'
    BY <1>1 DEF OrderInv, WritesAreCounted
  <1>4. StreamIsSorted'
    BY <1>1 DEF OrderInv, StreamIsSorted, PublishedInOrder
  <1>5. AdminIsLatest'
    BY <1>1, <1>2 DEF OrderInv, AdminIsLatest
  <1> QED
    BY <1>3, <1>4, <1>5

(* A new version is later than all that went before. *)
LEMMA OrderWritten ==
    ASSUME OneAdmin, OrderInv, NEW a \in Admin,
           UNCHANGED stream, writes' = writes + 1,
           \/ admin'[a].row.write = writes + 1
           \/ admin'[a].row.write = 0 /\ admin'[a].id = NoProduct
    PROVE  WritesAreCounted' /\ StreamIsSorted' /\ AdminIsLatest'
  <1>1. Entries' = Entries /\ \A p \in Product: About(p)' = About(p)
    BY DEF Entries, About
  <1>2. \A b \in Admin: b = a
    BY DEF OneAdmin
  <1>3. writes \in Nat /\ \A i \in Entries: stream[i].row.write \in Nat
    BY WritesAreNumbers DEF OrderInv
  <1>4. WritesAreCounted'
    BY <1>1, <1>2, <1>3 DEF OrderInv, WritesAreCounted
  <1>5. StreamIsSorted'
    BY <1>1 DEF OrderInv, StreamIsSorted, PublishedInOrder
  <1>6. AdminIsLatest'
    BY <1>1, <1>2, <1>3, NamesAssumption
    DEF OrderInv, WritesAreCounted, AdminIsLatest, About
  <1> QED
    BY <1>4, <1>5, <1>6

(* What is published is not older than what the stream has of its product. *)
LEMMA OrderPublished ==
    ASSUME OneAdmin, OrderInv, NEW a \in Admin, admin[a] # NoEvent,
           AddEntry(admin[a]), UNCHANGED writes,
           \A b \in Admin: admin'[b] \in {admin[b], NoEvent}
    PROVE  WritesAreCounted' /\ StreamIsSorted' /\ AdminIsLatest'
  <1> DEFINE n == Len(stream) + 1
  <1>1. admin[a] \in Event /\ \A b \in Admin: b = a
    BY EventTypes DEF OrderInv, OneAdmin
  <1>2. /\ Len(stream) \in Nat /\ Entries' = Entries \union {n}
        /\ stream'[n] = admin[a] /\ \A i \in Entries: stream'[i] = stream[i]
    BY <1>1, StreamGrows DEF AddEntry, OrderInv, TypeOK, Entries
  <1>3. \A p \in Product: About(p)' = IF admin[a].id = p THEN About(p) \union {n}
                                      ELSE About(p)
    BY <1>2 DEF About, Entries
  <1>4. \A i \in Entries: i < n
    BY <1>2 DEF Entries
  <1>5. NoEvent.id \notin Product
    BY NamesAssumption DEF NoEvent
  <1>6. WritesAreCounted'
    BY <1>1, <1>2 DEF OrderInv, WritesAreCounted
  <1>7. StreamIsSorted'
    <2> SUFFICES ASSUME NEW p \in Product, NEW i \in About(p)', NEW j \in About(p)', i < j
                 PROVE  stream'[i].row.write <= stream'[j].row.write
      BY DEF StreamIsSorted, PublishedInOrder
    <2>1. i \in About(p) /\ i \in Entries
      BY <1>2, <1>3, <1>4 DEF About, Entries
    <2>2. CASE j = n
      BY <1>1, <1>2, <1>3, <1>4, <2>1, <2>2 DEF OrderInv, AdminIsLatest, About
    <2>3. CASE j # n
      BY <1>2, <1>3, <2>1, <2>3 DEF OrderInv, StreamIsSorted, PublishedInOrder, About
    <2> QED
      BY <2>2, <2>3
  <1>8. AdminIsLatest'
    <2> SUFFICES ASSUME NEW p \in Product, NEW b \in Admin, admin'[b].id = p
                 PROVE  \A i \in About(p)': stream'[i].row.write <= admin'[b].row.write
      BY DEF AdminIsLatest
    <2>1. b = a /\ admin'[b] = admin[a] /\ admin[a].id = p
      BY <1>1, <1>5
    <2>2. admin[a].row.write \in Nat
      BY <1>1, BoundsAssumption DEF Event, Row
    <2>3. \A i \in About(p): i \in Entries
      BY DEF About
    <2> QED
      BY <1>2, <1>3, <2>1, <2>2, <2>3 DEF OrderInv, AdminIsLatest
  <1> QED
    BY <1>6, <1>7, <1>8

LEMMA OrderInit == Init => OrderInv
  <1> SUFFICES ASSUME Init PROVE OrderInv
    OBVIOUS
  <1>1. Entries = {} /\ \A p \in Product: About(p) = {}
    BY DEF Init, Entries, About
  <1> QED
    BY <1>1, TypeInit DEF Init, OrderInv, WritesAreCounted, StreamIsSorted,
                          PublishedInOrder, AdminIsLatest

LEMMA OrderStep == OneAdmin /\ OrderInv /\ [Next]_vars => OrderInv'
  <1> DEFINE Goal == WritesAreCounted' /\ StreamIsSorted' /\ AdminIsLatest'
  <1> SUFFICES ASSUME OneAdmin, OrderInv, [Next]_vars
               PROVE  Goal
    BY TypeStep DEF OrderInv
  <1> USE DEF mongo, redis, api, table
  <1>0. TypeOK
    BY DEF OrderInv
  <1>1. ASSUME NEW a \in Admin,
               CreateProduct(a) \/ UpdateProduct(a) \/ DeleteProduct(a)
        PROVE  Goal
    <2>1. PICK p \in Product, s \in Slug \union {NoSlug}, t \in EventType:
              WriteProduct(a, p, s, t)
      BY <1>1 DEF CreateProduct, UpdateProduct, DeleteProduct, EventType
    <2>2. UNCHANGED stream /\ writes' = writes + 1 /\ admin'[a].row.write = writes + 1
      BY <1>0, <2>1 DEF WriteProduct, TypeOK
    <2> QED
      BY <2>2, OrderWritten
  <1>2. ASSUME NEW a \in Admin, ChangeFabric(a) PROVE Goal
    <2>1. /\ UNCHANGED stream /\ writes' = writes + 1
          /\ admin'[a].id = NoProduct /\ admin'[a].row.write = 0
      BY <1>0, <1>2 DEF ChangeFabric, TypeOK, NoEvent, Absent
    <2> QED
      BY <2>1, OrderWritten
  <1>3. ASSUME NEW a \in Admin, PublishCatalogEvent(a) \/ PublishIsRepeated(a)
        PROVE  Goal
    <2>1. admin[a] # NoEvent /\ AddEntry(admin[a]) /\ UNCHANGED writes
      BY <1>3 DEF PublishCatalogEvent, PublishIsRepeated
    <2>2. \A b \in Admin: admin'[b] \in {admin[b], NoEvent}
      BY <1>0, <1>3 DEF PublishCatalogEvent, PublishIsRepeated, TypeOK
    <2> QED
      BY <2>1, <2>2, OrderPublished
  <1>4. ASSUME NEW a \in Admin, PublishIsLost(a) PROVE Goal
    <2>1. /\ UNCHANGED <<writes, stream>>
          /\ \A b \in Admin: admin'[b] \in {admin[b], NoEvent}
      BY <1>0, <1>4 DEF PublishIsLost, TypeOK
    <2> QED
      BY <2>1, OrderQuiet
  <1>5. ASSUME NEW w \in Worker,
               \/ Consume(w) \/ ReadNothing(w) \/ StartFails(w) \/ ReadIsLost(w)
               \/ AcknowledgeFails(w) \/ ProcessEventFails(w) \/ Exit(w)
        PROVE  Goal
    <2>1. UNCHANGED <<writes, stream, admin>>
      <3>1. CASE Consume(w)
        BY <3>1 DEF Consume, StartCatalogEventWorker, ReadStream, HandOut,
                    Acknowledge, ProcessEvent, ProcessEventRejected, ProcessingFailed
      <3>2. CASE \/ ReadNothing(w) \/ StartFails(w) \/ ReadIsLost(w)
                 \/ AcknowledgeFails(w) \/ ProcessEventFails(w) \/ Exit(w)
        BY <3>2 DEF ReadNothing, vars, StartFails, ReadIsLost, HandOut,
                    AcknowledgeFails, ProcessEventFails, ProcessingFailed, Exit
      <3> QED
        BY <1>5, <3>1, <3>2
    <2> QED
      BY <2>1, OrderQuiet
  <1>6. CASE UNCHANGED vars
    BY <1>6, OrderQuiet DEF vars
  <1> QED
    BY <1>1, <1>2, <1>3, <1>4, <1>5, <1>6 DEF Next

(* With one admin request at a time and one API process, no row returns to *)
(* an earlier version and no deleted product comes back, whatever fails.   *)
THEOREM CacheGoesForward ==
    ASSUME OneWorker, OneAdmin PROVE Spec => CacheNeverGoesBack
  <1>1. Init => RowInv /\ RowsAreApplied /\ OrderInv
    BY RowInit, OrderInit DEF Init, RowsAreApplied
  <1>2. RowInv /\ RowsAreApplied /\ OrderInv /\ [Next]_vars
            => (RowInv /\ RowsAreApplied /\ OrderInv)'
    BY RowStep, RowsAppliedStep, OrderStep DEF RowInv
  <1>3. RowInv /\ RowsAreApplied /\ OrderInv /\ [Next]_vars
            => [\A p \in Product: cache'[p].write >= cache[p].write]_vars
    BY RowsGoForward DEF OrderInv, StreamIsSorted
  <1> QED
    BY <1>1, <1>2, <1>3, PTL DEF Spec, CacheNeverGoesBack

-----------------------------------------------------------------------------
(* One admin request at a time, one API process and no failure: the table  *)
(* is a replica of the catalogue.                                          *)

(* The events to come, of a stream whose first d entries are done and a    *)
(* request that has yet to publish e.                                      *)
Queue(s, d, e) == SubSeq(s, d + 1, Len(s)) \o IF e = NoEvent THEN <<>> ELSE <<e>>

LEMMA NoEventIsNone == NoEvent \notin Event
  BY DEF NoEvent, Event, EventType

(* What is where in the queue. *)
LEMMA QueueShape ==
    ASSUME NEW s \in Seq(Event), NEW d \in 0..Len(s), NEW e \in Event \union {NoEvent}
    PROVE  /\ Queue(s, d, e) \in Seq(Event)
           /\ Len(Queue(s, d, e)) = Len(s) - d + (IF e = NoEvent THEN 0 ELSE 1)
           /\ \A i \in 1..Len(Queue(s, d, e)):
                  Queue(s, d, e)[i] = IF i <= Len(s) - d THEN s[d + i] ELSE e
  <1> DEFINE front == SubSeq(s, d + 1, Len(s))
             back == IF e = NoEvent THEN <<>> ELSE <<e>>
  <1>1. Len(s) \in Nat /\ d \in Nat /\ d <= Len(s)
    BY LenProperties
  <1>2. \A i \in (d + 1)..Len(s): s[i] \in Event
    BY <1>1, ElementOfSeq
  <1>3. /\ front \in Seq(Event) /\ Len(front) = Len(s) - d
        /\ \A i \in 1..(Len(s) - d): front[i] = s[d + i]
    BY <1>1, <1>2, SubSeqProperties
  <1>4. /\ back \in Seq(Event) /\ Len(back) = (IF e = NoEvent THEN 0 ELSE 1)
        /\ e # NoEvent => back[1] = e
    <2>1. CASE e = NoEvent
      BY <2>1, EmptySeq
    <2>2. CASE e # NoEvent
      BY <2>2
    <2> QED
      BY <2>1, <2>2
  <1>5. Queue(s, d, e) = front \o back
    BY DEF Queue
  <1> HIDE DEF front, back
  <1>6. /\ front \o back \in Seq(Event)
        /\ Len(front \o back) = Len(front) + Len(back)
        /\ \A i \in 1..Len(front) + Len(back):
               (front \o back)[i] = IF i <= Len(front) THEN front[i] ELSE back[i - Len(front)]
    BY <1>3, <1>4, ConcatProperties
  <1>7. ASSUME NEW i \in 1..Len(front \o back)
        PROVE  (front \o back)[i] = IF i <= Len(s) - d THEN s[d + i] ELSE e
    <2>1. CASE i <= Len(s) - d
      BY <1>1, <1>3, <1>4, <1>6, <2>1
    <2>2. CASE ~(i <= Len(s) - d)
      <3>1. e # NoEvent /\ i = Len(s) - d + 1
        BY <1>1, <1>3, <1>4, <1>6, <2>2
      <3>2. (front \o back)[i] = back[1]
        BY <1>1, <1>3, <1>4, <1>6, <2>2, <3>1
      <3> QED
        BY <1>4, <2>2, <3>1, <3>2
    <2> QED
      BY <2>1, <2>2
  <1> QED
    BY <1>3, <1>4, <1>5, <1>6, <1>7

(* A request that has written adds its event at the end ... *)
LEMMA QueueWrite ==
    ASSUME NEW s \in Seq(Event), NEW d \in 0..Len(s), NEW e \in Event
    PROVE  Queue(s, d, e) = Append(Queue(s, d, NoEvent), e)
  <1> DEFINE old == Queue(s, d, NoEvent)
             new == Queue(s, d, e)
  <1>1. Len(s) \in Nat /\ d \in Nat /\ d <= Len(s) /\ e # NoEvent
    BY LenProperties, NoEventIsNone
  <1>0. NoEvent \in Event \union {NoEvent}
    OBVIOUS
  <1>2. /\ old \in Seq(Event) /\ Len(old) = Len(s) - d + (IF NoEvent = NoEvent THEN 0 ELSE 1)
        /\ \A i \in 1..Len(old): old[i] = IF i <= Len(s) - d THEN s[d + i] ELSE NoEvent
    BY <1>0, QueueShape
  <1>3. /\ new \in Seq(Event) /\ Len(new) = Len(s) - d + 1
        /\ \A i \in 1..Len(new): new[i] = IF i <= Len(s) - d THEN s[d + i] ELSE e
    <2>1. e \in Event \union {NoEvent}
      OBVIOUS
    <2>2. /\ new \in Seq(Event) /\ Len(new) = Len(s) - d + (IF e = NoEvent THEN 0 ELSE 1)
          /\ \A i \in 1..Len(new): new[i] = IF i <= Len(s) - d THEN s[d + i] ELSE e
      BY <2>1, QueueShape
    <2> HIDE DEF old, new
    <2> QED
      BY <1>1, <2>2
  <1> HIDE DEF old, new
  <1>4. /\ Append(old, e) \in Seq(Event) /\ Len(Append(old, e)) = Len(old) + 1
        /\ \A i \in 1..Len(old): Append(old, e)[i] = old[i]
        /\ Append(old, e)[Len(old) + 1] = e
    BY <1>2, AppendProperties
  <1>5. ASSUME NEW i \in 1..Len(new) PROVE new[i] = Append(old, e)[i]
    <2>1. i \in Nat /\ i >= 1 /\ i <= Len(s) - d + 1 /\ Len(old) = Len(s) - d
      BY <1>1, <1>2, <1>3
    <2>2. CASE i <= Len(s) - d
      <3>1. i \in 1..Len(old)
        BY <1>1, <2>1, <2>2
      <3> QED
        BY <1>2, <1>3, <1>4, <2>2, <3>1
    <2>3. CASE i = Len(s) - d + 1
      <3>1. i = Len(old) + 1 /\ ~(i <= Len(s) - d)
        BY <1>1, <2>1, <2>3
      <3> QED
        BY <1>3, <1>4, <3>1
    <2> QED
      BY <1>1, <2>1, <2>2, <2>3
  <1>6. Len(new) = Len(Append(old, e))
    BY <1>1, <1>2, <1>3, <1>4
  <1>7. new = Append(old, e)
    BY <1>3, <1>4, <1>5, <1>6, SeqEqual
  <1> QED
    BY <1>7 DEF old, new

(* ... and publishing it leaves it there. *)
LEMMA QueuePublish ==
    ASSUME NEW s \in Seq(Event), NEW d \in 0..Len(s), NEW e \in Event
    PROVE  Queue(Append(s, e), d, NoEvent) = Queue(s, d, e)
  <1>0. PICK t \in Seq(Event): t = Append(s, e)
    BY StreamGrows
  <1> DEFINE old == Queue(s, d, e)
             new == Queue(t, d, NoEvent)
  <1>1. /\ Len(s) \in Nat /\ d \in Nat /\ d <= Len(s) /\ e # NoEvent /\ d \in 0..Len(t)
        /\ Len(t) = Len(s) + 1 /\ NoEvent \in Event \union {NoEvent}
        /\ \A i \in 1..Len(s): t[i] = s[i]
        /\ t[Len(s) + 1] = e
    BY <1>0, LenProperties, StreamGrows, NoEventIsNone
  <1>2. /\ old \in Seq(Event) /\ Len(old) = Len(s) - d + (IF e = NoEvent THEN 0 ELSE 1)
        /\ \A i \in 1..Len(old): old[i] = IF i <= Len(s) - d THEN s[d + i] ELSE e
    BY <1>1, QueueShape
  <1>3. /\ new \in Seq(Event) /\ Len(new) = Len(t) - d + (IF NoEvent = NoEvent THEN 0 ELSE 1)
        /\ \A i \in 1..Len(new): new[i] = IF i <= Len(t) - d THEN t[d + i] ELSE NoEvent
    BY <1>1, QueueShape
  <1> HIDE DEF old, new
  <1>4. Len(old) = Len(s) - d + 1 /\ Len(new) = Len(s) - d + 1
    BY <1>1, <1>2, <1>3
  <1>5. ASSUME NEW i \in 1..Len(new) PROVE new[i] = old[i]
    <2>1. i \in Nat /\ i >= 1 /\ i <= Len(s) - d + 1 /\ i \in 1..Len(old)
      BY <1>1, <1>4
    <2>2. new[i] = t[d + i]
      BY <1>1, <1>3, <2>1
    <2>3. CASE i <= Len(s) - d
      <3>1. d + i \in 1..Len(s)
        BY <1>1, <2>1, <2>3
      <3> QED
        BY <1>1, <1>2, <2>1, <2>2, <2>3, <3>1
    <2>4. CASE i = Len(s) - d + 1
      <3>1. d + i = Len(s) + 1 /\ ~(i <= Len(s) - d)
        BY <1>1, <2>1, <2>4
      <3> QED
        BY <1>1, <1>2, <2>1, <2>2, <3>1
    <2> QED
      BY <1>1, <2>1, <2>3, <2>4
  <1>6. new = old
    BY <1>2, <1>3, <1>4, <1>5, SeqEqual
  <1> QED
    BY <1>0, <1>6 DEF old, new

(* Processing takes the first. *)
LEMMA QueueProcess ==
    ASSUME NEW s \in Seq(Event), NEW d \in 0..(Len(s) - 1), NEW e \in Event \union {NoEvent}
    PROVE  /\ Queue(s, d, e) # <<>>
           /\ Queue(s, d, e)[1] = s[d + 1]
           /\ Tail(Queue(s, d, e)) = Queue(s, d + 1, e)
  <1> DEFINE old == Queue(s, d, e)
             new == Queue(s, d + 1, e)
  <1>1. Len(s) \in Nat /\ d \in Nat /\ d + 1 <= Len(s) /\ d \in 0..Len(s) /\ d + 1 \in 0..Len(s)
    BY LenProperties
  <1>2. /\ old \in Seq(Event) /\ Len(old) = Len(s) - d + (IF e = NoEvent THEN 0 ELSE 1)
        /\ \A i \in 1..Len(old): old[i] = IF i <= Len(s) - d THEN s[d + i] ELSE e
    BY <1>1, QueueShape
  <1>3. /\ new \in Seq(Event) /\ Len(new) = Len(s) - (d + 1) + (IF e = NoEvent THEN 0 ELSE 1)
        /\ \A i \in 1..Len(new): new[i] = IF i <= Len(s) - (d + 1) THEN s[(d + 1) + i] ELSE e
    BY <1>1, QueueShape
  <1> HIDE DEF old, new
  <1>4. old # <<>>
    BY <1>1, <1>2, EmptySeq
  <1>5. /\ Tail(old) \in Seq(Event) /\ Len(Tail(old)) = Len(old) - 1
        /\ \A i \in 1..Len(Tail(old)): Tail(old)[i] = old[i + 1]
    BY <1>2, <1>4, HeadTailProperties
  <1>6. \A i \in 1..Len(new): Tail(old)[i] = new[i]
    <2> SUFFICES ASSUME NEW i \in 1..Len(new) PROVE Tail(old)[i] = new[i]
      OBVIOUS
    <2>1. i \in Nat /\ i + 1 \in 1..Len(old) /\ i \in 1..Len(Tail(old))
      BY <1>1, <1>2, <1>3, <1>5
    <2>2. Tail(old)[i] = IF i + 1 <= Len(s) - d THEN s[d + (i + 1)] ELSE e
      BY <1>2, <1>5, <2>1
    <2>3. new[i] = IF i <= Len(s) - (d + 1) THEN s[(d + 1) + i] ELSE e
      BY <1>3
    <2> QED
      BY <1>1, <2>1, <2>2, <2>3
  <1>7. Tail(old) = new
    <2>1. Len(Tail(old)) = Len(new)
      BY <1>1, <1>2, <1>3, <1>5
    <2> QED
      BY <1>3, <1>5, <1>6, <2>1, SeqEqual
  <1>8. old[1] = s[d + 1]
    BY <1>1, <1>2
  <1> QED
    BY <1>4, <1>7, <1>8 DEF old, new

(* The table as the first n events leave it. *)
State(start, events, n) == [p \in Product |->
    LET about == {i \in 1..n: events[i].id = p}
    IN IF about = {} THEN start[p]
       ELSE events[CHOOSE i \in about: \A j \in about: j <= i].row]

LEMMA StateZero ==
    ASSUME NEW start \in [Product -> Row], NEW events
    PROVE  State(start, events, 0) = start
  <1>1. 1..0 = {}
    OBVIOUS
  <1>2. \A p \in Product: State(start, events, 0)[p] = start[p]
    BY <1>1 DEF State
  <1> QED
    BY <1>2 DEF State

(* One event more changes the row of its product. *)
LEMMA StateStep ==
    ASSUME NEW start, NEW events, NEW n \in Nat, NEW p \in Product
    PROVE  State(start, events, n + 1)[p] =
               IF events[n + 1].id = p THEN events[n + 1].row
               ELSE State(start, events, n)[p]
  <1> DEFINE old == {i \in 1..n: events[i].id = p}
             new == {i \in 1..(n + 1): events[i].id = p}
  <1>1. CASE events[n + 1].id = p
    <2>1. n + 1 \in new /\ \A j \in new: j <= n + 1
      BY <1>1
    <2>2. new # {}
      BY <2>1
    <2>3. \A i \in new: (\A j \in new: j <= i) => i = n + 1
      BY <2>1
    <2> HIDE DEF new
    <2>4. (CHOOSE i \in new: \A j \in new: j <= i) = n + 1
      BY <2>1, <2>3
    <2>5. State(start, events, n + 1)[p] = events[n + 1].row
      BY <2>2, <2>4 DEF State, new
    <2> QED
      BY <1>1, <2>5
  <1>2. CASE events[n + 1].id # p
    <2>1. new = old
      <3>1. \A i: i \in 1..(n + 1) <=> i \in 1..n \/ i = n + 1
        OBVIOUS
      <3> QED
        BY <1>2, <3>1
    <2> HIDE DEF old, new
    <2>2. State(start, events, n + 1)[p] =
              IF new = {} THEN start[p]
              ELSE events[CHOOSE i \in new: \A j \in new: j <= i].row
      BY DEF State, new
    <2>3. State(start, events, n)[p] =
              IF old = {} THEN start[p]
              ELSE events[CHOOSE i \in old: \A j \in old: j <= i].row
      BY DEF State, old
    <2> QED
      BY <1>2, <2>1, <2>2, <2>3
  <1> QED
    BY <1>1, <1>2

LEMMA StateFirst ==
    ASSUME NEW start, NEW events, NEW p \in Product
    PROVE  State(start, events, 1)[p] =
               IF events[1].id = p THEN events[1].row ELSE State(start, events, 0)[p]
  <1>1. PICK z \in Nat: z = 0
    OBVIOUS
  <1>2. State(start, events, z + 1)[p] =
            IF events[z + 1].id = p THEN events[z + 1].row ELSE State(start, events, z)[p]
    BY StateStep
  <1>3. z + 1 = 1
    BY <1>1
  <1> QED
    BY <1>1, <1>2, <1>3

(* A set of numbers that is not empty has a least one. *)
LEMMA LeastNumber ==
    ASSUME NEW T, T \subseteq Nat, T # {}
    PROVE  \E n \in T: \A m \in T: n <= m
  <1>1. PICK n \in T: \A m \in T: ~(<<m, n>> \in OpToRel(<, Nat))
    BY NatLessThanWellFounded, WFMin
  <1>2. \A m \in T: ~(m < n)
    BY <1>1 DEF OpToRel
  <1> QED
    BY <1>2

(* Two runs over the same events from the same table agree, wherever the   *)
(* events stand in their sequences.                                        *)
LEMMA StatesAgree ==
    ASSUME NEW s, NEW e, NEW i \in Nat, NEW t, NEW f, NEW j \in Nat, NEW n \in Nat,
           State(s, e, i) = State(t, f, j),
           \A k \in 1..n: e[i + k] = f[j + k]
    PROVE  State(s, e, i + n) = State(t, f, j + n)
  <1> DEFINE Differ == {k \in 0..n: State(s, e, i + k) # State(t, f, j + k)}
  <1>1. SUFFICES ASSUME Differ # {} PROVE FALSE
    <2>1. n \in 0..n
      OBVIOUS
    <2> QED
      BY <2>1
  <1>2. PICK k \in Differ: \A m \in Differ: k <= m
    <2>1. Differ \subseteq Nat
      OBVIOUS
    <2> HIDE DEF Differ
    <2> QED
      BY <1>1, <2>1, LeastNumber
  <1>3. k # 0
    <2>1. State(s, e, i + 0) = State(t, f, j + 0)
      <3>1. i + 0 = i /\ j + 0 = j
        OBVIOUS
      <3> QED
        BY <3>1
    <2> QED
      BY <2>1
  <1>4. PICK m \in Nat: m \in 0..n /\ k = m + 1
    <2>1. k - 1 \in Nat /\ k - 1 \in 0..n /\ k = (k - 1) + 1
      BY <1>3
    <2> QED
      BY <2>1
  <1>5. State(s, e, i + m) = State(t, f, j + m)
    <2>1. m \notin Differ
      BY <1>2, <1>4
    <2> QED
      BY <1>4, <2>1
  <1>6. /\ i + k = (i + m) + 1 /\ j + k = (j + m) + 1 /\ i + m \in Nat /\ j + m \in Nat
        /\ e[(i + m) + 1] = f[(j + m) + 1]
    <2>1. i + k = (i + m) + 1 /\ j + k = (j + m) + 1 /\ i + m \in Nat /\ j + m \in Nat /\ k \in 1..n
      BY <1>3, <1>4
    <2> QED
      BY <2>1
  <1>7. \A p \in Product: State(s, e, i + k)[p] = State(t, f, j + k)[p]
    BY <1>5, <1>6, StateStep
  <1>8. State(s, e, i + k) = State(t, f, j + k)
    BY <1>7 DEF State
  <1> QED
    BY <1>2, <1>8

(* So an event at the end leaves the states before it, ... *)
LEMMA StateAppend ==
    ASSUME NEW start \in [Product -> Row], NEW events \in Seq(Event), NEW e \in Event,
           NEW n \in 0..Len(events)
    PROVE  State(start, Append(events, e), n) = State(start, events, n)
  <1>0. PICK more : more = Append(events, e)
    OBVIOUS
  <1>1. \A k \in 1..n: more[0 + k] = events[0 + k]
    BY <1>0, StreamGrows, LenProperties
  <1>2. State(start, more, 0) = State(start, events, 0)
    BY StateZero
  <1>3. n \in Nat /\ 0 + n = n /\ 0 \in Nat
    OBVIOUS
  <1>4. State(start, more, 0 + n) = State(start, events, 0 + n)
    BY <1>1, <1>2, <1>3, StatesAgree
  <1> QED
    BY <1>0, <1>3, <1>4

(* ... and an event taken from the front leads to the state of the rest.   *)
LEMMA StateTail ==
    ASSUME NEW start, NEW events \in Seq(Event), events # <<>>,
           NEW next0 \in [Product -> Row], next0 = State(start, events, 1),
           NEW n \in 0..(Len(events) - 1)
    PROVE  State(next0, Tail(events), n) = State(start, events, n + 1)
  <1>0. PICK rest : rest = Tail(events)
    OBVIOUS
  <1>1. \A k \in 1..n: rest[0 + k] = events[1 + k]
    <2>1. Len(events) \in Nat /\ Len(rest) = Len(events) - 1
      BY <1>0, LenProperties, HeadTailProperties
    <2>2. \A k \in 1..Len(rest): rest[k] = events[k + 1]
      BY <1>0, HeadTailProperties
    <2> QED
      BY <2>1, <2>2
  <1>2. State(next0, rest, 0) = State(start, events, 1)
    BY StateZero
  <1>3. n \in Nat /\ 0 + n = n /\ 1 + n = n + 1 /\ 0 \in Nat /\ 1 \in Nat
    OBVIOUS
  <1>4. State(next0, rest, 0 + n) = State(start, events, 1 + n)
    BY <1>1, <1>2, <1>3, StatesAgree
  <1> QED
    BY <1>0, <1>3, <1>4

(* The states the table has yet to go through. *)
Backlog(start, events) == [n \in DOMAIN events |-> State(start, events, n)]

LEMMA IntervalsAgree ==
    ASSUME NEW m \in Nat, NEW n \in Nat, 1..m = 1..n
    PROVE  m = n
  <1>1. (m > n => m \in 1..m /\ m \notin 1..n) /\ (n > m => n \in 1..n /\ n \notin 1..m)
    OBVIOUS
  <1> QED
    BY <1>1

LEMMA BacklogIsSeq ==
    ASSUME NEW start, NEW events \in Seq(Event), NEW S,
           \A n \in 1..Len(events): State(start, events, n) \in S
    PROVE  /\ Backlog(start, events) \in Seq(S)
           /\ Len(Backlog(start, events)) = Len(events)
           /\ \A n \in 1..Len(events): Backlog(start, events)[n] = State(start, events, n)
  <1>1. Len(events) \in Nat /\ DOMAIN events = 1..Len(events)
    BY LenProperties
  <1> DEFINE b == Backlog(start, events)
  <1>2. b \in [1..Len(events) -> S]
    BY <1>1 DEF Backlog
  <1>3. b \in Seq(S)
    BY <1>1, <1>2, SeqDef
  <1>4. Len(b) = Len(events)
    <2>1. DOMAIN b = 1..Len(b) /\ Len(b) \in Nat
      BY <1>3, LenProperties
    <2>2. DOMAIN b = 1..Len(events)
      BY <1>2
    <2> HIDE DEF b
    <2> QED
      BY <1>1, <2>1, <2>2, IntervalsAgree
  <1>5. \A n \in 1..Len(events): b[n] = State(start, events, n)
    BY <1>1 DEF Backlog
  <1> QED
    BY <1>3, <1>4, <1>5

LEMMA BacklogAppend ==
    ASSUME NEW start \in [Product -> Row], NEW events \in Seq(Event), NEW e \in Event,
           NEW more \in Seq(Event), more = Append(events, e)
    PROVE  Backlog(start, more) =
               Append(Backlog(start, events), State(start, more, Len(events) + 1))
  <1> DEFINE S == {State(start, more, n): n \in 1..Len(more)}
             z == State(start, more, Len(events) + 1)
             old == Backlog(start, events)
             new == Backlog(start, more)
  <1>1. Len(events) \in Nat /\ Len(more) = Len(events) + 1
    BY StreamGrows, LenProperties
  <1>2. \A n \in 1..Len(events): State(start, events, n) = State(start, more, n)
    BY <1>1, StateAppend
  <1>3. /\ \A n \in 1..Len(more): State(start, more, n) \in S
        /\ \A n \in 1..Len(events): State(start, events, n) \in S
        /\ z \in S
    BY <1>1, <1>2
  <1> HIDE DEF S
  <1>4. /\ old \in Seq(S) /\ Len(old) = Len(events)
        /\ \A n \in 1..Len(events): old[n] = State(start, events, n)
    BY <1>3, BacklogIsSeq
  <1>5. /\ new \in Seq(S) /\ Len(new) = Len(more)
        /\ \A n \in 1..Len(more): new[n] = State(start, more, n)
    BY <1>3, BacklogIsSeq
  <1>6. z = State(start, more, Len(events) + 1)
    OBVIOUS
  <1> HIDE DEF old, new, z
  <1>7. /\ Append(old, z) \in Seq(S) /\ Len(Append(old, z)) = Len(old) + 1
        /\ \A n \in 1..Len(old): Append(old, z)[n] = old[n]
        /\ Append(old, z)[Len(old) + 1] = z
    BY <1>3, <1>4, AppendProperties
  <1>8. ASSUME NEW n \in 1..Len(new) PROVE new[n] = Append(old, z)[n]
    <2>1. CASE n \in 1..Len(events)
      BY <1>1, <1>2, <1>4, <1>5, <1>7, <2>1
    <2>2. CASE n = Len(events) + 1
      BY <1>1, <1>4, <1>5, <1>6, <1>7, <2>2
    <2>3. n \in 1..Len(events) \/ n = Len(events) + 1
      <3>1. n \in 1..(Len(events) + 1)
        BY <1>1, <1>5
      <3> QED
        BY <1>1, <3>1
    <2> QED
      BY <2>1, <2>2, <2>3, Zenon
  <1>9. Len(new) = Len(Append(old, z))
    BY <1>1, <1>4, <1>5, <1>7
  <1>10. new = Append(old, z)
    BY <1>5, <1>7, <1>8, <1>9, SeqEqual
  <1> QED
    BY <1>10 DEF old, new, z

(* A table of the worker fits its backlog when no event of the backlog can *)
(* fail at its turn and the last of them makes the table the catalogue.    *)
Fits(e, rows) ==
    /\ e.type \in {"PRODUCT_CREATED", "PRODUCT_UPDATED"} => ~SlugTaken(rows, e.id, e.row.slug)
    /\ e.type = "PRODUCT_DELETED" => Exists(rows, e.id)
InSync(table0, events, source) ==
    /\ State(table0, events, Len(events)) = source
    /\ \A k \in 1..Len(events): Fits(events[k], State(table0, events, k - 1))

(* The entries are handled in order, and what the worker holds is the next *)
(* of them.                                                                *)
InStep ==
    /\ \E n \in 0..taken: Handled = 1..n
    /\ \A w \in Worker:
           /\ worker[w] # "stopped"
           /\ worker[w] = "off" => taken = 0
           /\ worker[w] = "reading" => Handled = 1..taken
           /\ Holds(w) => Handled = 1..(next[w] - 1) /\ last[w] = taken

SyncInv == TypeOK /\ InStep /\ InSync(cache, ToCome, catalog)

(* Every state of the backlog is a table. *)
LEMMA StateIsTable ==
    ASSUME NEW start \in [Product -> Row], NEW events \in Seq(Event), NEW n \in 0..Len(events)
    PROVE  State(start, events, n) \in [Product -> Row]
  <1> DEFINE about(p) == {i \in 1..n: events[i].id = p}
             i0(p) == CHOOSE i \in about(p): \A j \in about(p): j <= i
  <1>1. ASSUME NEW p \in Product PROVE State(start, events, n)[p] \in Row
    <2>1. CASE about(p) = {}
      <3>1. State(start, events, n)[p] = start[p]
        BY <2>1 DEF State
      <3> QED
        BY <3>1
    <2>2. CASE about(p) # {}
      <3>1. PICK i \in about(p): \A j \in about(p): j <= i
        <4> DEFINE behind == {n - i: i \in about(p)}
        <4>1. behind \subseteq Nat /\ behind # {}
          BY <2>2, LenProperties
        <4> HIDE DEF behind
        <4>2. PICK m \in behind: \A k \in behind: m <= k
          BY <4>1, LeastNumber
        <4> USE DEF behind
        <4>3. PICK i \in about(p): m = n - i
          BY <4>2
        <4>4. \A j \in about(p): n - i <= n - j
          BY <4>2, <4>3
        <4>5. \A j \in about(p): j <= i
          BY <4>3, <4>4, LenProperties
        <4> QED
          BY <4>5
      <3>2. i0(p) \in about(p)
        BY <3>1
      <3>3. State(start, events, n)[p] = events[i0(p)].row
        BY <2>2 DEF State
      <3>4. events[i0(p)] \in Event
        BY <3>2, LenProperties, ElementOfSeq
      <3> QED
        BY <3>3, <3>4 DEF Event
    <2> QED
      BY <2>1, <2>2
  <1> QED
    BY <1>1 DEF State

(* The table after the first event is the head of the backlog. *)
LEMMA BacklogTail ==
    ASSUME NEW start \in [Product -> Row], NEW events \in Seq(Event), events # <<>>
    PROVE  /\ Backlog(start, events) # <<>>
           /\ Head(Backlog(start, events)) = State(start, events, 1)
           /\ Tail(Backlog(start, events)) = Backlog(State(start, events, 1), Tail(events))
  <1>0. PICK after \in [Product -> Row], rest \in Seq(Event):
            after = State(start, events, 1) /\ rest = Tail(events)
    <2>1. 1 \in 0..Len(events)
      BY EmptySeq, LenProperties
    <2> QED
      BY <2>1, StateIsTable, HeadTailProperties
  <1> DEFINE S == {State(start, events, n): n \in 1..Len(events)}
             old == Backlog(start, events)
             new == Backlog(after, rest)
  <1>1. /\ Len(events) \in Nat /\ Len(events) >= 1 /\ Len(rest) = Len(events) - 1
    BY <1>0, EmptySeq, HeadTailProperties, LenProperties
  <1>2. \A n \in 1..Len(rest): State(after, rest, n) = State(start, events, n + 1)
    <2>1. \A n \in 0..(Len(events) - 1): State(after, rest, n) = State(start, events, n + 1)
      BY <1>0, StateTail
    <2> QED
      BY <1>1, <2>1
  <1>3. \A n \in 1..Len(events): State(start, events, n) \in S
    OBVIOUS
  <1>4. \A n \in 1..Len(rest): State(after, rest, n) \in S
    <2>1. \A n \in 1..Len(rest): n + 1 \in 1..Len(events)
      BY <1>1
    <2> QED
      BY <1>2, <2>1
  <1> HIDE DEF S
  <1>5. /\ old \in Seq(S) /\ Len(old) = Len(events)
        /\ \A n \in 1..Len(events): old[n] = State(start, events, n)
    BY <1>3, BacklogIsSeq
  <1>6. /\ new \in Seq(S) /\ Len(new) = Len(rest)
        /\ \A n \in 1..Len(rest): new[n] = State(after, rest, n)
    BY <1>4, BacklogIsSeq
  <1> HIDE DEF old, new
  <1>7. old # <<>>
    BY <1>1, <1>5, EmptySeq
  <1>8. /\ Tail(old) \in Seq(S) /\ Len(Tail(old)) = Len(old) - 1
        /\ \A n \in 1..Len(Tail(old)): Tail(old)[n] = old[n + 1]
    BY <1>5, <1>7, HeadTailProperties
  <1>9. Head(old) = after
    <2>1. Head(old) = old[1]
      BY <1>5, <1>7
    <2> QED
      BY <1>0, <1>1, <1>5, <2>1
  <1>10. ASSUME NEW n \in 1..Len(new) PROVE new[n] = Tail(old)[n]
    <2>1. n \in 1..Len(rest) /\ n + 1 \in 1..Len(events) /\ n \in 1..Len(Tail(old))
      BY <1>1, <1>5, <1>6, <1>8
    <2> QED
      BY <1>2, <1>5, <1>6, <1>8, <2>1
  <1>11. Tail(old) = new
    <2>1. Len(Tail(old)) = Len(new)
      BY <1>1, <1>5, <1>6, <1>8
    <2> QED
      BY <1>6, <1>8, <1>10, <2>1, SeqEqual
  <1> QED
    BY <1>0, <1>7, <1>9, <1>11, Zenon DEF old, new

(* What a write does to a backlog in sync ... *)
LEMMA SyncWrite ==
    ASSUME NEW c \in [Product -> Row], NEW q \in Seq(Event), NEW g, InSync(c, q, g),
           NEW e \in Event, Fits(e, g),
           NEW h \in [Product -> Row],
           \A p \in Product: h[p] = IF e.id = p THEN e.row ELSE g[p]
    PROVE  /\ InSync(c, Append(q, e), h)
           /\ Backlog(c, Append(q, e)) = Append(Backlog(c, q), h)
  <1>1. PICK m \in Seq(Event): m = Append(q, e)
    BY StreamGrows
  <1>2. /\ Len(q) \in Nat /\ Len(m) = Len(q) + 1
        /\ \A i \in 1..Len(q): m[i] = q[i]
        /\ m[Len(q) + 1] = e
    BY <1>1, StreamGrows, LenProperties
  <1>3. \A n \in 0..Len(q): State(c, m, n) = State(c, q, n)
    BY <1>1, StateAppend
  <1>4. State(c, m, Len(q)) = g
    BY <1>2, <1>3 DEF InSync
  <1>5. State(c, m, Len(q) + 1) = h
    <2>1. \A p \in Product: State(c, m, Len(q) + 1)[p] = h[p]
      BY <1>2, <1>4, StateStep
    <2>2. State(c, m, Len(q) + 1) \in [Product -> Row]
      BY <1>2, StateIsTable
    <2> QED
      BY <2>1, <2>2
  <1>6. ASSUME NEW k \in 1..Len(m) PROVE Fits(m[k], State(c, m, k - 1))
    <2>1. CASE k \in 1..Len(q)
      <3>1. k - 1 \in 0..Len(q) /\ m[k] = q[k]
        BY <1>2, <2>1
      <3>2. State(c, m, k - 1) = State(c, q, k - 1)
        BY <1>3, <3>1
      <3> QED
        BY <2>1, <3>1, <3>2 DEF InSync
    <2>2. CASE k = Len(q) + 1
      <3>1. k - 1 = Len(q) /\ m[k] = e
        BY <1>2, <2>2
      <3> QED
        BY <1>4, <3>1
    <2>3. k \in 1..Len(q) \/ k = Len(q) + 1
      BY <1>2
    <2> QED
      BY <2>1, <2>2, <2>3
  <1>7. InSync(c, m, h)
    BY <1>2, <1>5, <1>6 DEF InSync
  <1>8. Backlog(c, m) = Append(Backlog(c, q), h)
    BY <1>1, <1>5, BacklogAppend
  <1> QED
    BY <1>1, <1>7, <1>8

(* ... and what the worker does, which cannot fail. *)
LEMMA SyncProcess ==
    ASSUME NEW c \in [Product -> Row], NEW q \in Seq(Event), q # <<>>, NEW g, InSync(c, q, g)
    PROVE  Fits(q[1], c)
  <1>1. 1 \in 1..Len(q)
    BY EmptySeq, LenProperties
  <1>2. Fits(q[1], State(c, q, 1 - 1))
    BY <1>1 DEF InSync
  <1>3. 1 - 1 = 0 /\ State(c, q, 0) = c
    BY StateZero
  <1> QED
    BY <1>2, <1>3

LEMMA SyncProcessed ==
    ASSUME NEW c \in [Product -> Row], NEW q \in Seq(Event), q # <<>>, NEW g, InSync(c, q, g),
           NEW d \in [Product -> Row],
           \A p \in Product: d[p] = IF q[1].id = p THEN q[1].row ELSE c[p]
    PROVE  InSync(d, Tail(q), g) /\ State(c, q, 1) = d
  <1>1. PICK r \in Seq(Event): r = Tail(q)
    BY HeadTailProperties
  <1>2. /\ Len(q) \in Nat /\ Len(q) >= 1 /\ Len(r) = Len(q) - 1
        /\ \A k \in 1..Len(r): r[k] = q[k + 1]
    BY <1>1, EmptySeq, LenProperties, HeadTailProperties
  <1>3. State(c, q, 1) = d
    <2>1. State(c, q, 0) = c /\ 0 + 1 = 1 /\ 0 \in Nat
      BY StateZero
    <2>2. \A p \in Product: State(c, q, 1)[p] = IF q[1].id = p THEN q[1].row ELSE State(c, q, 0)[p]
      BY StateFirst
    <2>3. \A p \in Product: State(c, q, 1)[p] = d[p]
      BY <2>1, <2>2
    <2>4. State(c, q, 1) \in [Product -> Row]
      BY <1>2, StateIsTable
    <2> QED
      BY <2>3, <2>4
  <1>4. \A n \in 0..(Len(q) - 1): State(d, Tail(q), n) = State(c, q, n + 1)
    BY <1>3, StateTail
  <1>5. State(d, r, Len(r)) = g
    <2>1. Len(r) \in 0..(Len(q) - 1) /\ Len(r) + 1 = Len(q)
      BY <1>2
    <2> QED
      BY <1>1, <1>4, <2>1 DEF InSync
  <1>6. ASSUME NEW k \in 1..Len(r) PROVE Fits(r[k], State(d, r, k - 1))
    <2>1. /\ k + 1 \in 1..Len(q) /\ (k + 1) - 1 = k /\ k - 1 \in 0..(Len(q) - 1) /\ (k - 1) + 1 = k
          /\ r[k] = q[k + 1]
      BY <1>2
    <2>2. Fits(q[k + 1], State(c, q, (k + 1) - 1))
      BY <2>1 DEF InSync
    <2>3. State(d, r, k - 1) = State(c, q, (k - 1) + 1)
      BY <1>1, <1>4, <2>1
    <2> QED
      BY <2>1, <2>2, <2>3
  <1>7. InSync(d, r, g)
    BY <1>5, <1>6 DEF InSync
  <1> QED
    BY <1>1, <1>3, <1>7

LEMMA CountOfInterval ==
    ASSUME NEW n \in Nat
    PROVE  Cardinality(1..n) = n
  <1>0. 1 \in Int /\ n \in Int
    OBVIOUS
  <1>1. Cardinality(1..n) = IF 1 > n THEN 0 ELSE n - 1 + 1
    BY <1>0, FS_Interval
  <1> QED
    BY <1>1

(* The queue behind ToCome. *)
LEMMA ToComeIsQueue ==
    ASSUME NEW a, Admin = {a}
    PROVE  /\ ToCome = Queue(stream, Cardinality(Handled), admin[a])
           /\ ToCome' = Queue(stream', Cardinality(Handled'), admin'[a])
  <1>1. (CHOOSE x \in Admin: TRUE) = a
    OBVIOUS
  <1>2. ToCome = Queue(stream, Cardinality(Handled), admin[a])
    BY <1>1 DEF ToCome, Queue
  <1>3. ToCome' = Queue(stream', Cardinality(Handled'), admin'[a])
    BY <1>1 DEF ToCome, Queue
  <1> QED
    BY <1>2, <1>3

LEMMA BacklogIsNow == Replica!vars' = <<catalog', cache', Backlog(cache', ToCome')>>
                      /\ Replica!vars = <<catalog, cache, Backlog(cache, ToCome)>>
  <1>1. [n \in DOMAIN ToCome |-> After(ToCome, n)] = Backlog(cache, ToCome)
    BY DEF Backlog, After, State
  <1>2. [n \in DOMAIN ToCome' |-> After(ToCome, n)'] = Backlog(cache', ToCome')
    BY DEF Backlog, After, State
  <1> QED
    BY <1>1, <1>2 DEF Replica!vars

(* What is to come, in terms of the queue. *)
LEMMA QueueInSync ==
    ASSUME SyncInv, NEW a, Admin = {a}
    PROVE  \E n \in 0..taken:
               /\ Handled = 1..n
               /\ n \in 0..Len(stream) /\ stream \in Seq(Event)
               /\ ToCome = Queue(stream, n, admin[a])
               /\ ToCome \in Seq(Event)
  <1>1. PICK n \in 0..taken: Handled = 1..n
    BY DEF SyncInv, InStep
  <1>2. /\ stream \in Seq(Event) /\ taken \in 0..Len(stream) /\ Len(stream) \in Nat
        /\ admin[a] \in Event \union {NoEvent}
    BY LenProperties DEF SyncInv, TypeOK
  <1>3. n \in Nat /\ n \in 0..Len(stream)
    BY <1>1, <1>2
  <1>4. Cardinality(Handled) = n
    BY <1>1, <1>3, CountOfInterval
  <1>5. ToCome = Queue(stream, n, admin[a])
    BY <1>4, ToComeIsQueue
  <1>6. Queue(stream, n, admin[a]) \in Seq(Event)
    BY <1>2, <1>3, QueueShape
  <1> QED
    BY <1>1, <1>2, <1>3, <1>5, <1>6

(* A step that leaves both tables and what is to come ... *)
LEMMA QuietIsSync ==
    ASSUME SyncInv, UNCHANGED <<cache, catalog>>, ToCome' = ToCome
    PROVE  InSync(cache', ToCome', catalog') /\ UNCHANGED Replica!vars
  <1>1. InSync(cache', ToCome', catalog')
    BY DEF SyncInv
  <1> QED
    BY <1>1, BacklogIsNow

(* ... such as one that leaves the request, the stream and its handling. *)
LEMMA IdleIsSync ==
    ASSUME SyncInv, UNCHANGED <<cache, catalog, admin, stream, applied, failed>>
    PROVE  InSync(cache', ToCome', catalog') /\ UNCHANGED Replica!vars
  <1>1. ToCome' = ToCome
    BY DEF ToCome, Handled
  <1> QED
    BY <1>1, QuietIsSync

(* A write of the catalogue adds a state at the end of the backlog. *)
LEMMA WriteIsSync ==
    ASSUME SyncInv, TypeOK', NEW a, Admin = {a}, admin[a] = NoEvent,
           NEW e \in Event, admin' = [admin EXCEPT ![a] = e], Fits(e, catalog),
           UNCHANGED <<cache, stream, applied, failed>>,
           \A p \in Product: catalog'[p] = IF e.id = p THEN e.row ELSE catalog[p]
    PROVE  /\ InSync(cache', ToCome', catalog')
           /\ Backlog(cache', ToCome') = Append(Backlog(cache, ToCome), catalog')
  <1>1. PICK n \in 0..taken:
               /\ Handled = 1..n
               /\ n \in 0..Len(stream) /\ stream \in Seq(Event)
               /\ ToCome = Queue(stream, n, admin[a])
               /\ ToCome \in Seq(Event)
    BY QueueInSync
  <1>2. Cardinality(Handled') = n
    <2>1. Handled' = Handled
      BY DEF Handled
    <2>2. Cardinality(1..n) = n
      BY <1>1, LenProperties, CountOfInterval
    <2> QED
      BY <1>1, <2>1, <2>2
  <1>3. admin'[a] = e
    BY DEF SyncInv, TypeOK
  <1>4. ToCome' = Queue(stream, n, e)
    BY <1>2, <1>3, ToComeIsQueue
  <1>5. ToCome' = Append(ToCome, e)
    BY <1>1, <1>4, QueueWrite
  <1>6. /\ cache \in [Product -> Row] /\ catalog' \in [Product -> Row] /\ cache' = cache
        /\ InSync(cache, ToCome, catalog)
    BY DEF SyncInv, TypeOK
  <1>7. PICK c, q, g, h: c = cache /\ q = ToCome /\ g = catalog /\ h = catalog'
    OBVIOUS
  <1>8. /\ c \in [Product -> Row] /\ q \in Seq(Event) /\ InSync(c, q, g) /\ Fits(e, g)
        /\ h \in [Product -> Row]
        /\ \A p \in Product: h[p] = IF e.id = p THEN e.row ELSE g[p]
    BY <1>1, <1>6, <1>7
  <1>9. InSync(c, Append(q, e), h) /\ Backlog(c, Append(q, e)) = Append(Backlog(c, q), h)
    BY <1>8, SyncWrite
  <1> QED
    BY <1>5, <1>6, <1>7, <1>9, Zenon

(* Publishing an event moves it along the queue. *)
LEMMA PublishIsSync ==
    ASSUME SyncInv, NEW a, Admin = {a}, PublishCatalogEvent(a)
    PROVE  InSync(cache', ToCome', catalog') /\ UNCHANGED Replica!vars
  <1>1. PICK n \in 0..taken:
               /\ Handled = 1..n
               /\ n \in 0..Len(stream) /\ stream \in Seq(Event)
               /\ ToCome = Queue(stream, n, admin[a])
               /\ ToCome \in Seq(Event)
    BY QueueInSync
  <1>2. admin[a] \in Event
    BY EventTypes DEF SyncInv, PublishCatalogEvent
  <1>3. /\ stream' = Append(stream, admin[a]) /\ admin'[a] = NoEvent
        /\ UNCHANGED <<cache, catalog, applied, failed>>
    BY DEF PublishCatalogEvent, AddEntry, SyncInv, TypeOK, mongo, table
  <1>4. Cardinality(Handled') = n
    <2>1. Handled' = Handled
      BY <1>3 DEF Handled
    <2>2. Cardinality(1..n) = n
      BY <1>1, LenProperties, CountOfInterval
    <2> QED
      BY <1>1, <2>1, <2>2
  <1>5. ToCome' = Queue(stream', n, NoEvent)
    BY <1>3, <1>4, ToComeIsQueue
  <1>6. Queue(Append(stream, admin[a]), n, NoEvent) = Queue(stream, n, admin[a])
    BY <1>1, <1>2, QueuePublish
  <1>7. ToCome' = ToCome
    BY <1>1, <1>3, <1>5, <1>6, Zenon
  <1> QED
    BY <1>3, <1>7, QuietIsSync

(* The entry a worker is about to process is the first to come. *)
LEMMA HeldIsNext ==
    ASSUME SyncInv, NEW a, Admin = {a}, NEW w \in Worker, worker[w] = "applying"
    PROVE  /\ ToCome \in Seq(Event) /\ ToCome # <<>>
           /\ ToCome[1] = stream[next[w]]
           /\ Tail(ToCome) = Queue(stream, next[w], admin[a])
           /\ next[w] \in 1..Len(stream)
           /\ Handled = 1..(next[w] - 1)
  <1>1. PICK n \in 0..taken:
               /\ Handled = 1..n
               /\ n \in 0..Len(stream) /\ stream \in Seq(Event)
               /\ ToCome = Queue(stream, n, admin[a])
               /\ ToCome \in Seq(Event)
    BY QueueInSync
  <1>2. /\ next[w] \in Nat /\ last[w] \in Nat /\ taken \in 0..Len(stream) /\ Len(stream) \in Nat
        /\ next[w] \in 1..last[w] /\ last[w] <= taken
        /\ Handled = 1..(next[w] - 1)
    BY DEF SyncInv, TypeOK, InStep, Holds
  <1>3. n \in Nat /\ next[w] - 1 \in Nat
    BY <1>1, <1>2
  <1>4. n = next[w] - 1
    BY <1>1, <1>2, <1>3, IntervalsAgree
  <1>5. n \in 0..(Len(stream) - 1) /\ n + 1 = next[w] /\ next[w] \in 1..Len(stream)
    BY <1>2, <1>3, <1>4
  <1>6. admin[a] \in Event \union {NoEvent}
    BY DEF SyncInv, TypeOK
  <1>7. /\ Queue(stream, n, admin[a]) # <<>>
        /\ Queue(stream, n, admin[a])[1] = stream[n + 1]
        /\ Tail(Queue(stream, n, admin[a])) = Queue(stream, n + 1, admin[a])
    BY <1>1, <1>5, <1>6, QueueProcess
  <1> QED
    BY <1>1, <1>2, <1>5, <1>7

(* It cannot fail. *)
LEMMA NextCanBeProcessed ==
    ASSUME SyncInv, NEW a, Admin = {a}, NEW w \in Worker, worker[w] = "applying"
    PROVE  CanProcess(stream[next[w]])
  <1>1. ToCome \in Seq(Event) /\ ToCome # <<>> /\ ToCome[1] = stream[next[w]]
    BY HeldIsNext
  <1>2. cache \in [Product -> Row] /\ InSync(cache, ToCome, catalog)
    BY DEF SyncInv, TypeOK
  <1>3. PICK c, q, g: c = cache /\ q = ToCome /\ g = catalog
    OBVIOUS
  <1>4. c \in [Product -> Row] /\ q \in Seq(Event) /\ q # <<>> /\ InSync(c, q, g)
    BY <1>1, <1>2, <1>3
  <1>5. Fits(q[1], c)
    BY <1>4, SyncProcess
  <1>6. Fits(stream[next[w]], cache)
    BY <1>1, <1>3, <1>5
  <1> QED
    BY <1>6 DEF CanProcess, Fits

(* Processing it takes the table to the next state of the catalogue. *)
LEMMA ProcessIsSync ==
    ASSUME SyncInv, TypeOK', NEW a, Admin = {a}, NEW w \in Worker, ProcessEvent(w)
    PROVE  InSync(cache', ToCome', catalog') /\ Replica!CatchUp
  <1>1. /\ ToCome \in Seq(Event) /\ ToCome # <<>> /\ ToCome[1] = stream[next[w]]
        /\ Tail(ToCome) = Queue(stream, next[w], admin[a])
        /\ next[w] \in 1..Len(stream) /\ Handled = 1..(next[w] - 1)
    BY HeldIsNext DEF ProcessEvent
  <1>2. UNCHANGED <<stream, admin, catalog, failed>> /\ applied' = applied \union {next[w]}
    BY DEF ProcessEvent, mongo, redis
  <1>3. next[w] \in Nat /\ next[w] >= 1
    BY <1>1, LenProperties DEF SyncInv, TypeOK
  <1>4. Cardinality(Handled') = next[w]
    <2>1. Handled' = Handled \union {next[w]}
      BY <1>2 DEF Handled
    <2>2. Handled' = 1..next[w]
      BY <1>1, <1>3, <2>1
    <2> QED
      BY <1>3, <2>2, CountOfInterval
  <1>5. ToCome' = Tail(ToCome)
    BY <1>1, <1>2, <1>4, ToComeIsQueue, Zenon
  <1>6. /\ cache \in [Product -> Row] /\ cache' \in [Product -> Row] /\ catalog' = catalog
        /\ InSync(cache, ToCome, catalog)
    BY <1>2 DEF SyncInv, TypeOK
  <1>7. PICK c, q, g, d: c = cache /\ q = ToCome /\ g = catalog /\ d = cache'
    OBVIOUS
  <1>8. \A p \in Product: d[p] = IF q[1].id = p THEN q[1].row ELSE c[p]
    <2>1. cache' = Processed(stream[next[w]])
      BY DEF ProcessEvent
    <2>2. \A p \in Product: cache'[p] = IF stream[next[w]].id = p THEN stream[next[w]].row ELSE cache[p]
      BY <1>6, <2>1 DEF Processed
    <2> QED
      BY <1>1, <1>7, <2>2, Zenon
  <1>9. /\ c \in [Product -> Row] /\ q \in Seq(Event) /\ q # <<>> /\ InSync(c, q, g)
        /\ d \in [Product -> Row]
    BY <1>1, <1>6, <1>7
  <1>11. InSync(d, Tail(q), g) /\ State(c, q, 1) = d
    BY <1>8, <1>9, SyncProcessed
  <1>12. /\ Backlog(c, q) # <<>>
         /\ Head(Backlog(c, q)) = d
         /\ Tail(Backlog(c, q)) = Backlog(d, Tail(q))
    <2>1. /\ Backlog(c, q) # <<>>
          /\ Head(Backlog(c, q)) = State(c, q, 1)
          /\ Tail(Backlog(c, q)) = Backlog(State(c, q, 1), Tail(q))
      BY <1>9, BacklogTail
    <2> QED
      BY <1>11, <2>1, Zenon
  <1>13. InSync(cache', ToCome', catalog')
    BY <1>5, <1>6, <1>7, <1>11, Zenon
  <1>14. /\ Backlog(cache, ToCome) # <<>>
         /\ cache' = Head(Backlog(cache, ToCome))
         /\ Backlog(cache', ToCome') = Tail(Backlog(cache, ToCome))
    BY <1>5, <1>7, <1>12, Zenon
  <1>15. Replica!CatchUp
    BY <1>6, <1>14 DEF Replica!CatchUp, Backlog, After, State
  <1> QED
    BY <1>13, <1>15

LEMMA SyncInit ==
    ASSUME NEW a, Admin = {a}, Init
    PROVE  SyncInv /\ Replica!Init
  <1>1. TypeOK /\ cache \in [Product -> Row]
    BY TypeInit DEF TypeOK
  <1>2. Handled = 1..0 /\ taken = 0 /\ stream = <<>> /\ admin[a] = NoEvent /\ Len(<<>>) = 0
    BY DEF Init, Handled
  <1>3. ToCome = Queue(<<>>, 0, NoEvent)
    <2>1. Cardinality(1..0) = 0
      BY CountOfInterval
    <2> QED
      BY <1>2, <2>1, ToComeIsQueue
  <1>4. ToCome \in Seq(Event) /\ Len(ToCome) = 0
    <2>1. <<>> \in Seq(Event) /\ 0 \in 0..Len(<<>>) /\ NoEvent \in Event \union {NoEvent}
      OBVIOUS
    <2>2. /\ Queue(<<>>, 0, NoEvent) \in Seq(Event)
          /\ Len(Queue(<<>>, 0, NoEvent)) = Len(<<>>) - 0 + (IF NoEvent = NoEvent THEN 0 ELSE 1)
      BY <2>1, QueueShape
    <2> QED
      BY <1>2, <1>3, <2>2
  <1>5. InStep
    BY <1>2 DEF InStep, Init, Holds
  <1>6. State(cache, ToCome, 0) = cache /\ cache = catalog
    BY <1>1, StateZero DEF Init
  <1>7. InSync(cache, ToCome, catalog)
    BY <1>4, <1>6 DEF InSync
  <1>8. Backlog(cache, ToCome) = <<>>
    <2>1. PICK q \in Seq(Event): q = ToCome /\ Len(q) = 0
      BY <1>4
    <2>2. \A n \in 1..Len(q): State(cache, q, n) \in Row
      BY <2>1
    <2>3. Backlog(cache, q) \in Seq(Row) /\ Len(Backlog(cache, q)) = Len(q)
      BY <2>2, BacklogIsSeq
    <2>4. Backlog(cache, q) = <<>>
      BY <2>1, <2>3, EmptySeq
    <2> QED
      BY <2>1, <2>4
  <1>9. Replica!Init
    BY <1>8 DEF Replica!Init, Init, Backlog, After, State
  <1> QED
    BY <1>1, <1>5, <1>7, <1>9 DEF SyncInv

LEMMA SyncStep ==
    ASSUME OneWorker, MaxFault = 0, NEW a, Admin = {a}, SyncInv, trimmed <= taken, [Next]_vars
    PROVE  SyncInv' /\ [Replica!Next]_(Replica!vars)
  <1> DEFINE Kept == InSync(cache', ToCome', catalog')
             Abstract == Replica!Next \/ UNCHANGED Replica!vars
             Goal == InStep' /\ Kept /\ Abstract
  <1>0. TypeOK /\ TypeOK' /\ InStep
    BY TypeStep DEF SyncInv
  <1>00. SUFFICES Goal
    BY <1>0 DEF SyncInv
  <1> USE DEF mongo, redis, api, table
  <1>1. ASSUME NEW p \in Product, NEW s \in Slug \union {NoSlug}, NEW t \in EventType,
               WriteProduct(a, p, s, t),
               \A row \in Row: row.slug = s => Fits([type |-> t, id |-> p, row |-> row], catalog)
        PROVE  Goal
    <2> DEFINE row == [slug |-> s, write |-> writes + 1]
               e == [type |-> t, id |-> p, row |-> row]
    <2>1. row \in Row /\ e \in Event
      BY <1>0, <1>1, BoundsAssumption DEF WriteProduct, TypeOK, Row, Event
    <2>2. /\ admin[a] = NoEvent /\ admin' = [admin EXCEPT ![a] = e]
          /\ catalog' = [catalog EXCEPT ![p] = row]
          /\ UNCHANGED <<cache, stream, applied, failed, taken, worker, next, last>>
      BY <1>1 DEF WriteProduct
    <2>3. Fits(e, catalog)
      BY <1>1, <2>1
    <2>4. \A k \in Product: catalog'[k] = IF e.id = k THEN e.row ELSE catalog[k]
      BY <1>0, <2>2 DEF TypeOK
    <2> HIDE DEF e
    <2>5. Kept /\ Backlog(cache', ToCome') = Append(Backlog(cache, ToCome), catalog')
      BY <1>0, <2>1, <2>2, <2>3, <2>4, WriteIsSync
    <2>6. Replica!Write
      BY <2>1, <2>2, <2>5, BacklogIsNow DEF Replica!Write, Replica!vars
    <2>7. InStep'
      BY <1>0, <2>2 DEF InStep, Handled, Holds
    <2> QED
      BY <2>5, <2>6, <2>7 DEF Replica!Next
  <1>2. CASE CreateProduct(a)
    BY <1>1, <1>2 DEF CreateProduct, Fits, EventType
  <1>3. CASE UpdateProduct(a)
    BY <1>1, <1>3 DEF UpdateProduct, Fits, EventType
  <1>4. CASE DeleteProduct(a)
    BY <1>1, <1>4 DEF DeleteProduct, Fits, EventType
  <1>5. CASE ChangeFabric(a)
    <2> DEFINE e == [NoEvent EXCEPT !.type = "FABRIC_CHANGED"]
    <2>1. Absent \in Row
      BY BoundsAssumption DEF Absent, Row
    <2>2. e \in Event /\ e.id = NoProduct /\ e.type = "FABRIC_CHANGED"
      BY <2>1 DEF NoEvent, Event, EventType
    <2>3. /\ admin[a] = NoEvent /\ admin' = [admin EXCEPT ![a] = e]
          /\ UNCHANGED <<catalog, cache, stream, applied, failed, taken, worker, next, last>>
      BY <1>5 DEF ChangeFabric
    <2> HIDE DEF e
    <2>4. Fits(e, catalog)
      BY <2>2 DEF Fits
    <2>5. \A k \in Product: catalog'[k] = IF e.id = k THEN e.row ELSE catalog[k]
      BY <2>2, <2>3, NamesAssumption
    <2>6. Kept /\ Backlog(cache', ToCome') = Append(Backlog(cache, ToCome), catalog')
      BY <1>0, <2>2, <2>3, <2>4, <2>5, WriteIsSync
    <2>7. Replica!Write
      BY <2>3, <2>6, BacklogIsNow DEF Replica!Write, Replica!vars
    <2>8. InStep'
      BY <1>0, <2>3 DEF InStep, Handled, Holds
    <2> QED
      BY <2>6, <2>7, <2>8 DEF Replica!Next
  <1>6. CASE PublishCatalogEvent(a)
    <2>1. InStep'
      BY <1>0, <1>6 DEF PublishCatalogEvent, AddEntry, InStep, Handled, Holds
    <2> QED
      BY <1>6, <2>1, PublishIsSync
  <1>7. ~Fails
    BY <1>0 DEF Fails, TypeOK
  <1>8. ASSUME InStep', UNCHANGED <<cache, catalog, admin, stream, applied, failed>> PROVE Goal
    BY <1>8, IdleIsSync
  <1>9. ASSUME NEW w \in Worker, StartCatalogEventWorker(w) PROVE Goal
    <2>1. taken = 0 /\ Handled = 1..taken
      BY <1>0, <1>9 DEF StartCatalogEventWorker, InStep
    <2>2. worker'[w] = "reading" /\ UNCHANGED <<taken, applied, failed>>
      BY <1>0, <1>9 DEF StartCatalogEventWorker, TypeOK
    <2>3. InStep'
      BY <2>1, <2>2 DEF OneWorker, InStep, Handled, Holds
    <2> QED
      BY <1>8, <1>9, <2>3 DEF StartCatalogEventWorker
  <1>10. ASSUME NEW w \in Worker, ReadStream(w) PROVE Goal
    <2>1. trimmed \in Nat /\ taken \in Nat /\ FirstUnread = taken + 1
      BY <1>0, LenProperties DEF FirstUnread, TypeOK
    <2>2. /\ FirstUnread \in Nat /\ LastOfBatch \in Nat /\ FirstUnread <= LastOfBatch
      BY <1>0, <1>10, BatchBounds DEF ReadStream, HandOut
    <2>3. Handled = 1..taken
      BY <1>0, <1>10 DEF ReadStream, InStep
    <2>4. /\ worker'[w] = "acking" /\ next'[w] = taken + 1 /\ last'[w] = LastOfBatch
          /\ taken' = LastOfBatch /\ UNCHANGED <<applied, failed, cache, catalog, admin, stream>>
      BY <1>0, <1>10, <2>1 DEF ReadStream, HandOut, TypeOK
    <2>5. taken \in 0..taken' /\ (taken + 1) - 1 = taken
      BY <2>1, <2>2, <2>4
    <2>6. InStep'
      BY <2>3, <2>4, <2>5 DEF OneWorker, InStep, Handled, Holds
    <2> QED
      BY <1>8, <2>4, <2>6
  <1>11. ASSUME NEW w \in Worker, Acknowledge(w) PROVE Goal
    <2>1. InStep'
      BY <1>0, <1>11 DEF Acknowledge, OneWorker, InStep, Handled, Holds, TypeOK
    <2> QED
      BY <1>8, <1>11, <2>1 DEF Acknowledge
  <1>12. ASSUME NEW w \in Worker, ProcessEvent(w) PROVE Goal
    <2>1. /\ next[w] \in Nat /\ next[w] >= 1 /\ next[w] <= last[w] /\ last[w] = taken
          /\ taken \in Nat /\ Handled = 1..(next[w] - 1)
      BY <1>0, <1>12 DEF ProcessEvent, InStep, Holds, TypeOK
    <2>2. Handled' = 1..next[w] /\ taken' = taken
      <3>1. Handled' = Handled \union {next[w]} /\ taken' = taken
        BY <1>12 DEF ProcessEvent, Handled
      <3> QED
        BY <2>1, <3>1
    <2>3. \/ worker'[w] = "acking" /\ next'[w] = next[w] + 1 /\ last'[w] = last[w]
          \/ worker'[w] = "reading" /\ next[w] = last[w]
      BY <1>0, <1>12 DEF ProcessEvent, NextMessage, Leave, TypeOK
    <2>4. next[w] \in 0..taken' /\ (next[w] + 1) - 1 = next[w]
      BY <2>1, <2>2
    <2>5. InStep'
      BY <2>1, <2>2, <2>3, <2>4 DEF OneWorker, InStep, Holds
    <2> QED
      BY <1>0, <1>12, <2>5, ProcessIsSync DEF Replica!Next
  <1>13. ASSUME NEW w \in Worker PROVE ~ProcessEventRejected(w)
    BY NextCanBeProcessed DEF ProcessEventRejected
  <1>14. CASE UNCHANGED vars
    <2>1. InStep'
      BY <1>0, <1>14 DEF vars, InStep, Handled, Holds
    <2> QED
      BY <1>8, <1>14, <2>1 DEF vars
  <1> QED
    BY <1>2, <1>3, <1>4, <1>5, <1>6, <1>7, <1>9, <1>10, <1>11, <1>12, <1>13, <1>14
    DEF Next, Consume, PublishIsLost, PublishIsRepeated, StartFails, ReadNothing, ReadIsLost,
        AcknowledgeFails, ProcessEventFails, Exit

(* As long as Redis trims no entry before the worker has read it, a table  *)
(* kept by one API process from the writes of one admin request at a time  *)
(* goes, when nothing fails, through the states of the catalogue one by    *)
(* one and in order, however far behind it falls.                          *)
THEOREM TableIsReplica ==
    ASSUME OneWorker, OneAdmin, Admin # {}, MaxFault = 0
    PROVE  Spec /\ [](trimmed <= taken) => IsReplica
  <1>1. PICK a: Admin = {a}
    BY DEF OneAdmin
  <1>2. Init => SyncInv /\ Replica!Init
    BY <1>1, SyncInit
  <1>3. trimmed <= taken /\ SyncInv /\ [Next]_vars => SyncInv' /\ [Replica!Next]_(Replica!vars)
    BY <1>1, SyncStep
  <1> QED
    BY <1>2, <1>3, PTL DEF Spec, IsReplica, Replica!Spec

(* A stream that is large enough for every event is not trimmed. *)
NothingTrimmed ==
    /\ trimmed = 0
    /\ \A a \in Admin: Len(stream) + (IF admin[a] = NoEvent THEN 0 ELSE 1) <= writes

LEMMA NothingTrimmedStep ==
    ASSUME OneAdmin, MaxFault = 0, MaxWrite <= MaxLen, TypeOK, NothingTrimmed, [Next]_vars
    PROVE  NothingTrimmed'
  <1> USE DEF mongo, redis, api, table
  <1>1. Len(stream) \in Nat /\ writes \in Nat /\ writes <= MaxWrite /\ MaxWrite \in Nat
    BY BoundsAssumption, LenProperties DEF TypeOK
  <1>2. ~Fails
    BY DEF Fails, TypeOK
  <1>3. ASSUME NEW a \in Admin, UNCHANGED <<stream, trimmed>>, writes' = writes + 1,
               admin[a] = NoEvent
        PROVE  NothingTrimmed'
    <2>1. Len(stream) <= writes
      BY <1>3 DEF NothingTrimmed
    <2> QED
      BY <1>1, <1>3, <2>1 DEF NothingTrimmed
  <1>4. ASSUME NEW a \in Admin, \/ CreateProduct(a) \/ UpdateProduct(a)
                                \/ DeleteProduct(a) \/ ChangeFabric(a)
        PROVE  NothingTrimmed'
    BY <1>3, <1>4 DEF CreateProduct, UpdateProduct, DeleteProduct, WriteProduct, ChangeFabric
  <1>5. ASSUME NEW a \in Admin, PublishCatalogEvent(a) PROVE NothingTrimmed'
    <2>1. /\ Len(stream) + 1 <= writes /\ trimmed = 0
          /\ admin[a] # NoEvent /\ admin[a] \in Event /\ AddEntry(admin[a])
          /\ admin' = [admin EXCEPT ![a] = NoEvent] /\ UNCHANGED writes
      BY <1>5, EventTypes DEF PublishCatalogEvent, NothingTrimmed
    <2>2. Len(stream') = Len(stream) + 1
      BY <2>1, AddEntryTypes
    <2>3. trimmed' = 0
      BY <1>1, <2>1, <2>2, MaxLenAssumption DEF AddEntry
    <2>4. \A b \in Admin: admin'[b] = NoEvent
      BY <2>1 DEF OneAdmin, TypeOK
    <2> QED
      BY <1>1, <2>1, <2>2, <2>3, <2>4 DEF NothingTrimmed
  <1>6. ASSUME NEW w \in Worker,
               \/ StartCatalogEventWorker(w) \/ ReadStream(w) \/ Acknowledge(w)
               \/ ProcessEvent(w) \/ ProcessEventRejected(w)
        PROVE  NothingTrimmed'
    BY <1>6 DEF StartCatalogEventWorker, ReadStream, HandOut, Acknowledge, ProcessEvent,
                ProcessEventRejected, ProcessingFailed, NothingTrimmed
  <1>7. CASE UNCHANGED vars
    BY <1>7 DEF vars, NothingTrimmed
  <1> QED
    BY <1>2, <1>4, <1>5, <1>6, <1>7
    DEF Next, Consume, PublishIsLost, PublishIsRepeated, StartFails, ReadNothing, ReadIsLost,
        AcknowledgeFails, ProcessEventFails, Exit

(* So with as many writes as the stream has room for, the table is a       *)
(* replica whatever the worker's pace.                                     *)
THEOREM TableIsReplicaOfShortHistory ==
    ASSUME OneWorker, OneAdmin, Admin # {}, MaxFault = 0, MaxWrite <= MaxLen
    PROVE  Spec => IsReplica
  <1>1. Init => NothingTrimmed
    BY DEF Init, NothingTrimmed
  <1>2. TypeOK /\ NothingTrimmed /\ [Next]_vars => NothingTrimmed'
    BY NothingTrimmedStep
  <1>3. TypeOK /\ NothingTrimmed => trimmed <= taken
    BY DEF TypeOK, NothingTrimmed
  <1>4. Spec /\ [](trimmed <= taken) => IsReplica
    BY TableIsReplica
  <1> QED
    BY <1>1, <1>2, <1>3, <1>4, CatalogTypeCorrect, PTL DEF Spec

=============================================================================
