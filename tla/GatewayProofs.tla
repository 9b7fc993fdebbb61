--------------------------- MODULE GatewayProofs ---------------------------
(***************************************************************************)
(* A call through the gateway runs its handler once at most, for any       *)
(* number of calls at a time; it is handled by the route it names; and     *)
(* the four tables (public routes, permissions, service map, routes) agree *)
(* on it.  The tables are constants of the code, but TLAPS cannot compute  *)
(* them: a table is good when it is in order, lies under its prefixes and  *)
(* agrees with the gateway, and good tables under different prefixes may   *)
(* be joined.                                                              *)
(***************************************************************************)
EXTENDS Gateway, TLAPS

\* What a slot may hold: runs counts the handler.
Sent(c) == /\ "at" \in DOMAIN c /\ "runs" \in DOMAIN c /\ "by" \in DOMAIN c
           /\ "status" \in DOMAIN c /\ "name" \in DOMAIN c
           /\ c.at \in {"sent", "handling", "handled", "lost", "answered"}
           /\ c.runs \in {0, 1}
           /\ c.at \in {"sent", "handling"} => c.runs = 0
           /\ c.at = "handled" => c.runs = 1
           /\ c.at # "answered" => c.by = "gateway"
           /\ c.by = "service" /\ c.status = 200 => c.runs = 1

RunsOK == /\ req = [q \in Request |-> req[q]]
          /\ \A q \in Request : req[q] = Idle \/ Sent(req[q])

\* The refusals of a service are no successes.
LEMMA RefusalsFail ==
    ASSUME NEW s, NEW call, ServiceAnswer(s, call) # Pass
    PROVE  ServiceAnswer(s, call) # 200
BY DEF ServiceAnswer, Refusal, Pass

LEMMA SlotStep ==
    ASSUME RunsOK, NEW q \in Request, NEW c, req' = [req EXCEPT ![q] = c], c = Idle \/ Sent(c)
    PROVE  RunsOK'
BY DEF RunsOK

LEMMA AnswerStep ==
    ASSUME RunsOK, NEW q \in Request, InFlight(q), NEW by, NEW status, Answered(q, by, status),
           by = "service" /\ status = 200 => req[q].runs = 1
    PROVE  RunsOK'
<1> DEFINE c == [req[q] EXCEPT !.at = "answered", !.by = by, !.status = status]
<1>1. Sent(req[q]) BY DEF RunsOK, InFlight, Idle
<1>2. Sent(c) BY <1>1 DEF Sent
<1>3. req' = [req EXCEPT ![q] = c] BY <1>1 DEF Answered, RunsOK, Sent
<1> HIDE DEF c
<1> QED BY <1>2, <1>3, SlotStep

LEMMA RunsStep == RunsOK /\ [Next]_vars => RunsOK'
<1> SUFFICES ASSUME RunsOK, [Next]_vars PROVE RunsOK' OBVIOUS
<1>1. ASSUME NEW q \in Request, NEW call \in Call, Receive(q, call) \/ Limited(q, call)
      PROVE  RunsOK'
  <2>1. PICK at, status :
          /\ at \in {"sent", "answered"}
          /\ req' = [req EXCEPT ![q] = [at |-> at, call |-> call, by |-> "gateway",
                                        name |-> "nothing", status |-> status, runs |-> 0]]
    BY <1>1 DEF Receive, Limited
  <2> DEFINE c == [at |-> at, call |-> call, by |-> "gateway", name |-> "nothing",
                   status |-> status, runs |-> 0]
  <2>2. Sent(c) BY <2>1 DEF Sent
  <2> HIDE DEF c
  <2> QED BY <2>1, <2>2, SlotStep DEF c
<1>2. ASSUME NEW q \in Request, ServiceLimits(q) PROVE RunsOK'
  BY <1>2, AnswerStep DEF ServiceLimits, InFlight
<1>3. ASSUME NEW q \in Request, Serve(q) PROVE RunsOK'
  <2> DEFINE answer == ServiceAnswer(To(q), req[q].call)
             c == [req[q] EXCEPT !.at = "handling", !.name = First(To(q), req[q].call).name]
  <2>1. Sent(req[q]) /\ req[q].at = "sent" BY <1>3 DEF RunsOK, Serve, Idle
  <2>2. CASE answer # Pass
    BY <1>3, <2>1, <2>2, RefusalsFail, AnswerStep DEF Serve, InFlight
  <2>3. CASE answer = Pass
    <3>1. Sent(c) BY <2>1 DEF Sent
    <3>2. req' = [req EXCEPT ![q] = c] BY <1>3, <2>3 DEF Serve
    <3> HIDE DEF c
    <3> QED BY <3>1, <3>2, SlotStep
  <2> QED BY <2>2, <2>3
<1>4. ASSUME NEW q \in Request, Handle(q) PROVE RunsOK'
  <2> DEFINE c == [req[q] EXCEPT !.at = "handled", !.runs = @ + 1]
  <2>1. Sent(req[q]) /\ req[q].at = "handling" BY <1>4 DEF RunsOK, Handle, Idle
  <2>2. Sent(c) BY <2>1 DEF Sent
  <2>3. req' = [req EXCEPT ![q] = c] BY <1>4 DEF Handle
  <2> HIDE DEF c
  <2> QED BY <2>2, <2>3, SlotStep
<1>5. ASSUME NEW q \in Request, Reply(q) PROVE RunsOK'
  <2>1. Sent(req[q]) /\ req[q].at = "handled" BY <1>5 DEF RunsOK, Reply, Idle
  <2> QED BY <1>5, <2>1, AnswerStep DEF Reply, InFlight, Sent
<1>6. ASSUME NEW q \in Request, ProxyFails(q) PROVE RunsOK'
  BY <1>6, AnswerStep DEF ProxyFails
<1>7. ASSUME NEW q \in Request, Leave(q) PROVE RunsOK'
  BY <1>7, SlotStep DEF Leave
<1>8. ASSUME NEW s \in Service, ServiceStops(s) PROVE RunsOK'
  <2>1. ASSUME NEW q \in Request PROVE req'[q] = Idle \/ Sent(req'[q])
    <3>1. CASE req[q].at \in {"handling", "handled"} /\ To(q) = s
      <4> DEFINE c == [req[q] EXCEPT !.at = "lost"]
      <4>1. Sent(req[q]) BY <3>1 DEF RunsOK, Idle
      <4>2. Sent(c) BY <4>1, <3>1 DEF Sent
      <4>3. req'[q] = c BY <1>8, <3>1 DEF ServiceStops
      <4> HIDE DEF c
      <4> QED BY <4>2, <4>3
    <3>2. CASE ~(req[q].at \in {"handling", "handled"} /\ To(q) = s)
      <4>1. req'[q] = req[q] BY <1>8, <3>2 DEF ServiceStops
      <4> QED BY <4>1 DEF RunsOK
    <3> QED BY <3>1, <3>2
  <2>2. req' = [q \in Request |-> req'[q]] BY <1>8 DEF ServiceStops
  <2> QED BY <2>1, <2>2 DEF RunsOK
<1>9. CASE UNCHANGED req BY <1>9 DEF RunsOK
<1>10. CASE Exit BY <1>10 DEF Exit, RunsOK
<1>11. ASSUME NEW s \in Service, ServiceStarts(s) PROVE RunsOK' BY <1>9, <1>11 DEF ServiceStarts
<1>12. CASE gracefulShutdown \/ Start \/ BackendsChange
  BY <1>9, <1>12 DEF gracefulShutdown, Start, BackendsChange
<1>13. CASE UNCHANGED vars BY <1>9, <1>13 DEF vars
<1> QED BY <1>1, <1>2, <1>3, <1>4, <1>5, <1>6, <1>7, <1>8, <1>10, <1>11, <1>12, <1>13
        DEF Next, Proceed

\* However calls fail and services stop, a handler runs once at most, and a call that
\* its service answered with success has run.
THEOREM HandlersRunOnce == Spec => []HandledOnce
<1>1. Init => RunsOK BY DEF Init, RunsOK
<1>2. RunsOK => HandledOnce BY DEF RunsOK, HandledOnce, Sent
<1> QED BY <1>1, <1>2, RunsStep, PTL DEF Spec

(***************************************************************************)
(* Sequences of anything.                                                  *)
(***************************************************************************)
IsSequence(s) == Len(s) \in Nat /\ s = [k \in 1 .. Len(s) |-> s[k]]

LEMMA SequenceOver ==
    ASSUME NEW s, IsSequence(s), NEW A, \A k \in 1 .. Len(s) : s[k] \in A
    PROVE  s \in Seq(A)
<1>1. s \in [1 .. Len(s) -> A]
  BY DEF IsSequence
<1> QED BY <1>1 DEF IsSequence

LEMMA SequenceOf == ASSUME NEW A, NEW s \in Seq(A) PROVE IsSequence(s)
BY DEF IsSequence

LEMMA SequenceMade ==
    ASSUME NEW A, NEW n \in Nat, NEW s \in [1 .. n -> A]
    PROVE  IsSequence(s) /\ Len(s) = n
<1>1. s \in Seq(A) /\ Len(s) = n
  OBVIOUS
<1> QED BY <1>1 DEF IsSequence

LEMMA ConcatMakes ==
    ASSUME NEW s, NEW t, IsSequence(s), IsSequence(t)
    PROVE  /\ IsSequence(s \o t) /\ Len(s \o t) = Len(s) + Len(t)
           /\ \A k \in 1 .. Len(s) : (s \o t)[k] = s[k]
           /\ \A k \in 1 .. Len(t) : (s \o t)[Len(s) + k] = t[k]
<1> DEFINE A == {s[k] : k \in 1 .. Len(s)} \cup {t[k] : k \in 1 .. Len(t)}
<1>1. Len(s) \in Nat /\ Len(t) \in Nat
  BY DEF IsSequence
<1>2. s \in Seq(A) /\ t \in Seq(A)
  BY SequenceOver
<1> HIDE DEF A
<1>3. s \o t \in Seq(A) /\ Len(s \o t) = Len(s) + Len(t)
  BY <1>2
<1>4. IsSequence(s \o t)
  BY <1>3, SequenceOf
<1>5. \A k \in 1 .. Len(s) : (s \o t)[k] = s[k]
  BY <1>1, <1>2
<1>6. ASSUME NEW k \in 1 .. Len(t)
      PROVE  (s \o t)[Len(s) + k] = t[k]
  <2>1. Len(s) + k \in 1 .. Len(s) + Len(t) /\ Len(s) + k > Len(s) /\ (Len(s) + k) - Len(s) = k
    BY <1>1
  <2>2. (s \o t)[Len(s) + k] = t[(Len(s) + k) - Len(s)]
    BY <1>1, <1>2, <2>1
  <2> QED BY <2>1, <2>2
<1> QED BY <1>3, <1>4, <1>5, <1>6

LEMMA PrefixMeans ==
    ASSUME NEW p, NEW s, IsSequence(p), IsSequence(s)
    PROVE  IsPrefix(p, s) <=> Len(p) <= Len(s) /\ \A k \in 1 .. Len(p) : p[k] = s[k]
<1> DEFINE A == {p[k] : k \in 1 .. Len(p)} \cup {s[k] : k \in 1 .. Len(s)}
<1>1. p \in Seq(A) /\ s \in Seq(A)
  BY SequenceOver
<1> HIDE DEF A
<1> QED BY <1>1 DEF IsPrefix

(***************************************************************************)
(* Paths.                                                                  *)
(***************************************************************************)
\* What a parameter is filled in with.
Fill(x) == IF x = "*" THEN "id1" ELSE x
Filled(path) == [k \in DOMAIN path |-> Fill(path[k])]

LEMMA FilledPath ==
    ASSUME NEW path, IsSequence(path)
    PROVE  /\ IsSequence(Filled(path)) /\ Len(Filled(path)) = Len(path)
           /\ \A k \in 1 .. Len(path) : Filled(path)[k] = Fill(path[k])
<1>1. Len(path) \in Nat /\ DOMAIN path = 1 .. Len(path)
  BY DEF IsSequence
<1>2. Filled(path) \in [1 .. Len(path) -> {Fill(path[k]) : k \in 1 .. Len(path)}]
  BY <1>1 DEF Filled
<1>3. \A k \in 1 .. Len(path) : Filled(path)[k] = Fill(path[k])
  BY <1>1 DEF Filled
<1> QED BY <1>1, <1>2, <1>3, SequenceMade

\* The prefixes the gateway knows.
Collection == {"products", "categories", "fabrics", "fabric-categories"}
Key == {Auth, Orders} \cup {Catalog(c) : c \in Collection \cup {"admin"}}

LEMMA KeyPaths ==
    /\ IsSequence(Auth) /\ Len(Auth) = 2 /\ Auth[1] = "api" /\ Auth[2] = "auth"
    /\ IsSequence(Orders) /\ Len(Orders) = 2 /\ Orders[1] = "api" /\ Orders[2] = "orders"
    /\ \A c : /\ IsSequence(Catalog(c)) /\ Len(Catalog(c)) = 3
              /\ Catalog(c)[1] = "api" /\ Catalog(c)[2] = "v1" /\ Catalog(c)[3] = c
    /\ \A c : /\ IsSequence(Admin(c)) /\ Len(Admin(c)) = 4 /\ Admin(c)[1] = "api"
              /\ Admin(c)[2] = "v1" /\ Admin(c)[3] = "admin" /\ Admin(c)[4] = c
<1>1. /\ IsSequence(Auth) /\ Len(Auth) = 2 /\ Auth[1] = "api" /\ Auth[2] = "auth"
      /\ IsSequence(Orders) /\ Len(Orders) = 2 /\ Orders[1] = "api" /\ Orders[2] = "orders"
  BY DEF Auth, Orders, IsSequence
<1>2. ASSUME NEW c
      PROVE  /\ IsSequence(Catalog(c)) /\ Len(Catalog(c)) = 3
             /\ Catalog(c)[1] = "api" /\ Catalog(c)[2] = "v1" /\ Catalog(c)[3] = c
  BY DEF Catalog, IsSequence
<1>3. ASSUME NEW c
      PROVE  /\ IsSequence(Admin(c)) /\ Len(Admin(c)) = 4 /\ Admin(c)[1] = "api"
             /\ Admin(c)[2] = "v1" /\ Admin(c)[3] = "admin" /\ Admin(c)[4] = c
  BY DEF Admin, IsSequence
<1> QED BY <1>1, <1>2, <1>3

\* A path under one key is under no other, and goes to the service of the key.
LEMMA ServedByKey ==
    ASSUME NEW call, IsSequence(call.path), NEW p \in Key, IsPrefix(p, call.path)
    PROVE  /\ Serving(call) = {p}
           /\ resolveService(call) = IF p \in {Auth, Orders} THEN "core" ELSE "catalog"
<1> DEFINE Path(k) == IsSequence(k) /\ Len(k) \in {2, 3}
<1>1. DOMAIN SERVICE_MAP = Key
  BY DEF SERVICE_MAP, Key, Collection
<1>2. SERVICE_MAP[p] = IF p \in {Auth, Orders} THEN "core" ELSE "catalog"
  BY DEF SERVICE_MAP, Key, Collection
<1>3. ASSUME NEW k \in Key PROVE Path(k)
  BY KeyPaths DEF Key
<1>4. ASSUME NEW q \in Key, IsPrefix(q, call.path)
      PROVE  q = p
  <2>1. Path(q) /\ Path(p)
    BY <1>3
  <2>2. q[2] = p[2]
    BY <1>4, <2>1, PrefixMeans
  <2>3. CASE p = Auth BY <2>2, <2>3, KeyPaths DEF Key
  <2>4. CASE p = Orders BY <2>2, <2>4, KeyPaths DEF Key
  <2>5. ASSUME NEW c \in Collection \cup {"admin"}, p = Catalog(c)
        PROVE  q = p
    <3>1. PICK d \in Collection \cup {"admin"} : q = Catalog(d)
      BY <2>2, <2>5, KeyPaths DEF Key
    <3>2. p[3] = call.path[3] /\ q[3] = call.path[3]
      BY <1>4, <2>1, <2>5, <3>1, KeyPaths, PrefixMeans
    <3> QED BY <2>5, <3>1, <3>2, KeyPaths
  <2> QED BY <2>3, <2>4, <2>5 DEF Key
<1>5. Serving(call) = {p}
  BY <1>1, <1>4 DEF Serving
<1>6. (CHOOSE x \in Serving(call) : \A o \in Serving(call) : Len(o) <= Len(x)) = p
  <2>1. Len(p) <= Len(p)
    BY <1>3
  <2> QED BY <1>5, <2>1
<1> QED BY <1>2, <1>5, <1>6 DEF resolveService

(***************************************************************************)
(* Routes and the calls that name them.                                    *)
(***************************************************************************)
IsRoute(r) ==
  /\ r = [method |-> r.method, path |-> r.path, name |-> r.name, roles |-> r.roles,
          csrf |-> r.csrf]
  /\ IsSequence(r.path)

IsTable(table) == IsSequence(table) /\ \A i \in 1 .. Len(table) : IsRoute(table[i])

\* A call that fills in a route.
Names(call, r) ==
  /\ call.method = r.method /\ call.name = r.name
  /\ call.path = Filled(r.path) /\ call.caller \in Caller

\* Route a fits the calls that fill in route b.
Shadows(a, b) ==
  /\ a.method = b.method
  /\ Len(a.path) = Len(b.path)
  /\ \A k \in 1 .. Len(b.path) : a.path[k] \in {"*", Fill(b.path[k])}

\* No route of a table hides a later one.
Ordered(table) ==
  \A i, j \in 1 .. Len(table) : Shadows(table[j], table[i]) => i <= j

\* The tables of the code are told apart by where they are mounted.
Prefix == {Auth, Orders} \cup {Catalog(c) : c \in Collection}
          \cup {Admin(c) : c \in Collection \cup {"uploads"}}
Under(r, p) == Len(p) <= Len(r.path) /\ \A k \in 1 .. Len(p) : r.path[k] = p[k]
Within(table, P) == \A i \in 1 .. Len(table) : \E p \in P : Under(table[i], p)

LEMMA PrefixesApart ==
    ASSUME NEW a, NEW b, IsRoute(a), IsRoute(b), Shadows(a, b), NEW p \in Prefix, NEW q \in Prefix,
           Under(a, p), Under(b, q)
    PROVE  p = q
<1>1. Len(p) \in {2, 3, 4} /\ Len(q) \in {2, 3, 4}
  BY KeyPaths DEF Prefix
<1>2. \A k \in 1 .. 4 : k <= Len(p) /\ k <= Len(q) => p[k] \in {"*", Fill(q[k])}
  <2>1. Len(a.path) = Len(b.path) /\ Len(b.path) \in Nat
    BY DEF Shadows, IsRoute, IsSequence
  <2> QED BY <1>1, <2>1 DEF Shadows, Under
<1>3. p[2] \in {"*", Fill(q[2])}
  BY <1>1, <1>2
<1>4. CASE p \in {Auth, Orders} \/ q \in {Auth, Orders}
  BY <1>3, <1>4, KeyPaths DEF Prefix, Fill
<1>5. ASSUME NEW c \in Collection, p = Catalog(c)
      PROVE  p = q
  <2>1. p[3] \in {"*", Fill(q[3])} \/ q \in {Auth, Orders}
    BY <1>2, <1>5, KeyPaths DEF Prefix
  <2> QED BY <1>4, <1>5, <2>1, KeyPaths DEF Prefix, Fill, Collection
<1>6. ASSUME NEW c \in Collection \cup {"uploads"}, p = Admin(c)
      PROVE  p = q
  <2>1. p[3] \in {"*", Fill(q[3])} \/ q \in {Auth, Orders}
    BY <1>2, <1>6, KeyPaths DEF Prefix
  <2>2. CASE \E d \in Collection : q = Catalog(d)
    BY <1>6, <2>1, <2>2, KeyPaths DEF Fill, Collection
  <2>3. ASSUME NEW d \in Collection \cup {"uploads"}, q = Admin(d)
        PROVE  p = q
    <3>1. p[4] \in {"*", Fill(q[4])}
      BY <1>2, <1>6, <2>3, KeyPaths
    <3>2. c = d
      BY <1>6, <2>3, <3>1, KeyPaths DEF Fill, Collection
    <3> QED BY <1>6, <2>3, <3>2
  <2> QED BY <1>4, <2>2, <2>3 DEF Prefix
<1> QED BY <1>4, <1>5, <1>6 DEF Prefix

\* The four tables agree on a call of a route of a service.
AgreesOn(call, r, s) ==
  /\ Serving(call) # {} /\ resolveService(call) = s
  /\ call.caller \in Role \cap r.roles =>
       authorise(call) \/ (call.caller = "TAILOR" /\ r.name \in KeptFromTailors)
  /\ isPublicRoute(call) => "none" \in r.roles
  /\ "none" \in r.roles => isPublicRoute(call) \/ r.name \in {"logout", "fabricFormula"}

Agrees(r, s) == \A call : Names(call, r) => AgreesOn(call, r, s)
AllAgree(table, s) == \A i \in 1 .. Len(table) : Agrees(table[i], s)

GoodTable(table, s, P) ==
  IsTable(table) /\ Ordered(table) /\ Within(table, P) /\ AllAgree(table, s)

\* Tables mounted in one after the other.
LEMMA ConcatTables ==
    ASSUME NEW s, NEW t, NEW S, NEW P \in SUBSET Prefix, NEW q \in Prefix, q \notin P,
           GoodTable(s, S, P), GoodTable(t, S, {q})
    PROVE  GoodTable(s \o t, S, P \cup {q})
<1>1. /\ IsSequence(s \o t) /\ Len(s \o t) = Len(s) + Len(t)
      /\ Len(s) \in Nat /\ Len(t) \in Nat
  BY ConcatMakes DEF GoodTable, IsTable, IsSequence
<1>2. ASSUME NEW i \in 1 .. Len(s \o t)
      PROVE  \/ i \in 1 .. Len(s) /\ (s \o t)[i] = s[i]
             \/ i - Len(s) \in 1 .. Len(t) /\ (s \o t)[i] = t[i - Len(s)]
  <2>1. CASE i <= Len(s)
    BY <1>1, <2>1, ConcatMakes DEF GoodTable, IsTable
  <2>2. CASE i > Len(s)
    <3>1. i - Len(s) \in 1 .. Len(t) /\ Len(s) + (i - Len(s)) = i
      BY <1>1, <2>2
    <3>2. (s \o t)[Len(s) + (i - Len(s))] = t[i - Len(s)]
      BY <3>1, ConcatMakes DEF GoodTable, IsTable
    <3> QED BY <3>1, <3>2
  <2> QED BY <1>1, <2>1, <2>2
<1>3. IsTable(s \o t)
  BY <1>1, <1>2 DEF GoodTable, IsTable
<1>4. Within(s \o t, P \cup {q}) /\ AllAgree(s \o t, S)
  BY <1>2 DEF GoodTable, Within, AllAgree
<1>5. ASSUME NEW i \in 1 .. Len(t), NEW j \in 1 .. Len(s)
      PROVE  ~Shadows(s[j], t[i])
  <2>1. PICK p \in P : Under(s[j], p)
    BY DEF GoodTable, Within
  <2>2. Under(t[i], q) /\ IsRoute(s[j]) /\ IsRoute(t[i])
    BY DEF GoodTable, Within, IsTable
  <2> QED BY <2>1, <2>2, PrefixesApart
<1>6. ASSUME NEW i \in 1 .. Len(s \o t), NEW j \in 1 .. Len(s \o t),
             Shadows((s \o t)[j], (s \o t)[i])
      PROVE  i <= j
  <2>1. CASE i \in 1 .. Len(s) /\ (s \o t)[i] = s[i]
    <3>1. CASE j \in 1 .. Len(s) /\ (s \o t)[j] = s[j]
      BY <1>6, <2>1, <3>1 DEF GoodTable, Ordered
    <3>2. CASE j - Len(s) \in 1 .. Len(t)
      BY <1>1, <2>1, <3>2
    <3> QED BY <1>2, <3>1, <3>2
  <2>2. CASE i - Len(s) \in 1 .. Len(t) /\ (s \o t)[i] = t[i - Len(s)]
    <3>1. CASE j \in 1 .. Len(s) /\ (s \o t)[j] = s[j]
      BY <1>5, <1>6, <2>2, <3>1
    <3>2. CASE j - Len(s) \in 1 .. Len(t) /\ (s \o t)[j] = t[j - Len(s)]
      <4>1. i - Len(s) <= j - Len(s)
        BY <1>6, <2>2, <3>2 DEF GoodTable, Ordered
      <4> QED BY <1>1, <4>1
    <3> QED BY <1>2, <3>1, <3>2
  <2> QED BY <1>2, <2>1, <2>2
<1>7. Ordered(s \o t)
  BY <1>6 DEF Ordered
<1> QED BY <1>3, <1>4, <1>7 DEF GoodTable

LEMMA PathReplaced ==
    ASSUME NEW r, NEW x, r = [method |-> r.method, path |-> r.path, name |-> r.name,
                              roles |-> r.roles, csrf |-> r.csrf]
    PROVE  [r EXCEPT !.path = x] = [method |-> r.method, path |-> x, name |-> r.name,
                                    roles |-> r.roles, csrf |-> r.csrf]
<1>1. PICK m, p, n, o, c : /\ m = r.method /\ p = r.path /\ n = r.name /\ o = r.roles /\ c = r.csrf
  BY Zenon
<1>2. r = [method |-> m, path |-> p, name |-> n, roles |-> o, csrf |-> c]
  BY <1>1, Zenon
<1>3. [r EXCEPT !.path = x]
      = [[method |-> m, path |-> p, name |-> n, roles |-> o, csrf |-> c] EXCEPT !.path = x]
  BY <1>2, Zenon
<1>4. [[method |-> m, path |-> p, name |-> n, roles |-> o, csrf |-> c] EXCEPT !.path = x]
      = [method |-> m, path |-> x, name |-> n, roles |-> o, csrf |-> c]
  OBVIOUS
<1> QED BY <1>1, <1>3, <1>4, Zenon

\* What mounting a router does to its routes.
LEMMA MountedRoute ==
    ASSUME NEW prefix \in Prefix, NEW router, IsTable(router)
    PROVE  /\ IsTable(Mount(prefix, router)) /\ Len(Mount(prefix, router)) = Len(router)
           /\ \A i \in 1 .. Len(router) :
                LET r == Mount(prefix, router)[i]
                IN  /\ r.method = router[i].method /\ r.name = router[i].name
                    /\ r.roles = router[i].roles
                    /\ r.path = prefix \o router[i].path
<1> DEFINE At(i) == [method |-> router[i].method, path |-> prefix \o router[i].path,
                     name |-> router[i].name, roles |-> router[i].roles, csrf |-> router[i].csrf]
<1>1. Len(router) \in Nat /\ DOMAIN router = 1 .. Len(router) /\ IsSequence(prefix)
  BY KeyPaths DEF IsTable, IsSequence, Prefix
<1>2. ASSUME NEW i \in 1 .. Len(router)
      PROVE  Mount(prefix, router)[i] = At(i)
  <2>0. IsRoute(router[i])
    BY DEF IsTable
  <2>1. PICK x : x = prefix \o router[i].path
    OBVIOUS
  <2>2. [router[i] EXCEPT !.path = x] = [method |-> router[i].method, path |-> x,
          name |-> router[i].name, roles |-> router[i].roles, csrf |-> router[i].csrf]
    BY <2>0, PathReplaced, Zenon DEF IsRoute
  <2>3. Mount(prefix, router)[i] = [router[i] EXCEPT !.path = x]
    BY <1>1, <2>1 DEF Mount
  <2> QED BY <2>1, <2>2, <2>3
<1>3. Mount(prefix, router) \in [1 .. Len(router) -> {At(i) : i \in 1 .. Len(router)}]
  BY <1>1, <1>2 DEF Mount
<1>4. IsSequence(Mount(prefix, router)) /\ Len(Mount(prefix, router)) = Len(router)
  BY <1>1, <1>3, SequenceMade
<1>5. ASSUME NEW i \in 1 .. Len(router) PROVE IsRoute(At(i))
  <2>1. IsSequence(prefix \o router[i].path)
    BY <1>1, ConcatMakes DEF IsTable, IsRoute
  <2> QED BY <2>1 DEF IsRoute
<1>6. ASSUME NEW i \in 1 .. Len(router), NEW r, r = Mount(prefix, router)[i]
      PROVE  /\ IsRoute(r) /\ r.method = router[i].method /\ r.name = router[i].name
             /\ r.roles = router[i].roles /\ r.path = prefix \o router[i].path
  <2>1. r = At(i) /\ IsRoute(At(i))
    BY <1>2, <1>5, <1>6
  <2> QED BY <2>1
<1> HIDE DEF At
<1> QED BY <1>4, <1>6 DEF IsTable

LEMMA PrefixPaths ==
    ASSUME NEW p \in Prefix
    PROVE  /\ IsSequence(p) /\ Len(p) \in 2 .. 4 /\ p[1] = "api"
           /\ \A k \in 1 .. Len(p) : Fill(p[k]) = p[k]
<1>1. CASE p \in {Auth, Orders}
  BY <1>1, KeyPaths DEF Fill
<1>2. ASSUME NEW c \in Collection, p = Catalog(c) PROVE \A k \in 1 .. Len(p) : Fill(p[k]) = p[k]
  BY <1>2, KeyPaths DEF Fill, Collection
<1>3. ASSUME NEW c \in Collection \cup {"uploads"}, p = Admin(c)
      PROVE  \A k \in 1 .. Len(p) : Fill(p[k]) = p[k]
  BY <1>3, KeyPaths DEF Fill, Collection
<1>4. IsSequence(p) /\ Len(p) \in 2 .. 4 /\ p[1] = "api"
  BY KeyPaths DEF Prefix
<1> QED BY <1>1, <1>2, <1>3, <1>4 DEF Prefix

Fills(call, prefix, r) ==
  /\ call.method = r.method /\ call.name = r.name /\ call.caller \in Caller
  /\ IsSequence(call.path) /\ Len(call.path) = Len(prefix) + Len(r.path)
  /\ \A k \in 1 .. Len(prefix) : call.path[k] = prefix[k]
  /\ \A k \in 1 .. Len(r.path) : call.path[Len(prefix) + k] = Fill(r.path[k])
  /\ IsPrefix(prefix, call.path)

\* A call that fills in a mounted route: its path is the prefix, and the
\* route's own path filled in.
LEMMA CallOfMounted ==
    ASSUME NEW prefix \in Prefix, NEW router, IsTable(router), NEW i \in 1 .. Len(router),
           NEW call, Names(call, Mount(prefix, router)[i])
    PROVE  Fills(call, prefix, router[i])
<1> DEFINE p == router[i].path
           r == Mount(prefix, router)[i]
<1>1. /\ r.method = router[i].method /\ r.name = router[i].name /\ r.path = prefix \o p
      /\ IsSequence(p) /\ IsSequence(prefix) /\ Len(p) \in Nat /\ Len(prefix) \in Nat
  <2>1. r.method = router[i].method /\ r.name = router[i].name /\ r.path = prefix \o p
    BY MountedRoute
  <2>2. IsSequence(p) /\ IsSequence(prefix)
    BY PrefixPaths DEF IsTable, IsRoute
  <2> QED BY <2>1, <2>2 DEF IsSequence
<1>2. call.path = Filled(r.path)
  BY DEF Names
<1> HIDE DEF p, r
<1>3. /\ IsSequence(r.path) /\ Len(r.path) = Len(prefix) + Len(p)
      /\ \A k \in 1 .. Len(prefix) : r.path[k] = prefix[k]
      /\ \A k \in 1 .. Len(p) : r.path[Len(prefix) + k] = p[k]
  BY <1>1, ConcatMakes
<1>4. /\ IsSequence(call.path) /\ Len(call.path) = Len(prefix) + Len(p)
      /\ \A k \in 1 .. Len(r.path) : call.path[k] = Fill(r.path[k])
  BY <1>2, <1>3, FilledPath
<1>5. ASSUME NEW k \in 1 .. Len(prefix) PROVE call.path[k] = prefix[k]
  <2>1. k \in 1 .. Len(r.path) /\ r.path[k] = prefix[k]
    BY <1>1, <1>3
  <2>2. call.path[k] = Fill(r.path[k])
    BY <1>4, <2>1
  <2> QED BY <2>1, <2>2, PrefixPaths
<1>6. ASSUME NEW k \in 1 .. Len(p) PROVE call.path[Len(prefix) + k] = Fill(p[k])
  <2>1. Len(prefix) + k \in 1 .. Len(r.path) /\ r.path[Len(prefix) + k] = p[k]
    BY <1>1, <1>3
  <2>2. call.path[Len(prefix) + k] = Fill(r.path[Len(prefix) + k])
    BY <1>4, <2>1
  <2> QED BY <2>1, <2>2
<1>7. IsPrefix(prefix, call.path)
  BY <1>1, <1>4, <1>5, PrefixMeans
<1>8. call.method = router[i].method /\ call.name = router[i].name /\ call.caller \in Caller
  BY <1>1 DEF Names, r
<1> QED BY <1>4, <1>5, <1>6, <1>7, <1>8 DEF p, Fills

LEMMA MountAgrees ==
    ASSUME NEW prefix \in Prefix, NEW router, IsTable(router), NEW s,
           \A i \in 1 .. Len(router) : \A call :
             Fills(call, prefix, router[i]) => AgreesOn(call, router[i], s)
    PROVE  AllAgree(Mount(prefix, router), s)
<1> DEFINE T == Mount(prefix, router)
<1>1. Len(T) = Len(router)
  BY MountedRoute
<1>2. ASSUME NEW i \in 1 .. Len(router), NEW call, Names(call, T[i])
      PROVE  AgreesOn(call, T[i], s)
  <2>1. AgreesOn(call, router[i], s)
    BY <1>2, CallOfMounted
  <2>2. T[i].name = router[i].name /\ T[i].roles = router[i].roles
    BY MountedRoute
  <2> HIDE DEF T
  <2> QED BY <2>1, <2>2 DEF AgreesOn
<1> HIDE DEF T
<1> QED BY <1>1, <1>2 DEF AllAgree, Agrees, T

\* path is the path p behind the prefix.
Behind(prefix, p, path) ==
  /\ Len(path) = Len(prefix) + Len(p)
  /\ \A k \in 1 .. Len(prefix) : path[k] = prefix[k]
  /\ \A k \in 1 .. Len(p) : path[Len(prefix) + k] = p[k]

LEMMA MountedPath ==
    ASSUME NEW prefix \in Prefix, NEW router, IsTable(router), NEW i \in 1 .. Len(router)
    PROVE  Behind(prefix, router[i].path, Mount(prefix, router)[i].path)
<1>1. PICK p, q : p = Mount(prefix, router)[i].path /\ q = router[i].path
  OBVIOUS
<1>2. p = prefix \o q
  BY <1>1, MountedRoute
<1>3. IsSequence(q)
  BY <1>1 DEF IsTable, IsRoute
<1>4. IsSequence(prefix)
  BY PrefixPaths
<1>5. Behind(prefix, q, p)
  BY ONLY <1>2, <1>3, <1>4, ConcatMakes DEF Behind
<1> QED BY <1>1, <1>5

LEMMA MountIsGood ==
    ASSUME NEW prefix \in Prefix, NEW router, IsTable(router), Ordered(router),
           NEW s, AllAgree(Mount(prefix, router), s)
    PROVE  GoodTable(Mount(prefix, router), s, {prefix})
<1> DEFINE T == Mount(prefix, router)
<1>1. /\ IsTable(T) /\ Len(T) = Len(router)
      /\ \A i \in 1 .. Len(router) : T[i].method = router[i].method /\ T[i].path = prefix \o router[i].path
  BY MountedRoute
<1>2. \A i \in 1 .. Len(router) : IsSequence(router[i].path) /\ Len(router[i].path) \in Nat
  BY DEF IsTable, IsRoute, IsSequence
<1>3. IsSequence(prefix) /\ Len(prefix) \in Nat
  BY PrefixPaths
<1> HIDE DEF T
<1>4. ASSUME NEW i \in 1 .. Len(router)
      PROVE  /\ Len(T[i].path) = Len(prefix) + Len(router[i].path)
             /\ \A k \in 1 .. Len(prefix) : T[i].path[k] = prefix[k]
             /\ \A k \in 1 .. Len(router[i].path) : T[i].path[Len(prefix) + k] = router[i].path[k]
  <2>1. Behind(prefix, router[i].path, T[i].path)
    BY MountedPath DEF T
  <2> QED BY <2>1 DEF Behind
<1>5. Within(T, {prefix})
  <2>1. ASSUME NEW i \in 1 .. Len(T) PROVE Under(T[i], prefix)
    BY <1>1, <1>2, <1>3, <1>4 DEF Under
  <2> QED BY <2>1 DEF Within
<1>6. ASSUME NEW i \in 1 .. Len(T), NEW j \in 1 .. Len(T), Shadows(T[j], T[i])
      PROVE  i <= j
  <2>1. Len(router[j].path) = Len(router[i].path)
    <3>1. Len(T[j].path) = Len(T[i].path)
      BY <1>6 DEF Shadows
    <3>2. Len(router[j].path) \in Nat /\ Len(router[i].path) \in Nat
      BY <1>1, <1>2
    <3> QED BY <1>1, <1>3, <1>4, <3>1, <3>2
  <2>2. ASSUME NEW k \in 1 .. Len(router[i].path)
        PROVE  router[j].path[k] \in {"*", Fill(router[i].path[k])}
    <3>1. Len(prefix) + k \in 1 .. Len(T[i].path)
      BY <1>1, <1>2, <1>3, <1>4
    <3>2. T[j].path[Len(prefix) + k] \in {"*", Fill(T[i].path[Len(prefix) + k])}
      BY <1>6, <3>1 DEF Shadows
    <3> QED BY <1>1, <1>4, <2>1, <3>2
  <2>3. router[j].method = router[i].method
    BY <1>1, <1>6 DEF Shadows
  <2>4. Shadows(router[j], router[i])
    BY <2>1, <2>2, <2>3 DEF Shadows
  <2> QED BY <1>1, <2>4 DEF Ordered
<1>7. Ordered(T)
  BY <1>6 DEF Ordered
<1> QED BY <1>1, <1>5, <1>7 DEF GoodTable, T

(***************************************************************************)
(* What the gateway lets through.                                          *)
(***************************************************************************)
LEMMA SamePath ==
    ASSUME NEW a, NEW b, IsSequence(a), IsSequence(b), Len(a) = Len(b),
           \A k \in 1 .. Len(a) : a[k] = b[k]
    PROVE  a = b
BY DEF IsSequence

LEMMA Lengthened ==
    ASSUME NEW s, NEW x, IsSequence(s)
    PROVE  /\ IsSequence(Append(s, x)) /\ Len(Append(s, x)) = Len(s) + 1
           /\ \A k \in 1 .. Len(s) : Append(s, x)[k] = s[k]
           /\ Append(s, x)[Len(s) + 1] = x
<1> DEFINE A == {s[k] : k \in 1 .. Len(s)} \cup {x}
<1>1. s \in Seq(A) /\ x \in A /\ Len(s) \in Nat
  BY SequenceOver DEF IsSequence
<1> HIDE DEF A
<1>2. Append(s, x) \in Seq(A) /\ Len(Append(s, x)) = Len(s) + 1
  BY <1>1
<1>3. \A k \in 1 .. Len(s) : Append(s, x)[k] = s[k]
  BY <1>1
<1>4. Append(s, x)[Len(s) + 1] = x
  BY <1>1
<1> QED BY <1>2, <1>3, <1>4, SequenceOf

\* Paths written out.
Three(p, x, y, z) == IsSequence(p) /\ Len(p) = 3 /\ p[1] = x /\ p[2] = y /\ p[3] = z
Four(p, x, y, z, w) ==
  IsSequence(p) /\ Len(p) = 4 /\ p[1] = x /\ p[2] = y /\ p[3] = z /\ p[4] = w

LEMMA SameThree ==
    ASSUME NEW p, NEW q, NEW x, NEW y, NEW z, Three(p, x, y, z), Three(q, x, y, z)
    PROVE  p = q
<1>1. ASSUME NEW k \in 1 .. Len(p) PROVE p[k] = q[k]
  <2>1. k = 1 \/ k = 2 \/ k = 3
    BY DEF Three
  <2> QED BY <2>1 DEF Three
<1> QED BY <1>1, SamePath DEF Three

LEMMA SameFour ==
    ASSUME NEW p, NEW q, NEW x, NEW y, NEW z, NEW w, Four(p, x, y, z, w), Four(q, x, y, z, w)
    PROVE  p = q
<1>1. ASSUME NEW k \in 1 .. Len(p) PROVE p[k] = q[k]
  <2>1. k = 1 \/ k = 2 \/ k = 3 \/ k = 4
    BY DEF Four
  <2> QED BY <2>1 DEF Four
<1> QED BY <1>1, SamePath DEF Four

LEMMA AppendedPath ==
    ASSUME NEW s, IsSequence(s), Len(s) = 2, NEW x
    PROVE  Three(Append(s, x), s[1], s[2], x)
<1>1. PICK p : p = Append(s, x)
  OBVIOUS
<1>2. /\ IsSequence(p) /\ Len(p) = Len(s) + 1 /\ \A k \in 1 .. Len(s) : p[k] = s[k]
      /\ p[Len(s) + 1] = x
  <2>1. IsSequence(s)
    OBVIOUS
  <2> QED BY ONLY <1>1, <2>1, Lengthened
<1> QED BY <1>1, <1>2 DEF Three

LEMMA TwiceAppendedPath ==
    ASSUME NEW s, IsSequence(s), Len(s) = 2, NEW x, NEW y
    PROVE  Four(Append(s, x) \o <<y>>, s[1], s[2], x, y)
<1>1. PICK p : p = Append(s, x)
  OBVIOUS
<1>2. PICK t : t = <<y>>
  OBVIOUS
<1>3. IsSequence(t) /\ Len(t) = 1 /\ t[1] = y
  BY <1>2 DEF IsSequence
<1>4. Three(p, s[1], s[2], x)
  BY <1>1, AppendedPath
<1>5. PICK q : q = p \o t
  OBVIOUS
<1>6. /\ IsSequence(q) /\ Len(q) = Len(p) + Len(t)
      /\ \A k \in 1 .. Len(p) : q[k] = p[k]
      /\ \A k \in 1 .. Len(t) : q[Len(p) + k] = t[k]
  <2>1. IsSequence(p) /\ IsSequence(t)
    BY <1>3, <1>4 DEF Three
  <2> QED BY ONLY <1>5, <2>1, ConcatMakes
<1>7. q[4] = y
  BY <1>3, <1>4, <1>6 DEF Three
<1>8. Four(q, s[1], s[2], x, y)
  BY <1>3, <1>4, <1>6, <1>7 DEF Four, Three
<1> QED BY <1>1, <1>2, <1>5, <1>8

LEMMA LongerPaths ==
    /\ \A x : /\ Three(Append(Auth, x), "api", "auth", x)
              /\ Three(Append(Orders, x), "api", "orders", x)
    /\ \A x, y : /\ Four(Append(Auth, x) \o <<y>>, "api", "auth", x, y)
                 /\ Four(Append(Orders, x) \o <<y>>, "api", "orders", x, y)
<1>1. /\ IsSequence(Auth) /\ Len(Auth) = 2 /\ Auth[1] = "api" /\ Auth[2] = "auth"
      /\ IsSequence(Orders) /\ Len(Orders) = 2 /\ Orders[1] = "api" /\ Orders[2] = "orders"
  BY KeyPaths
<1>2. ASSUME NEW x PROVE Three(Append(Auth, x), "api", "auth", x)
  BY <1>1, AppendedPath
<1>3. ASSUME NEW x PROVE Three(Append(Orders, x), "api", "orders", x)
  BY <1>1, AppendedPath
<1>4. ASSUME NEW x, NEW y PROVE Four(Append(Auth, x) \o <<y>>, "api", "auth", x, y)
  BY <1>1, TwiceAppendedPath
<1>5. ASSUME NEW x, NEW y PROVE Four(Append(Orders, x) \o <<y>>, "api", "orders", x, y)
  BY <1>1, TwiceAppendedPath
<1> QED BY <1>2, <1>3, <1>4, <1>5

\* What a public path looks like.
PublicPath(p) ==
  \/ Len(p) = 1
  \/ Len(p) = 4 /\ p[2] = "orders" /\ p[3] = "webhook"
  \/ /\ Len(p) \in {3, 4} /\ p[2] = "auth"
     /\ p[3] \in {"refresh", "csrf-token", "admin", "login", "register", "forgot-password",
                  "reset-password"}
  \/ Len(p) \in {3, 4} /\ p[2] = "v1" /\ p[3] \in Collection

LEMMA PublicPaths ==
    ASSUME NEW call, IsSequence(call.path), isPublicRoute(call)
    PROVE  PublicPath(call.path)
<1> DEFINE p == call.path
<1>1. CASE IsDetailPage(call)
  <2>1. PICK c \in Collection : IsPrefix(Catalog(c), call.path)
    BY <1>1 DEF IsDetailPage, Collection
  <2>2. p[2] = "v1" /\ p[3] = c
    BY <2>1, KeyPaths, PrefixMeans
  <2> QED BY <1>1, <2>2 DEF IsDetailPage, PublicPath
<1>2. CASE <<call.method, p>> \in PUBLIC_ROUTES
  <2>1. \/ p = <<"health">>
        \/ p = Append(Orders, "webhook") \o <<"paystack">>
        \/ p = Append(Auth, "refresh") \/ p = Append(Auth, "csrf-token")
        \/ p = Append(Auth, "admin") \o <<"verify-otp">>
        \/ \E c \in Collection : p = Catalog(c)
        \/ \E a \in {"login", "register", "forgot-password", "reset-password"} : p = Append(Auth, a)
    BY <1>2, Zenon DEF PUBLIC_ROUTES, Collection
  <2>2. Len(<<"health">>) = 1
    OBVIOUS
  <2>3. ASSUME NEW a, p = Append(Auth, a) PROVE Len(p) = 3 /\ p[2] = "auth" /\ p[3] = a
    <3>1. Three(Append(Auth, a), "api", "auth", a)
      BY LongerPaths
    <3> QED BY <2>3, <3>1 DEF Three
  <2>4. CASE p = Append(Orders, "webhook") \o <<"paystack">>
    <3>1. Four(Append(Orders, "webhook") \o <<"paystack">>, "api", "orders", "webhook", "paystack")
      BY LongerPaths
    <3>2. Four(p, "api", "orders", "webhook", "paystack")
      BY <2>4, <3>1
    <3> QED BY <3>2 DEF Four, PublicPath
  <2>5. CASE p = Append(Auth, "admin") \o <<"verify-otp">>
    <3>1. Four(Append(Auth, "admin") \o <<"verify-otp">>, "api", "auth", "admin", "verify-otp")
      BY LongerPaths
    <3>2. Four(p, "api", "auth", "admin", "verify-otp")
      BY <2>5, <3>1
    <3> QED BY <3>2 DEF Four, PublicPath
  <2>6. ASSUME NEW c \in Collection, p = Catalog(c) PROVE Len(p) = 3 /\ p[2] = "v1" /\ p[3] = c
    BY <2>6, KeyPaths
  <2>7. CASE p = <<"health">>
    BY <2>2, <2>7 DEF PublicPath
  <2>8. CASE \E a \in {"refresh", "csrf-token", "login", "register", "forgot-password",
                       "reset-password"} : p = Append(Auth, a)
    BY <2>3, <2>8 DEF PublicPath
  <2>9. CASE \E c \in Collection : p = Catalog(c)
    BY <2>6, <2>9 DEF PublicPath
  <2> QED BY <2>1, <2>4, <2>5, <2>7, <2>8, <2>9 DEF PublicPath
<1> QED BY <1>1, <1>2 DEF isPublicRoute

\* Which paths are public.
LEMMA PublicAuth ==
    ASSUME NEW call, IsSequence(call.path), Len(call.path) = 3,
           call.path[1] = "api", call.path[2] = "auth",
           \/ call.method = "GET" /\ call.path[3] \in {"refresh", "csrf-token"}
           \/ /\ call.method = "POST"
              /\ call.path[3] \in {"login", "register", "forgot-password", "reset-password"}
    PROVE  isPublicRoute(call)
<1>1. Three(call.path, "api", "auth", call.path[3])
  BY DEF Three
<1>2. call.path = Append(Auth, call.path[3])
  <2>1. PICK a : a = call.path[3]
    OBVIOUS
  <2>2. PICK p : p = Append(Auth, a)
    OBVIOUS
  <2>3. Three(p, "api", "auth", a)
    BY <2>2, LongerPaths
  <2>4. call.path = p
    BY <1>1, <2>1, <2>3, SameThree
  <2> QED BY <2>1, <2>2, <2>4
<1> QED BY <1>2, Zenon DEF isPublicRoute, PUBLIC_ROUTES

LEMMA PublicPosts ==
    ASSUME NEW call, call.method = "POST",
           \/ Four(call.path, "api", "auth", "admin", "verify-otp")
           \/ Four(call.path, "api", "orders", "webhook", "paystack")
    PROVE  isPublicRoute(call)
<1>1. CASE Four(call.path, "api", "auth", "admin", "verify-otp")
  <2>1. call.path = Append(Auth, "admin") \o <<"verify-otp">>
    BY <1>1, LongerPaths, SameFour
  <2> QED BY <2>1, Zenon DEF isPublicRoute, PUBLIC_ROUTES
<1>2. CASE Four(call.path, "api", "orders", "webhook", "paystack")
  <2>1. call.path = Append(Orders, "webhook") \o <<"paystack">>
    BY <1>2, LongerPaths, SameFour
  <2> QED BY <2>1, Zenon DEF isPublicRoute, PUBLIC_ROUTES
<1> QED BY <1>1, <1>2

LEMMA PublicCatalogue ==
    ASSUME NEW call, IsSequence(call.path), NEW c \in Collection, IsPrefix(Catalog(c), call.path),
           call.method = "GET", Len(call.path) = 3 \/ (Len(call.path) = 4 /\ c # "categories")
    PROVE  isPublicRoute(call)
<1>1. CASE Len(call.path) = 3
  <2>1. call.path = Catalog(c)
    BY <1>1, KeyPaths, PrefixMeans, SamePath
  <2> QED BY <2>1, Zenon DEF isPublicRoute, PUBLIC_ROUTES, Collection
<1>2. CASE Len(call.path) = 4 /\ c # "categories"
  BY <1>2 DEF isPublicRoute, IsDetailPage, Collection
<1> QED BY <1>1, <1>2

LEMMA PrefixOfThree ==
    ASSUME NEW p, NEW s, IsSequence(p), IsSequence(s), Len(p) = 3
    PROVE  IsPrefix(p, s) <=> Len(s) >= 3 /\ s[1] = p[1] /\ s[2] = p[2] /\ s[3] = p[3]
<1>1. IsPrefix(p, s) <=> Len(p) <= Len(s) /\ \A k \in 1 .. Len(p) : p[k] = s[k]
  <2>1. IsSequence(p) /\ IsSequence(s)
    OBVIOUS
  <2> QED BY ONLY <2>1, PrefixMeans
<1>2. (\A k \in 1 .. Len(p) : p[k] = s[k]) <=> s[1] = p[1] /\ s[2] = p[2] /\ s[3] = p[3]
  <2>1. \A k \in 1 .. Len(p) : k = 1 \/ k = 2 \/ k = 3
    OBVIOUS
  <2>2. 1 \in 1 .. Len(p) /\ 2 \in 1 .. Len(p) /\ 3 \in 1 .. Len(p)
    OBVIOUS
  <2> QED BY <2>1, <2>2
<1>3. Len(s) \in Nat /\ (Len(p) <= Len(s) <=> Len(s) >= 3)
  BY DEF IsSequence
<1> QED BY <1>1, <1>2, <1>3

\* One grant is enough.
Suits(g, call) == g.exact = FALSE /\ IsPrefix(g.prefix, call.path) /\ call.method \in g.methods

LEMMA Granted ==
    ASSUME NEW call, call.caller \in Role, IsSequence(call.path),
           NEW g \in PERMISSIONS[call.caller], Suits(g, call),
           Len(call.path) <= 2 \/ call.path[2] # "orders" \/ call.path[3] # "admin"
    PROVE  authorise(call)
<1>1. ~IsPrefix(Append(Orders, "admin"), call.path)
  <2>1. Three(Append(Orders, "admin"), "api", "orders", "admin")
    BY LongerPaths
  <2>2. PICK p : p = Append(Orders, "admin")
    OBVIOUS
  <2>3. IsSequence(p) /\ Len(p) = 3 /\ p[2] = "orders" /\ p[3] = "admin"
    BY <2>1, <2>2 DEF Three
  <2>4. ~IsPrefix(p, call.path)
    <3>1. IsPrefix(p, call.path) <=>
            /\ Len(call.path) >= 3 /\ call.path[1] = p[1] /\ call.path[2] = p[2]
            /\ call.path[3] = p[3]
      BY <2>3, PrefixOfThree
    <3>2. Len(call.path) \in Nat
      BY DEF IsSequence
    <3> QED BY <2>3, <3>1, <3>2
  <2> QED BY <2>2, <2>4
<1>2. call.caller \in DOMAIN PERMISSIONS BY DEF PERMISSIONS, Role
<1> QED BY <1>1, <1>2 DEF authorise, Suits

LEMMA Grants ==
    /\ \A p, m : Grant(p, m).prefix = p /\ Grant(p, m).methods = m /\ Grant(p, m).exact = FALSE
    /\ PERMISSIONS["CUSTOMER"] = CustomerGrants /\ PERMISSIONS["ADMIN"] = AdminGrants
    /\ PERMISSIONS["TAILOR"] = TailorGrants
BY DEF Grant, PERMISSIONS

(***************************************************************************)
(* The tables of the core API.                                             *)
(***************************************************************************)
LEMMA ShortPaths ==
    /\ IsSequence(<<>>) /\ Len(<<>>) = 0
    /\ \A x : IsSequence(<<x>>) /\ Len(<<x>>) = 1 /\ <<x>>[1] = x
    /\ \A x, y : /\ IsSequence(<<x, y>>) /\ Len(<<x, y>>) = 2
                 /\ <<x, y>>[1] = x /\ <<x, y>>[2] = y
<1>1. IsSequence(<<>>) /\ Len(<<>>) = 0
  BY DEF IsSequence
<1>2. ASSUME NEW x PROVE IsSequence(<<x>>) /\ Len(<<x>>) = 1 /\ <<x>>[1] = x
  BY DEF IsSequence
<1>3. ASSUME NEW x, NEW y
      PROVE  /\ IsSequence(<<x, y>>) /\ Len(<<x, y>>) = 2
             /\ <<x, y>>[1] = x /\ <<x, y>>[2] = y
  BY DEF IsSequence
<1> QED BY <1>1, <1>2, <1>3

\* One row of a router.
Row(r, method, path, name, roles) ==
  r.method = method /\ r.path = path /\ r.name = name /\ r.roles = roles

LEMMA RouteRow ==
    ASSUME NEW method, NEW path, NEW name, NEW roles, IsSequence(path)
    PROVE  /\ IsRoute(Route(method, path, name, roles))
           /\ Row(Route(method, path, name, roles), method, path, name, roles)
           /\ IsRoute(Guarded(Route(method, path, name, roles)))
           /\ Row(Guarded(Route(method, path, name, roles)), method, path, name, roles)
<1>1. PICK r : r = [method |-> method, path |-> path, name |-> name, roles |-> roles, csrf |-> FALSE]
  OBVIOUS
<1>2. PICK g : g = [method |-> method, path |-> path, name |-> name, roles |-> roles, csrf |-> TRUE]
  OBVIOUS
<1>3. Route(method, path, name, roles) = r /\ Guarded(Route(method, path, name, roles)) = g
  <2>1. PICK f, t : f = FALSE /\ t = TRUE
    OBVIOUS
  <2>2. [[method |-> method, path |-> path, name |-> name, roles |-> roles, csrf |-> f]
          EXCEPT !.csrf = t]
        = [method |-> method, path |-> path, name |-> name, roles |-> roles, csrf |-> t]
    BY ONLY TRUE
  <2> QED BY <1>1, <1>2, <2>1, <2>2, Zenon DEF Route, Guarded
<1>4. /\ IsRoute(r) /\ Row(r, method, path, name, roles)
      /\ IsRoute(g) /\ Row(g, method, path, name, roles)
  <2>1. /\ r.method = method /\ r.path = path /\ r.name = name /\ r.roles = roles /\ r.csrf = FALSE
        /\ g.method = method /\ g.path = path /\ g.name = name /\ g.roles = roles /\ g.csrf = TRUE
    BY <1>1, <1>2
  <2> QED BY <1>1, <1>2, <2>1, Zenon DEF IsRoute, Row
<1> QED BY <1>3, <1>4

LEMMA AuthRows ==
    /\ IsSequence(AuthRouter) /\ Len(AuthRouter) = 11
    /\ \A i \in 1 .. 11 : IsRoute(AuthRouter[i])
    /\ Row(AuthRouter[1], "GET", <<"csrf-token">>, "csrfToken", Anyone)
    /\ Row(AuthRouter[2], "POST", <<"register">>, "register", Anyone)
    /\ Row(AuthRouter[3], "POST", <<"login">>, "login", Anyone)
    /\ Row(AuthRouter[4], "POST", <<"logout">>, "logout", Anyone)
    /\ Row(AuthRouter[5], "GET", <<"refresh">>, "refresh", Anyone)
    /\ Row(AuthRouter[6], "POST", <<"admin", "verify-otp">>, "verifyAdminOtp", Anyone)
    /\ Row(AuthRouter[7], "POST", <<"forgot-password">>, "forgotPassword", Anyone)
    /\ Row(AuthRouter[8], "POST", <<"reset-password">>, "resetPassword", Anyone)
    /\ Row(AuthRouter[9], "GET", <<"me">>, "me", Role)
    /\ Row(AuthRouter[10], "PUT", <<"profile">>, "updateProfile", Role)
    /\ Row(AuthRouter[11], "GET", <<"tailors">>, "getTailors", {"ADMIN"})
<1>1. IsSequence(AuthRouter) /\ Len(AuthRouter) = 11
  BY DEF AuthRouter, IsSequence
<1>2. /\ AuthRouter[1] = Route("GET", <<"csrf-token">>, "csrfToken", Anyone)
      /\ AuthRouter[2] = Guarded(Route("POST", <<"register">>, "register", Anyone))
      /\ AuthRouter[3] = Guarded(Route("POST", <<"login">>, "login", Anyone))
      /\ AuthRouter[4] = Route("POST", <<"logout">>, "logout", Anyone)
      /\ AuthRouter[5] = Route("GET", <<"refresh">>, "refresh", Anyone)
      /\ AuthRouter[6] = Guarded(Route("POST", <<"admin", "verify-otp">>, "verifyAdminOtp", Anyone))
      /\ AuthRouter[7] = Guarded(Route("POST", <<"forgot-password">>, "forgotPassword", Anyone))
      /\ AuthRouter[8] = Route("POST", <<"reset-password">>, "resetPassword", Anyone)
      /\ AuthRouter[9] = Route("GET", <<"me">>, "me", Role)
      /\ AuthRouter[10] = Guarded(Route("PUT", <<"profile">>, "updateProfile", Role))
      /\ AuthRouter[11] = Route("GET", <<"tailors">>, "getTailors", {"ADMIN"})
  BY DEF AuthRouter
<1>3. /\ IsRoute(AuthRouter[1]) /\ Row(AuthRouter[1], "GET", <<"csrf-token">>, "csrfToken", Anyone)
      /\ IsRoute(AuthRouter[2]) /\ Row(AuthRouter[2], "POST", <<"register">>, "register", Anyone)
      /\ IsRoute(AuthRouter[3]) /\ Row(AuthRouter[3], "POST", <<"login">>, "login", Anyone)
      /\ IsRoute(AuthRouter[4]) /\ Row(AuthRouter[4], "POST", <<"logout">>, "logout", Anyone)
  BY <1>2, ShortPaths, RouteRow
<1>4. /\ IsRoute(AuthRouter[5]) /\ Row(AuthRouter[5], "GET", <<"refresh">>, "refresh", Anyone)
      /\ IsRoute(AuthRouter[6])
      /\ Row(AuthRouter[6], "POST", <<"admin", "verify-otp">>, "verifyAdminOtp", Anyone)
      /\ IsRoute(AuthRouter[7])
      /\ Row(AuthRouter[7], "POST", <<"forgot-password">>, "forgotPassword", Anyone)
      /\ IsRoute(AuthRouter[8])
      /\ Row(AuthRouter[8], "POST", <<"reset-password">>, "resetPassword", Anyone)
  BY <1>2, ShortPaths, RouteRow
<1>5. /\ IsRoute(AuthRouter[9]) /\ Row(AuthRouter[9], "GET", <<"me">>, "me", Role)
      /\ IsRoute(AuthRouter[10]) /\ Row(AuthRouter[10], "PUT", <<"profile">>, "updateProfile", Role)
      /\ IsRoute(AuthRouter[11])
      /\ Row(AuthRouter[11], "GET", <<"tailors">>, "getTailors", {"ADMIN"})
  BY <1>2, ShortPaths, RouteRow
<1>6. ASSUME NEW i \in 1 .. 11 PROVE IsRoute(AuthRouter[i])
  BY <1>3, <1>4, <1>5
<1> QED BY <1>1, <1>3, <1>4, <1>5, <1>6

LEMMA AuthHeads ==
    /\ AuthRouter[1].path[1] = "csrf-token" /\ AuthRouter[2].path[1] = "register"
    /\ AuthRouter[3].path[1] = "login" /\ AuthRouter[4].path[1] = "logout"
    /\ AuthRouter[5].path[1] = "refresh" /\ AuthRouter[6].path[1] = "admin"
    /\ AuthRouter[6].path[2] = "verify-otp"
    /\ AuthRouter[7].path[1] = "forgot-password" /\ AuthRouter[8].path[1] = "reset-password"
    /\ AuthRouter[9].path[1] = "me" /\ AuthRouter[10].path[1] = "profile"
    /\ AuthRouter[11].path[1] = "tailors"
    /\ \A i \in 1 .. 11 : Len(AuthRouter[i].path) = IF i = 6 THEN 2 ELSE 1
<1>1. /\ AuthRouter[1].path[1] = "csrf-token" /\ AuthRouter[2].path[1] = "register"
      /\ AuthRouter[3].path[1] = "login" /\ AuthRouter[4].path[1] = "logout"
      /\ AuthRouter[5].path[1] = "refresh" /\ AuthRouter[6].path[1] = "admin"
      /\ AuthRouter[6].path[2] = "verify-otp"
      /\ AuthRouter[7].path[1] = "forgot-password" /\ AuthRouter[8].path[1] = "reset-password"
      /\ AuthRouter[9].path[1] = "me" /\ AuthRouter[10].path[1] = "profile"
      /\ AuthRouter[11].path[1] = "tailors"
  BY AuthRows, ShortPaths DEF Row
<1>2. /\ Len(AuthRouter[1].path) = 1 /\ Len(AuthRouter[2].path) = 1
      /\ Len(AuthRouter[3].path) = 1 /\ Len(AuthRouter[4].path) = 1
      /\ Len(AuthRouter[5].path) = 1 /\ Len(AuthRouter[6].path) = 2
      /\ Len(AuthRouter[7].path) = 1 /\ Len(AuthRouter[8].path) = 1
      /\ Len(AuthRouter[9].path) = 1 /\ Len(AuthRouter[10].path) = 1
      /\ Len(AuthRouter[11].path) = 1
  BY AuthRows, ShortPaths DEF Row
<1>3. ASSUME NEW i \in 1 .. 11
      PROVE  Len(AuthRouter[i].path) = IF i = 6 THEN 2 ELSE 1
  <2>1. CASE i \in {1, 2, 3, 4, 5} BY <1>2, <2>1
  <2>2. CASE i = 6 BY <1>2, <2>2
  <2>3. CASE i \in {7, 8, 9, 10, 11} BY <1>2, <2>3
  <2> QED BY <2>1, <2>2, <2>3
<1> QED BY <1>1, <1>3

\* Different first words keep routes apart.
LEMMA OrderedByHead ==
    ASSUME NEW router, IsTable(router),
           \A i \in 1 .. Len(router) : Len(router[i].path) >= 1,
           \A i, j \in 1 .. Len(router) :
             i # j => router[j].path[1] \notin {"*", Fill(router[i].path[1])}
    PROVE  Ordered(router)
<1>1. ASSUME NEW i \in 1 .. Len(router), NEW j \in 1 .. Len(router), Shadows(router[j], router[i])
      PROVE  i <= j
  <2>1. Len(router[i].path) \in Nat
    BY DEF IsTable, IsRoute, IsSequence
  <2>2. router[j].path[1] \in {"*", Fill(router[i].path[1])}
    BY <1>1, <2>1 DEF Shadows
  <2>3. Len(router) \in Nat
    BY DEF IsTable, IsSequence
  <2> QED BY <2>2, <2>3
<1> QED BY <1>1 DEF Ordered

LEMMA AuthOrdered == IsTable(AuthRouter) /\ Ordered(AuthRouter)
<1>1. IsTable(AuthRouter)
  BY AuthRows DEF IsTable
<1>2. \A i \in 1 .. 11 : Len(AuthRouter[i].path) >= 1
  BY AuthHeads
<1>3. ASSUME NEW i \in 1 .. 11
      PROVE  Fill(AuthRouter[i].path[1]) = AuthRouter[i].path[1] /\ AuthRouter[i].path[1] # "*"
  BY AuthHeads DEF Fill
<1>4. ASSUME NEW i \in 1 .. 11, NEW j \in 1 .. 11, i # j
      PROVE  AuthRouter[j].path[1] # AuthRouter[i].path[1]
  BY AuthHeads, <1>4
<1>5. ASSUME NEW i \in 1 .. 11, NEW j \in 1 .. 11, i # j
      PROVE  AuthRouter[j].path[1] \notin {"*", Fill(AuthRouter[i].path[1])}
  BY <1>3, <1>4, <1>5
<1> QED BY <1>1, <1>2, <1>5, AuthRows, OrderedByHead

\* The kinds of route under Auth.
AuthShape(r) ==
  \/ /\ r.method = "GET" /\ Len(r.path) = 1 /\ r.path[1] \in {"refresh", "csrf-token"}
     /\ r.roles = Anyone
  \/ /\ r.method = "POST" /\ Len(r.path) = 1 /\ r.roles = Anyone
     /\ r.path[1] \in {"login", "register", "forgot-password", "reset-password"}
  \/ /\ r.method = "POST" /\ Len(r.path) = 2 /\ r.path[1] = "admin" /\ r.path[2] = "verify-otp"
     /\ r.roles = Anyone
  \/ /\ r.method = "POST" /\ Len(r.path) = 1 /\ r.path[1] = "logout" /\ r.name = "logout"
     /\ r.roles = Anyone
  \/ /\ r.method \in {"GET", "PUT"} /\ Len(r.path) = 1 /\ r.path[1] \in {"me", "profile", "tailors"}
     /\ r.method = "PUT" => r.name = "updateProfile"
     /\ "none" \notin r.roles

LEMMA AuthShapes == \A i \in 1 .. 11 : AuthShape(AuthRouter[i])
<1>1. /\ AuthShape(AuthRouter[1]) /\ AuthShape(AuthRouter[2]) /\ AuthShape(AuthRouter[3])
      /\ AuthShape(AuthRouter[4]) /\ AuthShape(AuthRouter[5]) /\ AuthShape(AuthRouter[6])
      /\ AuthShape(AuthRouter[7]) /\ AuthShape(AuthRouter[8])
  BY AuthRows, AuthHeads DEF Row, AuthShape
<1>2. AuthShape(AuthRouter[9]) /\ AuthShape(AuthRouter[10]) /\ AuthShape(AuthRouter[11])
  BY AuthRows, AuthHeads DEF Row, AuthShape, Role
<1>3. ASSUME NEW i \in 1 .. 11 PROVE AuthShape(AuthRouter[i])
  <2>1. CASE i \in {1, 2, 3, 4} BY <1>1, <2>1
  <2>2. CASE i \in {5, 6, 7, 8} BY <1>1, <2>2
  <2>3. CASE i \in {9, 10, 11} BY <1>2, <2>3
  <2> QED BY <2>1, <2>2, <2>3
<1> QED BY <1>3

LEMMA AuthAgrees ==
    ASSUME NEW call, NEW r, Fills(call, Auth, r), AuthShape(r)
    PROVE  AgreesOn(call, r, "core")
<1>1. /\ call.method = r.method /\ call.caller \in Caller
      /\ IsSequence(call.path) /\ Len(call.path) = 2 + Len(r.path)
      /\ call.path[1] = "api" /\ call.path[2] = "auth" /\ IsPrefix(Auth, call.path)
  BY KeyPaths DEF Fills
<1>2. Len(r.path) \in {1, 2} /\ call.path[3] = r.path[1]
      /\ (Len(r.path) = 2 => call.path[4] = r.path[2])
  <2>1. Len(r.path) \in {1, 2}
    BY DEF AuthShape
  <2>2. \A k \in 1 .. Len(r.path) : call.path[2 + k] = Fill(r.path[k])
    BY KeyPaths DEF Fills
  <2>3. call.path[3] = Fill(r.path[1]) /\ (Len(r.path) = 2 => call.path[4] = Fill(r.path[2]))
    <3>1. 1 \in 1 .. Len(r.path) /\ (Len(r.path) = 2 => 2 \in 1 .. Len(r.path))
          /\ 2 + 1 = 3 /\ 2 + 2 = 4
      BY <2>1
    <3> QED BY <2>2, <3>1
  <2>4. r.path[1] # "*" /\ (Len(r.path) = 2 => r.path[2] # "*")
    BY DEF AuthShape
  <2> QED BY <2>1, <2>3, <2>4 DEF Fill
<1>3. Serving(call) # {} /\ resolveService(call) = "core"
  BY <1>1, ServedByKey DEF Key
<1>4. ASSUME call.caller \in Role, call.caller = "TAILOR" => r.method # "PUT"
      PROVE  authorise(call)
  <2>1. PICK g \in PERMISSIONS[call.caller] :
          /\ g.prefix = Auth /\ g.exact = FALSE
          /\ {"GET", "POST"} \subseteq g.methods /\ (call.caller # "TAILOR" => "PUT" \in g.methods)
    <3>1. CASE call.caller = "CUSTOMER"
      BY <3>1, Grants DEF CustomerGrants
    <3>2. CASE call.caller = "ADMIN"
      BY <3>2, Grants DEF AdminGrants, All
    <3>3. CASE call.caller = "TAILOR"
      BY <3>3, Grants DEF TailorGrants
    <3> QED BY <1>4, <3>1, <3>2, <3>3 DEF Role
  <2>2. call.method \in {"GET", "POST", "PUT"}
    BY <1>1 DEF AuthShape
  <2>3. call.method \in g.methods
    BY <1>1, <1>4, <2>1, <2>2
  <2>4. Suits(g, call)
    BY <1>1, <2>1, <2>3 DEF Suits
  <2> QED BY <1>1, <1>4, <2>4, Granted
<1>5. r.method = "PUT" => r.name \in KeptFromTailors
  BY DEF AuthShape, KeptFromTailors
<1>6. isPublicRoute(call) => "none" \in r.roles
  <2>1. ASSUME isPublicRoute(call)
        PROVE  call.path[3] \in {"refresh", "csrf-token", "admin", "login", "register",
                                 "forgot-password", "reset-password"}
    <3>1. Len(call.path) = 3 \/ Len(call.path) = 4
      <4>1. CASE Len(r.path) = 1 BY <1>1, <4>1
      <4>2. CASE Len(r.path) = 2 BY <1>1, <4>2
      <4> QED BY <1>2, <4>1, <4>2
    <3>2. PublicPath(call.path)
      BY <1>1, <2>1, PublicPaths
    <3> QED BY <1>1, <3>1, <3>2 DEF PublicPath
  <2> QED BY <1>2, <2>1 DEF AuthShape, Anyone, NoUserRole
<1>7. "none" \in r.roles => isPublicRoute(call) \/ r.name = "logout"
  <2>1. CASE /\ r.method = "GET" /\ Len(r.path) = 1 /\ r.path[1] \in {"refresh", "csrf-token"}
    BY <1>1, <1>2, <2>1, PublicAuth
  <2>2. CASE /\ r.method = "POST" /\ Len(r.path) = 1
             /\ r.path[1] \in {"login", "register", "forgot-password", "reset-password"}
    BY <1>1, <1>2, <2>2, PublicAuth
  <2>3. CASE r.method = "POST" /\ Len(r.path) = 2 /\ r.path[1] = "admin" /\ r.path[2] = "verify-otp"
    <3>1. Four(call.path, "api", "auth", "admin", "verify-otp")
      BY <1>1, <1>2, <2>3 DEF Four
    <3> QED BY <1>1, <2>3, <3>1, PublicPosts
  <2> QED BY <2>1, <2>2, <2>3 DEF AuthShape
<1> QED BY <1>3, <1>4, <1>5, <1>6, <1>7 DEF AgreesOn

LEMMA AuthTable == GoodTable(Mount(Auth, AuthRouter), "core", {Auth})
<1>1. IsTable(AuthRouter) /\ Ordered(AuthRouter) /\ Len(AuthRouter) = 11 /\ Auth \in Prefix
  BY AuthOrdered, AuthRows DEF Prefix
<1>2. ASSUME NEW i \in 1 .. Len(AuthRouter), NEW call, Fills(call, Auth, AuthRouter[i])
      PROVE  AgreesOn(call, AuthRouter[i], "core")
  BY <1>1, <1>2, AuthShapes, AuthAgrees
<1>3. AllAgree(Mount(Auth, AuthRouter), "core")
  BY <1>1, <1>2, MountAgrees
<1> QED BY <1>1, <1>3, MountIsGood

\* The kinds of route under Orders.
OrdersShape(r) ==
  /\ Len(r.path) = 0 \/ Len(r.path) = 1 \/ Len(r.path) = 2
  /\ Len(r.path) >= 1 => r.path[1] # "admin"
  /\ r.method \in All
  /\ "CUSTOMER" \in r.roles =>
       \/ r.method \in {"GET", "POST", "DELETE"}
       \/ Len(r.path) = 2 /\ r.path[1] = "measurements" /\ r.method = "PUT"
  /\ r.method \in {"POST", "PUT", "DELETE"} => r.name \in KeptFromTailors
  /\ "none" \in r.roles =>
       \/ r.name = "fabricFormula"
       \/ /\ r.method = "POST" /\ Len(r.path) = 2
          /\ r.path[1] = "webhook" /\ r.path[2] = "paystack"
  /\ Len(r.path) = 2 /\ r.path[1] = "webhook" => "none" \in r.roles

LEMMA OrdersRows ==
    /\ IsSequence(OrdersRouter) /\ Len(OrdersRouter) = 13
    /\ \A i \in 1 .. 13 : IsRoute(OrdersRouter[i])
    /\ Row(OrdersRouter[1], "POST", <<>>, "createOrder", Role)
    /\ Row(OrdersRouter[2], "POST", <<"*", "payment-intent">>, "createPaymentIntent", Role)
    /\ Row(OrdersRouter[3], "POST", <<"measurements">>, "createMeasurement", Role)
    /\ Row(OrdersRouter[4], "GET", <<"measurements">>, "getUserMeasurements", Role)
    /\ Row(OrdersRouter[5], "PUT", <<"measurements", "*">>, "updateMeasurement", Role)
    /\ Row(OrdersRouter[6], "GET", <<"fabric-formula">>, "fabricFormula", Anyone)
    /\ Row(OrdersRouter[7], "GET", <<"my-orders">>, "getUserOrders", Role)
    /\ Row(OrdersRouter[8], "GET", <<"*">>, "getOrder", Role)
    /\ Row(OrdersRouter[9], "DELETE", <<"*">>, "deleteOrder", Role)
    /\ Row(OrdersRouter[10], "GET", <<>>, "getAllOrders", {"ADMIN", "TAILOR"})
    /\ Row(OrdersRouter[11], "PATCH", <<"*", "status">>, "updateOrderStatus", {"ADMIN", "TAILOR"})
    /\ Row(OrdersRouter[12], "POST", <<"verify", "*">>, "verifyPayment", Role)
    /\ Row(OrdersRouter[13], "POST", <<"webhook", "paystack">>, "paystackWebhook", Anyone)
<1>1. IsSequence(OrdersRouter) /\ Len(OrdersRouter) = 13
  BY DEF OrdersRouter, IsSequence
<1>2. /\ OrdersRouter[1] = Route("POST", <<>>, "createOrder", Role)
      /\ OrdersRouter[2] = Route("POST", <<"*", "payment-intent">>, "createPaymentIntent", Role)
      /\ OrdersRouter[3] = Route("POST", <<"measurements">>, "createMeasurement", Role)
      /\ OrdersRouter[4] = Route("GET", <<"measurements">>, "getUserMeasurements", Role)
      /\ OrdersRouter[5] = Route("PUT", <<"measurements", "*">>, "updateMeasurement", Role)
      /\ OrdersRouter[6] = Route("GET", <<"fabric-formula">>, "fabricFormula", Anyone)
      /\ OrdersRouter[7] = Route("GET", <<"my-orders">>, "getUserOrders", Role)
      /\ OrdersRouter[8] = Route("GET", <<"*">>, "getOrder", Role)
      /\ OrdersRouter[9] = Route("DELETE", <<"*">>, "deleteOrder", Role)
      /\ OrdersRouter[10] = Route("GET", <<>>, "getAllOrders", {"ADMIN", "TAILOR"})
      /\ OrdersRouter[11]
         = Route("PATCH", <<"*", "status">>, "updateOrderStatus", {"ADMIN", "TAILOR"})
      /\ OrdersRouter[12] = Route("POST", <<"verify", "*">>, "verifyPayment", Role)
      /\ OrdersRouter[13] = Route("POST", <<"webhook", "paystack">>, "paystackWebhook", Anyone)
  BY DEF OrdersRouter
<1>3. /\ IsRoute(OrdersRouter[1]) /\ Row(OrdersRouter[1], "POST", <<>>, "createOrder", Role)
      /\ IsRoute(OrdersRouter[10])
      /\ Row(OrdersRouter[10], "GET", <<>>, "getAllOrders", {"ADMIN", "TAILOR"})
  BY <1>2, ShortPaths, RouteRow
<1>4. /\ IsRoute(OrdersRouter[3])
      /\ Row(OrdersRouter[3], "POST", <<"measurements">>, "createMeasurement", Role)
      /\ IsRoute(OrdersRouter[4])
      /\ Row(OrdersRouter[4], "GET", <<"measurements">>, "getUserMeasurements", Role)
      /\ IsRoute(OrdersRouter[6])
      /\ Row(OrdersRouter[6], "GET", <<"fabric-formula">>, "fabricFormula", Anyone)
      /\ IsRoute(OrdersRouter[7])
      /\ Row(OrdersRouter[7], "GET", <<"my-orders">>, "getUserOrders", Role)
      /\ IsRoute(OrdersRouter[8]) /\ Row(OrdersRouter[8], "GET", <<"*">>, "getOrder", Role)
      /\ IsRoute(OrdersRouter[9]) /\ Row(OrdersRouter[9], "DELETE", <<"*">>, "deleteOrder", Role)
  BY <1>2, ShortPaths, RouteRow
<1>5. /\ IsRoute(OrdersRouter[2])
      /\ Row(OrdersRouter[2], "POST", <<"*", "payment-intent">>, "createPaymentIntent", Role)
      /\ IsRoute(OrdersRouter[5])
      /\ Row(OrdersRouter[5], "PUT", <<"measurements", "*">>, "updateMeasurement", Role)
      /\ IsRoute(OrdersRouter[11])
      /\ Row(OrdersRouter[11], "PATCH", <<"*", "status">>, "updateOrderStatus", {"ADMIN", "TAILOR"})
      /\ IsRoute(OrdersRouter[12])
      /\ Row(OrdersRouter[12], "POST", <<"verify", "*">>, "verifyPayment", Role)
      /\ IsRoute(OrdersRouter[13])
      /\ Row(OrdersRouter[13], "POST", <<"webhook", "paystack">>, "paystackWebhook", Anyone)
  BY <1>2, ShortPaths, RouteRow
<1>6. ASSUME NEW i \in 1 .. 13 PROVE IsRoute(OrdersRouter[i])
  <2>1. CASE i \in {1, 10} BY <1>3, <2>1
  <2>2. CASE i \in {3, 4, 6, 7, 8, 9} BY <1>4, <2>2
  <2>3. CASE i \in {2, 5, 11, 12, 13} BY <1>5, <2>3
  <2> QED BY <2>1, <2>2, <2>3
<1> QED BY <1>1, <1>3, <1>4, <1>5, <1>6

LEMMA OrdersHeads ==
    /\ Len(OrdersRouter[1].path) = 0 /\ Len(OrdersRouter[10].path) = 0
    /\ Len(OrdersRouter[3].path) = 1 /\ OrdersRouter[3].path[1] = "measurements"
    /\ Len(OrdersRouter[4].path) = 1 /\ OrdersRouter[4].path[1] = "measurements"
    /\ Len(OrdersRouter[6].path) = 1 /\ OrdersRouter[6].path[1] = "fabric-formula"
    /\ Len(OrdersRouter[7].path) = 1 /\ OrdersRouter[7].path[1] = "my-orders"
    /\ Len(OrdersRouter[8].path) = 1 /\ OrdersRouter[8].path[1] = "*"
    /\ Len(OrdersRouter[9].path) = 1 /\ OrdersRouter[9].path[1] = "*"
    /\ Len(OrdersRouter[2].path) = 2 /\ OrdersRouter[2].path[1] = "*"
    /\ OrdersRouter[2].path[2] = "payment-intent"
    /\ Len(OrdersRouter[5].path) = 2 /\ OrdersRouter[5].path[1] = "measurements"
    /\ OrdersRouter[5].path[2] = "*"
    /\ Len(OrdersRouter[11].path) = 2 /\ OrdersRouter[11].path[1] = "*"
    /\ OrdersRouter[11].path[2] = "status"
    /\ Len(OrdersRouter[12].path) = 2 /\ OrdersRouter[12].path[1] = "verify"
    /\ OrdersRouter[12].path[2] = "*"
    /\ Len(OrdersRouter[13].path) = 2 /\ OrdersRouter[13].path[1] = "webhook"
    /\ OrdersRouter[13].path[2] = "paystack"
BY OrdersRows, ShortPaths DEF Row

LEMMA OrdersShapes == \A i \in 1 .. 13 : OrdersShape(OrdersRouter[i])
<1>1. /\ OrdersShape(OrdersRouter[1]) /\ OrdersShape(OrdersRouter[2])
      /\ OrdersShape(OrdersRouter[3]) /\ OrdersShape(OrdersRouter[4])
      /\ OrdersShape(OrdersRouter[5])
  BY OrdersRows, OrdersHeads DEF Row, OrdersShape, All, Role, KeptFromTailors
<1>2. /\ OrdersShape(OrdersRouter[6]) /\ OrdersShape(OrdersRouter[7])
      /\ OrdersShape(OrdersRouter[8]) /\ OrdersShape(OrdersRouter[9])
  BY OrdersRows, OrdersHeads DEF Row, OrdersShape, All, Role, Anyone, NoUserRole, KeptFromTailors
<1>3. /\ OrdersShape(OrdersRouter[10]) /\ OrdersShape(OrdersRouter[11])
      /\ OrdersShape(OrdersRouter[12]) /\ OrdersShape(OrdersRouter[13])
  BY OrdersRows, OrdersHeads DEF Row, OrdersShape, All, Role, Anyone, NoUserRole, KeptFromTailors
<1>4. ASSUME NEW i \in 1 .. 13 PROVE OrdersShape(OrdersRouter[i])
  <2>1. CASE i \in {1, 2, 3, 4, 5} BY <1>1, <2>1
  <2>2. CASE i \in {6, 7, 8, 9} BY <1>2, <2>2
  <2>3. CASE i \in {10, 11, 12, 13} BY <1>3, <2>3
  <2> QED BY <2>1, <2>2, <2>3
<1> QED BY <1>4

LEMMA OrdersOrdered == IsTable(OrdersRouter) /\ Ordered(OrdersRouter)
<1>1. IsTable(OrdersRouter)
  BY OrdersRows DEF IsTable
<1>2. ASSUME NEW i \in 1 .. 13, NEW j \in 1 .. 13, Shadows(OrdersRouter[j], OrdersRouter[i])
      PROVE  i <= j
  <2>0. /\ OrdersRouter[j].method = OrdersRouter[i].method
        /\ Len(OrdersRouter[j].path) = Len(OrdersRouter[i].path)
    BY <1>2 DEF Shadows
  <2>1. CASE Len(OrdersRouter[i].path) = 0
    <3>1. i \in {1, 10} /\ j \in {1, 10}
      BY <2>0, <2>1, OrdersHeads
    <3> QED BY <2>0, <3>1, OrdersRows DEF Row
  <2>2. CASE Len(OrdersRouter[i].path) = 1
    <3>1. i \in {3, 4, 6, 7, 8, 9} /\ j \in {3, 4, 6, 7, 8, 9}
      BY <2>0, <2>2, OrdersHeads
    <3>2. OrdersRouter[j].path[1] \in {"*", Fill(OrdersRouter[i].path[1])}
      BY <1>2, <2>2 DEF Shadows
    <3>3. CASE OrdersRouter[i].method = "GET"
      <4>1. i \in {4, 6, 7, 8} /\ j \in {4, 6, 7, 8}
        BY <2>0, <3>1, <3>3, OrdersRows DEF Row
      <4> QED BY <3>2, <4>1, OrdersHeads DEF Fill
    <3>4. CASE OrdersRouter[i].method # "GET"
      <4>1. i \in {3, 9} /\ j \in {3, 9}
        BY <2>0, <3>1, <3>4, OrdersRows DEF Row
      <4> QED BY <2>0, <4>1, OrdersRows DEF Row
    <3> QED BY <3>3, <3>4
  <2>3. CASE Len(OrdersRouter[i].path) = 2
    <3>1. i \in {2, 5, 11, 12, 13} /\ j \in {2, 5, 11, 12, 13}
      BY <2>0, <2>3, OrdersHeads
    <3>2. /\ OrdersRouter[j].path[1] \in {"*", Fill(OrdersRouter[i].path[1])}
          /\ OrdersRouter[j].path[2] \in {"*", Fill(OrdersRouter[i].path[2])}
      BY <1>2, <2>3 DEF Shadows
    <3>3. CASE OrdersRouter[i].method = "POST"
      <4>1. i \in {2, 12, 13} /\ j \in {2, 12, 13}
        BY <2>0, <3>1, <3>3, OrdersRows DEF Row
      <4> QED BY <3>2, <4>1, OrdersHeads DEF Fill
    <3>4. CASE OrdersRouter[i].method # "POST"
      <4>1. i \in {5, 11} /\ j \in {5, 11}
        BY <2>0, <3>1, <3>4, OrdersRows DEF Row
      <4> QED BY <2>0, <4>1, OrdersRows DEF Row
    <3> QED BY <3>3, <3>4
  <2> QED BY <2>1, <2>2, <2>3, OrdersShapes DEF OrdersShape
<1> QED BY <1>1, <1>2, OrdersRows DEF Ordered

LEMMA OrdersAgrees ==
    ASSUME NEW call, NEW r, Fills(call, Orders, r), OrdersShape(r)
    PROVE  AgreesOn(call, r, "core")
<1>1. /\ call.method = r.method /\ call.caller \in Caller
      /\ IsSequence(call.path) /\ Len(call.path) = 2 + Len(r.path)
      /\ call.path[1] = "api" /\ call.path[2] = "orders" /\ IsPrefix(Orders, call.path)
  BY KeyPaths DEF Fills
<1>2. /\ Len(r.path) >= 1 => call.path[3] = Fill(r.path[1])
      /\ Len(r.path) = 2 => call.path[4] = Fill(r.path[2])
  <2>2. \A k \in 1 .. Len(r.path) : call.path[2 + k] = Fill(r.path[k])
    BY KeyPaths DEF Fills
  <2>3. /\ Len(r.path) >= 1 => 1 \in 1 .. Len(r.path)
        /\ Len(r.path) = 2 => 2 \in 1 .. Len(r.path)
        /\ 2 + 1 = 3 /\ 2 + 2 = 4
    BY DEF OrdersShape
  <2> QED BY <2>2, <2>3
<1>3. Serving(call) # {} /\ resolveService(call) = "core"
  BY <1>1, ServedByKey DEF Key
<1>4. Len(call.path) <= 2 \/ call.path[3] # "admin"
  BY <1>1, <1>2 DEF OrdersShape, Fill
<1>5. ASSUME call.caller \in Role, call.caller \in r.roles,
             call.caller = "TAILOR" => r.method \in {"GET", "PATCH"}
      PROVE  authorise(call)
  <2>1. CASE call.caller = "CUSTOMER" /\ r.method \in {"GET", "POST", "DELETE"}
    <3>1. PICK g \in PERMISSIONS["CUSTOMER"] :
            g.prefix = Orders /\ g.exact = FALSE /\ {"GET", "POST", "DELETE"} \subseteq g.methods
      BY Grants DEF CustomerGrants
    <3>2. Suits(g, call) /\ g \in PERMISSIONS[call.caller]
      BY <1>1, <2>1, <3>1 DEF Suits
    <3> QED BY <1>1, <1>4, <1>5, <3>2, Granted
  <2>2. CASE /\ call.caller = "CUSTOMER" /\ r.method = "PUT"
             /\ Len(r.path) = 2 /\ r.path[1] = "measurements"
    <3>1. PICK p : p = Append(Orders, "measurements")
      OBVIOUS
    <3>2. PICK g \in PERMISSIONS["CUSTOMER"] :
            g.prefix = p /\ g.exact = FALSE /\ "PUT" \in g.methods
      <4>1. PICK h : h = Grant(p, {"GET", "POST", "PUT"})
        OBVIOUS
      <4>2. h \in PERMISSIONS["CUSTOMER"]
        BY <3>1, <4>1, Grants, Zenon DEF CustomerGrants
      <4>3. h.prefix = p /\ h.exact = FALSE /\ h.methods = {"GET", "POST", "PUT"}
        BY <4>1, Grants
      <4> QED BY <4>2, <4>3
    <3>3. Three(p, "api", "orders", "measurements")
      BY <3>1, LongerPaths
    <3>4. call.path[3] = "measurements" /\ Len(call.path) = 4
      BY <1>1, <1>2, <2>2 DEF Fill
    <3>5. IsPrefix(p, call.path)
      <4>1. IsSequence(p) /\ Len(p) = 3 /\ p[1] = "api" /\ p[2] = "orders" /\ p[3] = "measurements"
        BY <3>3 DEF Three
      <4>2. IsPrefix(p, call.path) <=>
              /\ Len(call.path) >= 3 /\ call.path[1] = p[1] /\ call.path[2] = p[2]
              /\ call.path[3] = p[3]
        BY <1>1, <4>1, PrefixOfThree
      <4> QED BY <1>1, <3>4, <4>1, <4>2
    <3>6. Suits(g, call) /\ g \in PERMISSIONS[call.caller]
      BY <1>1, <2>2, <3>2, <3>5 DEF Suits
    <3> QED BY <1>1, <1>4, <1>5, <3>6, Granted
  <2>3. CASE call.caller = "ADMIN"
    <3>1. PICK g \in PERMISSIONS["ADMIN"] : g.prefix = Orders /\ g.exact = FALSE /\ g.methods = All
      BY Grants DEF AdminGrants
    <3>2. call.method \in All
      BY <1>1 DEF OrdersShape
    <3>3. Suits(g, call) /\ g \in PERMISSIONS[call.caller]
      BY <1>1, <2>3, <3>1, <3>2 DEF Suits
    <3> QED BY <1>1, <1>4, <1>5, <3>3, Granted
  <2>4. CASE call.caller = "TAILOR"
    <3>1. PICK g \in PERMISSIONS["TAILOR"] :
            g.prefix = Orders /\ g.exact = FALSE /\ {"GET", "PATCH"} \subseteq g.methods
      BY Grants DEF TailorGrants
    <3>2. Suits(g, call) /\ g \in PERMISSIONS[call.caller]
      BY <1>1, <1>5, <2>4, <3>1 DEF Suits
    <3> QED BY <1>1, <1>4, <1>5, <3>2, Granted
  <2> QED BY <1>5, <2>1, <2>2, <2>3, <2>4 DEF OrdersShape, Role
<1>6. r.method \in {"GET", "PATCH"} \/ r.name \in KeptFromTailors
  BY DEF OrdersShape, All
<1>7. isPublicRoute(call) => "none" \in r.roles
  <2>1. ASSUME isPublicRoute(call) PROVE "none" \in r.roles
    <3>1. PublicPath(call.path)
      BY <1>1, <2>1, PublicPaths
    <3>2. Len(call.path) = 4 /\ call.path[3] = "webhook"
      BY <1>1, <3>1 DEF PublicPath, OrdersShape
    <3>3. Len(r.path) = 2 /\ r.path[1] = "webhook"
      <4>1. Len(r.path) = 2
        <5>1. CASE Len(r.path) = 0 BY <1>1, <3>2, <5>1
        <5>2. CASE Len(r.path) = 1 BY <1>1, <3>2, <5>2
        <5> QED BY <5>1, <5>2 DEF OrdersShape
      <4> QED BY <1>2, <3>2, <4>1 DEF Fill
    <3> QED BY <3>3 DEF OrdersShape
  <2> QED BY <2>1
<1>8. "none" \in r.roles => isPublicRoute(call) \/ r.name = "fabricFormula"
  <2>1. CASE r.method = "POST" /\ Len(r.path) = 2 /\ r.path[1] = "webhook" /\ r.path[2] = "paystack"
    <3>1. Four(call.path, "api", "orders", "webhook", "paystack")
      BY <1>1, <1>2, <2>1 DEF Four, Fill
    <3> QED BY <1>1, <2>1, <3>1, PublicPosts
  <2> QED BY <2>1 DEF OrdersShape
<1> QED BY <1>3, <1>5, <1>6, <1>7, <1>8 DEF AgreesOn

LEMMA OrdersTable == GoodTable(Mount(Orders, OrdersRouter), "core", {Orders})
<1>1. /\ IsTable(OrdersRouter) /\ Ordered(OrdersRouter) /\ Len(OrdersRouter) = 13
      /\ Orders \in Prefix
  BY OrdersOrdered, OrdersRows DEF Prefix
<1>2. ASSUME NEW i \in 1 .. Len(OrdersRouter), NEW call, Fills(call, Orders, OrdersRouter[i])
      PROVE  AgreesOn(call, OrdersRouter[i], "core")
  BY <1>1, <1>2, OrdersShapes, OrdersAgrees
<1>3. AllAgree(Mount(Orders, OrdersRouter), "core")
  BY <1>1, <1>2, MountAgrees
<1> QED BY <1>1, <1>3, MountIsGood

(***************************************************************************)
(* The tables of the catalogue service.                                    *)
(***************************************************************************)
\* Routes that anyone may read, and routes of administrators.
ReadShape(r, c) ==
  /\ r.method = "GET" /\ r.roles = Anyone
  /\ Len(r.path) = 0 \/ (Len(r.path) = 1 /\ c # "categories")
  /\ c = "categories" => r.name = "getCategories"
AdminShape(r) == r.method \in All /\ r.roles = {"ADMIN"} /\ Len(r.path) \in Nat

LEMMA CategoryRows ==
    /\ IsTable(CategoryRouter) /\ Ordered(CategoryRouter) /\ Len(CategoryRouter) = 1
    /\ \A i \in 1 .. 1 : ReadShape(CategoryRouter[i], "categories")
<1>1. /\ IsSequence(CategoryRouter) /\ Len(CategoryRouter) = 1
      /\ CategoryRouter[1] = Route("GET", <<>>, "getCategories", Anyone)
  BY DEF CategoryRouter, IsSequence
<1>2. IsRoute(CategoryRouter[1]) /\ Row(CategoryRouter[1], "GET", <<>>, "getCategories", Anyone)
  BY <1>1, ShortPaths, RouteRow
<1>3. ReadShape(CategoryRouter[1], "categories")
  BY <1>2, ShortPaths DEF Row, ReadShape
<1> QED BY <1>1, <1>2, <1>3 DEF IsTable, Ordered

LEMMA ReadsRows ==
    ASSUME NEW list, NEW one, NEW c \in Collection, c # "categories"
    PROVE  /\ IsTable(Reads(list, one)) /\ Ordered(Reads(list, one)) /\ Len(Reads(list, one)) = 2
           /\ \A i \in 1 .. 2 : ReadShape(Reads(list, one)[i], c)
<1> DEFINE R == Reads(list, one)
<1>1. /\ IsSequence(R) /\ Len(R) = 2
      /\ R[1] = Route("GET", <<>>, list, Anyone) /\ R[2] = Route("GET", <<"*">>, one, Anyone)
  BY DEF Reads, IsSequence
<1> HIDE DEF R
<1>2. /\ IsRoute(R[1]) /\ Row(R[1], "GET", <<>>, list, Anyone)
      /\ IsRoute(R[2]) /\ Row(R[2], "GET", <<"*">>, one, Anyone)
  BY <1>1, ShortPaths, RouteRow
<1>3. Len(R[1].path) = 0 /\ Len(R[2].path) = 1
  BY <1>2, ShortPaths DEF Row
<1>4. ReadShape(R[1], c) /\ ReadShape(R[2], c)
  BY <1>2, <1>3 DEF Row, ReadShape
<1>5. Ordered(R)
  BY <1>1, <1>3 DEF Ordered, Shadows
<1>6. IsTable(R)
  BY <1>1, <1>2 DEF IsTable
<1> QED BY <1>1, <1>4, <1>5, <1>6 DEF R

LEMMA KeepsRows ==
    ASSUME NEW create, NEW update, NEW delete
    PROVE  /\ IsTable(Keeps(create, update, delete)) /\ Ordered(Keeps(create, update, delete))
           /\ Len(Keeps(create, update, delete)) = 3
           /\ \A i \in 1 .. 3 : AdminShape(Keeps(create, update, delete)[i])
<1> DEFINE R == Keeps(create, update, delete)
<1>1. /\ IsSequence(R) /\ Len(R) = 3
      /\ R[1] = Route("POST", <<>>, create, {"ADMIN"}) /\ R[2] = Route("PUT", <<"*">>, update, {"ADMIN"})
      /\ R[3] = Route("DELETE", <<"*">>, delete, {"ADMIN"})
  BY DEF Keeps, IsSequence
<1> HIDE DEF R
<1>2. /\ IsRoute(R[1]) /\ Row(R[1], "POST", <<>>, create, {"ADMIN"})
      /\ IsRoute(R[2]) /\ Row(R[2], "PUT", <<"*">>, update, {"ADMIN"})
      /\ IsRoute(R[3]) /\ Row(R[3], "DELETE", <<"*">>, delete, {"ADMIN"})
  BY <1>1, ShortPaths, RouteRow
<1>3. AdminShape(R[1]) /\ AdminShape(R[2]) /\ AdminShape(R[3])
  BY <1>2, ShortPaths DEF Row, AdminShape, All
<1>4. Ordered(R)
  BY <1>1, <1>2 DEF Ordered, Shadows, Row
<1>5. IsTable(R)
  BY <1>1, <1>2 DEF IsTable
<1> QED BY <1>1, <1>3, <1>4, <1>5 DEF R

LEMMA UploadRows ==
    /\ IsTable(UploadRouter) /\ Ordered(UploadRouter) /\ Len(UploadRouter) = 2
    /\ \A i \in 1 .. 2 : AdminShape(UploadRouter[i])
<1>1. /\ IsSequence(UploadRouter) /\ Len(UploadRouter) = 2
      /\ UploadRouter[1] = Route("POST", <<>>, "upload", {"ADMIN"})
      /\ UploadRouter[2] = Route("DELETE", <<>>, "deleteUpload", {"ADMIN"})
  BY DEF UploadRouter, IsSequence
<1>2. /\ IsRoute(UploadRouter[1]) /\ Row(UploadRouter[1], "POST", <<>>, "upload", {"ADMIN"})
      /\ IsRoute(UploadRouter[2]) /\ Row(UploadRouter[2], "DELETE", <<>>, "deleteUpload", {"ADMIN"})
  BY <1>1, ShortPaths, RouteRow
<1>3. AdminShape(UploadRouter[1]) /\ AdminShape(UploadRouter[2])
  BY <1>2, ShortPaths DEF Row, AdminShape, All
<1>4. Ordered(UploadRouter)
  BY <1>1, <1>2 DEF Ordered, Shadows, Row
<1>5. IsTable(UploadRouter)
  BY <1>1, <1>2 DEF IsTable
<1> QED BY <1>1, <1>3, <1>4, <1>5

LEMMA ReadAgrees ==
    ASSUME NEW call, NEW r, NEW c \in Collection, Fills(call, Catalog(c), r), ReadShape(r, c)
    PROVE  AgreesOn(call, r, "catalog")
<1>0. /\ IsSequence(Catalog(c)) /\ Len(Catalog(c)) = 3
      /\ Catalog(c)[1] = "api" /\ Catalog(c)[2] = "v1" /\ Catalog(c)[3] = c
  BY KeyPaths
<1>1. /\ call.method = "GET" /\ call.caller \in Caller
      /\ IsSequence(call.path) /\ Len(call.path) = 3 + Len(r.path)
      /\ call.path[2] = "v1" /\ IsPrefix(Catalog(c), call.path)
  BY <1>0 DEF Fills, ReadShape
<1>2. Len(call.path) = 3 \/ (Len(call.path) = 4 /\ c # "categories")
  <2>1. CASE Len(r.path) = 0 BY <1>1, <2>1
  <2>2. CASE Len(r.path) = 1 /\ c # "categories" BY <1>1, <2>2
  <2> QED BY <2>1, <2>2 DEF ReadShape
<1>3. Serving(call) # {} /\ resolveService(call) = "catalog"
  <2>1. Catalog(c) \in Key /\ Catalog(c) \notin {Auth, Orders}
    BY <1>0, KeyPaths DEF Key
  <2> QED BY <1>1, <2>1, ServedByKey
<1>4. isPublicRoute(call) /\ "none" \in r.roles
  <2>1. isPublicRoute(call)
    BY <1>1, <1>2, PublicCatalogue
  <2> QED BY <2>1 DEF ReadShape, Anyone, NoUserRole
<1>5. ASSUME call.caller \in Role, call.caller = "TAILOR" => c # "categories"
      PROVE  authorise(call)
  <2>1. PICK p : p = Catalog(c)
    OBVIOUS
  <2>2. CASE call.caller = "ADMIN"
    <3>1. Grant(p, All) \in PERMISSIONS["ADMIN"]
      BY <2>1, Grants, Zenon DEF AdminGrants, Collection
    <3>2. Suits(Grant(p, All), call)
      BY <1>1, <2>1, Grants DEF Suits, All
    <3> QED BY <1>1, <1>5, <2>2, <3>1, <3>2, Granted
  <2>3. CASE call.caller \in {"CUSTOMER", "TAILOR"}
    <3>1. Grant(p, {"GET"}) \in PERMISSIONS[call.caller]
      <4>1. CASE call.caller = "CUSTOMER"
        <5>1. Grant(p, {"GET"}) \in CustomerGrants
          BY <2>1, Zenon DEF CustomerGrants, Collection
        <5> QED BY <4>1, <5>1, Grants
      <4>2. CASE call.caller = "TAILOR"
        <5>1. c \in {"products", "fabrics", "fabric-categories"}
          BY <1>5, <4>2 DEF Collection
        <5>2. Grant(p, {"GET"}) \in TailorGrants
          BY <2>1, <5>1, Zenon DEF TailorGrants
        <5> QED BY <4>2, <5>2, Grants
      <4> QED BY <2>3, <4>1, <4>2
    <3>2. Suits(Grant(p, {"GET"}), call)
      BY <1>1, <2>1, Grants DEF Suits
    <3> QED BY <1>1, <1>5, <3>1, <3>2, Granted
  <2> QED BY <1>5, <2>2, <2>3 DEF Role
<1>6. c = "categories" => r.name \in KeptFromTailors
  BY DEF ReadShape, KeptFromTailors
<1> QED BY <1>3, <1>4, <1>5, <1>6 DEF AgreesOn

LEMMA AdminAgrees ==
    ASSUME NEW call, NEW r, NEW c \in Collection \cup {"uploads"}, Fills(call, Admin(c), r), AdminShape(r)
    PROVE  AgreesOn(call, r, "catalog")
<1>0. /\ IsSequence(Admin(c)) /\ Len(Admin(c)) = 4
      /\ Admin(c)[1] = "api" /\ Admin(c)[2] = "v1" /\ Admin(c)[3] = "admin"
      /\ IsSequence(Catalog("admin")) /\ Len(Catalog("admin")) = 3
      /\ Catalog("admin")[1] = "api" /\ Catalog("admin")[2] = "v1" /\ Catalog("admin")[3] = "admin"
  BY KeyPaths
<1>1. /\ call.method = r.method /\ call.caller \in Caller
      /\ IsSequence(call.path) /\ Len(call.path) = 4 + Len(r.path)
      /\ call.path[1] = "api" /\ call.path[2] = "v1" /\ call.path[3] = "admin"
  BY <1>0 DEF Fills
<1>2. PICK p : p = Catalog("admin")
  OBVIOUS
<1>3. IsPrefix(p, call.path)
  <2>1. Len(call.path) >= 3
    BY <1>1 DEF AdminShape
  <2> QED BY <1>0, <1>1, <1>2, <2>1, PrefixOfThree
<1>4. Serving(call) # {} /\ resolveService(call) = "catalog"
  <2>1. p \in Key /\ p \notin {Auth, Orders}
    BY <1>0, <1>2, KeyPaths DEF Key
  <2> QED BY <1>1, <1>3, <2>1, ServedByKey
<1>5. ~isPublicRoute(call) /\ "none" \notin r.roles
  <2>1. ASSUME isPublicRoute(call) PROVE FALSE
    <3>1. PublicPath(call.path)
      BY <1>1, <2>1, PublicPaths
    <3>2. Len(call.path) # 1
      BY <1>1 DEF AdminShape
    <3> QED BY <1>1, <3>1, <3>2 DEF PublicPath, Collection
  <2> QED BY <2>1 DEF AdminShape
<1>6. ASSUME call.caller \in Role \cap r.roles
      PROVE  authorise(call)
  <2>1. call.caller = "ADMIN"
    BY <1>6 DEF AdminShape
  <2>2. Grant(p, All) \in PERMISSIONS["ADMIN"]
    BY <1>2, Grants, Zenon DEF AdminGrants
  <2>3. Suits(Grant(p, All), call)
    BY <1>1, <1>3, Grants DEF Suits, AdminShape
  <2> QED BY <1>1, <1>6, <2>1, <2>2, <2>3, Granted
<1> QED BY <1>4, <1>5, <1>6 DEF AgreesOn

LEMMA CategoryTable == GoodTable(Mount(Catalog("categories"), CategoryRouter), "catalog", {Catalog("categories")})
<1>1. "categories" \in Collection /\ Catalog("categories") \in Prefix
  BY DEF Prefix, Collection
<1>2. ASSUME NEW i \in 1 .. Len(CategoryRouter), NEW call,
             Fills(call, Catalog("categories"), CategoryRouter[i])
      PROVE  AgreesOn(call, CategoryRouter[i], "catalog")
  BY <1>1, <1>2, CategoryRows, ReadAgrees
<1>3. AllAgree(Mount(Catalog("categories"), CategoryRouter), "catalog")
  BY <1>1, <1>2, CategoryRows, MountAgrees
<1> QED BY <1>1, <1>3, CategoryRows, MountIsGood

LEMMA ReadsTable ==
    ASSUME NEW list, NEW one, NEW c \in Collection, c # "categories"
    PROVE  GoodTable(Mount(Catalog(c), Reads(list, one)), "catalog", {Catalog(c)})
<1> DEFINE R == Reads(list, one)
<1>1. /\ IsTable(R) /\ Ordered(R) /\ Len(R) = 2 /\ Catalog(c) \in Prefix
      /\ \A i \in 1 .. 2 : ReadShape(R[i], c)
  BY ReadsRows DEF Prefix
<1> HIDE DEF R
<1>2. ASSUME NEW i \in 1 .. Len(R), NEW call, Fills(call, Catalog(c), R[i])
      PROVE  AgreesOn(call, R[i], "catalog")
  BY <1>1, <1>2, ReadAgrees
<1>3. AllAgree(Mount(Catalog(c), R), "catalog")
  BY <1>1, <1>2, MountAgrees
<1>4. GoodTable(Mount(Catalog(c), R), "catalog", {Catalog(c)})
  BY <1>1, <1>3, MountIsGood
<1> QED BY <1>4 DEF R

LEMMA AdminTable ==
    ASSUME NEW R, IsTable(R), Ordered(R), \A i \in 1 .. Len(R) : AdminShape(R[i]),
           NEW c \in Collection \cup {"uploads"}
    PROVE  GoodTable(Mount(Admin(c), R), "catalog", {Admin(c)})
<1>1. Admin(c) \in Prefix
  BY DEF Prefix
<1>2. ASSUME NEW i \in 1 .. Len(R), NEW call, Fills(call, Admin(c), R[i])
      PROVE  AgreesOn(call, R[i], "catalog")
  BY <1>2, AdminAgrees
<1>3. AllAgree(Mount(Admin(c), R), "catalog")
  BY <1>1, <1>2, MountAgrees
<1> QED BY <1>1, <1>3, MountIsGood

(***************************************************************************)
(* The routes of a service.                                                *)
(***************************************************************************)
LEMMA CoreTable == \E P : GoodTable(CoreRoutes, "core", P)
<1>1. Orders \notin {Auth} /\ Orders \in Prefix /\ {Auth} \in SUBSET Prefix
  BY KeyPaths DEF Prefix
<1>2. GoodTable(CoreRoutes, "core", {Auth} \cup {Orders})
  BY <1>1, AuthTable, OrdersTable, ConcatTables DEF CoreRoutes
<1> QED BY <1>2

LEMMA CatalogTable == \E P : GoodTable(CatalogRoutes, "catalog", P)
<1> DEFINE c1 == Catalog("categories")
           c2 == Catalog("fabrics")
           c3 == Catalog("fabric-categories")
           c4 == Catalog("products")
           a1 == Admin("categories")
           a2 == Admin("fabrics")
           a3 == Admin("products")
           a4 == Admin("fabric-categories")
           a5 == Admin("uploads")
           m1 == Mount(c1, CategoryRouter)
           m2 == Mount(c2, FabricRouter)
           m3 == Mount(c3, FabricCategoryRouter)
           m4 == Mount(c4, ProductRouter)
           n1 == Mount(a1, AdminCategoryRouter)
           n2 == Mount(a2, AdminFabricRouter)
           n3 == Mount(a3, AdminProductRouter)
           n4 == Mount(a4, AdminFabricCategoryRouter)
           n5 == Mount(a5, UploadRouter)
<1>1. CatalogRoutes = m1 \o m2 \o m3 \o m4 \o n1 \o n2 \o n3 \o n4 \o n5
  BY DEF CatalogRoutes
<1>2. /\ GoodTable(m1, "catalog", {c1}) /\ GoodTable(m2, "catalog", {c2})
      /\ GoodTable(m3, "catalog", {c3}) /\ GoodTable(m4, "catalog", {c4})
  BY CategoryTable, ReadsTable DEF FabricRouter, FabricCategoryRouter, ProductRouter, Collection
<1>3. /\ GoodTable(n1, "catalog", {a1}) /\ GoodTable(n2, "catalog", {a2})
      /\ GoodTable(n3, "catalog", {a3}) /\ GoodTable(n4, "catalog", {a4})
  BY KeepsRows, AdminTable
     DEF AdminCategoryRouter, AdminFabricRouter, AdminProductRouter, AdminFabricCategoryRouter, Collection
<1>4. GoodTable(n5, "catalog", {a5})
  BY UploadRows, AdminTable
<1>5. /\ {c1, c2, c3, c4, a1, a2, a3, a4, a5} \subseteq Prefix
      /\ c2 # c1 /\ c3 \notin {c1, c2} /\ c4 \notin {c1, c2, c3} /\ a1 \notin {c1, c2, c3, c4}
      /\ a2 \notin {c1, c2, c3, c4, a1} /\ a3 \notin {c1, c2, c3, c4, a1, a2}
      /\ a4 \notin {c1, c2, c3, c4, a1, a2, a3} /\ a5 \notin {c1, c2, c3, c4, a1, a2, a3, a4}
  <2>1. {c1, c2, c3, c4, a1, a2, a3, a4, a5} \subseteq Prefix
    BY DEF Prefix, Collection
  <2>2. /\ c1[3] = "categories" /\ c2[3] = "fabrics" /\ c3[3] = "fabric-categories"
        /\ c4[3] = "products" /\ a1[3] = "admin" /\ a2[3] = "admin" /\ a3[3] = "admin"
        /\ a4[3] = "admin" /\ a5[3] = "admin"
        /\ a1[4] = "categories" /\ a2[4] = "fabrics" /\ a3[4] = "products"
        /\ a4[4] = "fabric-categories" /\ a5[4] = "uploads"
    BY KeyPaths
  <2> HIDE DEF c1, c2, c3, c4, a1, a2, a3, a4, a5
  <2> QED BY <2>1, <2>2
<1> HIDE DEF c1, c2, c3, c4, a1, a2, a3, a4, a5, m1, m2, m3, m4, n1, n2, n3, n4, n5
<1>6. GoodTable(m1 \o m2, "catalog", {c1} \cup {c2})
  BY <1>2, <1>5, ConcatTables
<1>7. GoodTable((m1 \o m2) \o m3, "catalog", {c1} \cup {c2} \cup {c3})
  BY <1>2, <1>5, <1>6, ConcatTables
<1>8. PICK s, P : s = m1 \o m2 \o m3 /\ P = {c1, c2, c3} /\ GoodTable(s, "catalog", P)
  <2>1. {c1} \cup {c2} \cup {c3} = {c1, c2, c3}
    OBVIOUS
  <2> QED BY <1>7, <2>1
<1>9. GoodTable(s \o m4, "catalog", P \cup {c4})
  BY <1>2, <1>5, <1>8, ConcatTables
<1>10. GoodTable(s \o m4 \o n1, "catalog", P \cup {c4} \cup {a1})
  BY <1>3, <1>5, <1>8, <1>9, ConcatTables
<1>11. PICK t, Q : /\ t = s \o m4 \o n1 /\ Q = {c1, c2, c3, c4, a1}
                   /\ GoodTable(t, "catalog", Q)
  <2>1. P \cup {c4} \cup {a1} = {c1, c2, c3, c4, a1}
    BY <1>8
  <2> QED BY <1>10, <2>1
<1>12. GoodTable(t \o n2, "catalog", Q \cup {a2})
  BY <1>3, <1>5, <1>11, ConcatTables
<1>13. GoodTable(t \o n2 \o n3, "catalog", Q \cup {a2} \cup {a3})
  BY <1>3, <1>5, <1>11, <1>12, ConcatTables
<1>14. PICK u, R : /\ u = t \o n2 \o n3 /\ R = {c1, c2, c3, c4, a1, a2, a3}
                   /\ GoodTable(u, "catalog", R)
  <2>1. Q \cup {a2} \cup {a3} = {c1, c2, c3, c4, a1, a2, a3}
    BY <1>11
  <2> QED BY <1>13, <2>1
<1>15. GoodTable(u \o n4, "catalog", R \cup {a4})
  BY <1>3, <1>5, <1>14, ConcatTables
<1>16. GoodTable(u \o n4 \o n5, "catalog", R \cup {a4} \cup {a5})
  BY <1>4, <1>5, <1>14, <1>15, ConcatTables
<1>17. CatalogRoutes = u \o n4 \o n5
  BY <1>1, <1>8, <1>11, <1>14, Zenon
<1> QED BY <1>16, <1>17

LEMMA ServiceTable ==
    ASSUME NEW s \in Service
    PROVE  IsTable(Routes(s)) /\ Ordered(Routes(s)) /\ AllAgree(Routes(s), s)
<1>1. PICK P : GoodTable(Routes(s), s, P)
  <2>1. CASE s = "core"
    BY <2>1, CoreTable DEF Routes
  <2>2. CASE s = "catalog"
    BY <2>2, CatalogTable DEF Routes
  <2> QED BY <2>1, <2>2 DEF Service
<1> QED BY <1>1 DEF GoodTable

\* A call is served by the route it fills in.
LEMMA OwnRoute ==
    ASSUME NEW s \in Service, NEW i \in 1 .. Len(Routes(s)), NEW call, Names(call, Routes(s)[i])
    PROVE  /\ resolveService(call) = s /\ Serving(call) # {}
           /\ First(s, call) = Routes(s)[i] /\ Found(s, call) # {}
           /\ AgreesOn(call, Routes(s)[i], s)
<1> DEFINE T == Routes(s)
           r == T[i]
<1>1. IsTable(T) /\ Ordered(T) /\ Len(T) \in Nat /\ DOMAIN T = 1 .. Len(T)
  BY ServiceTable DEF IsTable, IsSequence
<1>2. AgreesOn(call, r, s)
  BY ServiceTable DEF AllAgree, Agrees
<1>3. \A j \in 1 .. Len(T) : IsSequence(T[j].path)
  BY <1>1 DEF IsTable, IsRoute
<1> HIDE DEF T
<1>4. /\ call.method = r.method /\ IsSequence(call.path) /\ Len(call.path) = Len(r.path)
      /\ DOMAIN call.path = 1 .. Len(r.path)
      /\ \A k \in 1 .. Len(r.path) : call.path[k] = Fill(r.path[k])
  <2>1. call.path = Filled(r.path) /\ call.method = r.method
    BY DEF Names, T
  <2>2. IsSequence(r.path)
    BY <1>3 DEF T
  <2> QED BY <2>1, <2>2, FilledPath DEF IsSequence
<1>5. i \in Found(s, call)
  <2>1. Len(r.path) = Len(call.path) /\ r.method = call.method
    BY <1>4
  <2>2. \A k \in DOMAIN call.path : r.path[k] \in {"*", call.path[k]}
    BY <1>4 DEF Fill
  <2>3. Fits(r, call)
    BY <2>1, <2>2 DEF Fits
  <2> QED BY <1>1, <2>3 DEF Found, T
<1>6. ASSUME NEW j \in Found(s, call)
      PROVE  i <= j
  <2>1. j \in 1 .. Len(T) /\ Fits(T[j], call)
    BY <1>1 DEF Found, T
  <2>2. Shadows(T[j], r)
    BY <1>4, <2>1 DEF Fits, Shadows
  <2> QED BY <1>1, <2>1, <2>2 DEF Ordered, T
<1>7. ASSUME NEW j \in Found(s, call), \A k \in Found(s, call) : j <= k
      PROVE  j = i
  <2>1. j <= i /\ i <= j
    BY <1>5, <1>6, <1>7
  <2>2. j \in 1 .. Len(T)
    BY <1>1 DEF Found, T
  <2> QED BY <1>1, <2>1, <2>2 DEF T
<1>8. (CHOOSE j \in Found(s, call) : \A k \in Found(s, call) : j <= k) = i
  BY <1>5, <1>6, <1>7
<1>9. First(s, call) = r
  BY <1>8 DEF First, T
<1> QED BY <1>2, <1>5, <1>9 DEF AgreesOn, T

(***************************************************************************)
(* The calls that clients make.                                            *)
(***************************************************************************)
Nowhere == {<<"health">>, <<"api", "health">>, Append(Auth, "health")}

LEMMA CallsName ==
    ASSUME NEW call \in Call
    PROVE  /\ call.caller \in Caller
           /\ \/ \E s \in Service : \E i \in 1 .. Len(Routes(s)) : Names(call, Routes(s)[i])
              \/ call.method = "GET" /\ call.name = "nothing" /\ call.path \in Nowhere
<1> DEFINE Of(r) == [method : {r.method}, caller : Caller, name : {r.name},
                     path : {[i \in DOMAIN r.path |-> IF r.path[i] = "*" THEN "id1"
                                                      ELSE r.path[i]]},
                     csrf : IF r.csrf THEN BOOLEAN ELSE {TRUE}]
           All0 == UNION {Range(Routes(s)) : s \in Service}
           None == [method : {"GET"}, caller : Caller, name : {"nothing"}, csrf : {TRUE},
                    path : {<<"health">>, <<"api", "health">>, Append(Auth, "health")}]
<1>1. Call = (UNION {Of(r) : r \in All0}) \cup None
  BY DEF Call
<1> HIDE DEF Of, All0, None
<1>2. CASE call \in None
  BY <1>2 DEF None, Nowhere
<1>3. ASSUME NEW r \in All0, call \in Of(r)
      PROVE  /\ call.caller \in Caller
             /\ \E s \in Service : \E i \in 1 .. Len(Routes(s)) : Names(call, Routes(s)[i])
  <2>1. PICK s \in Service : r \in Range(Routes(s))
    BY DEF All0
  <2>2. PICK i \in DOMAIN Routes(s) : r = Routes(s)[i]
    BY <2>1 DEF Range
  <2>3. DOMAIN Routes(s) = 1 .. Len(Routes(s))
    BY ServiceTable DEF IsTable, IsSequence
  <2>4. PICK p, b : /\ p = [k \in DOMAIN r.path |-> IF r.path[k] = "*" THEN "id1" ELSE r.path[k]]
                    /\ b = IF r.csrf THEN BOOLEAN ELSE {TRUE}
    OBVIOUS
  <2>5. call \in [method : {r.method}, caller : Caller, name : {r.name}, path : {p}, csrf : b]
    BY <1>3, <2>4 DEF Of
  <2>6. call.method = r.method /\ call.caller \in Caller /\ call.name = r.name /\ call.path = p
    BY <2>5
  <2>7. p = Filled(r.path)
    BY <2>4 DEF Filled, Fill
  <2>8. Names(call, r)
    BY <2>6, <2>7 DEF Names
  <2> QED BY <2>2, <2>3, <2>6, <2>8
<1>4. CASE call \in UNION {Of(r) : r \in All0}
  <2>1. PICK r \in All0 : call \in Of(r)
    BY <1>4, Zenon
  <2> QED BY <1>3, <2>1
<1> QED BY <1>1, <1>2, <1>4

LEMMA NoKeyOfHealth ==
    ASSUME NEW call, call.path \in {<<"health">>, <<"api", "health">>}
    PROVE  Serving(call) = {}
<1>1. /\ IsSequence(call.path)
      /\ Len(call.path) = 1 \/ (Len(call.path) = 2 /\ call.path[2] = "health")
  BY ShortPaths
<1>2. DOMAIN SERVICE_MAP = Key
  BY DEF SERVICE_MAP, Key, Collection
<1>3. ASSUME NEW p \in Key
      PROVE  ~IsPrefix(p, call.path)
  <2>1. IsSequence(p) /\ Len(p) \in 2 .. 3 /\ p[2] \in {"auth", "orders", "v1"}
    BY KeyPaths DEF Key
  <2>2. IsPrefix(p, call.path) => Len(p) <= Len(call.path) /\ \A k \in 1 .. Len(p) : p[k] = call.path[k]
    BY <1>1, <2>1, PrefixMeans
  <2>3. CASE Len(call.path) = 1
    BY <2>1, <2>2, <2>3
  <2>4. CASE Len(call.path) = 2 /\ call.path[2] = "health"
    <3>1. 2 \in 1 .. Len(p)
      BY <2>1
    <3> QED BY <2>1, <2>2, <2>4, <3>1
  <2> QED BY <1>1, <2>3, <2>4
<1> QED BY <1>2, <1>3 DEF Serving

LEMMA NoRouteOfHealth ==
    ASSUME NEW call, call.path = Append(Auth, "health")
    PROVE  Serving(call) = {Auth} /\ resolveService(call) = "core" /\ Found("core", call) = {}
<1>1. Three(call.path, "api", "auth", "health")
  BY LongerPaths
<1>2. /\ IsSequence(call.path) /\ Len(call.path) = 3
      /\ call.path[1] = "api" /\ call.path[2] = "auth" /\ call.path[3] = "health"
  BY <1>1 DEF Three
<1>3. IsPrefix(Auth, call.path)
  <2>1. IsSequence(Auth) /\ Len(Auth) = 2 /\ Auth[1] = "api" /\ Auth[2] = "auth"
    BY KeyPaths
  <2>2. ASSUME NEW k \in 1 .. Len(Auth) PROVE Auth[k] = call.path[k]
    <3>1. k = 1 \/ k = 2
      BY <2>1
    <3> QED BY <1>2, <2>1, <3>1
  <2>3. IsSequence(call.path) /\ Len(Auth) <= Len(call.path)
    BY <1>2, <2>1
  <2> QED BY <2>1, <2>2, <2>3, PrefixMeans
<1>4. Serving(call) = {Auth} /\ resolveService(call) = "core"
  BY <1>2, <1>3, ServedByKey DEF Key
<1> DEFINE A == Mount(Auth, AuthRouter)
           O == Mount(Orders, OrdersRouter)
<1>5. /\ Auth \in Prefix /\ Orders \in Prefix
      /\ IsTable(AuthRouter) /\ Len(AuthRouter) = 11 /\ IsTable(OrdersRouter) /\ Len(OrdersRouter) = 13
      /\ IsTable(A) /\ Len(A) = 11 /\ IsTable(O) /\ Len(O) = 13
  <2>1. /\ Auth \in Prefix /\ Orders \in Prefix
        /\ IsTable(AuthRouter) /\ Len(AuthRouter) = 11 /\ IsTable(OrdersRouter) /\ Len(OrdersRouter) = 13
    BY AuthOrdered, OrdersOrdered, AuthRows, OrdersRows DEF Prefix
  <2>2. IsTable(A) /\ Len(A) = 11
    BY <2>1, MountedRoute
  <2>3. IsTable(O) /\ Len(O) = 13
    BY <2>1, MountedRoute
  <2> QED BY <2>1, <2>2, <2>3
<1>6. ASSUME NEW i \in 1 .. 11 PROVE ~Fits(A[i], call)
  <2>1. PICK p : p = AuthRouter[i].path
    OBVIOUS
  <2>2. Len(p) \in Nat /\ Len(p) >= 1 /\ p[1] \notin {"*", "health"}
    <3>1. Len(p) \in Nat
      BY <2>1, AuthRows DEF IsRoute, IsSequence
    <3>2. Len(p) >= 1
      BY <2>1, AuthHeads
    <3>3. CASE i \in {1, 2, 3, 4, 5, 6}
      BY <2>1, <3>3, AuthHeads
    <3>4. CASE i \in {7, 8, 9, 10, 11}
      BY <2>1, <3>4, AuthHeads
    <3> QED BY <3>1, <3>2, <3>3, <3>4
  <2>3. A[i].path[3] = p[1]
    <3>1. Behind(Auth, p, A[i].path)
      BY <1>5, <2>1, MountedPath
    <3>2. Len(Auth) = 2 /\ 1 \in 1 .. Len(p) /\ 2 + 1 = 3
      BY <2>2, KeyPaths
    <3> QED BY <3>1, <3>2 DEF Behind
  <2>4. 3 \in DOMAIN call.path
    BY <1>2 DEF IsSequence
  <2> QED BY <1>2, <2>2, <2>3, <2>4 DEF Fits
<1>7. ASSUME NEW i \in 1 .. 13 PROVE ~Fits(O[i], call)
  <2>1. O[i].path[2] = "orders"
    <3>1. Behind(Orders, OrdersRouter[i].path, O[i].path)
      BY <1>5, MountedPath
    <3>2. 2 \in 1 .. Len(Orders) /\ Orders[2] = "orders"
      BY KeyPaths
    <3> QED BY <3>1, <3>2 DEF Behind
  <2>2. 2 \in DOMAIN call.path
    BY <1>2 DEF IsSequence
  <2> QED BY <1>2, <2>1, <2>2 DEF Fits
<1> HIDE DEF A, O
<1>8. ASSUME NEW i \in DOMAIN CoreRoutes PROVE ~Fits(CoreRoutes[i], call)
  <2>1. PICK T : T = A \o O /\ T = CoreRoutes
    BY DEF CoreRoutes, A, O
  <2>2. /\ IsSequence(T) /\ Len(T) = Len(A) + Len(O)
        /\ \A k \in 1 .. Len(A) : T[k] = A[k]
        /\ \A k \in 1 .. Len(O) : T[Len(A) + k] = O[k]
    <3>1. IsSequence(A) /\ IsSequence(O)
      BY <1>5 DEF IsTable
    <3>2. T = A \o O
      BY <2>1
    <3> QED BY ONLY <3>1, <3>2, ConcatMakes
  <2>3. i \in 1 .. 24
    BY <1>5, <2>1, <2>2 DEF IsSequence
  <2>4. CASE i <= 11
    <3>1. T[i] = A[i] /\ i \in 1 .. 11
      BY <1>5, <2>2, <2>3, <2>4
    <3> QED BY <1>6, <2>1, <3>1
  <2>5. CASE i > 11
    <3>1. i - 11 \in 1 .. 13 /\ 11 + (i - 11) = i
      BY <2>3, <2>5
    <3>2. T[11 + (i - 11)] = O[i - 11]
      BY <1>5, <2>2, <3>1
    <3> QED BY <1>7, <2>1, <3>1, <3>2
  <2> QED BY <2>3, <2>4, <2>5
<1>9. Found("core", call) = {}
  BY <1>8 DEF Found, Routes
<1> QED BY <1>4, <1>9

\* The gateway and the service on one call: what the four tables promise.
LEMMA TablesOfCall ==
    ASSUME NEW call \in Call
    PROVE  /\ Serving(call) # {} /\ Found(resolveService(call), call) # {}
                => First(resolveService(call), call).name = call.name
           /\ GatewayAnswer(call) = Pass /\ ServiceAnswer(resolveService(call), call) = 401
                => call.caller = "noRole"
           /\ GatewayAnswer(call) = 401 => call.caller \in {"none", "expired"}
           /\ GatewayAnswer(call) = 403 /\ WouldServe(call)
                => call.caller = "TAILOR" /\ call.name \in KeptFromTailors
           /\ GatewayAnswer(call) = 401 /\ call.caller = "none" /\ WouldServe(call)
                => call.name \in {"logout", "fabricFormula"}
           /\ GatewayAnswer(call) = Pass => Serving(call) # {}
<1>0. GatewayAnswer(call) = Pass => Serving(call) # {}
  BY DEF GatewayAnswer, Pass
<1>9. GatewayAnswer(call) = 401 => call.caller \in {"none", "expired"}
  BY DEF GatewayAnswer, Pass
<1>1. CASE call.method = "GET" /\ call.name = "nothing" /\ call.path \in Nowhere
  <2>1. CASE call.path \in {<<"health">>, <<"api", "health">>}
    <3>1. Serving(call) = {}
      BY <2>1, NoKeyOfHealth
    <3> QED BY <1>0, <1>9, <3>1 DEF WouldServe
  <2>2. CASE call.path = Append(Auth, "health")
    <3>1. Serving(call) = {Auth} /\ resolveService(call) = "core" /\ Found("core", call) = {}
      BY <2>2, NoRouteOfHealth
    <3>2. ServiceAnswer("core", call) = 404
      BY <3>1 DEF ServiceAnswer
    <3> QED BY <1>0, <1>9, <3>1, <3>2 DEF WouldServe, Pass
  <2> QED BY <1>1, <2>1, <2>2 DEF Nowhere
<1>2. ASSUME NEW s \in Service, NEW i \in 1 .. Len(Routes(s)), Names(call, Routes(s)[i])
      PROVE  /\ First(resolveService(call), call).name = call.name
             /\ GatewayAnswer(call) = Pass /\ ServiceAnswer(resolveService(call), call) = 401
                  => call.caller = "noRole"
             /\ GatewayAnswer(call) = 403 /\ WouldServe(call)
                  => call.caller = "TAILOR" /\ call.name \in KeptFromTailors
             /\ GatewayAnswer(call) = 401 /\ call.caller = "none" /\ WouldServe(call)
                  => call.name \in {"logout", "fabricFormula"}
  <2> DEFINE r == Routes(s)[i]
  <2>1. /\ resolveService(call) = s /\ First(s, call) = r /\ Found(s, call) # {}
        /\ AgreesOn(call, r, s)
    BY <1>2, OwnRoute
  <2>2. call.name = r.name /\ call.caller \in Caller
    BY <1>2 DEF Names
  <2> HIDE DEF r
  <2>3. ServiceAnswer(s, call) = Refusal(r, call)
    BY <2>1 DEF ServiceAnswer
  <2>4. WouldServe(call) => call.caller \in r.roles
    BY <2>1, <2>3 DEF WouldServe, Refusal, Pass, authenticate, authorize
  <2>5. GatewayAnswer(call) = Pass => call.caller # "none" \/ isPublicRoute(call)
    BY DEF GatewayAnswer, Pass
  <2>6. Refusal(r, call) = 401 => call.caller \in {"none", "noRole"} /\ "none" \notin r.roles
    BY DEF Refusal, Pass, authenticate, authorize, NoUserRole
  <2>7. GatewayAnswer(call) = 403 => call.caller \in Role /\ ~authorise(call)
    <3>1. call.caller \in {"none", "noRole"} => authorise(call) BY DEF authorise, NoUserRole
    <3>2. GatewayAnswer(call) = 403 => call.caller # "expired" /\ ~authorise(call)
      BY DEF GatewayAnswer, Pass
    <3> QED BY <2>2, <3>1, <3>2 DEF Caller
  <2>8. GatewayAnswer(call) = 401 /\ call.caller = "none" => ~isPublicRoute(call)
    BY DEF GatewayAnswer, Pass, Role
  <2> QED BY <2>1, <2>2, <2>3, <2>4, <2>5, <2>6, <2>7, <2>8 DEF AgreesOn
<1> QED BY <1>0, <1>1, <1>2, <1>9, CallsName

(***************************************************************************)
(* What a slot says of its call, by the tables.                            *)
(***************************************************************************)
Tells(c) == /\ c.call \in Call /\ "call" \in DOMAIN c
            /\ c.at # "answered" => GatewayAnswer(c.call) = Pass /\ c.status = Pass
            /\ c.name # "nothing" => c.name = c.call.name
            /\ c.by = "gateway" /\ c.status \in {401, 403} => GatewayAnswer(c.call) = c.status
            /\ c.status = 401 => c.by = "gateway" \/ c.call.caller = "noRole"

SlotsTell == \A q \in Request : req[q] = Idle \/ Tells(req[q])

LEMMA TellStep ==
    ASSUME RunsOK, SlotsTell, NEW q \in Request, NEW c, req' = [req EXCEPT ![q] = c],
           c = Idle \/ Tells(c)
    PROVE  SlotsTell'
BY DEF RunsOK, SlotsTell

LEMMA AnswerTells ==
    ASSUME RunsOK, SlotsTell, NEW q \in Request, InFlight(q), NEW by, NEW status,
           Answered(q, by, status),
           \/ status \notin {401, 403}
           \/ by = "service" /\ (status = 401 => req[q].call.caller = "noRole")
    PROVE  SlotsTell'
<1> DEFINE c == [req[q] EXCEPT !.at = "answered", !.by = by, !.status = status]
<1>1. Sent(req[q]) /\ Tells(req[q]) BY DEF RunsOK, SlotsTell, InFlight, Idle
<1>2. Tells(c)
  <2>1. /\ c.call = req[q].call /\ c.name = req[q].name /\ c.at = "answered" /\ c.by = by
        /\ c.status = status /\ DOMAIN c = DOMAIN req[q]
    BY <1>1 DEF Sent, Tells
  <2> HIDE DEF c
  <2> QED BY <1>1, <2>1 DEF Tells
<1>3. req' = [req EXCEPT ![q] = c] BY <1>1 DEF Answered, RunsOK, Sent
<1> HIDE DEF c
<1> QED BY <1>2, <1>3, TellStep

\* A call in flight goes to a service that its own route is on.
LEMMA CallInFlight ==
    ASSUME RunsOK, SlotsTell, NEW q \in Request, InFlight(q)
    PROVE  /\ ServiceAnswer(To(q), req[q].call) = 401 => req[q].call.caller = "noRole"
           /\ ServiceAnswer(To(q), req[q].call) = Pass
                => First(To(q), req[q].call).name = req[q].call.name
<1>1. Sent(req[q]) /\ Tells(req[q]) /\ req[q].at # "answered" BY DEF RunsOK, SlotsTell, InFlight, Idle
<1>2. PICK call : call = req[q].call OBVIOUS
<1>3. call \in Call /\ GatewayAnswer(call) = Pass BY <1>1, <1>2 DEF Tells
<1>4. /\ Serving(call) # {} /\ Found(resolveService(call), call) # {}
           => First(resolveService(call), call).name = call.name
      /\ ServiceAnswer(resolveService(call), call) = 401 => call.caller = "noRole"
      /\ Serving(call) # {}
  BY <1>3, TablesOfCall
<1>5. ServiceAnswer(resolveService(call), call) = Pass => Found(resolveService(call), call) # {}
  BY DEF ServiceAnswer, Pass
<1> QED BY <1>2, <1>4, <1>5 DEF To

LEMMA TellsStep == RunsOK /\ SlotsTell /\ [Next]_vars => SlotsTell'
<1> SUFFICES ASSUME RunsOK, SlotsTell, [Next]_vars PROVE SlotsTell' OBVIOUS
<1>1. ASSUME NEW q \in Request, NEW call \in Call, Receive(q, call) \/ Limited(q, call)
      PROVE  SlotsTell'
  <2>1. PICK at, status :
          /\ \/ status = GatewayAnswer(call) /\ (at # "answered" => status = Pass)
             \/ status = 429 /\ at = "answered"
          /\ req' = [req EXCEPT ![q] = [at |-> at, call |-> call, by |-> "gateway",
                                        name |-> "nothing", status |-> status, runs |-> 0]]
    <3>1. CASE Receive(q, call)
      <4>1. PICK at : /\ at = IF GatewayAnswer(call) = Pass THEN "sent" ELSE "answered"
                      /\ req' = [req EXCEPT ![q] = [at |-> at, call |-> call, by |-> "gateway",
                           name |-> "nothing", status |-> GatewayAnswer(call), runs |-> 0]]
        BY <3>1 DEF Receive
      <4> QED BY <4>1
    <3>2. CASE Limited(q, call)
      BY <3>2 DEF Limited
    <3> QED BY <1>1, <3>1, <3>2
  <2> DEFINE c == [at |-> at, call |-> call, by |-> "gateway", name |-> "nothing",
                   status |-> status, runs |-> 0]
  <2>2. Tells(c) BY <2>1 DEF Tells
  <2>3. req' = [req EXCEPT ![q] = c] BY <2>1
  <2> HIDE DEF c
  <2> QED BY <2>2, <2>3, TellStep
<1>2. ASSUME NEW q \in Request, ServiceLimits(q) PROVE SlotsTell'
  BY <1>2, AnswerTells DEF ServiceLimits, InFlight
<1>3. ASSUME NEW q \in Request, Serve(q) PROVE SlotsTell'
  <2> DEFINE answer == ServiceAnswer(To(q), req[q].call)
             name == First(To(q), req[q].call).name
             c == [req[q] EXCEPT !.at = "handling", !.name = name]
  <2>1. /\ Sent(req[q]) /\ Tells(req[q]) /\ req[q].at = "sent" /\ InFlight(q)
    BY <1>3 DEF RunsOK, SlotsTell, Serve, Idle, InFlight
  <2>2. /\ answer = 401 => req[q].call.caller = "noRole"
        /\ answer = Pass => name = req[q].call.name
    BY <2>1, CallInFlight
  <2>3. CASE answer # Pass
    <3>1. Answered(q, "service", answer)
      BY <1>3, <2>3 DEF Serve
    <3> HIDE DEF answer
    <3> QED BY <2>1, <2>2, <3>1, AnswerTells
  <2>4. CASE answer = Pass
    <3>1. req' = [req EXCEPT ![q] = c] BY <1>3, <2>1, <2>4 DEF Serve, RunsOK, Sent
    <3> HIDE DEF name, answer
    <3>2. Tells(c) BY <2>1, <2>2, <2>4 DEF Tells, Sent
    <3> HIDE DEF c
    <3> QED BY <3>1, <3>2, TellStep
  <2> QED BY <2>3, <2>4
<1>4. ASSUME NEW q \in Request, Handle(q) PROVE SlotsTell'
  <2> DEFINE c == [req[q] EXCEPT !.at = "handled", !.runs = @ + 1]
  <2>1. Sent(req[q]) /\ Tells(req[q]) /\ req[q].at = "handling"
    BY <1>4 DEF RunsOK, SlotsTell, Handle, Idle
  <2>2. Tells(c) BY <2>1 DEF Tells, Sent
  <2>3. req' = [req EXCEPT ![q] = c] BY <1>4 DEF Handle
  <2> HIDE DEF c
  <2> QED BY <2>2, <2>3, TellStep
<1>5. ASSUME NEW q \in Request, Reply(q) \/ ProxyFails(q) PROVE SlotsTell'
  BY <1>5, AnswerTells DEF Reply, ProxyFails, InFlight
<1>6. ASSUME NEW q \in Request, Leave(q) PROVE SlotsTell'
  BY <1>6, TellStep DEF Leave
<1>7. ASSUME NEW s \in Service, ServiceStops(s) PROVE SlotsTell'
  <2>1. ASSUME NEW q \in Request PROVE req'[q] = Idle \/ Tells(req'[q])
    <3>1. CASE req[q].at \in {"handling", "handled"} /\ To(q) = s
      <4> DEFINE c == [req[q] EXCEPT !.at = "lost"]
      <4>1. Sent(req[q]) /\ Tells(req[q]) BY <3>1 DEF RunsOK, SlotsTell, Idle
      <4>2. Tells(c) BY <4>1, <3>1 DEF Tells, Sent
      <4>3. req'[q] = c BY <1>7, <3>1 DEF ServiceStops
      <4> HIDE DEF c
      <4> QED BY <4>2, <4>3
    <3>2. CASE ~(req[q].at \in {"handling", "handled"} /\ To(q) = s)
      <4>1. req'[q] = req[q] BY <1>7, <3>2 DEF ServiceStops
      <4> QED BY <4>1 DEF SlotsTell
    <3> QED BY <3>1, <3>2
  <2> QED BY <2>1 DEF SlotsTell
<1>8. CASE UNCHANGED req BY <1>8 DEF SlotsTell
<1>9. CASE Exit BY <1>9 DEF Exit, SlotsTell
<1>10. ASSUME NEW s \in Service, ServiceStarts(s) PROVE SlotsTell'
  BY <1>8, <1>10 DEF ServiceStarts
<1>11. CASE gracefulShutdown \/ Start \/ BackendsChange
  BY <1>8, <1>11 DEF gracefulShutdown, Start, BackendsChange
<1>12. CASE UNCHANGED vars BY <1>8, <1>12 DEF vars
<1> QED BY <1>1, <1>2, <1>3, <1>4, <1>5, <1>6, <1>7, <1>9, <1>10, <1>11, <1>12
        DEF Next, Proceed

LEMMA SlotsAlwaysTell == Spec => [](RunsOK /\ SlotsTell)
<1>1. Init => RunsOK /\ SlotsTell BY DEF Init, RunsOK, SlotsTell
<1> QED BY <1>1, RunsStep, TellsStep, PTL DEF Spec

\* Whatever the calls in flight, a service handles each by the route it names.
THEOREM RoutesAreNotShadowed == Spec => []NoRouteIsShadowed
<1>1. SlotsTell => NoRouteIsShadowed BY DEF SlotsTell, Tells, NoRouteIsShadowed
<1> QED BY <1>1, SlotsAlwaysTell, PTL

\* The public routes, the permissions, the service map and the routes of the services agree
\* on every call a client can make: the gateway keeps no one from a route but the tailors
\* from those of KeptFromTailors, and a service misses an identity only for a token that
\* names no role.
THEOREM FourTablesAgree == Spec => []TablesAgree
<1>1. ASSUME SlotsTell, NEW q \in Request, req[q] # Idle
      PROVE  LET call == req[q].call
             IN  /\ req[q].by = "gateway" /\ req[q].status = 403 /\ WouldServe(call)
                      => call.caller = "TAILOR" /\ call.name \in KeptFromTailors
                 /\ req[q].by = "service" /\ req[q].status = 401 => call.caller = "noRole"
                 /\ req[q].by = "gateway" /\ req[q].status = 401 =>
                      /\ call.caller \in {"none", "expired"}
                      /\ call.caller = "none" /\ WouldServe(call)
                           => call.name \in {"logout", "fabricFormula"}
  <2>1. PICK call : call = req[q].call OBVIOUS
  <2>2. Tells(req[q]) BY <1>1 DEF SlotsTell
  <2>3. call \in Call BY <2>1, <2>2 DEF Tells
  <2>4. /\ GatewayAnswer(call) = 403 /\ WouldServe(call)
             => call.caller = "TAILOR" /\ call.name \in KeptFromTailors
        /\ GatewayAnswer(call) = 401 => call.caller \in {"none", "expired"}
        /\ GatewayAnswer(call) = 401 /\ call.caller = "none" /\ WouldServe(call)
             => call.name \in {"logout", "fabricFormula"}
    BY <2>3, TablesOfCall
  <2>5. /\ req[q].by = "gateway" /\ req[q].status = 403 => GatewayAnswer(call) = 403
        /\ req[q].by = "gateway" /\ req[q].status = 401 => GatewayAnswer(call) = 401
        /\ req[q].by = "service" /\ req[q].status = 401 => call.caller = "noRole"
    BY <2>1, <2>2 DEF Tells
  <2> QED BY <2>1, <2>4, <2>5
<1>2. SlotsTell => TablesAgree BY <1>1 DEF TablesAgree
<1> QED BY <1>2, SlotsAlwaysTell, PTL
=============================================================================
