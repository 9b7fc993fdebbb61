------------------------------ MODULE Gateway ------------------------------
(***************************************************************************)
(* packages/gateway in front of the core API and the catalogue service:    *)
(* token, permissions, choice of the service and the call to it, then the  *)
(* service's own routes and checks.  Who may do what is written down four  *)
(* times (public routes, permissions, service map, routes); the module     *)
(* holds the tables of the code.  A path is the sequence of its segments,  *)
(* "*" a parameter.  The service's work on a request is one step; a rate   *)
(* limit may refuse any request.                                           *)
(***************************************************************************)
EXTENDS Naturals, SequencesExt

CONSTANT Request  \* slots for requests in flight

VARIABLES req,      \* requests at the gateway
          gateway,  \* is its process up, draining after SIGTERM, or down
          service,  \* which services are up
          backends  \* do the databases, Redis and providers that handlers
                    \* wait for answer; those calls have no time limit

vars == <<req, gateway, service, backends>>

Role == {"CUSTOMER", "ADMIN", "TAILOR"}

\* What the bearer token says.  A device token is valid and names no role.
Caller == Role \cup {"none", "noRole", "expired"}
NoUserRole == {"none", "noRole"}

Auth == <<"api", "auth">>
Orders == <<"api", "orders">>
Catalog(name) == <<"api", "v1", name>>
Admin(name) == <<"api", "v1", "admin", name>>

-----------------------------------------------------------------------------
(* The routes of the services, in the order they are mounted. *)
Anyone == Role \cup NoUserRole

Route(method, path, name, roles) ==
  [method |-> method, path |-> path, name |-> name, roles |-> roles, csrf |-> FALSE]
Guarded(route) == [route EXCEPT !.csrf = TRUE]
Mount(prefix, routes) ==
  [i \in DOMAIN routes |-> [routes[i] EXCEPT !.path = prefix \o @]]

AuthRouter == <<
  Route("GET", <<"csrf-token">>, "csrfToken", Anyone),
  Guarded(Route("POST", <<"register">>, "register", Anyone)),
  Guarded(Route("POST", <<"login">>, "login", Anyone)),
  Route("POST", <<"logout">>, "logout", Anyone),
  Route("GET", <<"refresh">>, "refresh", Anyone),
  Guarded(Route("POST", <<"admin", "verify-otp">>, "verifyAdminOtp", Anyone)),
  Guarded(Route("POST", <<"forgot-password">>, "forgotPassword", Anyone)),
  Route("POST", <<"reset-password">>, "resetPassword", Anyone),
  Route("GET", <<"me">>, "me", Role),
  Guarded(Route("PUT", <<"profile">>, "updateProfile", Role)),
  Route("GET", <<"tailors">>, "getTailors", {"ADMIN"}) >>

\* (mutant) One order is asked for before the lists are.
OrderByIdFirst == <<
  Route("GET", <<"*">>, "getOrder", Role),
  Route("GET", <<"measurements">>, "getUserMeasurements", Role),
  Route("GET", <<"my-orders">>, "getUserOrders", Role) >>

OrdersRouter == <<
  Route("POST", <<>>, "createOrder", Role),
  Route("POST", <<"*", "payment-intent">>, "createPaymentIntent", Role),
  Route("POST", <<"measurements">>, "createMeasurement", Role),
  Route("GET", <<"measurements">>, "getUserMeasurements", Role),
  Route("PUT", <<"measurements", "*">>, "updateMeasurement", Role),
  Route("GET", <<"fabric-formula">>, "fabricFormula", Anyone),
  Route("GET", <<"my-orders">>, "getUserOrders", Role),
  Route("GET", <<"*">>, "getOrder", Role),
  Route("DELETE", <<"*">>, "deleteOrder", Role),
  Route("GET", <<>>, "getAllOrders", {"ADMIN", "TAILOR"}),
  Route("PATCH", <<"*", "status">>, "updateOrderStatus", {"ADMIN", "TAILOR"}),
  Route("POST", <<"verify", "*">>, "verifyPayment", Role),
  Route("POST", <<"webhook", "paystack">>, "paystackWebhook", Anyone) >>

\* A collection that anyone may read and administrators keep.
Reads(list, one) == <<Route("GET", <<>>, list, Anyone), Route("GET", <<"*">>, one, Anyone)>>
Keeps(create, update, delete) == <<Route("POST", <<>>, create, {"ADMIN"}),
                                   Route("PUT", <<"*">>, update, {"ADMIN"}),
                                   Route("DELETE", <<"*">>, delete, {"ADMIN"})>>

CategoryRouter == <<Route("GET", <<>>, "getCategories", Anyone)>>
FabricRouter == Reads("listFabrics", "getFabric")
FabricCategoryRouter == Reads("listFabricCategories", "getFabricCategory")
ProductRouter == Reads("listProducts", "getProduct")
AdminCategoryRouter == Keeps("createCategory", "updateCategory", "deleteCategory")
AdminFabricRouter == Keeps("createFabric", "updateFabric", "deleteFabric")
AdminProductRouter == Keeps("createProduct", "updateProduct", "deleteProduct")
AdminFabricCategoryRouter ==
  Keeps("createFabricCategory", "updateFabricCategory", "deleteFabricCategory")
UploadRouter == <<Route("POST", <<>>, "upload", {"ADMIN"}),
                  Route("DELETE", <<>>, "deleteUpload", {"ADMIN"})>>

CoreRoutes == Mount(Auth, AuthRouter) \o Mount(Orders, OrdersRouter)
CatalogRoutes ==
  Mount(Catalog("categories"), CategoryRouter) \o Mount(Catalog("fabrics"), FabricRouter)
  \o Mount(Catalog("fabric-categories"), FabricCategoryRouter)
  \o Mount(Catalog("products"), ProductRouter)
  \o Mount(Admin("categories"), AdminCategoryRouter)
  \o Mount(Admin("fabrics"), AdminFabricRouter) \o Mount(Admin("products"), AdminProductRouter)
  \o Mount(Admin("fabric-categories"), AdminFabricCategoryRouter)
  \o Mount(Admin("uploads"), UploadRouter)

Routes(s) == IF s = "core" THEN CoreRoutes ELSE CatalogRoutes
Service == {"core", "catalog"}

\* The calls clients make: every route with its parameters filled in, and
\* paths nobody serves.
Call == LET Of(r) == [method : {r.method}, caller : Caller, name : {r.name},
                      path : {[i \in DOMAIN r.path |-> IF r.path[i] = "*" THEN "id1"
                                                       ELSE r.path[i]]},
                      csrf : IF r.csrf THEN BOOLEAN ELSE {TRUE}]
            Nowhere == [method : {"GET"}, caller : Caller, name : {"nothing"}, csrf : {TRUE},
                        path : {<<"health">>, <<"api", "health">>, Append(Auth, "health")}]
        IN (UNION {Of(r) : r \in UNION {Range(Routes(s)) : s \in Service}}) \cup Nowhere

-----------------------------------------------------------------------------
(* middleware/auth.js *)
PUBLIC_ROUTES ==
  {<<"GET", <<"health">>>>, <<"POST", Append(Orders, "webhook") \o <<"paystack">>>>,
   <<"GET", Append(Auth, "refresh")>>, <<"GET", Append(Auth, "csrf-token")>>,
   <<"POST", Append(Auth, "admin") \o <<"verify-otp">>>>}
  \cup {<<"GET", Catalog(c)>> : c \in {"products", "categories", "fabrics", "fabric-categories"}}
  \cup {<<"POST", Append(Auth, a)>> : a \in {"login", "register", "forgot-password",
                                             "reset-password"}}

\* (mutant) The detail page of anything.
AnyDetailPage(call) == call.method = "GET" /\ Len(call.path) \in 3 .. 4

IsDetailPage(call) ==
  /\ call.method = "GET"
  /\ Len(call.path) = 4
  /\ \E c \in {"products", "fabrics", "fabric-categories"} : IsPrefix(Catalog(c), call.path)

isPublicRoute(call) == <<call.method, call.path>> \in PUBLIC_ROUTES \/ IsDetailPage(call)

(* middleware/rbac.js *)
All == {"GET", "POST", "PUT", "PATCH", "DELETE"}
Grant(prefix, methods) == [prefix |-> prefix, methods |-> methods, exact |-> FALSE]

CustomerGrants ==
  {Grant(Catalog(c), {"GET"}) : c \in {"products", "categories", "fabrics", "fabric-categories"}}
  \cup {Grant(Auth, {"GET", "POST", "PUT", "PATCH"}), Grant(Orders, {"GET", "POST", "DELETE"}),
        Grant(Append(Orders, "measurements"), {"GET", "POST", "PUT"})}
AdminGrants == {Grant(p, All) : p \in {Auth, Orders} \cup
  {Catalog(c) : c \in {"products", "categories", "fabrics", "fabric-categories", "admin"}}}
TailorGrants ==
  {Grant(Catalog(c), {"GET"}) : c \in {"products", "fabrics", "fabric-categories"}}
  \cup {Grant(Orders, {"GET", "PATCH"}), Grant(Auth, {"GET", "POST"}),
        [Grant(Admin("products"), {"GET"}) EXCEPT !.exact = TRUE]}

PERMISSIONS == [CUSTOMER |-> CustomerGrants, ADMIN |-> AdminGrants, TAILOR |-> TailorGrants]

\* Without a role a call passes; every role of the database has permissions.
authorise(call) ==
  \/ call.caller \in NoUserRole
  \/ /\ call.caller \in DOMAIN PERMISSIONS
     /\ \E g \in PERMISSIONS[call.caller] :
          /\ call.method \in g.methods
          /\ ~(call.caller = "CUSTOMER" /\ IsPrefix(Append(Orders, "admin"), call.path))
          /\ IF g.exact THEN call.path = g.prefix ELSE IsPrefix(g.prefix, call.path)

(* routes/index.js *)
SERVICE_MAP == [p \in {Auth, Orders} \cup {Catalog(c) : c \in
                   {"products", "categories", "fabrics", "fabric-categories", "admin"}} |->
                IF p \in {Auth, Orders} THEN "core" ELSE "catalog"]
Serving(call) == {p \in DOMAIN SERVICE_MAP : IsPrefix(p, call.path)}
resolveService(call) ==
  SERVICE_MAP[CHOOSE p \in Serving(call) : \A o \in Serving(call) : Len(o) <= Len(p)]

Pass == 0

\* What the gateway answers by itself, if it does not pass the call on.
GatewayAnswer(call) ==
  CASE call.caller = "expired" -> 401
    [] call.caller = "none" /\ ~isPublicRoute(call) -> 401
    [] call.caller # "expired" /\ ~authorise(call) -> 403
    [] OTHER -> IF call.path = <<"health">> THEN 200
                ELSE IF Serving(call) = {} THEN 404 ELSE Pass

-----------------------------------------------------------------------------
(* The service: its first route that fits, authenticate, authorize, CSRF. *)
Fits(route, call) ==
  /\ route.method = call.method
  /\ Len(route.path) = Len(call.path)
  /\ \A i \in DOMAIN call.path : route.path[i] \in {"*", call.path[i]}

Found(s, call) == {i \in DOMAIN Routes(s) : Fits(Routes(s)[i], call)}
First(s, call) == Routes(s)[CHOOSE i \in Found(s, call) : \A j \in Found(s, call) : i <= j]

authenticate(route, call) == "none" \in route.roles \/ call.caller \notin NoUserRole
authorize(route, call) == call.caller \in route.roles
verifyCsrf(route, call) == route.csrf => call.csrf

Refusal(route, call) ==
  CASE ~authenticate(route, call) -> 401
    [] authenticate(route, call) /\ ~authorize(route, call) -> 403
    [] authorize(route, call) /\ ~verifyCsrf(route, call) -> 403
    [] OTHER -> Pass

ServiceAnswer(s, call) ==
  IF Found(s, call) = {} THEN 404 ELSE Refusal(First(s, call), call)

-----------------------------------------------------------------------------
Idle == [at |-> "idle"]

Init == /\ req = [q \in Request |-> Idle]
        /\ gateway = "up"
        /\ service = Service
        /\ backends = TRUE

InFlight(q) == req[q].at \notin {"idle", "answered"}
To(q) == resolveService(req[q].call)

Answered(q, by, status) ==
  req' = [req EXCEPT ![q].at = "answered", ![q].by = by, ![q].status = status]

\* The middleware of the gateway runs in one go.
Receive(q, call) ==
  /\ gateway = "up"
  /\ req[q] = Idle
  /\ LET answer == GatewayAnswer(call)
     IN req' = [req EXCEPT ![q] = [at |-> IF answer = Pass THEN "sent" ELSE "answered",
                                   call |-> call, by |-> "gateway", name |-> "nothing",
                                   status |-> answer, runs |-> 0]]
  /\ UNCHANGED <<gateway, service, backends>>

\* The limit per address comes before everything else.
Limited(q, call) ==
  /\ gateway = "up"
  /\ req[q] = Idle
  /\ req' = [req EXCEPT ![q] = [at |-> "answered", call |-> call, by |-> "gateway",
                                name |-> "nothing", status |-> 429, runs |-> 0]]
  /\ UNCHANGED <<gateway, service, backends>>

\* The service has limits of its own on the routes of AuthRouter.
ServiceLimits(q) ==
  /\ req[q].at = "sent"
  /\ To(q) \in service
  /\ ServiceAnswer(To(q), req[q].call) # 404
  /\ First(To(q), req[q].call).name \in {"csrfToken", "register", "login", "verifyAdminOtp",
                                         "forgotPassword", "resetPassword"}
  /\ Answered(q, "service", 429)
  /\ UNCHANGED <<gateway, service, backends>>

Serve(q) ==
  /\ req[q].at = "sent"
  /\ To(q) \in service
  /\ LET answer == ServiceAnswer(To(q), req[q].call)
     IN IF answer # Pass
        THEN Answered(q, "service", answer)
        ELSE req' = [req EXCEPT ![q].at = "handling",
                                ![q].name = First(To(q), req[q].call).name]
  /\ UNCHANGED <<gateway, service, backends>>

Handle(q) ==
  /\ req[q].at = "handling"
  /\ req' = [req EXCEPT ![q].at = "handled", ![q].runs = @ + 1]
  /\ UNCHANGED <<gateway, service, backends>>

Reply(q) ==
  /\ req[q].at = "handled"
  /\ Answered(q, "service", 200)
  /\ UNCHANGED <<gateway, service, backends>>

\* (mutants) The call is made again; only a refused connection is an error.
ProxyRepeats(q) ==
  /\ InFlight(q)
  /\ req' = [req EXCEPT ![q].at = "sent"]
  /\ UNCHANGED <<gateway, service, backends>>

ConnectFails(q) ==
  /\ req[q].at = "sent"
  /\ Answered(q, "gateway", 502)
  /\ UNCHANGED <<gateway, service, backends>>

\* The connection may be refused or reset at any point.  The gateway waits
\* for an answer without a time limit.
ProxyFails(q) ==
  /\ InFlight(q)
  /\ Answered(q, "gateway", 502)
  /\ UNCHANGED <<gateway, service, backends>>

\* The client has its answer.
Leave(q) ==
  /\ req[q].at = "answered"
  /\ req' = [req EXCEPT ![q] = Idle]
  /\ UNCHANGED <<gateway, service, backends>>

\* Either service exits at once, whatever it is doing.
ServiceStops(s) ==
  /\ s \in service
  /\ service' = service \ {s}
  /\ req' = [q \in Request |-> IF req[q].at \in {"handling", "handled"} /\ To(q) = s
                               THEN [req[q] EXCEPT !.at = "lost"] ELSE req[q]]
  /\ UNCHANGED <<gateway, backends>>

ServiceStarts(s) ==
  /\ s \notin service
  /\ service' = service \cup {s}
  /\ UNCHANGED <<req, gateway, backends>>

\* SIGTERM: no new connections; exit when the last is closed, or after 10 s.
gracefulShutdown ==
  /\ gateway = "up"
  /\ gateway' = "draining"
  /\ UNCHANGED <<req, service, backends>>

Exit ==
  /\ gateway = "draining"
  /\ gateway' = "down"
  /\ req' = [q \in Request |-> Idle]
  /\ UNCHANGED <<service, backends>>

Start ==
  /\ gateway = "down"
  /\ gateway' = "up"
  /\ UNCHANGED <<req, service, backends>>

\* What a handler waits for goes and comes back.
BackendsChange ==
  /\ backends' = ~backends
  /\ UNCHANGED <<req, gateway, service>>

Proceed(q) == ServiceLimits(q) \/ Serve(q) \/ Handle(q) \/ Reply(q) \/ ProxyFails(q)

Next == \/ \E q \in Request :
             \/ \E call \in Call : Receive(q, call) \/ Limited(q, call)
             \/ Proceed(q) \/ Leave(q)
        \/ \E s \in Service : ServiceStops(s) \/ ServiceStarts(s)
        \/ gracefulShutdown \/ Exit \/ Start \/ BackendsChange

Spec == Init /\ [][Next]_vars

\* Nobody listens, or the process that did has ended.
Unreachable(q) == \/ req[q].at = "sent" /\ To(q) \notin service
                  \/ req[q].at = "lost"

\* What is certain to go on: the services, a handler while what it waits for
\* is there, and the error of a call to a process that is not.
Advances(q) == \/ Unreachable(q) /\ ProxyFails(q)
               \/ backends /\ Handle(q)
               \/ Reply(q)
               \/ Serve(q)

FairSpec == Spec /\ \A q \in Request : WF_vars(Advances(q))

-----------------------------------------------------------------------------
(* routes/*.ts of both services: a call is handled by the route it names,   *)
(* never by one mounted earlier whose parameter happens to fit (an order    *)
(* asked for by the id "my-orders").                                        *)
NoRouteIsShadowed ==
  \A q \in Request : req[q] # Idle /\ req[q].name # "nothing" => req[q].name = req[q].call.name

WouldServe(call) == Serving(call) # {} /\ ServiceAnswer(resolveService(call), call) = Pass

\* What rbac.js keeps from tailors and the services would not.
KeptFromTailors == {"createOrder", "createPaymentIntent", "createMeasurement", "verifyPayment",
                    "updateMeasurement", "deleteOrder", "updateProfile", "getCategories",
                    "paystackWebhook"}

(* The four tables agree.  What rbac.js forbids a role, the service forbids *)
(* it too, but for the writes of customers and two routes that tailors      *)
(* miss.  A service misses an identity only for a token without a role,     *)
(* which rbac.js lets pass; by auth.js only logout and the fabric formula   *)
(* ask for a token that the service does without.                           *)
TablesAgree ==
  \A q \in Request : req[q] # Idle =>
    LET call == req[q].call
    IN  /\ req[q].by = "gateway" /\ req[q].status = 403 /\ WouldServe(call)
             => call.caller = "TAILOR" /\ call.name \in KeptFromTailors
        /\ req[q].by = "service" /\ req[q].status = 401 => call.caller = "noRole"
        /\ req[q].by = "gateway" /\ req[q].status = 401 =>
             /\ call.caller \in {"none", "expired"}
             /\ call.caller = "none" /\ WouldServe(call)
                  => call.name \in {"logout", "fabricFormula"}

(* proxyRequest.js neither repeats a call nor follows a redirect: a handler *)
(* runs once at most, however calls fail and services stop, and a success   *)
(* of the service says that it ran.                                         *)
HandledOnce ==
  \A q \in Request : req[q] # Idle =>
    /\ req[q].runs <= 1
    /\ req[q].by = "service" /\ req[q].status = 200 => req[q].runs = 1

(* Every call passed on is answered in the end, that of a stopped service   *)
(* with 502, unless the gateway itself exits, once the databases and the    *)
(* rest stay reachable: while they are not, a handler may wait (redis.ts 7  *)
(* of the catalogue) and proxyRequest.js waits with it.                     *)
EveryCallIsAnswered ==
  <>[]backends =>
    \A q \in Request : InFlight(q) ~> (req[q] = Idle \/ req[q].at = "answered")
=============================================================================
