-------------------------- MODULE ServiceLifecycle --------------------------
(***************************************************************************)
(* The life of the two processes that serve requests: the core API         *)
(* (packages/api/src/app.ts, server.ts) and the catalogue service          *)
(* (packages/catalog-service/src/server.ts).  Both reach MongoDB through   *)
(* packages/catalog-db/src/connection.ts, which tries again with a growing *)
(* delay at the start and later gives a lost connection 30 seconds.        *)
(* Delays are not counted: what may take time may happen at any time.      *)
(***************************************************************************)
EXTENDS Integers

CONSTANTS MAX_RETRIES,  \* connections tried again after the first
          MaxFault      \* servers that fail and signals that arrive

ASSUME RetriesAssumption == MAX_RETRIES \in Nat /\ MaxFault \in Nat

VARIABLES proc,    \* the two processes
          up,      \* which servers can be reached
          faults   \* failures and signals so far

processVars == <<proc, up, faults>>

Service == {"api", "catalogue"}
Server == {"mongo", "sql", "redis"}

\* connection: the module variable of connection.ts is set, with its listeners.
\* link: the driver is connected.  closing: what gracefulShutdown waits for.
Process == [at : {"down", "connecting", "backoff", "checkSql", "serving"},
            attempt : 0 .. MAX_RETRIES, connection : BOOLEAN, link : BOOLEAN,
            countdown : BOOLEAN, closing : {"no", "mongo", "redis", "sql"}]

Down == [at |-> "down", attempt |-> 0, connection |-> FALSE, link |-> FALSE,
         countdown |-> FALSE, closing |-> "no"]

ProcessTypeOK == /\ proc \in [Service -> Process]
                 /\ up \in [Server -> BOOLEAN]
                 /\ faults \in 0 .. MaxFault

ProcessInit == /\ proc = [s \in Service |-> Down]
               /\ up = [x \in Server |-> TRUE]
               /\ faults = 0

Become(s, p) == proc' = [proc EXCEPT ![s] = p] /\ UNCHANGED <<up, faults>>
Exit(s) == Become(s, Down)

-----------------------------------------------------------------------------
(* Starting *)

\* The orchestrator starts a process that is not running, whatever its exit code.
Start(s) == proc[s].at = "down" /\ Become(s, [Down EXCEPT !.at = "connecting"])

\* The core API asks PostgreSQL next; the catalogue service listens at once.
Connect(s) ==
  /\ proc[s].at = "connecting"
  /\ up["mongo"]
  /\ Become(s, [proc[s] EXCEPT !.at = IF s = "api" THEN "checkSql" ELSE "serving",
                               !.connection = TRUE, !.link = TRUE])

\* Mutant: it tries again without end.
ConnectFailsAgain(s) ==
  /\ proc[s].at = "connecting"
  /\ ~up["mongo"]
  /\ Become(s, [proc[s] EXCEPT !.at = "backoff"])

ConnectFails(s) ==
  /\ proc[s].at = "connecting"
  /\ ~up["mongo"]
  /\ IF proc[s].attempt < MAX_RETRIES
     THEN Become(s, [proc[s] EXCEPT !.at = "backoff"])
     ELSE Exit(s)

\* Mutant: the delay is over, but the last attempt is not made.
RetryButLast(s) ==
  /\ proc[s].at = "backoff"
  /\ proc[s].attempt + 1 < MAX_RETRIES
  /\ Become(s, [proc[s] EXCEPT !.at = "connecting", !.attempt = @ + 1])

Retry(s) ==
  /\ proc[s].at = "backoff"
  /\ Become(s, [proc[s] EXCEPT !.at = "connecting", !.attempt = @ + 1])

CheckSql(s) ==
  /\ proc[s].at = "checkSql"
  /\ IF up["sql"] THEN Become(s, [proc[s] EXCEPT !.at = "serving"]) ELSE Exit(s)

-----------------------------------------------------------------------------
(* The listeners of a connection *)

\* "disconnected" starts a countdown unless one is running.
LinkLost(s) ==
  /\ proc[s].link
  /\ ~up["mongo"]
  /\ Become(s, [proc[s] EXCEPT !.link = FALSE, !.countdown = TRUE])

\* "connected" and "reconnected" stop it.  The driver finds the server again by itself.
\* Mutant: the countdown goes on.
LinkBackUnseen(s) ==
  /\ proc[s].connection
  /\ ~proc[s].link
  /\ up["mongo"]
  /\ Become(s, [proc[s] EXCEPT !.link = TRUE])

LinkBack(s) ==
  /\ proc[s].connection
  /\ ~proc[s].link
  /\ up["mongo"]
  /\ Become(s, [proc[s] EXCEPT !.link = TRUE, !.countdown = FALSE])

CountdownEnds(s) == proc[s].countdown /\ Exit(s)

-----------------------------------------------------------------------------
(* Stopping *)

\* A signal starts gracefulShutdown beside whatever the process is doing.  The
\* catalogue service begins with disconnectMongoDB, which stops the countdown if
\* there is a connection; the core API with its relational client.
Signal(s) ==
  /\ proc[s].at # "down"
  /\ proc[s].closing = "no"
  /\ faults < MaxFault
  /\ faults' = faults + 1
  /\ proc' = [proc EXCEPT ![s] =
       IF s = "api" THEN [@ EXCEPT !.closing = "sql"]
       ELSE IF @.connection THEN [@ EXCEPT !.closing = "mongo", !.countdown = FALSE]
       ELSE [@ EXCEPT !.closing = "redis"]]
  /\ UNCHANGED up

\* mongoose.disconnect() raises "disconnected" as well, and with it the countdown,
\* but not when the link is lost already: the event tells of a change.
\* Mutant: the listeners are taken off first.
DisconnectQuietly(s) ==
  /\ proc[s].closing = "mongo"
  /\ Become(s, [proc[s] EXCEPT !.connection = FALSE, !.link = FALSE, !.closing = "redis"])

DisconnectMongo(s) ==
  /\ proc[s].closing = "mongo"
  /\ Become(s, [proc[s] EXCEPT !.connection = FALSE, !.link = FALSE,
                               !.countdown = @ \/ proc[s].link, !.closing = "redis"])

\* quit() waits for Redis as long as it takes; the relational client does not wait.
Quit(s) ==
  /\ \/ proc[s].closing = "redis" /\ up["redis"]
     \/ proc[s].closing = "sql"
  /\ Exit(s)

\* The orchestrator may not wait for a process it has told to stop.
Kill(s) == proc[s].closing # "no" /\ Exit(s)

-----------------------------------------------------------------------------
ServerFails(x) == /\ up[x]
                  /\ faults < MaxFault
                  /\ faults' = faults + 1
                  /\ up' = [up EXCEPT ![x] = FALSE]
                  /\ UNCHANGED proc

ServerReturns(x) == ~up[x] /\ up' = [up EXCEPT ![x] = TRUE] /\ UNCHANGED <<proc, faults>>

\* What a process does by itself, and its restart.
Work(s) == \/ Start(s) \/ Connect(s) \/ ConnectFails(s) \/ Retry(s) \/ CheckSql(s)
           \/ LinkLost(s) \/ LinkBack(s) \/ CountdownEnds(s)
           \/ DisconnectMongo(s) \/ Quit(s)

ProcessNext == \/ \E s \in Service : Work(s) \/ Signal(s) \/ Kill(s)
               \/ \E x \in Server : ServerFails(x) \/ ServerReturns(x)

-----------------------------------------------------------------------------
(* Properties *)

\* A process that has lost MongoDB and was not told to stop is counting down, so it
\* either finds the server again or is started anew and does not serve errors for
\* ever; one that has MongoDB is not ended by a countdown of an earlier loss.
CountdownFollowsLink ==
  \A s \in Service :
    /\ (proc[s].connection /\ ~proc[s].link /\ proc[s].closing # "mongo") => proc[s].countdown
    /\ proc[s].link => ~proc[s].countdown

Up == \A x \in Server : up[x]

\* Once every server stays reachable, both processes come to serve and stay, after
\* any number of lost connections, failed starts and shutdowns before.
ServiceComesBack ==
  <>[]Up => <>[](\A s \in Service : /\ proc[s].at = "serving"
                                    /\ proc[s].link
                                    /\ proc[s].closing = "no")

\* A process told to stop while it has MongoDB ends by itself, even if Redis never
\* answers its quit(): closing the connection has started the countdown again.  One
\* that had lost MongoDB before may wait for Redis without end.
ShutdownEnds ==
  \A s \in Service : (proc[s].closing = "sql" \/ (proc[s].closing = "mongo" /\ proc[s].link))
                        ~> proc[s].closing = "no"
=============================================================================
