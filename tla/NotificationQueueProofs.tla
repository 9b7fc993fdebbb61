---------------------- MODULE NotificationQueueProofs ----------------------
(***************************************************************************)
(* The countdowns of the two processes follow their connections, and the   *)
(* mails of a job its runs, for any number of jobs, failures, signals and  *)
(* attempts to connect.                                                    *)
(***************************************************************************)
EXTENDS NotificationQueue, TLAPS

-----------------------------------------------------------------------------
(* What a process may hold at each place. *)
LinkOK(p) ==
  /\ p.at \in {"down", "connecting", "backoff"} => ~p.connection /\ ~p.link /\ ~p.countdown
  /\ p.at = "backoff" => p.attempt < MAX_RETRIES
  /\ p.closing = "mongo" => p.connection
  /\ p.link => p.connection /\ ~p.countdown
  /\ p.connection /\ ~p.link /\ p.closing # "mongo" => p.countdown

LinksOK == \A s \in Service : LinkOK(proc[s])

LEMMA DownOK == Down \in Process /\ LinkOK(Down)
BY RetriesAssumption DEF Down, Process, LinkOK

LEMMA Connecting ==
    ASSUME NEW d \in Process, LinkOK(d), d.at = "down"
    PROVE  [d EXCEPT !.at = "connecting"] \in Process /\ LinkOK([d EXCEPT !.at = "connecting"])
BY DEF Process, LinkOK

\* One process changes, the other does not.
LEMMA BecomeKeeps ==
    ASSUME ProcessTypeOK, LinksOK, NEW s \in Service, NEW p \in Process, LinkOK(p), Become(s, p)
    PROVE  ProcessTypeOK' /\ LinksOK'
<1>1. proc' \in [Service -> Process] BY DEF Become, ProcessTypeOK
<1>2. \A t \in Service : proc'[t] = IF t = s THEN p ELSE proc[t] BY DEF Become, ProcessTypeOK
<1> QED BY <1>1, <1>2 DEF Become, ProcessTypeOK, LinksOK

\* Each step of a process by itself leads it to a state that is in order.
LEMMA WorkStep ==
    ASSUME ProcessTypeOK, LinksOK, NEW s \in Service, Work(s)
    PROVE  ProcessTypeOK' /\ LinksOK'
<1> DEFINE q == proc[s]
<1>0. q \in Process /\ LinkOK(q) BY DEF ProcessTypeOK, LinksOK
<1>a. CASE Exit(s) BY <1>a, DownOK, BecomeKeeps DEF Exit
<1>1. CASE Start(s)
  <2> DEFINE p == [Down EXCEPT !.at = "connecting"]
  <2>1. Down.at = "down" BY DEF Down
  <2>2. p \in Process /\ LinkOK(p) BY <2>1, DownOK, Connecting
  <2> QED BY <1>1, <2>2, BecomeKeeps DEF Start
<1>2. CASE Connect(s)
  <2> DEFINE p == [q EXCEPT !.at = IF s = "api" THEN "checkSql" ELSE "serving",
                            !.connection = TRUE, !.link = TRUE]
  <2>1. p \in Process /\ LinkOK(p) BY <1>0, <1>2 DEF Connect, Process, LinkOK
  <2> QED BY <1>2, <2>1, BecomeKeeps DEF Connect
<1>3. CASE ConnectFails(s)
  <2> DEFINE p == [q EXCEPT !.at = "backoff"]
  <2>1. ASSUME q.attempt < MAX_RETRIES PROVE p \in Process /\ LinkOK(p)
    BY <1>0, <1>3, <2>1 DEF ConnectFails, Process, LinkOK
  <2> QED BY <1>3, <1>a, <2>1, BecomeKeeps DEF ConnectFails
<1>4. CASE Retry(s)
  <2> DEFINE p == [q EXCEPT !.at = "connecting", !.attempt = @ + 1]
  <2>1. q.attempt \in Nat /\ q.attempt + 1 \in 0 .. MAX_RETRIES
    BY <1>0, <1>4, RetriesAssumption DEF Retry, Process, LinkOK
  <2>2. p \in Process /\ LinkOK(p) BY <1>0, <1>4, <2>1 DEF Retry, Process, LinkOK
  <2> QED BY <1>4, <2>2, BecomeKeeps DEF Retry
<1>5. CASE CheckSql(s)
  <2> DEFINE p == [q EXCEPT !.at = "serving"]
  <2>1. p \in Process /\ LinkOK(p) BY <1>0, <1>5 DEF CheckSql, Process, LinkOK
  <2> QED BY <1>5, <1>a, <2>1, BecomeKeeps DEF CheckSql
<1>6. CASE LinkLost(s)
  <2> DEFINE p == [q EXCEPT !.link = FALSE, !.countdown = TRUE]
  <2>1. p \in Process /\ LinkOK(p) BY <1>0, <1>6 DEF LinkLost, Process, LinkOK
  <2> QED BY <1>6, <2>1, BecomeKeeps DEF LinkLost
<1>7. CASE LinkBack(s)
  <2> DEFINE p == [q EXCEPT !.link = TRUE, !.countdown = FALSE]
  <2>1. p \in Process /\ LinkOK(p) BY <1>0, <1>7 DEF LinkBack, Process, LinkOK
  <2> QED BY <1>7, <2>1, BecomeKeeps DEF LinkBack
<1>8. CASE DisconnectMongo(s)
  <2> DEFINE p == [q EXCEPT !.connection = FALSE, !.link = FALSE,
                            !.countdown = @ \/ q.link, !.closing = "redis"]
  <2>1. p \in Process /\ LinkOK(p) BY <1>0, <1>8 DEF DisconnectMongo, Process, LinkOK
  <2> QED BY <1>8, <2>1, BecomeKeeps DEF DisconnectMongo
<1>9. CASE CountdownEnds(s) \/ Quit(s) BY <1>9, <1>a DEF CountdownEnds, Quit
<1> QED BY <1>1, <1>2, <1>3, <1>4, <1>5, <1>6, <1>7, <1>8, <1>9 DEF Work

LEMMA SignalStep ==
    ASSUME ProcessTypeOK, LinksOK, NEW s \in Service, Signal(s)
    PROVE  ProcessTypeOK' /\ LinksOK'
<1> DEFINE q == proc[s]
           p == IF s = "api" THEN [q EXCEPT !.closing = "sql"]
                ELSE IF q.connection THEN [q EXCEPT !.closing = "mongo", !.countdown = FALSE]
                ELSE [q EXCEPT !.closing = "redis"]
<1>0. q \in Process /\ LinkOK(q) BY DEF ProcessTypeOK, LinksOK
<1>1. p \in Process /\ LinkOK(p) BY <1>0 DEF Signal, Process, LinkOK
<1>2. proc' \in [Service -> Process] BY <1>1 DEF Signal, ProcessTypeOK
<1>3. \A t \in Service : proc'[t] = IF t = s THEN p ELSE proc[t] BY DEF Signal, ProcessTypeOK
<1>4. faults' \in 0 .. MaxFault BY RetriesAssumption DEF Signal, ProcessTypeOK
<1> QED BY <1>1, <1>2, <1>3, <1>4 DEF Signal, ProcessTypeOK, LinksOK

LEMMA ProcessStep ==
    ASSUME ProcessTypeOK, LinksOK, [ProcessNext]_processVars
    PROVE  ProcessTypeOK' /\ LinksOK'
<1>1. ASSUME NEW s \in Service, Kill(s) PROVE ProcessTypeOK' /\ LinksOK'
  BY <1>1, DownOK, BecomeKeeps DEF Kill, Exit
<1>2. ASSUME NEW x \in Server, ServerFails(x) \/ ServerReturns(x) PROVE ProcessTypeOK' /\ LinksOK'
  <2>1. faults' \in 0 .. MaxFault
    BY <1>2, RetriesAssumption DEF ServerFails, ServerReturns, ProcessTypeOK
  <2>2. proc' = proc BY <1>2 DEF ServerFails, ServerReturns
  <2>3. up' \in [Server -> BOOLEAN] BY <1>2 DEF ServerFails, ServerReturns, ProcessTypeOK
  <2> QED BY <2>1, <2>2, <2>3 DEF ProcessTypeOK, LinksOK
<1>3. CASE UNCHANGED processVars BY <1>3 DEF processVars, ProcessTypeOK, LinksOK
<1> QED BY <1>1, <1>2, <1>3, WorkStep, SignalStep DEF ProcessNext

-----------------------------------------------------------------------------
(* What became of the mails of a job at each place. *)
MailOK(j) ==
  /\ job[j].at \in {"none", "adding", "waiting", "customer"} => mail[j].sent <= job[j].stalls
  /\ mail[j].sent <= job[j].stalls + 1
  /\ job[j].at = "admin" => "customer" \in mail[j].tried
  /\ job[j].at \in {"done", "completed"} => mail[j].tried = {"customer", "admin"}

MailsOK == \A j \in Job : MailOK(j)

JobRow == [at : {"none", "adding", "lost", "waiting", "orphan", "completed", "failed"}
                  \cup Working,
           stalls : 0 .. MaxStalled]
MailRow == [tried : SUBSET {"customer", "admin"}, sent : Nat]

\* One job changes, the others do not.
LEMMA JobKeeps ==
    ASSUME QueueTypeOK, MailsOK, NEW j \in Job, NEW row \in JobRow, NEW m \in MailRow,
           job' = [job EXCEPT ![j] = row], mail' = [mail EXCEPT ![j] = m],
           row.at \in {"none", "adding", "waiting", "customer"} => m.sent <= row.stalls,
           m.sent <= row.stalls + 1,
           row.at = "admin" => "customer" \in m.tried,
           row.at \in {"done", "completed"} => m.tried = {"customer", "admin"}
    PROVE  QueueTypeOK' /\ MailsOK'
<1>1. job' \in [Job -> JobRow] /\ mail' \in [Job -> MailRow]
  BY DEF QueueTypeOK, JobRow, MailRow
<1>2. \A i \in Job : /\ job'[i] = IF i = j THEN row ELSE job[i]
                     /\ mail'[i] = IF i = j THEN m ELSE mail[i]
  BY DEF QueueTypeOK
<1> QED BY <1>1, <1>2 DEF QueueTypeOK, MailsOK, MailOK, JobRow, MailRow

\* A job goes on with the mails it has.
LEMMA Goes ==
    ASSUME QueueTypeOK, MailsOK, NEW j \in Job, NEW place, Goto(j, place), UNCHANGED mail,
           \/ job[j].at = "none" /\ place = "adding"
           \/ job[j].at = "adding" /\ place = "waiting"
           \/ job[j].at = "done" /\ place = "completed"
    PROVE  QueueTypeOK' /\ MailsOK'
<1> DEFINE row == [job[j] EXCEPT !.at = place]
<1>1. job[j] \in JobRow /\ mail[j] \in MailRow /\ MailOK(j)
  BY DEF QueueTypeOK, MailsOK, JobRow, MailRow
<1>2. row \in JobRow /\ row.at = place /\ row.stalls = job[j].stalls
  BY <1>1 DEF JobRow, Working
<1>3. job' = [job EXCEPT ![j] = row] /\ mail' = [mail EXCEPT ![j] = mail[j]]
  BY DEF Goto, QueueTypeOK
<1> HIDE DEF row
<1> QED BY <1>1, <1>2, <1>3, JobKeeps DEF MailOK

LEMMA JobStep ==
    ASSUME QueueTypeOK, MailsOK, NEW j \in Job, Confirm(j) \/ JobWork(j)
    PROVE  QueueTypeOK' /\ MailsOK'
<1>0. job[j] \in JobRow /\ mail[j] \in MailRow /\ MailOK(j)
  BY DEF QueueTypeOK, MailsOK, JobRow, MailRow
<1>1. CASE Confirm(j) BY <1>1, Goes DEF Confirm
<1>2. CASE Added(j) BY <1>2, Goes DEF Added
<1>3. CASE Complete(j) BY <1>3, Goes DEF Complete
<1>4. CASE Take(j)
  <2> DEFINE row == [job[j] EXCEPT !.at = "customer"]
             m == [mail[j] EXCEPT !.tried = {}]
  <2>1. row \in JobRow /\ row.at = "customer" /\ row.stalls = job[j].stalls
    BY <1>0 DEF JobRow, Working
  <2>2. m \in MailRow /\ m.sent = mail[j].sent BY <1>0 DEF MailRow
  <2>3. m.sent <= row.stalls /\ row.stalls \in Nat /\ m.sent \in Nat
    BY <1>0, <1>4, <2>1, <2>2 DEF Take, MailOK, JobRow, MailRow
  <2>4. job' = [job EXCEPT ![j] = row] /\ mail' = [mail EXCEPT ![j] = m]
    BY <1>4 DEF Take, Goto
  <2>5. m.sent <= row.stalls + 1 BY <2>3
  <2> HIDE DEF row, m
  <2> QED BY <2>1, <2>2, <2>3, <2>4, <2>5, JobKeeps
<1>5. CASE SendCustomer(j)
  <2>1. PICK sent \in {0, 1} :
          mail' = [mail EXCEPT ![j] = [tried |-> @.tried \cup {"customer"},
                                       sent |-> @.sent + sent]]
    BY <1>5 DEF SendCustomer
  <2> DEFINE row == [job[j] EXCEPT !.at = "admin"]
             m == [tried |-> mail[j].tried \cup {"customer"}, sent |-> mail[j].sent + sent]
  <2>2. row \in JobRow /\ row.at = "admin" /\ row.stalls = job[j].stalls
    BY <1>0 DEF JobRow, Working
  <2>3. m \in MailRow /\ "customer" \in m.tried BY <1>0 DEF MailRow
  <2>4. m.sent <= row.stalls + 1
    BY <1>0, <1>5, <2>2 DEF SendCustomer, MailOK, JobRow, MailRow
  <2>5. job' = [job EXCEPT ![j] = row] /\ mail' = [mail EXCEPT ![j] = m]
    BY <1>5, <2>1 DEF SendCustomer, Goto
  <2> HIDE DEF row, m
  <2> QED BY <2>2, <2>3, <2>4, <2>5, JobKeeps
<1>6. CASE SendAdmin(j)
  <2> DEFINE row == [job[j] EXCEPT !.at = "done"]
             m == [mail[j] EXCEPT !.tried = @ \cup {"admin"}]
  <2>1. row \in JobRow /\ row.at = "done" /\ row.stalls = job[j].stalls
    BY <1>0 DEF JobRow, Working
  <2>2. m \in MailRow /\ m.sent = mail[j].sent /\ m.tried = {"customer", "admin"}
    BY <1>0, <1>6 DEF SendAdmin, MailRow, MailOK
  <2>3. m.sent <= row.stalls + 1 BY <1>0, <2>1, <2>2 DEF MailOK
  <2>4. job' = [job EXCEPT ![j] = row] /\ mail' = [mail EXCEPT ![j] = m]
    BY <1>6 DEF SendAdmin, Goto
  <2> HIDE DEF row, m
  <2> QED BY <2>1, <2>2, <2>3, <2>4, JobKeeps
<1>7. CASE Stalled(j)
  <2> DEFINE row == IF job[j].stalls < MaxStalled
                    THEN [at |-> "waiting", stalls |-> job[j].stalls + 1]
                    ELSE [job[j] EXCEPT !.at = "failed"]
  <2>1. row \in JobRow /\ row.at \in {"waiting", "failed"}
        /\ row.stalls = IF row.at = "waiting" THEN job[j].stalls + 1 ELSE job[j].stalls
    BY <1>0, QueueAssumption DEF JobRow, Working
  <2>2. mail[j].sent <= job[j].stalls + 1 /\ mail[j].sent \in Nat /\ job[j].stalls \in Nat
    BY <1>0 DEF MailOK, JobRow, MailRow
  <2>3. job' = [job EXCEPT ![j] = row] /\ mail' = [mail EXCEPT ![j] = mail[j]]
    BY <1>7 DEF Stalled, QueueTypeOK
  <2> HIDE DEF row
  <2>4. mail[j].sent <= row.stalls + 1 /\ (row.at = "waiting" => mail[j].sent <= row.stalls)
    BY <2>1, <2>2
  <2> QED BY <1>0, <2>1, <2>3, <2>4, JobKeeps
<1> QED BY <1>1, <1>2, <1>3, <1>4, <1>5, <1>6, <1>7 DEF JobWork

\* The end of the core API leaves every job in order.
LEMMA LossesStep ==
    ASSUME QueueTypeOK, MailsOK, Losses
    PROVE  QueueTypeOK' /\ MailsOK'
<1>1. CASE UNCHANGED job BY <1>1 DEF Losses, QueueTypeOK, MailsOK, MailOK
<1>2. CASE job' = [j \in Job |-> Left(j)]
  <2>1. ASSUME NEW j \in Job
        PROVE  /\ Left(j) \in JobRow
               /\ Left(j).stalls = job[j].stalls
               /\ Left(j).at = job[j].at \/ Left(j).at \in {"lost", "orphan"}
    <3>1. job[j] \in JobRow BY DEF QueueTypeOK, JobRow
    <3> QED BY <3>1 DEF Left, JobRow, Working
  <2>2. job' \in [Job -> JobRow] BY <1>2, <2>1
  <2>3. QueueTypeOK' BY <2>2 DEF Losses, QueueTypeOK, JobRow
  <2>4. ASSUME NEW j \in Job PROVE MailOK(j)'
    <3>1. job'[j] = Left(j) /\ mail'[j] = mail[j] BY <1>2 DEF Losses
    <3>2. MailOK(j) BY DEF MailsOK
    <3> QED BY <2>1, <3>1, <3>2 DEF MailOK
  <2> QED BY <2>3, <2>4 DEF MailsOK
<1> QED BY <1>1, <1>2 DEF Losses

-----------------------------------------------------------------------------
QueueInv == TypeOK /\ LinksOK /\ MailsOK

LEMMA QueueInit == Init => QueueInv
<1> SUFFICES ASSUME Init PROVE QueueInv OBVIOUS
<1>1. ProcessTypeOK /\ LinksOK
  BY DownOK, RetriesAssumption DEF Init, ProcessInit, ProcessTypeOK, LinksOK
<1>2. QueueTypeOK BY QueueAssumption DEF Init, QueueTypeOK
<1>3. MailsOK BY DEF Init, MailsOK, MailOK
<1> QED BY <1>1, <1>2, <1>3 DEF QueueInv, TypeOK

LEMMA QueueStep == QueueInv /\ [Next]_vars => QueueInv'
<1> SUFFICES ASSUME QueueInv, [Next]_vars PROVE QueueInv' OBVIOUS
<1>0. ProcessTypeOK /\ QueueTypeOK /\ LinksOK /\ MailsOK BY DEF QueueInv, TypeOK
<1>1. CASE ProcessNext /\ Losses
  BY <1>0, <1>1, ProcessStep, LossesStep DEF QueueInv, TypeOK
<1>2. ASSUME NEW j \in Job, Confirm(j) \/ JobWork(j) PROVE QueueInv'
  <2>1. UNCHANGED processVars
    BY <1>2 DEF Confirm, JobWork, Added, Take, SendCustomer, SendAdmin, Complete, Stalled, QueueOnly
  <2>2. ProcessTypeOK' /\ LinksOK' BY <1>0, <2>1, ProcessStep
  <2> QED BY <1>0, <1>2, <2>2, JobStep DEF QueueInv, TypeOK
<1>3. CASE UNCHANGED vars
  BY <1>0, <1>3 DEF vars, jobVars, processVars, QueueInv, TypeOK, ProcessTypeOK, QueueTypeOK,
                    LinksOK, MailsOK, MailOK
<1> QED BY <1>1, <1>2, <1>3 DEF Next

LEMMA QueueInvariance == Spec => []QueueInv
BY QueueInit, QueueStep, PTL DEF Spec

\* Processes, jobs and mails are well formed, for any number of jobs, retries,
\* failures and jobs at a time.
THEOREM TypeCorrect == Spec => []TypeOK
<1>1. QueueInv => TypeOK BY DEF QueueInv
<1> QED BY <1>1, QueueInvariance, PTL

\* A process that has lost MongoDB counts down and one that has it does not, whatever
\* fails, comes back or is told to stop meanwhile.
THEOREM CountdownsFollowLinks == Spec => []CountdownFollowsLink
<1>1. QueueInv => CountdownFollowsLink BY DEF QueueInv, LinksOK, LinkOK, CountdownFollowsLink
<1> QED BY <1>1, QueueInvariance, PTL

\* A customer is mailed at most once more than the job stalled, and a completed job
\* has tried both mails in its last run, wherever the core API ends.
THEOREM MailedOncePerRuns == Spec => []MailedOncePerRun
<1>1. QueueInv => MailedOncePerRun BY DEF QueueInv, MailsOK, MailOK, MailedOncePerRun
<1> QED BY <1>1, QueueInvariance, PTL
=============================================================================
