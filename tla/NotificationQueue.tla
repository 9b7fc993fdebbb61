------------------------- MODULE NotificationQueue -------------------------
(***************************************************************************)
(* The jobs that announce a confirmed order, from the add() of             *)
(* orderService.ts to the two mails of queues/notificationWorker.ts, with  *)
(* the process that adds and works on them (ServiceLifecycle) and the      *)
(* Redis they lie in.  The worker runs inside the core API and nothing     *)
(* closes it: when the process ends, jobs being added are lost and jobs    *)
(* being worked on are orphans until BullMQ finds them stalled.            *)
(***************************************************************************)
EXTENDS ServiceLifecycle, FiniteSets

CONSTANTS Job,
          Concurrency,  \* jobs worked on at a time: 5 in the code
          MaxStalled    \* times BullMQ takes up a stalled job again: 1

ASSUME QueueAssumption == Concurrency \in Nat \ {0} /\ MaxStalled \in Nat

VARIABLES job,  \* the jobs of the queue
          mail  \* not in the code: what became of the mails of each job

jobVars == <<job, mail>>
vars == <<processVars, jobVars>>

Working == {"customer", "admin", "done"}

\* stalls: times the job was found without a worker.
QueueTypeOK ==
  /\ job \in [Job -> [at : {"none", "adding", "lost", "waiting", "orphan", "completed",
                            "failed"} \cup Working,
                      stalls : 0 .. MaxStalled]]
  /\ mail \in [Job -> [tried : SUBSET {"customer", "admin"}, sent : Nat]]

TypeOK == ProcessTypeOK /\ QueueTypeOK

Init == /\ ProcessInit
        /\ job = [j \in Job |-> [at |-> "none", stalls |-> 0]]
        /\ mail = [j \in Job |-> [tried |-> {}, sent |-> 0]]

Serving == proc["api"].at = "serving"
Goto(j, place) == job' = [job EXCEPT ![j].at = place]
QueueOnly == UNCHANGED processVars

-----------------------------------------------------------------------------
(* Adding a job: nobody awaits it, and ioredis keeps the command for a Redis
   that cannot be reached. *)
Confirm(j) == Serving /\ job[j].at = "none" /\ Goto(j, "adding") /\ UNCHANGED mail /\ QueueOnly

Added(j) == /\ job[j].at = "adding"
            /\ up["redis"]
            /\ Goto(j, "waiting")
            /\ UNCHANGED mail
            /\ QueueOnly

-----------------------------------------------------------------------------
(* The worker *)
\* Mutant: off by one.
TakeFewer(j) ==
  /\ Serving
  /\ up["redis"]
  /\ job[j].at = "waiting"
  /\ Cardinality({i \in Job : job[i].at \in Working}) + 1 < Concurrency
  /\ Goto(j, "customer")
  /\ mail' = [mail EXCEPT ![j].tried = {}]
  /\ QueueOnly

Take(j) ==
  /\ Serving
  /\ up["redis"]
  /\ job[j].at = "waiting"
  /\ Cardinality({i \in Job : job[i].at \in Working}) < Concurrency
  /\ Goto(j, "customer")
  /\ mail' = [mail EXCEPT ![j].tried = {}]
  /\ QueueOnly

\* sendEmail throws when the provider does not take the mail, and the handler
\* swallows that, so that the other mail goes out all the same.
SendCustomer(j) ==
  /\ job[j].at = "customer"
  /\ \E sent \in {0, 1} :
       mail' = [mail EXCEPT ![j] = [tried |-> @.tried \cup {"customer"},
                                    sent |-> @.sent + sent]]
  /\ Goto(j, "admin")
  /\ QueueOnly

SendAdmin(j) ==
  /\ job[j].at = "admin"
  /\ mail' = [mail EXCEPT ![j].tried = @ \cup {"admin"}]
  /\ Goto(j, "done")
  /\ QueueOnly

Complete(j) ==
  /\ job[j].at = "done"
  /\ up["redis"]
  /\ Goto(j, "completed")
  /\ UNCHANGED mail
  /\ QueueOnly

\* Mutant: the times are not counted.
StalledUncounted(j) ==
  /\ Serving
  /\ up["redis"]
  /\ job[j].at = "orphan"
  /\ Goto(j, "waiting")
  /\ UNCHANGED mail
  /\ QueueOnly

\* The lock of a job whose worker has gone runs out, and the next worker's check
\* puts it back, or fails it when that happened too often.
Stalled(j) ==
  /\ Serving
  /\ up["redis"]
  /\ job[j].at = "orphan"
  /\ job' = [job EXCEPT ![j] = IF @.stalls < MaxStalled
                               THEN [at |-> "waiting", stalls |-> @.stalls + 1]
                               ELSE [@ EXCEPT !.at = "failed"]]
  /\ UNCHANGED mail
  /\ QueueOnly

\* What the end of the core API leaves of a job.
Left(j) == CASE job[j].at = "adding" -> [job[j] EXCEPT !.at = "lost"]
             [] job[j].at \in Working -> [job[j] EXCEPT !.at = "orphan"]
             [] OTHER -> job[j]

Losses ==
  /\ job' = IF proc["api"].at # "down" /\ proc'["api"].at = "down"
            THEN [j \in Job |-> Left(j)] ELSE job
  /\ UNCHANGED mail

JobWork(j) == \/ Added(j) \/ Take(j) \/ SendCustomer(j) \/ SendAdmin(j)
              \/ Complete(j) \/ Stalled(j)

Next == \/ ProcessNext /\ Losses
        \/ \E j \in Job : Confirm(j) \/ JobWork(j)

Spec == Init /\ [][Next]_vars

\* Timers fire, the driver reconnects and processes are started again; the worker
\* polls Redis.  Nothing is assumed of servers and signals.
FairSpec == /\ Spec
            /\ \A s \in Service : WF_vars(Work(s) /\ Losses)
            /\ \A j \in Job : WF_vars(JobWork(j))

-----------------------------------------------------------------------------
(* Properties *)

\* The customer hears of an order at most once more than its job was found without a
\* worker: a process that ends between the mail and the completion sends it again.
\* A completed job has tried both mails in one run: a customer's mail that cannot be
\* sent does not keep the shop from hearing of the order.
MailedOncePerRun ==
  \A j \in Job : /\ mail[j].sent <= job[j].stalls + 1
                 /\ job[j].at = "completed" => mail[j].tried = {"customer", "admin"}

\* Once every server stays reachable, each job that was handed over ends: completed,
\* failed for having stalled too often, or lost with the process that was adding it.
JobsEnd ==
  <>[]Up => \A j \in Job : job[j].at # "none" ~> job[j].at \in {"completed", "failed", "lost"}
=============================================================================
