---------------------------- MODULE ContentQueue ----------------------------
(***************************************************************************)
(* The content generation queue: the route POST /content/generate, the     *)
(* Celery broker and workers it publishes to, the in-process               *)
(* BackgroundTask it falls back to, and the content table they all write.  *)
(*                                                                         *)
(* A step is one call that others can interleave with: one SQL statement,  *)
(* one broker operation, or the awaited generation.  What can go wrong     *)
(* outside the program is a fault, and a behaviour has a finite budget of  *)
(* each kind (FaultBudget).                                                *)
(***************************************************************************)
EXTENDS Naturals

CONSTANTS
  Jobs,              \* generation requests, each with its own content_id
  Workers,           \* Celery worker processes
  NoTask,            \* what a worker that runs nothing holds
  MaxRetries,        \* max_retries of generate_content_task
  BrokerConfigured,  \* whether CELERY_BROKER_URL is set
  FaultBudget        \* [FaultKinds -> Nat]: bounds the faults of a behaviour

FaultKinds ==
  { "db",         \* a statement fails (connection, lock); the service logs it
    "publish",    \* delay() raises and the broker did not store the message
    "ambiguous",  \* delay() raises although the broker stored the message
    "redeliver",  \* the broker delivers an unacknowledged message again
    "crash",      \* a worker dies; its unacknowledged message is re-queued
    "kill",       \* a pool child is killed; the parent acknowledges for it
    "metrics",    \* record_content_generated raises an OSError
    "api" }       \* the API process dies

ASSUME MaxRetriesAssumption == MaxRetries \in Nat
ASSUME BrokerAssumption == BrokerConfigured \in BOOLEAN
ASSUME BudgetAssumption == FaultBudget \in [FaultKinds -> Nat]

Messages == [job : Jobs, retries : 0..MaxRetries]
ASSUME NoTaskAssumption == NoTask \notin Messages

VARIABLES
  rows,       \* [Jobs -> [status, payload]]: the content table
  handler,    \* [Jobs -> where the API process is with the request]
  ready,      \* [Messages -> Nat]: copies the broker has to deliver
  task,       \* [Workers -> the message the worker runs]
  unacked,    \* the workers whose message the broker keeps until they answer
  pc,         \* [Workers -> the next step of the worker's task]
  generated,  \* [Jobs -> Nat]: texts generated for the job (history)
  repeats,    \* [Jobs -> Nat]: faults that repeat work of the job (history)
  budget      \* [FaultKinds -> Nat]: the faults that may still happen

broker == <<ready, task, unacked, pc>>
vars == <<rows, handler, broker, generated, repeats, budget>>

-----------------------------------------------------------------------------
Settled == {"completed", "failed"}
Statuses == {"absent", "pending", "processing"} \cup Settled
Payloads == {"none", "request", "result", "error"}
Rows == [status : Statuses, payload : Payloads]

\* The in-process task (_process_content) after the response was sent.
Background ==
  {"bg_start", "bg_generate", "bg_complete", "bg_metrics", "bg_fail", "bg_done"}
\* The ?sync=true request (_generate_blocking).
Blocking ==
  {"sync_generate", "sync_metrics", "sync_persist", "sync_complete", "sync_returned"}
HandlerPcs ==
  {"new", "persisted", "queued", "rejected", "lost"} \cup Background \cup Blocking

WorkerPcs ==
  {"idle", "start", "generate", "complete", "metrics", "retry", "fail",
   "ack_retry", "ack_success", "ack_failure"}

TypeOK ==
  /\ rows \in [Jobs -> Rows]
  /\ handler \in [Jobs -> HandlerPcs]
  /\ ready \in [Messages -> Nat]
  /\ task \in [Workers -> Messages \cup {NoTask}]
  /\ pc \in [Workers -> WorkerPcs]
  /\ \A w \in Workers : pc[w] = "idle" <=> task[w] = NoTask
  /\ unacked \in SUBSET {w \in Workers : pc[w] # "idle"}
  /\ generated \in [Jobs -> Nat]
  /\ repeats \in [Jobs -> Nat]
  /\ budget \in [FaultKinds -> Nat]

Init ==
  /\ rows = [j \in Jobs |-> [status |-> "absent", payload |-> "none"]]
  /\ handler = [j \in Jobs |-> "new"]
  /\ ready = [m \in Messages |-> 0]
  /\ task = [w \in Workers |-> NoTask]
  /\ unacked = {}
  /\ pc = [w \in Workers |-> "idle"]
  /\ generated = [j \in Jobs |-> 0]
  /\ repeats = [j \in Jobs |-> 0]
  /\ budget = FaultBudget

-----------------------------------------------------------------------------
(* Faults and the content table.                                           *)

Spend(kind) ==
  /\ budget[kind] > 0
  /\ budget' = [budget EXCEPT ![kind] = @ - 1]

Unspent(kind) == budget[kind] = FaultBudget[kind]

\* A fault after which some of the job's work may be done a second time.
SpendOnRepeat(kind, j) ==
  /\ Spend(kind)
  /\ repeats' = [repeats EXCEPT ![j] = @ + 1]

NoFault == UNCHANGED <<budget, repeats>>

\* INSERT of the pending row; a failing insert is logged and forgotten.
PersistPending(j) ==
  \/ /\ rows' = [rows EXCEPT ![j] = [status |-> "pending", payload |-> "request"]]
     /\ UNCHANGED budget
  \/ Spend("db") /\ UNCHANGED rows

\* UPDATE ... WHERE content_id = j: one statement, and nothing when the row
\* is missing.  A payload of "none" keeps the stored one (COALESCE).
UpdatedRow(row, status, payload) ==
  IF row.status = "absent" THEN row
  ELSE [status |-> status,
        payload |-> IF payload = "none" THEN row.payload ELSE payload]

\* A failing update is logged and forgotten, so the caller cannot retry it.
UpdateStatus(j, status, payload) ==
  \/ /\ rows' = [rows EXCEPT ![j] = UpdatedRow(@, status, payload)]
     /\ UNCHANGED budget
  \/ Spend("db") /\ UNCHANGED rows

CountText(j) == generated' = [generated EXCEPT ![j] = @ + 1]

-----------------------------------------------------------------------------
(* The API process.                                                        *)

GoTo(j, from, to) ==
  /\ handler[j] = from
  /\ handler' = [handler EXCEPT ![j] = to]

Deliver(m) == ready' = [ready EXCEPT ![m] = @ + 1]

FirstMessage(j) == [job |-> j, retries |-> 0]

\* generate(), first part: insert the row before anything is published.
Post(j) ==
  /\ GoTo(j, "new", "persisted")
  /\ PersistPending(j)
  /\ UNCHANGED <<broker, generated, repeats>>

\* Mutation: the background task is added although the queue took the job.
EnqueueAndFallBack(j) ==
  /\ BrokerConfigured
  /\ GoTo(j, "persisted", "bg_start")
  /\ Deliver(FirstMessage(j))
  /\ NoFault
  /\ UNCHANGED <<rows, task, unacked, pc, generated>>

\* _enqueue_celery() returned True: the caller is answered queue="celery".
Enqueue(j) ==
  /\ BrokerConfigured
  /\ GoTo(j, "persisted", "queued")
  /\ Deliver(FirstMessage(j))
  /\ NoFault
  /\ UNCHANGED <<rows, task, unacked, pc, generated>>

\* _enqueue_celery() returned False: no broker, or delay() raised.
FallBack(j) ==
  /\ GoTo(j, "persisted", "bg_start")
  /\ \/ ~BrokerConfigured /\ NoFault
     \/ BrokerConfigured /\ Spend("publish") /\ UNCHANGED repeats
  /\ UNCHANGED <<rows, broker, generated>>

\* delay() raised, but the broker has the message: the job runs twice.
FallBackAfterPublish(j) ==
  /\ BrokerConfigured
  /\ GoTo(j, "persisted", "bg_start")
  /\ Deliver(FirstMessage(j))
  /\ SpendOnRepeat("ambiguous", j)
  /\ UNCHANGED <<rows, task, unacked, pc, generated>>

BgStart(j) ==
  /\ GoTo(j, "bg_start", "bg_generate")
  /\ UpdateStatus(j, "processing", "none")
  /\ UNCHANGED <<broker, generated, repeats>>

\* The text, then its check.  Either may raise, the check after the text
\* exists: QualityGate strips the title of the LLM's JSON, which need not be a
\* string (quality_gate.py:80).  Nobody else sees the text in between.
BgGenerate(j) ==
  /\ \/ GoTo(j, "bg_generate", "bg_complete") /\ CountText(j)
     \/ GoTo(j, "bg_generate", "bg_fail") /\ UNCHANGED generated
     \/ GoTo(j, "bg_generate", "bg_fail") /\ CountText(j)
  /\ NoFault
  /\ UNCHANGED <<rows, broker>>

BgComplete(j) ==
  /\ GoTo(j, "bg_complete", "bg_metrics")
  /\ UpdateStatus(j, "completed", "result")
  /\ UNCHANGED <<broker, generated, repeats>>

\* The metrics call is inside the try: an error there fails a completed row.
BgMetrics(j) ==
  /\ \/ GoTo(j, "bg_metrics", "bg_done") /\ NoFault
     \/ GoTo(j, "bg_metrics", "bg_fail") /\ SpendOnRepeat("metrics", j)
  /\ UNCHANGED <<rows, broker, generated>>

BgFail(j) ==
  /\ GoTo(j, "bg_fail", "bg_done")
  /\ UpdateStatus(j, "failed", "error")
  /\ UNCHANGED <<broker, generated, repeats>>

BackgroundStep(j) ==
  BgStart(j) \/ BgGenerate(j) \/ BgComplete(j) \/ BgMetrics(j) \/ BgFail(j)

\* ?sync=true: the text is generated before there is a row for it.
PostSync(j) ==
  /\ GoTo(j, "new", "sync_generate")
  /\ NoFault
  /\ UNCHANGED <<rows, broker, generated>>

\* A text whose check raises is lost with the request.
SyncGenerate(j) ==
  /\ \/ GoTo(j, "sync_generate", "sync_metrics") /\ CountText(j)
     \/ GoTo(j, "sync_generate", "rejected") /\ UNCHANGED generated
     \/ GoTo(j, "sync_generate", "rejected") /\ CountText(j)
  /\ NoFault
  /\ UNCHANGED <<rows, broker>>

\* Nothing catches an error here: the request fails and no row is written.
SyncMetrics(j) ==
  /\ \/ GoTo(j, "sync_metrics", "sync_persist") /\ NoFault
     \/ /\ GoTo(j, "sync_metrics", "rejected")
        /\ Spend("metrics") /\ UNCHANGED repeats
  /\ UNCHANGED <<rows, broker, generated>>

SyncPersist(j) ==
  /\ GoTo(j, "sync_persist", "sync_complete")
  /\ PersistPending(j)
  /\ UNCHANGED <<broker, generated, repeats>>

SyncComplete(j) ==
  /\ GoTo(j, "sync_complete", "sync_returned")
  /\ UpdateStatus(j, "completed", "result")
  /\ UNCHANGED <<broker, generated, repeats>>

BlockingStep(j) ==
  SyncGenerate(j) \/ SyncMetrics(j) \/ SyncPersist(j) \/ SyncComplete(j)

\* Everything the API process had in memory is gone.
InMemory ==
  {"persisted"} \cup (Background \ {"bg_done"}) \cup (Blocking \ {"sync_returned"})

ApiCrash ==
  /\ \E j \in Jobs : handler[j] \in InMemory
  /\ handler' = [j \in Jobs |-> IF handler[j] \in InMemory THEN "lost" ELSE handler[j]]
  /\ Spend("api")
  /\ UNCHANGED <<rows, broker, generated, repeats>>

-----------------------------------------------------------------------------
(* A Celery worker running generate_content_task (acknowledged late).      *)

Step(w, from, to) ==
  /\ pc[w] = from
  /\ pc' = [pc EXCEPT ![w] = to]

\* Mutation: the worker goes idle without an acknowledgement.
ReleaseUnacked(w) ==
  /\ pc' = [pc EXCEPT ![w] = "idle"]
  /\ task' = [task EXCEPT ![w] = NoTask]
  /\ UNCHANGED unacked

\* The worker is done with its message, and the broker forgets it.
Release(w) ==
  /\ pc' = [pc EXCEPT ![w] = "idle"]
  /\ task' = [task EXCEPT ![w] = NoTask]
  /\ unacked' = unacked \ {w}

\* Celery's decision about an exception of a retryable type.
AfterTransient(w) == IF task[w].retries < MaxRetries THEN "retry" ELSE "fail"

\* Mutation: acknowledged early, on delivery.
ReceiveAcknowledged(w, m) ==
  /\ ready[m] > 0
  /\ Step(w, "idle", "start")
  /\ task' = [task EXCEPT ![w] = m]
  /\ ready' = [ready EXCEPT ![m] = @ - 1]
  /\ NoFault
  /\ UNCHANGED <<rows, handler, unacked, generated>>

Receive(w, m) ==
  /\ ready[m] > 0
  /\ Step(w, "idle", "start")
  /\ task' = [task EXCEPT ![w] = m]
  /\ ready' = [ready EXCEPT ![m] = @ - 1]
  /\ unacked' = unacked \cup {w}
  /\ NoFault
  /\ UNCHANGED <<rows, handler, generated>>

Start(w) ==
  /\ Step(w, "start", "generate")
  /\ UpdateStatus(task[w].job, "processing", "none")
  /\ UNCHANGED <<handler, ready, task, unacked, generated, repeats>>

\* Mutation: an error of the check is retried, and the text is made again.
GenerateThenRetry(w) ==
  /\ \/ Step(w, "generate", "complete")
     \/ Step(w, "generate", AfterTransient(w))
  /\ CountText(task[w].job)
  /\ NoFault
  /\ UNCHANGED <<rows, handler, ready, task, unacked>>

\* The text, then its check: a checked text; a retryable or a permanent error
\* without a text; or a text whose check raises (a TypeError or an
\* AttributeError, which is not retried).
Generate(w) ==
  /\ \/ Step(w, "generate", "complete") /\ CountText(task[w].job)
     \/ Step(w, "generate", AfterTransient(w)) /\ UNCHANGED generated
     \/ Step(w, "generate", "fail") /\ UNCHANGED generated
     \/ Step(w, "generate", "fail") /\ CountText(task[w].job)
  /\ NoFault
  /\ UNCHANGED <<rows, handler, ready, task, unacked>>

Complete(w) ==
  /\ Step(w, "complete", "metrics")
  /\ UpdateStatus(task[w].job, "completed", "result")
  /\ UNCHANGED <<handler, ready, task, unacked, generated, repeats>>

\* record_content_generated() runs after the row says completed, and an
\* OSError it raises is one of the retryable errors.
RecordMetrics(w) ==
  /\ \/ Step(w, "metrics", "ack_success") /\ NoFault
     \/ /\ Step(w, "metrics", AfterTransient(w))
        /\ SpendOnRepeat("metrics", task[w].job)
  /\ UNCHANGED <<rows, handler, ready, task, unacked, generated>>

\* Mutation: the retry does not count.
PublishSame(w) ==
  /\ Step(w, "retry", "ack_retry")
  /\ Deliver(task[w])
  /\ NoFault
  /\ UNCHANGED <<rows, handler, task, unacked, generated>>

\* A retry is a new message; the old one is acknowledged afterwards.
PublishRetry(w) ==
  /\ Step(w, "retry", "ack_retry")
  /\ Deliver([task[w] EXCEPT !.retries = @ + 1])
  /\ NoFault
  /\ UNCHANGED <<rows, handler, task, unacked, generated>>

\* DatabaseAlertTask.on_failure()
OnFailure(w) ==
  /\ Step(w, "fail", "ack_failure")
  /\ UpdateStatus(task[w].job, "failed", "error")
  /\ UNCHANGED <<handler, ready, task, unacked, generated, repeats>>

Acknowledge(w) ==
  /\ pc[w] \in {"ack_retry", "ack_success", "ack_failure"}
  /\ Release(w)
  /\ NoFault
  /\ UNCHANGED <<rows, handler, ready, generated>>

WorkerStep(w) ==
  \/ \E m \in Messages : Receive(w, m)
  \/ Start(w) \/ Generate(w) \/ Complete(w) \/ RecordMetrics(w)
  \/ PublishRetry(w) \/ OnFailure(w) \/ Acknowledge(w)

\* task_acks_late: the message of a dead worker goes back to the queue,
\* unless the broker has already delivered it to another one.
WorkerCrash(w) ==
  /\ pc[w] # "idle"
  /\ IF w \in unacked THEN Deliver(task[w]) ELSE UNCHANGED ready
  /\ Release(w)
  /\ SpendOnRepeat("crash", task[w].job)
  /\ UNCHANGED <<rows, handler, generated>>

\* The visibility timeout ran out while the worker is still at it.
Redeliver(w) ==
  /\ w \in unacked
  /\ Deliver(task[w])
  /\ unacked' = unacked \ {w}
  /\ SpendOnRepeat("redeliver", task[w].job)
  /\ UNCHANGED <<rows, handler, task, pc, generated>>

\* task_reject_on_worker_lost is not set: the parent acknowledges the
\* message of a killed child, and on_failure is not run for it.
ChildKilled(w) ==
  /\ pc[w] # "idle"
  /\ Release(w)
  /\ Spend("kill")
  /\ UNCHANGED <<rows, handler, ready, generated, repeats>>

-----------------------------------------------------------------------------
RequestStep(j) ==
  \/ Post(j) \/ PostSync(j)
  \/ Enqueue(j) \/ FallBack(j) \/ FallBackAfterPublish(j)

\* Every request was answered or lost, and nobody has anything left to do.
Done ==
  /\ \A j \in Jobs :
       handler[j] \in {"queued", "rejected", "lost", "bg_done", "sync_returned"}
  /\ \A m \in Messages : ready[m] = 0
  /\ \A w \in Workers : pc[w] = "idle"
  /\ UNCHANGED vars

Next ==
  \/ \E j \in Jobs : RequestStep(j) \/ BackgroundStep(j) \/ BlockingStep(j)
  \/ \E w \in Workers :
       WorkerStep(w) \/ WorkerCrash(w) \/ Redeliver(w) \/ ChildKilled(w)
  \/ ApiCrash
  \/ Done

Spec == Init /\ [][Next]_vars

\* Fairness: a request being answered, a background task and a worker with
\* something to do go on; clients need not call and faults need not happen.
Fairness ==
  /\ \A j \in Jobs :
       /\ WF_vars(Enqueue(j) \/ FallBack(j) \/ FallBackAfterPublish(j))
       /\ WF_vars(BackgroundStep(j))
       /\ WF_vars(BlockingStep(j))
  /\ \A w \in Workers : WF_vars(WorkerStep(w))

FairSpec == Spec /\ Fairness

-----------------------------------------------------------------------------
(* Safety.                                                                 *)

\* A row never shows one outcome with the payload of another: the status
\* endpoint decodes both from one row (content.py:216-221), and status and
\* payload are written by the same UPDATE (content_repo.py:83-87).
PayloadMatchesStatus ==
  \A j \in Jobs :
    /\ rows[j].status = "absent" <=> rows[j].payload = "none"
    /\ rows[j].status = "pending" => rows[j].payload = "request"
    /\ rows[j].status = "completed" =>
         rows[j].payload = "result" /\ generated[j] > 0
    /\ rows[j].status = "failed" => rows[j].payload = "error"

\* What makes it inductive: whoever is about to show a text has one.
TextExists ==
  /\ \A w \in Workers : pc[w] = "complete" => generated[task[w].job] > 0
  /\ \A j \in Jobs :
       handler[j] \in {"bg_complete", "sync_metrics", "sync_persist", "sync_complete"}
         => generated[j] > 0

PayloadInv == TypeOK /\ TextExists /\ PayloadMatchesStatus

\* The request was answered with "pending" and some task took it over.
Accepted(j) == handler[j] \in {"queued"} \cup Background

\* Somebody still has a last write of j's row before them.
QueuedOwes(j) == \E m \in Messages : m.job = j /\ ready[m] > 0
WorkerOwes(w, j) ==
  /\ pc[w] \in {"start", "generate", "complete", "retry", "fail"}
  /\ task[w].job = j
BackgroundOwes(j) == handler[j] \in {"bg_start", "bg_generate", "bg_complete", "bg_fail"}
Owed(j) ==
  \/ QueuedOwes(j)
  \/ \E w \in Workers : WorkerOwes(w, j)
  \/ BackgroundOwes(j)

Attended(j) == Accepted(j) => Owed(j) \/ rows[j].status \in Settled

\* No write was dropped, no child killed, and no worker died after its
\* message had been delivered to a second one.
Reliable ==
  /\ Unspent("db")
  /\ Unspent("kill")
  /\ Unspent("crash") \/ Unspent("redeliver")

\* An accepted job is settled unless somebody still owes its row a write:
\* no crash, retry, lost acknowledgement of a publish or redelivery leaves
\* a row at "pending" or "processing" with nobody left to finish it.
SettledUnlessOwed ==
  Reliable => \A j \in Jobs : Attended(j)

\* What makes SettledUnlessOwed inductive: an accepted job has its row unless
\* an insert was dropped, the broker keeps the message of every busy worker
\* until it delivers one twice, and a retry is published only while the task
\* has one left.
BudgetFalls == \A k \in FaultKinds : budget[k] <= FaultBudget[k]
RowInserted ==
  Unspent("db") => \A j \in Jobs :
    handler[j] = "persisted" \/ Accepted(j) => rows[j].status # "absent"
BrokerKeeps ==
  Unspent("redeliver") => \A w \in Workers : pc[w] # "idle" => w \in unacked
RetriesLeft ==
  \A w \in Workers : pc[w] = "retry" => task[w].retries < MaxRetries

QueueInv ==
  /\ TypeOK /\ BudgetFalls /\ RetriesLeft /\ RowInserted /\ BrokerKeeps
  /\ SettledUnlessOwed

\* A text is generated (and paid for) a second time only after a fault that
\* re-runs the job: retries after transient errors alone never repeat it.
RepeatsNeedFaults ==
  \A j \in Jobs : generated[j] <= 1 + repeats[j]

\* A settled row stays what it is unless a fault made the job run again; a
\* plain retry, a slow worker or the end of the API process never touch it.
SettledRowIsStable ==
  [][\A j \in Jobs :
       rows[j].status \in Settled /\ repeats'[j] = 0 => rows'[j] = rows[j]]_vars

\* A request that nobody waits for (answered or lost) never gets a row from
\* a worker: an UPDATE inserts nothing, so the caller keeps seeing 404.
NoRowFromUpdate ==
  [][\A j \in Jobs :
       rows[j].status = "absent" /\ rows'[j].status # "absent"
         => handler[j] \in {"new", "sync_persist"}]_vars

\* A task that succeeded recorded its result in the row the API inserted: a
\* transient error of that write must have been retried, for
\* orchestration/tasks.py:6-8 lists DB connection delays among the errors
\* that are.  _update_status swallows the error, so it is not.
SuccessMeansRecorded ==
  \A w \in Workers :
    pc[w] = "ack_success" => rows[task[w].job].status \in {"absent", "completed"}

(* Liveness.                                                               *)

\* Every accepted job's row is settled for good in the end, across worker
\* crashes, retries and redeliveries, as long as no write is dropped.
EventuallySettled ==
  \A j \in Jobs :
    Accepted(j) ~>
      [](rows[j].status \in Settled \/ ~Reliable \/ ~Unspent("api"))

(* The promise to the caller, kept while no fault re-runs a job.           *)
Promise == INSTANCE ContentJob WITH status <- [j \in Jobs |-> rows[j].status]
KeepsPromise == Promise!Spec

=============================================================================
