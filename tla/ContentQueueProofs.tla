------------------------- MODULE ContentQueueProofs -------------------------
(***************************************************************************)
(* Theorems about ContentQueue, for any number of jobs, workers, retries   *)
(* and faults.                                                             *)
(***************************************************************************)
EXTENDS ContentQueue, FiniteSetTheorems, TLAPS

\* An UPDATE yields a row again.
LEMMA UpdatedRowType ==
  ASSUME NEW row \in Rows, NEW s \in Statuses \ {"absent"}, NEW p \in Payloads
  PROVE  UpdatedRow(row, s, p) \in Rows
BY DEF UpdatedRow, Rows

\* The writes to the table keep it well-typed, whether or not they fail.
LEMMA TableWriteType ==
  ASSUME TypeOK, NEW j \in Jobs, NEW s \in Statuses \ {"absent"},
         NEW p \in Payloads, PersistPending(j) \/ UpdateStatus(j, s, p)
  PROVE  rows' \in [Jobs -> Rows] /\ budget' \in [FaultKinds -> Nat]
<1>1. UpdatedRow(rows[j], s, p) \in Rows
  BY UpdatedRowType DEF TypeOK
<1>2. "db" \in FaultKinds
  BY DEF FaultKinds
<1>3. [status |-> "pending", payload |-> "request"] \in Rows
  BY DEF Rows, Statuses, Payloads
<1> QED
  BY <1>1, <1>2, <1>3 DEF TypeOK, PersistPending, UpdateStatus, Spend

\* Publishing a message keeps the broker well-typed.
LEMMA DeliverType ==
  ASSUME TypeOK, NEW m, Deliver(m)
  PROVE  ready' \in [Messages -> Nat]
<1>1. CASE m \in Messages
  BY <1>1 DEF TypeOK, Deliver
<1>2. CASE m \notin Messages
  <2>1. ready' = ready
    BY <1>2, Zenon DEF TypeOK, Deliver
  <2> QED BY <2>1 DEF TypeOK
<1> QED BY <1>1, <1>2

\* Every part of the state keeps its type: in particular a worker is idle
\* exactly when it holds no message, and the broker keeps messages only for
\* workers that run one.
LEMMA TypeStep == TypeOK /\ [Next]_vars => TypeOK'
<1> SUFFICES ASSUME TypeOK, [Next]_vars PROVE TypeOK'
  OBVIOUS
<1> USE DEF TypeOK
<1>1. ASSUME NEW j \in Jobs, RequestStep(j) PROVE TypeOK'
  <2>1. CASE Post(j)
    <3>1. rows' \in [Jobs -> Rows] /\ budget' \in [FaultKinds -> Nat]
      BY <2>1, TableWriteType DEF Post, Statuses, Payloads
    <3> QED BY <2>1, <3>1 DEF Post, GoTo, HandlerPcs, broker
  <2>2. CASE PostSync(j)
    BY <2>2 DEF PostSync, GoTo, HandlerPcs, Blocking, broker, NoFault
  <2>3. CASE Enqueue(j)
    <3>1. FirstMessage(j) \in Messages
      BY MaxRetriesAssumption DEF FirstMessage, Messages
    <3> QED BY <2>3, <3>1 DEF Enqueue, GoTo, HandlerPcs, Deliver, NoFault
  <2>4. CASE FallBack(j)
    BY <2>4 DEF FallBack, GoTo, HandlerPcs, Background, broker, NoFault, Spend, FaultKinds
  <2>5. CASE FallBackAfterPublish(j)
    <3>1. FirstMessage(j) \in Messages
      BY MaxRetriesAssumption DEF FirstMessage, Messages
    <3> QED
      BY <2>5, <3>1
      DEF FallBackAfterPublish, GoTo, HandlerPcs, Background, Deliver, SpendOnRepeat,
          Spend, FaultKinds
  <2> QED BY <1>1, <2>1, <2>2, <2>3, <2>4, <2>5 DEF RequestStep
<1>2. ASSUME NEW j \in Jobs, BackgroundStep(j) PROVE TypeOK'
  <2>1. CASE BgStart(j)
    <3>1. rows' \in [Jobs -> Rows] /\ budget' \in [FaultKinds -> Nat]
      BY <2>1, TableWriteType DEF BgStart, Statuses, Payloads
    <3> QED BY <2>1, <3>1 DEF BgStart, GoTo, HandlerPcs, Background, broker
  <2>2. CASE BgGenerate(j)
    BY <2>2 DEF BgGenerate, GoTo, HandlerPcs, Background, broker, CountText, NoFault
  <2>3. CASE BgComplete(j)
    <3>1. rows' \in [Jobs -> Rows] /\ budget' \in [FaultKinds -> Nat]
      BY <2>3, TableWriteType DEF BgComplete, Statuses, Settled, Payloads
    <3> QED BY <2>3, <3>1 DEF BgComplete, GoTo, HandlerPcs, Background, broker
  <2>4. CASE BgMetrics(j)
    BY <2>4 DEF BgMetrics, GoTo, HandlerPcs, Background, broker, NoFault, SpendOnRepeat,
                Spend, FaultKinds
  <2>5. CASE BgFail(j)
    <3>1. rows' \in [Jobs -> Rows] /\ budget' \in [FaultKinds -> Nat]
      BY <2>5, TableWriteType DEF BgFail, Statuses, Settled, Payloads
    <3> QED BY <2>5, <3>1 DEF BgFail, GoTo, HandlerPcs, Background, broker
  <2> QED BY <1>2, <2>1, <2>2, <2>3, <2>4, <2>5 DEF BackgroundStep
<1>3. ASSUME NEW j \in Jobs, BlockingStep(j) PROVE TypeOK'
  <2>1. CASE SyncGenerate(j)
    BY <2>1 DEF SyncGenerate, GoTo, HandlerPcs, Blocking, broker, CountText, NoFault
  <2>2. CASE SyncMetrics(j)
    BY <2>2 DEF SyncMetrics, GoTo, HandlerPcs, Blocking, broker, NoFault, Spend, FaultKinds
  <2>3. CASE SyncPersist(j)
    <3>1. rows' \in [Jobs -> Rows] /\ budget' \in [FaultKinds -> Nat]
      BY <2>3, TableWriteType DEF SyncPersist, Statuses, Payloads
    <3> QED BY <2>3, <3>1 DEF SyncPersist, GoTo, HandlerPcs, Blocking, broker
  <2>4. CASE SyncComplete(j)
    <3>1. rows' \in [Jobs -> Rows] /\ budget' \in [FaultKinds -> Nat]
      BY <2>4, TableWriteType DEF SyncComplete, Statuses, Settled, Payloads
    <3> QED BY <2>4, <3>1 DEF SyncComplete, GoTo, HandlerPcs, Blocking, broker
  <2> QED BY <1>3, <2>1, <2>2, <2>3, <2>4 DEF BlockingStep
<1>4. ASSUME NEW w \in Workers, NEW m \in Messages, Receive(w, m) PROVE TypeOK'
  BY <1>4, NoTaskAssumption DEF Receive, Step, WorkerPcs, NoFault
<1>5. ASSUME NEW w \in Workers, pc[w] # "idle",
             \/ Start(w) \/ Generate(w) \/ Complete(w) \/ RecordMetrics(w)
             \/ PublishRetry(w) \/ OnFailure(w) \/ Acknowledge(w)
      PROVE  TypeOK'
  <2>0. task[w] \in Messages /\ task[w].job \in Jobs /\ AfterTransient(w) \in {"retry", "fail"}
    BY <1>5 DEF Messages, AfterTransient
  <2>1. CASE Start(w)
    <3>1. rows' \in [Jobs -> Rows] /\ budget' \in [FaultKinds -> Nat]
      BY <2>0, <2>1, TableWriteType DEF Start, Statuses, Payloads
    <3> QED BY <2>1, <3>1 DEF Start, Step, WorkerPcs
  <2>2. CASE Generate(w)
    BY <2>0, <2>2 DEF Generate, Step, WorkerPcs, CountText, NoFault
  <2>3. CASE Complete(w)
    <3>1. rows' \in [Jobs -> Rows] /\ budget' \in [FaultKinds -> Nat]
      BY <2>0, <2>3, TableWriteType DEF Complete, Statuses, Settled, Payloads
    <3> QED BY <2>3, <3>1 DEF Complete, Step, WorkerPcs
  <2>4. CASE RecordMetrics(w)
    BY <2>0, <2>4 DEF RecordMetrics, Step, WorkerPcs, NoFault, SpendOnRepeat, Spend, FaultKinds
  <2>5. CASE PublishRetry(w)
    <3>1. ready' \in [Messages -> Nat]
      BY <2>5, DeliverType DEF PublishRetry
    <3> QED BY <2>5, <3>1 DEF PublishRetry, Step, WorkerPcs, NoFault
  <2>6. CASE OnFailure(w)
    <3>1. rows' \in [Jobs -> Rows] /\ budget' \in [FaultKinds -> Nat]
      BY <2>0, <2>6, TableWriteType DEF OnFailure, Statuses, Settled, Payloads
    <3> QED BY <2>6, <3>1 DEF OnFailure, Step, WorkerPcs
  <2>7. CASE Acknowledge(w)
    BY <2>7, NoTaskAssumption DEF Acknowledge, Release, WorkerPcs, NoFault
  <2> QED BY <1>5, <2>1, <2>2, <2>3, <2>4, <2>5, <2>6, <2>7
<1>6. ASSUME NEW w \in Workers, WorkerStep(w) PROVE TypeOK'
  <2>1. CASE \E m \in Messages : Receive(w, m)
    BY <2>1, <1>4
  <2>2. ASSUME \/ Start(w) \/ Generate(w) \/ Complete(w) \/ RecordMetrics(w)
               \/ PublishRetry(w) \/ OnFailure(w) \/ Acknowledge(w)
        PROVE  pc[w] # "idle"
    BY <2>2 DEF Start, Generate, Complete, RecordMetrics, PublishRetry, OnFailure,
                Acknowledge, Step
  <2> QED BY <1>5, <1>6, <2>1, <2>2 DEF WorkerStep
<1>7. ASSUME NEW w \in Workers, WorkerCrash(w) \/ Redeliver(w) \/ ChildKilled(w)
      PROVE  TypeOK'
  <2>0. pc[w] # "idle" /\ task[w] \in Messages /\ task[w].job \in Jobs
    BY <1>7 DEF WorkerCrash, Redeliver, ChildKilled, Messages
  <2>1. CASE WorkerCrash(w)
    BY <2>0, <2>1, NoTaskAssumption
    DEF WorkerCrash, Release, Deliver, WorkerPcs, SpendOnRepeat, Spend, FaultKinds
  <2>2. CASE Redeliver(w)
    BY <2>0, <2>2 DEF Redeliver, Deliver, SpendOnRepeat, Spend, FaultKinds
  <2>3. CASE ChildKilled(w)
    BY <2>0, <2>3, NoTaskAssumption DEF ChildKilled, Release, WorkerPcs, Spend, FaultKinds
  <2> QED BY <1>7, <2>1, <2>2, <2>3
<1>8. CASE ApiCrash
  BY <1>8 DEF ApiCrash, HandlerPcs, broker, Spend, FaultKinds
<1>9. CASE UNCHANGED vars
  BY <1>9 DEF vars, broker
<1> QED
  BY <1>1, <1>2, <1>3, <1>6, <1>7, <1>8, <1>9 DEF Next, Done

LEMMA TypeInit == Init => TypeOK
BY BudgetAssumption, NoTaskAssumption
DEF Init, TypeOK, Rows, Statuses, Payloads, HandlerPcs, WorkerPcs

\* The type invariant of the queue.
THEOREM TypeCorrect == Spec => []TypeOK
BY TypeInit, TypeStep, PTL DEF Spec

-----------------------------------------------------------------------------
(* No step refills a fault budget.                                         *)

LEMMA SpendFalls ==
  ASSUME TypeOK, NEW k \in FaultKinds, Spend(k), NEW i \in FaultKinds
  PROVE  budget'[i] <= budget[i] /\ (i # k => budget'[i] = budget[i])
                                 /\ budget'[k] < budget[k]
BY DEF TypeOK, Spend

\* A step spends at most one fault, so a budget that is untouched after it
\* was untouched before it.
LEMMA BudgetStep ==
  ASSUME TypeOK, [Next]_vars, NEW k \in FaultKinds
  PROVE  budget'[k] <= budget[k]
<1>1. (\E i \in FaultKinds : Spend(i)) \/ UNCHANGED budget
  <2>1. \A i \in {"db", "publish", "ambiguous", "redeliver", "crash", "kill", "metrics", "api"} :
          Spend(i) => \E f \in FaultKinds : Spend(f)
    BY DEF FaultKinds
  <2> QED
    BY <2>1
    DEF Next, vars, RequestStep, BackgroundStep, BlockingStep, WorkerStep, Done,
        Post, PostSync, Enqueue, FallBack, FallBackAfterPublish,
        BgStart, BgGenerate, BgComplete, BgMetrics, BgFail,
        SyncGenerate, SyncMetrics, SyncPersist, SyncComplete, ApiCrash,
        Receive, Start, Generate, Complete, RecordMetrics, PublishRetry, OnFailure,
        Acknowledge, WorkerCrash, Redeliver, ChildKilled,
        PersistPending, UpdateStatus, SpendOnRepeat, NoFault
<1>2. CASE \E i \in FaultKinds : Spend(i)
  BY <1>2, SpendFalls
<1>3. CASE UNCHANGED budget
  BY <1>3 DEF TypeOK
<1> QED BY <1>1, <1>2, <1>3

LEMMA UnspentBefore ==
  ASSUME TypeOK, BudgetFalls, BudgetAssumption, [Next]_vars,
         NEW k \in FaultKinds, Unspent(k)'
  PROVE  Unspent(k) /\ ~Spend(k) /\ budget'[k] = budget[k]
<1>1. budget'[k] <= budget[k] /\ budget[k] <= FaultBudget[k]
  BY BudgetStep DEF BudgetFalls
<1>2. budget[k] \in Nat /\ FaultBudget[k] \in Nat
  BY BudgetAssumption DEF TypeOK
<1>3. budget'[k] = FaultBudget[k]
  BY DEF Unspent
<1>4. budget'[k] = budget[k] /\ Unspent(k)
  BY <1>1, <1>2, <1>3 DEF Unspent
<1>5. Spend(k) => budget'[k] < budget[k]
  BY SpendFalls
<1> QED BY <1>2, <1>4, <1>5

-----------------------------------------------------------------------------
(* The inductive invariant.                                                *)

LEMMA InvInit == Init => QueueInv
<1> SUFFICES ASSUME Init PROVE QueueInv
  OBVIOUS
<1>1. TypeOK
  BY TypeInit
<1>2. BudgetFalls
  BY BudgetAssumption DEF Init, BudgetFalls
<1>3. RetriesLeft /\ RowInserted /\ BrokerKeeps /\ SettledUnlessOwed
  BY DEF Init, RetriesLeft, RowInserted, BrokerKeeps, SettledUnlessOwed, Attended, Accepted, Background
<1> QED BY <1>1, <1>2, <1>3 DEF QueueInv

LEMMA BudgetFallsStep ==
  ASSUME TypeOK, BudgetFalls, [Next]_vars
  PROVE  BudgetFalls'
<1>1. TypeOK'
  BY TypeStep
<1> SUFFICES ASSUME NEW k \in FaultKinds PROVE budget'[k] <= FaultBudget[k]
  BY DEF BudgetFalls
<1>2. budget'[k] <= budget[k] /\ budget[k] <= FaultBudget[k]
  BY BudgetStep DEF BudgetFalls
<1>3. budget'[k] \in Nat /\ budget[k] \in Nat /\ FaultBudget[k] \in Nat
  BY <1>1, BudgetAssumption DEF TypeOK
<1> QED BY <1>2, <1>3

\* A task turns to a retry only when AfterTransient allows one.
LEMMA RetriesLeftStep ==
  ASSUME TypeOK, RetriesLeft, [Next]_vars
  PROVE  RetriesLeft'
<1> SUFFICES ASSUME NEW v \in Workers, pc'[v] = "retry"
             PROVE  task'[v].retries < MaxRetries
  BY DEF RetriesLeft
<1>1. pc[v] = "retry" => task[v].retries < MaxRetries
  BY DEF RetriesLeft
<1>2. CASE UNCHANGED <<task, pc>>
  BY <1>1, <1>2
<1>3. ASSUME NEW w \in Workers, WorkerStep(w) PROVE task'[v].retries < MaxRetries
  <2>1. CASE w = v
    <3>1. AfterTransient(v) = "retry" => task[v].retries < MaxRetries
      BY DEF AfterTransient
    <3>2. UNCHANGED task /\ AfterTransient(v) = "retry"
      BY <1>3, <2>1
      DEF WorkerStep, Receive, Start, Generate, Complete, RecordMetrics, PublishRetry,
          OnFailure, Acknowledge, Step, Release, TypeOK
    <3> QED BY <3>1, <3>2
  <2>2. CASE w # v
    <3>1. pc'[v] = pc[v] /\ task'[v] = task[v]
      BY <1>3, <2>2
      DEF WorkerStep, Receive, Start, Generate, Complete, RecordMetrics, PublishRetry,
          OnFailure, Acknowledge, Step, Release, TypeOK
    <3> QED BY <1>1, <3>1
  <2> QED BY <2>1, <2>2
<1>4. ASSUME NEW w \in Workers, WorkerCrash(w) \/ Redeliver(w) \/ ChildKilled(w)
      PROVE  task'[v].retries < MaxRetries
  BY <1>1, <1>4 DEF WorkerCrash, Redeliver, ChildKilled, Release, TypeOK
<1>5. \/ UNCHANGED <<task, pc>>
      \/ \E w \in Workers : WorkerStep(w) \/ WorkerCrash(w) \/ Redeliver(w) \/ ChildKilled(w)
  BY DEF Next, vars, broker, Done, RequestStep, BackgroundStep, BlockingStep,
         Post, PostSync, Enqueue, FallBack, FallBackAfterPublish,
         BgStart, BgGenerate, BgComplete, BgMetrics, BgFail,
         SyncGenerate, SyncMetrics, SyncPersist, SyncComplete, ApiCrash
<1> QED BY <1>2, <1>3, <1>4, <1>5

\* The broker forgets a busy worker's message only by delivering it twice.
LEMMA BrokerKeepsStep ==
  ASSUME TypeOK, BudgetFalls, BrokerKeeps, [Next]_vars
  PROVE  BrokerKeeps'
<1> SUFFICES ASSUME Unspent("redeliver")', NEW v \in Workers, pc'[v] # "idle"
             PROVE  v \in unacked'
  BY DEF BrokerKeeps
<1>1. "redeliver" \in FaultKinds
  BY DEF FaultKinds
<1>2. Unspent("redeliver") /\ ~Spend("redeliver")
  BY <1>1, UnspentBefore, BudgetAssumption
<1>3. pc[v] # "idle" => v \in unacked
  BY <1>2 DEF BrokerKeeps
<1>4. CASE UNCHANGED <<pc, unacked>>
  BY <1>3, <1>4
<1>5. ASSUME NEW w \in Workers, NEW m \in Messages, Receive(w, m) PROVE v \in unacked'
  BY <1>5, <1>3 DEF Receive, Step, TypeOK
<1>6. ASSUME NEW w \in Workers, NEW s, pc[w] # "idle",
             pc' = [pc EXCEPT ![w] = s], UNCHANGED unacked
      PROVE  v \in unacked'
  BY <1>6, <1>3 DEF TypeOK
<1>7. ASSUME NEW w \in Workers, Release(w) PROVE v \in unacked'
  BY <1>7, <1>3 DEF Release, TypeOK
<1>8. ASSUME NEW w \in Workers, WorkerStep(w) PROVE v \in unacked'
  <2>1. \/ \E m \in Messages : Receive(w, m)
        \/ pc[w] # "idle" /\ UNCHANGED unacked /\ \E s : pc' = [pc EXCEPT ![w] = s]
        \/ Release(w)
    BY <1>8 DEF WorkerStep, Start, Generate, Complete, RecordMetrics, PublishRetry,
                OnFailure, Acknowledge, Step
  <2> QED BY <2>1, <1>5, <1>6, <1>7
<1>9. ASSUME NEW w \in Workers, WorkerCrash(w) \/ Redeliver(w) \/ ChildKilled(w)
      PROVE  v \in unacked'
  BY <1>9, <1>2, <1>7 DEF WorkerCrash, Redeliver, ChildKilled, SpendOnRepeat
<1>10. \/ UNCHANGED <<pc, unacked>>
       \/ \E w \in Workers : WorkerStep(w) \/ WorkerCrash(w) \/ Redeliver(w) \/ ChildKilled(w)
  BY DEF Next, vars, broker, Done, RequestStep, BackgroundStep, BlockingStep,
         Post, PostSync, Enqueue, FallBack, FallBackAfterPublish,
         BgStart, BgGenerate, BgComplete, BgMetrics, BgFail,
         SyncGenerate, SyncMetrics, SyncPersist, SyncComplete, ApiCrash
<1> QED BY <1>4, <1>8, <1>9, <1>10

\* While no write was dropped, every table write of a step took effect.
LEMMA WritesHappen ==
  ASSUME TypeOK, BudgetFalls, [Next]_vars, Unspent("db")', NEW i \in Jobs,
         NEW s \in Statuses \ {"absent"}, NEW p \in Payloads
  PROVE  /\ PersistPending(i) =>
              rows' = [rows EXCEPT ![i] = [status |-> "pending", payload |-> "request"]]
         /\ UpdateStatus(i, s, p) =>
              rows' = [rows EXCEPT ![i] = UpdatedRow(rows[i], s, p)]
<1>1. ~Spend("db")
  BY UnspentBefore, BudgetAssumption DEF FaultKinds
<1> QED BY <1>1 DEF PersistPending, UpdateStatus

\* A write never takes a row out of the table.
LEMMA RowsStay ==
  ASSUME TypeOK, [Next]_vars, NEW j \in Jobs, rows[j].status # "absent"
  PROVE  rows'[j].status # "absent"
<1>1. CASE UNCHANGED rows
  BY <1>1
<1>2. ASSUME NEW i \in Jobs, PersistPending(i) PROVE rows'[j].status # "absent"
  BY <1>2 DEF PersistPending, TypeOK
<1>3. ASSUME NEW i \in Jobs, NEW s \in Statuses \ {"absent"}, NEW p \in Payloads,
             UpdateStatus(i, s, p)
      PROVE  rows'[j].status # "absent"
  <2>1. UpdatedRow(rows[i], s, p).status # "absent" \/ UpdatedRow(rows[i], s, p) = rows[i]
    BY DEF UpdatedRow
  <2> QED BY <1>3, <2>1 DEF UpdateStatus, TypeOK
<1>4. \A w \in Workers : pc[w] # "idle" => task[w].job \in Jobs
  BY DEF TypeOK, Messages
<1>5. /\ {"processing", "completed", "failed"} \subseteq Statuses \ {"absent"}
      /\ {"none", "result", "error"} \subseteq Payloads
  BY DEF Statuses, Settled, Payloads
<1>6. \/ UNCHANGED rows
      \/ \E i \in Jobs : PersistPending(i)
      \/ \E i \in Jobs : \/ UpdateStatus(i, "processing", "none")
                          \/ UpdateStatus(i, "completed", "result")
                          \/ UpdateStatus(i, "failed", "error")
  <2>1. ASSUME NEW i \in Jobs, RequestStep(i) \/ BlockingStep(i) \/ BackgroundStep(i)
        PROVE  \/ UNCHANGED rows \/ PersistPending(i)
               \/ UpdateStatus(i, "processing", "none")
               \/ UpdateStatus(i, "completed", "result")
               \/ UpdateStatus(i, "failed", "error")
    BY <2>1
    DEF RequestStep, BackgroundStep, BlockingStep,
        Post, PostSync, Enqueue, FallBack, FallBackAfterPublish,
        BgStart, BgGenerate, BgComplete, BgMetrics, BgFail,
        SyncGenerate, SyncMetrics, SyncPersist, SyncComplete
  <2>2. ASSUME NEW w \in Workers, WorkerStep(w)
        PROVE  \/ UNCHANGED rows
               \/ /\ pc[w] # "idle"
                  /\ \/ UpdateStatus(task[w].job, "processing", "none")
                     \/ UpdateStatus(task[w].job, "completed", "result")
                     \/ UpdateStatus(task[w].job, "failed", "error")
    BY <2>2
    DEF WorkerStep, Receive, Start, Generate, Complete, RecordMetrics, PublishRetry,
        OnFailure, Acknowledge, Step
  <2>3. ASSUME NEW w \in Workers, WorkerCrash(w) \/ Redeliver(w) \/ ChildKilled(w)
        PROVE  UNCHANGED rows
    BY <2>3 DEF WorkerCrash, Redeliver, ChildKilled
  <2>4. ApiCrash \/ Done \/ UNCHANGED vars => UNCHANGED rows
    BY DEF ApiCrash, Done, vars
  <2> QED BY <1>4, <2>1, <2>2, <2>3, <2>4 DEF Next
<1> QED BY <1>1, <1>2, <1>3, <1>5, <1>6

\* An accepted job has its row.
LEMMA RowInsertedStep ==
  ASSUME TypeOK, BudgetFalls, RowInserted, [Next]_vars
  PROVE  RowInserted'
<1> SUFFICES ASSUME Unspent("db")', NEW j \in Jobs,
                    handler'[j] = "persisted" \/ Accepted(j)'
             PROVE  rows'[j].status # "absent"
  BY DEF RowInserted
<1>1. Unspent("db")
  BY UnspentBefore, BudgetAssumption DEF FaultKinds
<1>2. CASE handler[j] = "persisted" \/ Accepted(j)
  BY <1>1, <1>2, RowsStay DEF RowInserted
<1>3. ASSUME ~(handler[j] = "persisted" \/ Accepted(j)) PROVE Post(j)
  <2>1. ASSUME NEW i \in Jobs, RequestStep(i) PROVE Post(j)
    BY <1>3, <2>1
    DEF Accepted, Background, TypeOK, GoTo, RequestStep,
        Post, PostSync, Enqueue, FallBack, FallBackAfterPublish
  <2>2. ASSUME NEW i \in Jobs, BackgroundStep(i) PROVE FALSE
    BY <1>3, <2>2
    DEF Accepted, Background, TypeOK, GoTo, BackgroundStep,
        BgStart, BgGenerate, BgComplete, BgMetrics, BgFail
  <2>3. ASSUME NEW i \in Jobs, BlockingStep(i) PROVE FALSE
    BY <1>3, <2>3
    DEF Accepted, Background, TypeOK, GoTo, BlockingStep,
        SyncGenerate, SyncMetrics, SyncPersist, SyncComplete
  <2>4. ApiCrash => FALSE
    BY <1>3 DEF Accepted, Background, TypeOK, ApiCrash
  <2>5. UNCHANGED handler => FALSE
    BY <1>3 DEF Accepted
  <2>6. ASSUME NEW w \in Workers,
               WorkerStep(w) \/ WorkerCrash(w) \/ Redeliver(w) \/ ChildKilled(w)
        PROVE  UNCHANGED handler
    BY <2>6
    DEF WorkerStep, Receive, Start, Generate, Complete, RecordMetrics, PublishRetry,
        OnFailure, Acknowledge, WorkerCrash, Redeliver, ChildKilled
  <2> QED BY <2>1, <2>2, <2>3, <2>4, <2>5, <2>6 DEF Next, Done, vars
<1>4. CASE Post(j)
  <2>1. "processing" \in Statuses \ {"absent"} /\ "none" \in Payloads
    BY DEF Statuses, Payloads
  <2>2. rows' = [rows EXCEPT ![j] = [status |-> "pending", payload |-> "request"]]
    BY <1>4, <2>1, WritesHappen DEF Post
  <2> QED BY <2>2 DEF TypeOK
<1> QED BY <1>2, <1>3, <1>4

-----------------------------------------------------------------------------
(* Who owes a job its last write.                                          *)

\* Copies in the queue are kept by a step that takes none out.
LEMMA QueuedStays ==
  ASSUME TypeOK, NEW j \in Jobs, QueuedOwes(j),
         \/ UNCHANGED ready
         \/ \E m : Deliver(m)
  PROVE  QueuedOwes(j)'
<1> PICK n \in Messages : n.job = j /\ ready[n] > 0
  BY DEF QueuedOwes
<1>1. ready'[n] > 0
  <2>1. CASE UNCHANGED ready
    BY <2>1
  <2>2. ASSUME NEW m, Deliver(m) PROVE ready'[n] > 0
    BY <2>2 DEF Deliver, TypeOK
  <2> QED BY <2>1, <2>2
<1> QED BY <1>1 DEF QueuedOwes

\* A published message is a copy in the queue.
LEMMA DeliveredOwes ==
  ASSUME TypeOK, NEW m \in Messages, Deliver(m)
  PROVE  QueuedOwes(m.job)'
<1>1. ready'[m] > 0
  BY DEF Deliver, TypeOK
<1> QED BY <1>1 DEF QueuedOwes

\* A step of the API process on another job, or one that only publishes,
\* leaves a job as attended as it was.
LEMMA ApiFrame ==
  ASSUME TypeOK, NEW j \in Jobs, Attended(j),
         handler'[j] = handler[j], rows'[j] = rows[j], UNCHANGED <<task, pc>>,
         UNCHANGED ready \/ \E m : Deliver(m)
  PROVE  Attended(j)'
<1>1. QueuedOwes(j) => QueuedOwes(j)'
  BY QueuedStays
<1> QED BY <1>1 DEF Attended, Accepted, Owed, WorkerOwes, BackgroundOwes

\* A step of worker w leaves a job attended if w, when it owed the job a
\* write, has settled the row or left somebody else to do so.
LEMMA WorkerFrame ==
  ASSUME TypeOK, NEW j \in Jobs, Attended(j), NEW w \in Workers,
         UNCHANGED handler,
         QueuedOwes(j) => QueuedOwes(j)',
         \A v \in Workers \ {w} : task'[v] = task[v] /\ pc'[v] = pc[v],
         rows[j].status \in Settled =>
           rows'[j].status \in Settled \/ Owed(j)',
         WorkerOwes(w, j) => rows'[j].status \in Settled \/ Owed(j)'
  PROVE  Attended(j)'
<1>1. ASSUME NEW v \in Workers \ {w}, WorkerOwes(v, j) PROVE Owed(j)'
  BY <1>1 DEF WorkerOwes, Owed
<1>2. BackgroundOwes(j) => BackgroundOwes(j)'
  BY DEF BackgroundOwes
<1> QED BY <1>1, <1>2 DEF Attended, Accepted, Owed

\* A request step: publishing or falling back leaves somebody in charge.
LEMMA RequestAttended ==
  ASSUME TypeOK, NEW i \in Jobs, NEW j \in Jobs, Attended(j), RequestStep(i)
  PROVE  Attended(j)'
<1>1. CASE Enqueue(i) \/ FallBackAfterPublish(i)
  <2>1. FirstMessage(i) \in Messages /\ FirstMessage(i).job = i
    BY MaxRetriesAssumption DEF FirstMessage, Messages
  <2>2. CASE i = j
    BY <1>1, <2>1, <2>2, DeliveredOwes
    DEF Enqueue, FallBackAfterPublish, Attended, Owed
  <2>3. CASE i # j
    BY <1>1, <2>3, ApiFrame DEF Enqueue, FallBackAfterPublish, GoTo, TypeOK
  <2> QED BY <2>2, <2>3
<1>2. CASE FallBack(i)
  <2>1. CASE i = j
    BY <1>2, <2>1 DEF FallBack, GoTo, TypeOK, Attended, Owed, BackgroundOwes
  <2>2. CASE i # j
    BY <1>2, <2>2, ApiFrame DEF FallBack, GoTo, TypeOK, broker
  <2> QED BY <2>1, <2>2
<1>3. CASE Post(i) \/ PostSync(i)
  <2>1. CASE i = j
    BY <1>3, <2>1 DEF Post, PostSync, GoTo, TypeOK, Attended, Accepted, Background
  <2>2. CASE i # j
    BY <1>3, <2>2, ApiFrame DEF Post, PostSync, PersistPending, GoTo, TypeOK, broker
  <2> QED BY <2>1, <2>2
<1> QED BY <1>1, <1>2, <1>3 DEF RequestStep

\* A background task owes its row a write until it has settled it.
LEMMA BackgroundAttended ==
  ASSUME TypeOK, BudgetFalls, RowInserted, [Next]_vars, Unspent("db")',
         NEW i \in Jobs, NEW j \in Jobs, Attended(j), BackgroundStep(i)
  PROVE  Attended(j)'
<1>0. Unspent("db")
  BY UnspentBefore, BudgetAssumption DEF FaultKinds
<1>1. CASE i # j
  BY <1>1, ApiFrame
  DEF BackgroundStep, BgStart, BgGenerate, BgComplete, BgMetrics, BgFail,
      UpdateStatus, GoTo, TypeOK, broker
<1>2. CASE i = j
  <2>1. CASE BgStart(j) \/ BgGenerate(j)
    BY <2>1 DEF BgStart, BgGenerate, GoTo, TypeOK, Attended, Owed, BackgroundOwes
  <2>2. CASE BgComplete(j)
    <3>1. "completed" \in Statuses \ {"absent"} /\ "result" \in Payloads
      BY DEF Statuses, Settled, Payloads
    <3>2. rows' = [rows EXCEPT ![j] = UpdatedRow(rows[j], "completed", "result")]
      BY <2>2, <3>1, WritesHappen DEF BgComplete
    <3>3. rows[j].status # "absent"
      BY <2>2, <1>0 DEF BgComplete, GoTo, RowInserted, Accepted, Background
    <3>4. rows'[j].status = "completed"
      BY <3>2, <3>3 DEF UpdatedRow, TypeOK
    <3> QED BY <3>4 DEF Attended, Settled
  <2>3. CASE BgFail(j)
    <3>1. "failed" \in Statuses \ {"absent"} /\ "error" \in Payloads
      BY DEF Statuses, Settled, Payloads
    <3>2. rows' = [rows EXCEPT ![j] = UpdatedRow(rows[j], "failed", "error")]
      BY <2>3, <3>1, WritesHappen DEF BgFail
    <3>3. rows[j].status # "absent"
      BY <2>3, <1>0 DEF BgFail, GoTo, RowInserted, Accepted, Background
    <3>4. rows'[j].status = "failed"
      BY <3>2, <3>3 DEF UpdatedRow, TypeOK
    <3> QED BY <3>4 DEF Attended, Settled
  <2>4. CASE BgMetrics(j)
    <3>1. Accepted(j) /\ ~BackgroundOwes(j)
      BY <2>4 DEF BgMetrics, GoTo, Accepted, Background, BackgroundOwes
    <3>2. UNCHANGED <<rows, ready, task, pc>>
      BY <2>4 DEF BgMetrics, broker
    <3> QED BY <3>1, <3>2 DEF Attended, Owed, QueuedOwes, WorkerOwes
  <2> QED BY <1>2, <2>1, <2>2, <2>3, <2>4 DEF BackgroundStep
<1> QED BY <1>1, <1>2

\* A blocking request is never accepted, and touches no other job.
LEMMA BlockingAttended ==
  ASSUME TypeOK, NEW i \in Jobs, NEW j \in Jobs, Attended(j), BlockingStep(i)
  PROVE  Attended(j)'
<1>1. CASE i = j
  BY <1>1
  DEF BlockingStep, SyncGenerate, SyncMetrics, SyncPersist, SyncComplete, GoTo,
      TypeOK, Attended, Accepted, Background
<1>2. CASE i # j
  BY <1>2, ApiFrame
  DEF BlockingStep, SyncGenerate, SyncMetrics, SyncPersist, SyncComplete, GoTo,
      UpdateStatus, PersistPending, TypeOK, broker
<1> QED BY <1>1, <1>2

\* A crash of the API process un-accepts the background tasks it had.
LEMMA ApiCrashAttended ==
  ASSUME TypeOK, NEW j \in Jobs, Attended(j), ApiCrash
  PROVE  Attended(j)'
<1>1. CASE handler[j] \in InMemory
  BY <1>1 DEF ApiCrash, Attended, Accepted, Background
<1>2. CASE handler[j] \notin InMemory
  BY <1>2, ApiFrame DEF ApiCrash, TypeOK, broker
<1> QED BY <1>1, <1>2

\* A worker that takes a message out of the queue owes the job its write.
LEMMA ReceiveAttended ==
  ASSUME TypeOK, NEW w \in Workers, NEW m \in Messages, NEW j \in Jobs,
         Attended(j), Receive(w, m)
  PROVE  Attended(j)'
<1>1. WorkerOwes(w, m.job)'
  BY DEF Receive, Step, WorkerOwes, TypeOK
<1>2. CASE m.job = j
  BY <1>1, <1>2 DEF Attended, Owed
<1>3. CASE m.job # j
  <2>1. QueuedOwes(j) => QueuedOwes(j)'
    BY <1>3 DEF QueuedOwes, Receive, TypeOK
  <2>2. ~WorkerOwes(w, j)
    BY DEF WorkerOwes, Receive, Step
  <2> QED
    BY <2>1, <2>2, WorkerFrame DEF Receive, Step, TypeOK
<1> QED BY <1>2, <1>3

\* A step of a running task settles the row, passes the job on as a retry,
\* or leaves the worker owing the write.
LEMMA TaskAttended ==
  ASSUME TypeOK, BudgetFalls, RetriesLeft, RowInserted, [Next]_vars, Unspent("db")',
         NEW w \in Workers, NEW j \in Jobs, Attended(j), Accepted(j),
         \/ Start(w) \/ Generate(w) \/ Complete(w) \/ RecordMetrics(w)
         \/ PublishRetry(w) \/ OnFailure(w) \/ Acknowledge(w)
  PROVE  Attended(j)'
<1>0. Unspent("db")
  BY UnspentBefore, BudgetAssumption DEF FaultKinds
<1>1. rows[j].status # "absent"
  BY <1>0 DEF RowInserted
<1>2. pc[w] # "idle" /\ task[w] \in Messages /\ task[w].job \in Jobs
  BY DEF Start, Generate, Complete, RecordMetrics, PublishRetry, OnFailure, Acknowledge,
         Step, TypeOK, Messages
<1>3. AfterTransient(w) \in {"retry", "fail"}
  BY DEF AfterTransient
<1>4. CASE Start(w)
  <2>1. "processing" \in Statuses \ {"absent"} /\ "none" \in Payloads
    BY DEF Statuses, Payloads
  <2>2. rows' = [rows EXCEPT ![task[w].job] = UpdatedRow(@, "processing", "none")]
    BY <1>2, <1>4, <2>1, WritesHappen DEF Start
  <2>3. CASE task[w].job = j
    BY <1>4, <2>3 DEF Start, Step, TypeOK, Attended, Owed, WorkerOwes
  <2>4. CASE task[w].job # j
    <3>1. rows'[j] = rows[j] /\ ~WorkerOwes(w, j)
      BY <2>2, <2>4 DEF TypeOK, WorkerOwes
    <3>2. QueuedOwes(j) => QueuedOwes(j)'
      BY <1>4, QueuedStays DEF Start
    <3> QED BY <1>4, <3>1, <3>2, WorkerFrame DEF Start, Step, TypeOK
  <2> QED BY <2>3, <2>4
<1>5. CASE Generate(w) \/ RecordMetrics(w)
  <2>1. QueuedOwes(j) => QueuedOwes(j)'
    BY <1>5, QueuedStays DEF Generate, RecordMetrics
  <2>2. WorkerOwes(w, j) => Owed(j)'
    <3>1. CASE Generate(w)
      BY <1>3, <3>1 DEF Generate, Step, TypeOK, WorkerOwes, Owed
    <3>2. CASE RecordMetrics(w)
      BY <3>2 DEF RecordMetrics, Step, WorkerOwes
    <3> QED BY <1>5, <3>1, <3>2
  <2> QED
    BY <1>5, <2>1, <2>2, WorkerFrame DEF Generate, RecordMetrics, Step, TypeOK
<1>6. CASE Complete(w) \/ OnFailure(w)
  <2>1. /\ {"completed", "failed"} \subseteq Statuses \ {"absent"}
        /\ {"result", "error"} \subseteq Payloads
    BY DEF Statuses, Settled, Payloads
  <2>2. PICK s \in {"completed", "failed"}, q \in {"result", "error"} :
          rows' = [rows EXCEPT ![task[w].job] = UpdatedRow(@, s, q)]
    BY <1>2, <1>6, <2>1, WritesHappen DEF Complete, OnFailure
  <2>3. CASE task[w].job = j
    BY <1>1, <2>2, <2>3 DEF UpdatedRow, TypeOK, Attended, Settled
  <2>4. CASE task[w].job # j
    <3>1. rows'[j] = rows[j] /\ ~WorkerOwes(w, j)
      BY <2>2, <2>4 DEF TypeOK, WorkerOwes
    <3>2. QueuedOwes(j) => QueuedOwes(j)'
      BY <1>6, QueuedStays DEF Complete, OnFailure
    <3> QED BY <1>6, <3>1, <3>2, WorkerFrame DEF Complete, OnFailure, Step, TypeOK
  <2> QED BY <2>3, <2>4
<1>7. CASE PublishRetry(w)
  <2> DEFINE again == [task[w] EXCEPT !.retries = @ + 1]
  <2>1. QueuedOwes(j) => QueuedOwes(j)'
    BY <1>7, QueuedStays DEF PublishRetry
  <2>2. again.job = task[w].job
    BY <1>2 DEF Messages
  <2>3. again \in Messages
    BY <1>2, <1>7, MaxRetriesAssumption DEF PublishRetry, Step, RetriesLeft, Messages
  <2>4. WorkerOwes(w, j) => QueuedOwes(j)'
    BY <1>7, <2>2, <2>3, DeliveredOwes DEF PublishRetry, WorkerOwes
  <2> QED
    BY <1>7, <2>1, <2>4, WorkerFrame DEF PublishRetry, Step, TypeOK, Owed
<1>8. CASE Acknowledge(w)
  <2>1. QueuedOwes(j) => QueuedOwes(j)'
    BY <1>8, QueuedStays DEF Acknowledge
  <2>2. ~WorkerOwes(w, j)
    BY <1>8 DEF Acknowledge, WorkerOwes
  <2> QED
    BY <1>8, <2>1, <2>2, WorkerFrame DEF Acknowledge, Release, TypeOK
<1> QED BY <1>4, <1>5, <1>6, <1>7, <1>8

\* A worker that dies puts the job back while the broker has its message.
LEMMA CrashAttended ==
  ASSUME TypeOK, BrokerKeeps, NEW w \in Workers, NEW j \in Jobs, Attended(j),
         WorkerCrash(w), Unspent("redeliver")
  PROVE  Attended(j)'
<1>1. w \in unacked /\ Deliver(task[w]) /\ task[w] \in Messages
  BY DEF WorkerCrash, BrokerKeeps, TypeOK
<1>2. QueuedOwes(j) => QueuedOwes(j)'
  BY <1>1, QueuedStays
<1>3. WorkerOwes(w, j) => QueuedOwes(j)'
  BY <1>1, DeliveredOwes DEF WorkerOwes
<1> QED
  BY <1>2, <1>3, WorkerFrame DEF WorkerCrash, Release, TypeOK, Owed

LEMMA SettledUnlessOwedStep ==
  ASSUME QueueInv, [Next]_vars
  PROVE  SettledUnlessOwed'
<1> SUFFICES ASSUME Reliable', NEW j \in Jobs PROVE Attended(j)'
  BY DEF SettledUnlessOwed
<1> USE DEF QueueInv
<1>1. {"db", "kill", "crash", "redeliver"} \subseteq FaultKinds
  BY DEF FaultKinds
<1>2. \A k \in FaultKinds : Unspent(k)' => Unspent(k) /\ ~Spend(k)
  BY UnspentBefore, BudgetAssumption
<1>3. Unspent("db")' /\ Unspent("kill")' /\ (Unspent("crash")' \/ Unspent("redeliver")')
  BY DEF Reliable
<1>4. Attended(j)
  BY <1>1, <1>2, <1>3 DEF Reliable, SettledUnlessOwed
<1>5. ASSUME NEW i \in Jobs, RequestStep(i) \/ BackgroundStep(i) \/ BlockingStep(i)
      PROVE  Attended(j)'
  BY <1>3, <1>4, <1>5, RequestAttended, BackgroundAttended, BlockingAttended
<1>6. ASSUME NEW w \in Workers, WorkerStep(w) PROVE Attended(j)'
  <2>1. CASE \E m \in Messages : Receive(w, m)
    BY <1>4, <2>1, ReceiveAttended
  <2>2. CASE \/ Start(w) \/ Generate(w) \/ Complete(w) \/ RecordMetrics(w)
            \/ PublishRetry(w) \/ OnFailure(w) \/ Acknowledge(w)
    <3>1. CASE Accepted(j)
      BY <1>3, <1>4, <2>2, <3>1, TaskAttended
    <3>2. CASE ~Accepted(j)
      <4>1. UNCHANGED handler
        BY <2>2 DEF Start, Generate, Complete, RecordMetrics, PublishRetry, OnFailure,
                    Acknowledge
      <4> QED BY <3>2, <4>1 DEF Attended, Accepted
    <3> QED BY <3>1, <3>2
  <2> QED BY <1>6, <2>1, <2>2 DEF WorkerStep
<1>7. ASSUME NEW w \in Workers, WorkerCrash(w) PROVE Attended(j)'
  <2>1. Unspent("redeliver")
    BY <1>1, <1>2, <1>3, <1>7 DEF WorkerCrash, SpendOnRepeat
  <2> QED BY <1>4, <1>7, <2>1, CrashAttended
<1>8. ASSUME NEW w \in Workers, Redeliver(w) PROVE Attended(j)'
  BY <1>4, <1>8, ApiFrame DEF Redeliver
<1>9. ASSUME NEW w \in Workers, ChildKilled(w) PROVE FALSE
  BY <1>1, <1>2, <1>3, <1>9 DEF ChildKilled
<1>10. CASE ApiCrash
  BY <1>4, <1>10, ApiCrashAttended
<1>11. CASE UNCHANGED vars
  BY <1>4, <1>11, ApiFrame DEF vars, broker
<1> QED
  BY <1>5, <1>6, <1>7, <1>8, <1>9, <1>10, <1>11 DEF Next, Done

LEMMA InvStep == QueueInv /\ [Next]_vars => QueueInv'
BY TypeStep, BudgetFallsStep, RetriesLeftStep, RowInsertedStep, BrokerKeepsStep,
   SettledUnlessOwedStep
DEF QueueInv

\* No job the service accepted is ever left at "pending" or "processing" with
\* nobody in charge of it, whatever the interleaving of API, broker, workers,
\* retries and reliable faults.
THEOREM NobodyForgotten == Spec => []SettledUnlessOwed
<1>1. QueueInv => SettledUnlessOwed
  BY DEF QueueInv
<1> QED BY <1>1, InvInit, InvStep, PTL DEF Spec

-----------------------------------------------------------------------------
(* A row's payload belongs to its status.                                  *)

LEMMA TextsStay ==
  ASSUME TypeOK, [Next]_vars, NEW j \in Jobs
  PROVE  generated'[j] >= generated[j] /\ (generated[j] > 0 => generated'[j] > 0)
<1>1. CASE UNCHANGED generated
  BY <1>1 DEF TypeOK
<1>2. ASSUME NEW i \in Jobs, CountText(i)
      PROVE  generated'[j] >= generated[j] /\ (generated[j] > 0 => generated'[j] > 0)
  BY <1>2 DEF CountText, TypeOK
<1>3. ASSUME NEW i \in Jobs, RequestStep(i) \/ BackgroundStep(i) \/ BlockingStep(i)
      PROVE  UNCHANGED generated \/ CountText(i)
  BY <1>3
  DEF RequestStep, BackgroundStep, BlockingStep,
      Post, PostSync, Enqueue, FallBack, FallBackAfterPublish,
      BgStart, BgGenerate, BgComplete, BgMetrics, BgFail,
      SyncGenerate, SyncMetrics, SyncPersist, SyncComplete
<1>4. ASSUME NEW w \in Workers, WorkerStep(w)
      PROVE  UNCHANGED generated \/ (task[w].job \in Jobs /\ CountText(task[w].job))
  BY <1>4
  DEF WorkerStep, Receive, Start, Generate, Complete, RecordMetrics, PublishRetry,
      OnFailure, Acknowledge, Step, TypeOK, Messages
<1>5. ASSUME NEW w \in Workers, WorkerCrash(w) \/ Redeliver(w) \/ ChildKilled(w)
      PROVE  UNCHANGED generated
  BY <1>5 DEF WorkerCrash, Redeliver, ChildKilled
<1>6. ApiCrash \/ Done \/ UNCHANGED vars => UNCHANGED generated
  BY DEF ApiCrash, Done, vars
<1> QED BY <1>1, <1>2, <1>3, <1>4, <1>5, <1>6 DEF Next

\* Whoever is about to show a text has one: the text is counted by the step
\* that moves to the write.
LEMMA TextExistsStep ==
  ASSUME TypeOK, TextExists, [Next]_vars
  PROVE  TextExists'
<1> DEFINE HasText == {"bg_complete", "sync_metrics", "sync_persist", "sync_complete"}
<1>1. ASSUME NEW j \in Jobs, handler'[j] \in HasText
      PROVE  generated'[j] > 0
  <2>1. CASE handler[j] \in HasText
    BY <2>1, TextsStay DEF TextExists
  <2>2. CASE UNCHANGED handler
    BY <1>1, <2>1, <2>2
  <2>3. ASSUME NEW i \in Jobs, RequestStep(i)
        PROVE  handler[j] \in HasText
    BY <1>1, <2>3
    DEF RequestStep, Post, PostSync, Enqueue, FallBack, FallBackAfterPublish, GoTo, TypeOK
  <2>4. ASSUME NEW i \in Jobs, BackgroundStep(i) \/ BlockingStep(i), i # j
        PROVE  handler[j] \in HasText
    BY <1>1, <2>4
    DEF BackgroundStep, BlockingStep, BgStart, BgGenerate, BgComplete, BgMetrics, BgFail,
        SyncGenerate, SyncMetrics, SyncPersist, SyncComplete, GoTo, TypeOK
  <2>5. ASSUME BackgroundStep(j), handler[j] \notin HasText
        PROVE  CountText(j)
    BY <1>1, <2>5
    DEF BackgroundStep, BgStart, BgGenerate, BgComplete, BgMetrics, BgFail, GoTo, TypeOK
  <2>6. ASSUME BlockingStep(j), handler[j] \notin HasText
        PROVE  CountText(j)
    BY <1>1, <2>6
    DEF BlockingStep, SyncGenerate, SyncMetrics, SyncPersist, SyncComplete, GoTo, TypeOK
  <2>7. CountText(j) => generated'[j] > 0
    BY DEF CountText, TypeOK
  <2>8. ApiCrash => handler[j] \in HasText
    BY <1>1 DEF ApiCrash, TypeOK
  <2>9. ASSUME NEW w \in Workers,
               WorkerStep(w) \/ WorkerCrash(w) \/ Redeliver(w) \/ ChildKilled(w)
        PROVE  UNCHANGED handler
    BY <2>9
    DEF WorkerStep, Receive, Start, Generate, Complete, RecordMetrics, PublishRetry,
        OnFailure, Acknowledge, WorkerCrash, Redeliver, ChildKilled
  <2>10. Done \/ UNCHANGED vars => UNCHANGED handler
    BY DEF Done, vars
  <2> QED BY <2>1, <2>2, <2>3, <2>4, <2>5, <2>6, <2>7, <2>8, <2>9, <2>10 DEF Next
<1>2. ASSUME NEW v \in Workers, pc'[v] = "complete"
      PROVE  generated'[task'[v].job] > 0
  <2>0. TypeOK'
    BY TypeStep
  <2>1. CASE pc[v] = "complete" /\ task'[v] = task[v]
    <3>1. task[v].job \in Jobs
      BY <2>1 DEF TypeOK, Messages
    <3> QED BY <2>1, <3>1, TextsStay DEF TextExists
  <2>2. CASE UNCHANGED <<task, pc>>
    BY <1>2, <2>1, <2>2
  <2>3. ASSUME NEW w \in Workers, WorkerStep(w), w # v
        PROVE  pc'[v] = pc[v] /\ task'[v] = task[v]
    BY <2>3
    DEF WorkerStep, Receive, Start, Generate, Complete, RecordMetrics, PublishRetry,
        OnFailure, Acknowledge, Step, Release, TypeOK
  <2>4. ASSUME WorkerStep(v)
        PROVE  pc[v] # "idle" /\ task'[v] = task[v] /\ CountText(task[v].job)
    BY <1>2, <2>4
    DEF WorkerStep, Receive, Start, Generate, Complete, RecordMetrics, PublishRetry,
        OnFailure, Acknowledge, Step, Release, TypeOK, AfterTransient
  <2>5. ASSUME pc[v] # "idle", CountText(task[v].job) PROVE generated'[task[v].job] > 0
    BY <2>5 DEF CountText, TypeOK, Messages
  <2>6. ASSUME NEW w \in Workers, WorkerCrash(w) \/ Redeliver(w) \/ ChildKilled(w)
        PROVE  pc[v] = "complete" /\ task'[v] = task[v]
    BY <1>2, <2>6 DEF WorkerCrash, Redeliver, ChildKilled, Release, TypeOK
  <2>7. \/ UNCHANGED <<task, pc>>
        \/ \E w \in Workers : WorkerStep(w) \/ WorkerCrash(w) \/ Redeliver(w) \/ ChildKilled(w)
    BY DEF Next, vars, broker, Done, RequestStep, BackgroundStep, BlockingStep,
           Post, PostSync, Enqueue, FallBack, FallBackAfterPublish,
           BgStart, BgGenerate, BgComplete, BgMetrics, BgFail,
           SyncGenerate, SyncMetrics, SyncPersist, SyncComplete, ApiCrash
  <2> QED BY <1>2, <2>1, <2>2, <2>3, <2>4, <2>5, <2>6, <2>7
<1> QED BY <1>1, <1>2 DEF TextExists

\* What a step does to the table.
LEMMA TableStep ==
  ASSUME TypeOK, TextExists, [Next]_vars
  PROVE  \/ UNCHANGED rows
         \/ \E i \in Jobs :
              \/ PersistPending(i)
              \/ UpdateStatus(i, "processing", "none")
              \/ UpdateStatus(i, "completed", "result") /\ generated[i] > 0
              \/ UpdateStatus(i, "failed", "error")
<1>1. ASSUME NEW i \in Jobs, RequestStep(i) \/ BlockingStep(i) \/ BackgroundStep(i)
      PROVE  \/ UNCHANGED rows \/ PersistPending(i)
             \/ UpdateStatus(i, "processing", "none")
             \/ UpdateStatus(i, "completed", "result") /\ generated[i] > 0
             \/ UpdateStatus(i, "failed", "error")
  BY <1>1
  DEF RequestStep, BackgroundStep, BlockingStep,
      Post, PostSync, Enqueue, FallBack, FallBackAfterPublish,
      BgStart, BgGenerate, BgComplete, BgMetrics, BgFail,
      SyncGenerate, SyncMetrics, SyncPersist, SyncComplete, GoTo, TextExists
<1>2. ASSUME NEW w \in Workers, WorkerStep(w)
      PROVE  \/ UNCHANGED rows
             \/ /\ task[w].job \in Jobs
                /\ \/ UpdateStatus(task[w].job, "processing", "none")
                   \/ UpdateStatus(task[w].job, "completed", "result")
                      /\ generated[task[w].job] > 0
                   \/ UpdateStatus(task[w].job, "failed", "error")
  BY <1>2
  DEF WorkerStep, Receive, Start, Generate, Complete, RecordMetrics, PublishRetry,
      OnFailure, Acknowledge, Step, TextExists, TypeOK, Messages
<1>3. ASSUME NEW w \in Workers, WorkerCrash(w) \/ Redeliver(w) \/ ChildKilled(w)
      PROVE  UNCHANGED rows
  BY <1>3 DEF WorkerCrash, Redeliver, ChildKilled
<1>4. ApiCrash \/ Done \/ UNCHANGED vars => UNCHANGED rows
  BY DEF ApiCrash, Done, vars
<1> QED BY <1>1, <1>2, <1>3, <1>4 DEF Next

LEMMA PayloadStep == PayloadInv /\ [Next]_vars => PayloadInv'
<1> SUFFICES ASSUME PayloadInv, [Next]_vars PROVE PayloadInv'
  OBVIOUS
<1> USE DEF PayloadInv
<1>1. TypeOK' /\ TextExists'
  BY TypeStep, TextExistsStep
<1>2. \A j \in Jobs : generated[j] > 0 => generated'[j] > 0
  BY TextsStay
<1>3. CASE UNCHANGED rows
  BY <1>1, <1>2, <1>3 DEF PayloadMatchesStatus
<1>4. ASSUME NEW i \in Jobs, PersistPending(i) PROVE PayloadMatchesStatus'
  BY <1>2, <1>4 DEF PersistPending, PayloadMatchesStatus, TypeOK
<1>5. ASSUME NEW i \in Jobs, UpdateStatus(i, "processing", "none")
      PROVE  PayloadMatchesStatus'
  BY <1>2, <1>5 DEF UpdateStatus, UpdatedRow, PayloadMatchesStatus, TypeOK
<1>6. ASSUME NEW i \in Jobs, UpdateStatus(i, "completed", "result"), generated[i] > 0
      PROVE  PayloadMatchesStatus'
  BY <1>2, <1>6 DEF UpdateStatus, UpdatedRow, PayloadMatchesStatus, TypeOK
<1>7. ASSUME NEW i \in Jobs, UpdateStatus(i, "failed", "error")
      PROVE  PayloadMatchesStatus'
  BY <1>2, <1>7 DEF UpdateStatus, UpdatedRow, PayloadMatchesStatus, TypeOK
<1>8. PayloadMatchesStatus'
  BY <1>3, <1>4, <1>5, <1>6, <1>7, TableStep
<1> QED BY <1>1, <1>8

\* No interleaving of the API and the workers, and no fault, ever shows an
\* outcome with the payload of another or a completed row without a text.
THEOREM OutcomeMatchesPayload == Spec => []PayloadMatchesStatus
<1>1. Init => PayloadInv
  BY TypeInit DEF PayloadInv, Init, TextExists, PayloadMatchesStatus
<1>2. PayloadInv => PayloadMatchesStatus
  BY DEF PayloadInv
<1> QED BY <1>1, <1>2, PayloadStep, PTL DEF Spec

\* A worker's UPDATE never brings a row into being, so a request whose insert
\* was dropped stays unknown to the status endpoint whoever works on it.
THEOREM OnlyRequestsInsert == Spec => NoRowFromUpdate
<1> DEFINE Insert == \A j \in Jobs :
      rows[j].status = "absent" /\ rows'[j].status # "absent"
        => handler[j] \in {"new", "sync_persist"}
<1>1. ASSUME TypeOK, [Next]_vars PROVE [Insert]_vars
  <2> SUFFICES ASSUME NEW j \in Jobs, rows[j].status = "absent",
                      rows'[j].status # "absent"
               PROVE  handler[j] \in {"new", "sync_persist"}
    BY DEF Insert
  <2>1. ASSUME NEW i, NEW s, NEW q, UpdateStatus(i, s, q) PROVE FALSE
    <3>1. UpdatedRow(rows[j], s, q) = rows[j]
      BY DEF UpdatedRow
    <3>2. UNCHANGED rows \/ rows' = [rows EXCEPT ![i] = UpdatedRow(rows[i], s, q)]
      BY <2>1 DEF UpdateStatus
    <3> QED BY <1>1, <3>1, <3>2 DEF TypeOK
  <2>2. ASSUME NEW i \in Jobs, PersistPending(i) PROVE i = j
    BY <1>1, <2>2 DEF PersistPending, TypeOK
  <2>3. ASSUME NEW i \in Jobs, RequestStep(i) \/ BackgroundStep(i) \/ BlockingStep(i)
        PROVE  handler[j] \in {"new", "sync_persist"}
    BY <2>1, <2>2, <2>3
    DEF RequestStep, BackgroundStep, BlockingStep,
        Post, PostSync, Enqueue, FallBack, FallBackAfterPublish,
        BgStart, BgGenerate, BgComplete, BgMetrics, BgFail,
        SyncGenerate, SyncMetrics, SyncPersist, SyncComplete, GoTo
  <2>4. ASSUME NEW w \in Workers,
               WorkerStep(w) \/ WorkerCrash(w) \/ Redeliver(w) \/ ChildKilled(w)
        PROVE  FALSE
    BY <2>1, <2>4
    DEF WorkerStep, Receive, Start, Generate, Complete, RecordMetrics, PublishRetry,
        OnFailure, Acknowledge, WorkerCrash, Redeliver, ChildKilled
  <2>5. ApiCrash \/ Done \/ UNCHANGED vars => FALSE
    BY DEF ApiCrash, Done, vars
  <2> QED BY <1>1, <2>3, <2>4, <2>5 DEF Next
<1> QED BY <1>1, TypeCorrect, PTL DEF Spec, NoRowFromUpdate

-----------------------------------------------------------------------------
(* Counting who may still work on a job.                                   *)

\* The copies of j's messages in the queue, numbered.
Copies(j) == {c \in Messages \X Nat : /\ c[1].job = j
                                      /\ 1 <= c[2] /\ c[2] <= ready[c[1]]}
\* The workers that are with j at one of `steps`.
Busy(j, steps) == {w \in Workers : pc[w] \in steps /\ task[w].job = j}

\* A request counts 1 while it is at one of `steps`, and so does a worker.
Asks(j, steps) == IF handler[j] \in steps THEN 1 ELSE 0
IsBusy(w, j, steps) == IF pc[w] \in steps /\ task[w].job = j THEN 1 ELSE 0

\* Where a request or a task can still come to generate a text ...
AskGenerates == {"new", "persisted", "bg_start", "bg_generate", "sync_generate"}
TaskGenerates == {"start", "generate", "retry"}
\* ... and where it can still come to write the row.
AskWrites ==
  AskGenerates \cup {"bg_complete", "bg_fail", "sync_metrics", "sync_persist", "sync_complete"}
TaskWrites == TaskGenerates \cup {"complete", "fail"}

Generators(j) ==
  Asks(j, AskGenerates) + Cardinality(Copies(j)) + Cardinality(Busy(j, TaskGenerates))
Writers(j) ==
  Asks(j, AskWrites) + Cardinality(Copies(j)) + Cardinality(Busy(j, TaskWrites))

HasOutcome(j) == IF rows[j].status \in Settled THEN 1 ELSE 0

\* A text and everybody who may write one, an outcome and everybody who may
\* replace it: at most one of each, and one more for each fault that repeats
\* work.
OneAtATime(j) ==
  /\ IsFiniteSet(Copies(j)) /\ IsFiniteSet(Busy(j, TaskWrites))
  /\ generated[j] + Generators(j) <= 1 + repeats[j]
  /\ HasOutcome(j) + Writers(j) <= 1 + repeats[j]

CountInv == TypeOK /\ \A j \in Jobs : OneAtATime(j)

\* The queue has one copy more of a message that was published.
LEMMA DeliverCounts ==
  ASSUME TypeOK, NEW m \in Messages, NEW j \in Jobs, IsFiniteSet(Copies(j)), Deliver(m)
  PROVE  /\ IsFiniteSet(Copies(j)')
         /\ Cardinality(Copies(j)') =
              Cardinality(Copies(j)) + (IF m.job = j THEN 1 ELSE 0)
<1> DEFINE new == <<m, ready[m] + 1>>
<1>1. ready[m] \in Nat /\ \A n \in Messages : ready[n] \in Nat
  BY DEF TypeOK
<1>2. \A n \in Messages : ready'[n] = IF n = m THEN ready[m] + 1 ELSE ready[n]
  BY DEF TypeOK, Deliver
<1>3. CASE m.job = j
  <2>1. Copies(j)' = Copies(j) \cup {new}
    BY <1>1, <1>2, <1>3 DEF Copies
  <2>2. new \notin Copies(j)
    BY <1>1 DEF Copies
  <2> QED
    BY <1>3, <2>1, <2>2, FS_AddElement
<1>4. CASE m.job # j
  <2>1. Copies(j)' = Copies(j)
    BY <1>1, <1>2, <1>4 DEF Copies
  <2> QED BY <1>4, <2>1, FS_CardinalityType
<1> QED BY <1>3, <1>4

\* It has one copy less of a message that was received.
LEMMA ReceiveCounts ==
  ASSUME TypeOK, NEW m \in Messages, NEW j \in Jobs, IsFiniteSet(Copies(j)),
         ready[m] > 0, ready' = [ready EXCEPT ![m] = @ - 1]
  PROVE  /\ IsFiniteSet(Copies(j)')
         /\ Cardinality(Copies(j)') =
              Cardinality(Copies(j)) - (IF m.job = j THEN 1 ELSE 0)
<1> DEFINE last == <<m, ready[m]>>
<1>1. ready[m] \in Nat /\ \A n \in Messages : ready[n] \in Nat
  BY DEF TypeOK
<1>2. \A n \in Messages : ready'[n] = IF n = m THEN ready[m] - 1 ELSE ready[n]
  BY DEF TypeOK
<1>3. CASE m.job = j
  <2>1. Copies(j)' = Copies(j) \ {last}
    BY <1>1, <1>2, <1>3 DEF Copies
  <2>2. last \in Copies(j)
    BY <1>1, <1>3 DEF Copies
  <2> QED
    BY <1>3, <2>1, <2>2, FS_RemoveElement
<1>4. CASE m.job # j
  <2>1. Copies(j)' = Copies(j)
    BY <1>1, <1>2, <1>4 DEF Copies
  <2> QED BY <1>4, <2>1, FS_CardinalityType
<1> QED BY <1>3, <1>4

\* A step of one worker changes the count by that worker.
LEMMA BusyCounts ==
  ASSUME NEW w \in Workers, NEW j \in Jobs, NEW steps, IsFiniteSet(Busy(j, steps)),
         \A v \in Workers \ {w} : pc'[v] = pc[v] /\ task'[v] = task[v]
  PROVE  /\ IsFiniteSet(Busy(j, steps)')
         /\ Cardinality(Busy(j, steps)') =
              Cardinality(Busy(j, steps)) - IsBusy(w, j, steps) + IsBusy(w, j, steps)'
<1> DEFINE others == Busy(j, steps) \ {w}
<1>0. w \in Busy(j, steps) <=> IsBusy(w, j, steps) = 1
  BY DEF IsBusy, Busy
<1>1. /\ IsFiniteSet(others) /\ Cardinality(Busy(j, steps)) \in Nat
      /\ Cardinality(others) = Cardinality(Busy(j, steps)) - IsBusy(w, j, steps)
  <2>1. IsFiniteSet(others) /\ Cardinality(others) = IF w \in Busy(j, steps)
          THEN Cardinality(Busy(j, steps)) - 1 ELSE Cardinality(Busy(j, steps))
    BY FS_RemoveElement
  <2>2. Cardinality(Busy(j, steps)) \in Nat
    BY FS_CardinalityType
  <2>3. IsBusy(w, j, steps) \in {0, 1}
    BY DEF IsBusy
  <2> QED BY <1>0, <2>1, <2>2, <2>3
<1>2. Busy(j, steps)' = IF IsBusy(w, j, steps)' = 1 THEN others \cup {w} ELSE others
  BY DEF Busy, IsBusy
<1>3. /\ IsFiniteSet(others \cup {w})
      /\ Cardinality(others \cup {w}) = Cardinality(others) + 1
  BY <1>1, FS_AddElement
<1>4. Cardinality(others) \in Nat
  BY <1>1, FS_CardinalityType
<1> QED BY <1>1, <1>2, <1>3, <1>4 DEF IsBusy

LEMMA CountTypes ==
  ASSUME TypeOK, NEW j \in Jobs, OneAtATime(j)
  PROVE  /\ generated[j] \in Nat /\ repeats[j] \in Nat
         /\ HasOutcome(j) \in {0, 1}
         /\ Asks(j, AskGenerates) \in {0, 1} /\ Asks(j, AskWrites) \in {0, 1}
         /\ Cardinality(Copies(j)) \in Nat
         /\ IsFiniteSet(Busy(j, TaskGenerates))
         /\ Cardinality(Busy(j, TaskGenerates)) \in Nat
         /\ Cardinality(Busy(j, TaskWrites)) \in Nat
<1>1. Busy(j, TaskGenerates) \subseteq Busy(j, TaskWrites)
  BY DEF Busy, TaskWrites
<1>2. IsFiniteSet(Busy(j, TaskGenerates))
  BY <1>1, FS_Subset DEF OneAtATime
<1> QED BY <1>2, FS_CardinalityType DEF TypeOK, OneAtATime, HasOutcome, Asks

\* A step of the API process keeps the counts if what it adds to them is
\* taken from somewhere, or is one of the faults that repeat work.
LEMMA ApiCounts ==
  ASSUME TypeOK, TypeOK', NEW j \in Jobs, OneAtATime(j), UNCHANGED <<task, pc>>,
         NEW more \in Int, IsFiniteSet(Copies(j)'),
         Cardinality(Copies(j)') = Cardinality(Copies(j)) + more,
         generated'[j] + Asks(j, AskGenerates)' + more - repeats'[j]
           <= generated[j] + Asks(j, AskGenerates) - repeats[j],
         HasOutcome(j)' + Asks(j, AskWrites)' + more - repeats'[j]
           <= HasOutcome(j) + Asks(j, AskWrites) - repeats[j]
  PROVE  OneAtATime(j)'
<1>1. /\ Busy(j, TaskGenerates)' = Busy(j, TaskGenerates)
      /\ Busy(j, TaskWrites)' = Busy(j, TaskWrites)
  BY DEF Busy
<1>2. /\ generated'[j] \in Nat /\ repeats'[j] \in Nat /\ HasOutcome(j)' \in {0, 1}
      /\ Asks(j, AskGenerates)' \in {0, 1} /\ Asks(j, AskWrites)' \in {0, 1}
  BY DEF TypeOK, HasOutcome, Asks
<1> QED
  BY <1>1, <1>2, CountTypes DEF OneAtATime, Generators, Writers

\* The same of a step of worker w.
LEMMA WorkerCounts ==
  ASSUME TypeOK, TypeOK', NEW j \in Jobs, OneAtATime(j), NEW w \in Workers,
         UNCHANGED handler,
         \A v \in Workers \ {w} : pc'[v] = pc[v] /\ task'[v] = task[v],
         NEW more \in Int, IsFiniteSet(Copies(j)'),
         Cardinality(Copies(j)') = Cardinality(Copies(j)) + more,
         generated'[j] + more + IsBusy(w, j, TaskGenerates)' - repeats'[j]
           <= generated[j] + IsBusy(w, j, TaskGenerates) - repeats[j],
         HasOutcome(j)' + more + IsBusy(w, j, TaskWrites)' - repeats'[j]
           <= HasOutcome(j) + IsBusy(w, j, TaskWrites) - repeats[j]
  PROVE  OneAtATime(j)'
<1>1. IsFiniteSet(Busy(j, TaskGenerates)) /\ IsFiniteSet(Busy(j, TaskWrites))
  BY CountTypes DEF OneAtATime
<1>2. /\ Cardinality(Busy(j, TaskGenerates)') = Cardinality(Busy(j, TaskGenerates))
            - IsBusy(w, j, TaskGenerates) + IsBusy(w, j, TaskGenerates)'
      /\ IsFiniteSet(Busy(j, TaskWrites)')
      /\ Cardinality(Busy(j, TaskWrites)') = Cardinality(Busy(j, TaskWrites))
            - IsBusy(w, j, TaskWrites) + IsBusy(w, j, TaskWrites)'
  BY <1>1, BusyCounts
<1>3. /\ generated'[j] \in Nat /\ repeats'[j] \in Nat /\ HasOutcome(j)' \in {0, 1}
      /\ IsBusy(w, j, TaskGenerates) \in {0, 1} /\ IsBusy(w, j, TaskGenerates)' \in {0, 1}
      /\ IsBusy(w, j, TaskWrites) \in {0, 1} /\ IsBusy(w, j, TaskWrites)' \in {0, 1}
      /\ Asks(j, AskGenerates)' = Asks(j, AskGenerates)
      /\ Asks(j, AskWrites)' = Asks(j, AskWrites)
  BY DEF TypeOK, HasOutcome, Asks, IsBusy
<1> QED
  BY <1>2, <1>3, CountTypes DEF OneAtATime, Generators, Writers

\* Only the writes of an outcome add one.
LEMMA OutcomeWrites ==
  ASSUME TypeOK, NEW i \in Jobs, NEW j \in Jobs
  PROVE  /\ PersistPending(i) => HasOutcome(j)' <= HasOutcome(j)
         /\ UpdateStatus(i, "processing", "none") => HasOutcome(j)' <= HasOutcome(j)
         /\ \A s, q : UpdateStatus(i, s, q) =>
              HasOutcome(j)' <= HasOutcome(j) + (IF i = j THEN 1 ELSE 0)
         /\ UNCHANGED rows => HasOutcome(j)' = HasOutcome(j)
         /\ HasOutcome(j) \in {0, 1} /\ HasOutcome(j)' \in {0, 1}
<1>1. HasOutcome(j) \in {0, 1} /\ HasOutcome(j)' \in {0, 1}
  BY DEF HasOutcome
<1>2. PersistPending(i) => HasOutcome(j)' <= HasOutcome(j)
  BY DEF PersistPending, HasOutcome, TypeOK, Settled
<1>3. UpdateStatus(i, "processing", "none") => HasOutcome(j)' <= HasOutcome(j)
  BY DEF UpdateStatus, UpdatedRow, HasOutcome, TypeOK, Settled
<1>4. ASSUME NEW s, NEW q, UpdateStatus(i, s, q)
      PROVE  HasOutcome(j)' <= HasOutcome(j) + (IF i = j THEN 1 ELSE 0)
  <2>1. i # j => rows'[j] = rows[j]
    BY <1>4 DEF UpdateStatus, TypeOK
  <2> QED BY <1>1, <2>1 DEF HasOutcome
<1>5. UNCHANGED rows => HasOutcome(j)' = HasOutcome(j)
  BY DEF HasOutcome
<1> QED BY <1>1, <1>2, <1>3, <1>4, <1>5

LEMMA RequestCounts ==
  ASSUME TypeOK, [Next]_vars, NEW i \in Jobs, NEW j \in Jobs, OneAtATime(j), RequestStep(i)
  PROVE  OneAtATime(j)'
<1>0. TypeOK' /\ Cardinality(Copies(j)) \in Nat /\ IsFiniteSet(Copies(j))
  BY TypeStep, CountTypes DEF OneAtATime
<1> USE DEF AskWrites, AskGenerates
<1>1. CASE Enqueue(i) \/ FallBackAfterPublish(i)
  <2> DEFINE more == IF i = j THEN 1 ELSE 0
  <2>1. FirstMessage(i) \in Messages /\ FirstMessage(i).job = i
    BY MaxRetriesAssumption DEF FirstMessage, Messages
  <2>2. /\ IsFiniteSet(Copies(j)') /\ more \in Int
        /\ Cardinality(Copies(j)') = Cardinality(Copies(j)) + more
    BY <1>0, <1>1, <2>1, DeliverCounts DEF Enqueue, FallBackAfterPublish
  <2>3. UNCHANGED <<task, pc, generated>> /\ HasOutcome(j)' = HasOutcome(j)
    BY <1>1 DEF Enqueue, FallBackAfterPublish, HasOutcome
  <2>4. CASE Enqueue(i)
    <3>1. /\ Asks(j, AskGenerates)' + more = Asks(j, AskGenerates)
          /\ Asks(j, AskWrites)' + more = Asks(j, AskWrites)
          /\ Asks(j, AskGenerates)' \in {0, 1} /\ Asks(j, AskWrites)' \in {0, 1}
      BY <2>4 DEF Enqueue, GoTo, Asks, TypeOK
    <3>2. repeats' = repeats
      BY <2>4 DEF Enqueue, NoFault
    <3> HIDE DEF more
    <3> QED BY <1>0, <2>2, <2>3, <3>1, <3>2, ApiCounts, CountTypes
  <2>5. CASE FallBackAfterPublish(i)
    <3>1. /\ Asks(j, AskGenerates)' = Asks(j, AskGenerates)
          /\ Asks(j, AskWrites)' = Asks(j, AskWrites)
      BY <2>5 DEF FallBackAfterPublish, GoTo, Asks, TypeOK
    <3>2. repeats'[j] = repeats[j] + more
      BY <2>5 DEF FallBackAfterPublish, SpendOnRepeat, TypeOK
    <3> HIDE DEF more
    <3> QED BY <1>0, <2>2, <2>3, <3>1, <3>2, ApiCounts, CountTypes
  <2> QED BY <1>1, <2>4, <2>5
<1>2. CASE FallBack(i) \/ Post(i) \/ PostSync(i)
  <2>1. /\ UNCHANGED <<task, pc, generated, repeats>> /\ Copies(j)' = Copies(j)
        /\ Asks(j, AskGenerates)' = Asks(j, AskGenerates)
        /\ Asks(j, AskWrites)' = Asks(j, AskWrites)
    BY <1>2 DEF FallBack, Post, PostSync, GoTo, Asks, TypeOK, broker, Copies, NoFault
  <2>2. HasOutcome(j)' <= HasOutcome(j)
    BY <1>2, OutcomeWrites DEF FallBack, Post, PostSync
  <2>3. 0 \in Int
    OBVIOUS
  <2> QED BY <1>0, <2>1, <2>2, <2>3, ApiCounts, CountTypes, OutcomeWrites
<1> QED BY <1>1, <1>2 DEF RequestStep

LEMMA HandlerCounts ==
  ASSUME TypeOK, [Next]_vars, NEW i \in Jobs, NEW j \in Jobs, OneAtATime(j),
         BackgroundStep(i) \/ BlockingStep(i)
  PROVE  OneAtATime(j)'
<1>0. TypeOK' /\ Cardinality(Copies(j)) \in Nat /\ IsFiniteSet(Copies(j))
  BY TypeStep, CountTypes DEF OneAtATime
<1>1. UNCHANGED <<task, pc>> /\ Copies(j)' = Copies(j)
  BY DEF BackgroundStep, BlockingStep, BgStart, BgGenerate, BgComplete, BgMetrics, BgFail,
         SyncGenerate, SyncMetrics, SyncPersist, SyncComplete, broker, Copies
<1>2. generated'[j] + Asks(j, AskGenerates)' - repeats'[j]
        <= generated[j] + Asks(j, AskGenerates) - repeats[j]
  BY DEF BackgroundStep, BlockingStep, BgStart, BgGenerate, BgComplete, BgMetrics, BgFail,
         SyncGenerate, SyncMetrics, SyncPersist, SyncComplete, GoTo, Asks, TypeOK,
         CountText, NoFault, SpendOnRepeat, AskGenerates
<1>3. HasOutcome(j)' + Asks(j, AskWrites)' - repeats'[j]
        <= HasOutcome(j) + Asks(j, AskWrites) - repeats[j]
  <2>1. CASE BgComplete(i) \/ BgFail(i) \/ SyncComplete(i)
    <3>1. HasOutcome(j)' <= HasOutcome(j) + (IF i = j THEN 1 ELSE 0)
      BY <2>1, OutcomeWrites DEF BgComplete, BgFail, SyncComplete
    <3>2. Asks(j, AskWrites)' = Asks(j, AskWrites) - (IF i = j THEN 1 ELSE 0)
      BY <2>1 DEF BgComplete, BgFail, SyncComplete, GoTo, Asks, TypeOK, AskWrites, AskGenerates
    <3>3. repeats' = repeats
      BY <2>1 DEF BgComplete, BgFail, SyncComplete
    <3>4. Asks(j, AskWrites) \in {0, 1}
      BY DEF Asks
    <3> QED BY <3>1, <3>2, <3>3, <3>4, OutcomeWrites, CountTypes
  <2>2. CASE \/ BgStart(i) \/ BgGenerate(i) \/ BgMetrics(i) \/ SyncGenerate(i)
            \/ SyncMetrics(i) \/ SyncPersist(i)
    <3>1. HasOutcome(j)' <= HasOutcome(j)
      BY <2>2, OutcomeWrites
      DEF BgStart, BgGenerate, BgMetrics, SyncGenerate, SyncMetrics, SyncPersist
    <3>2. Asks(j, AskWrites)' - repeats'[j] <= Asks(j, AskWrites) - repeats[j]
      BY <2>2
      DEF BgStart, BgGenerate, BgMetrics, SyncGenerate, SyncMetrics, SyncPersist,
          GoTo, Asks, TypeOK, AskWrites, AskGenerates, NoFault, SpendOnRepeat
    <3>3. repeats'[j] \in Nat /\ Asks(j, AskWrites)' \in {0, 1}
      BY <1>0 DEF TypeOK, Asks
    <3> QED BY <3>1, <3>2, <3>3, OutcomeWrites, CountTypes
  <2> QED BY <2>1, <2>2 DEF BackgroundStep, BlockingStep
<1>4. /\ repeats'[j] \in Nat /\ Asks(j, AskWrites)' \in {0, 1}
      /\ generated'[j] \in Nat /\ Asks(j, AskGenerates)' \in {0, 1}
  BY <1>0 DEF TypeOK, Asks
<1>5. 0 \in Int /\ Cardinality(Copies(j)') = Cardinality(Copies(j)) + 0
  BY <1>0, <1>1
<1> QED
  BY <1>0, <1>1, <1>2, <1>3, <1>4, <1>5, ApiCounts, CountTypes, OutcomeWrites

\* A worker's steps but those that fail it.
LEMMA TaskCounts ==
  ASSUME TypeOK, RetriesLeft, [Next]_vars, NEW w \in Workers, NEW j \in Jobs,
         OneAtATime(j), WorkerStep(w)
  PROVE  OneAtATime(j)'
<1>0. TypeOK' /\ Cardinality(Copies(j)) \in Nat /\ IsFiniteSet(Copies(j))
  BY TypeStep, CountTypes DEF OneAtATime
<1>1. \A v \in Workers \ {w} : pc'[v] = pc[v] /\ task'[v] = task[v]
  BY DEF WorkerStep, Receive, Start, Generate, Complete, RecordMetrics, PublishRetry,
         OnFailure, Acknowledge, Step, Release, TypeOK
<1>2. UNCHANGED handler
  BY DEF WorkerStep, Receive, Start, Generate, Complete, RecordMetrics, PublishRetry,
         OnFailure, Acknowledge
<1>3. /\ IsBusy(w, j, TaskGenerates) \in {0, 1} /\ IsBusy(w, j, TaskGenerates)' \in {0, 1}
      /\ IsBusy(w, j, TaskWrites) \in {0, 1} /\ IsBusy(w, j, TaskWrites)' \in {0, 1}
      /\ generated'[j] \in Nat /\ repeats'[j] \in Nat
      /\ HasOutcome(j) \in {0, 1} /\ HasOutcome(j)' \in {0, 1}
      /\ 0 \in Int /\ 1 \in Int /\ -1 \in Int
  BY <1>0 DEF IsBusy, TypeOK, HasOutcome
<1>4. ASSUME NEW m \in Messages, Receive(w, m) PROVE OneAtATime(j)'
  <2> DEFINE more == IF m.job = j THEN -1 ELSE 0
  <2>1. /\ IsFiniteSet(Copies(j)') /\ more \in Int
        /\ Cardinality(Copies(j)') = Cardinality(Copies(j)) + more
    <3>1. ready[m] > 0 /\ ready' = [ready EXCEPT ![m] = @ - 1]
      BY <1>4 DEF Receive
    <3>2. /\ IsFiniteSet(Copies(j)')
          /\ Cardinality(Copies(j)') =
               Cardinality(Copies(j)) - (IF m.job = j THEN 1 ELSE 0)
      BY <1>0, <3>1, ReceiveCounts
    <3> QED BY <1>0, <3>2
  <2>2. /\ IsBusy(w, j, TaskGenerates)' + more = IsBusy(w, j, TaskGenerates)
        /\ IsBusy(w, j, TaskWrites)' + more = IsBusy(w, j, TaskWrites)
    BY <1>4 DEF Receive, Step, IsBusy, TaskGenerates, TaskWrites, TypeOK
  <2>3. UNCHANGED <<rows, generated, repeats>> /\ HasOutcome(j)' = HasOutcome(j)
    BY <1>4 DEF Receive, NoFault, HasOutcome
  <2> HIDE DEF more
  <2> QED BY <1>0, <1>1, <1>2, <1>3, <2>1, <2>2, <2>3, WorkerCounts, CountTypes
<1>5. CASE PublishRetry(w)
  <2> DEFINE again == [task[w] EXCEPT !.retries = @ + 1]
  <2> DEFINE more == IF task[w].job = j THEN 1 ELSE 0
  <2>1. task[w] \in Messages
    BY <1>5 DEF PublishRetry, Step, TypeOK
  <2>2. again \in Messages /\ again.job = task[w].job
    BY <2>1, <1>5, MaxRetriesAssumption DEF PublishRetry, Step, RetriesLeft, Messages
  <2>3. /\ IsFiniteSet(Copies(j)') /\ more \in Int
        /\ Cardinality(Copies(j)') = Cardinality(Copies(j)) + more
    <3>1. Deliver(again)
      BY <1>5 DEF PublishRetry
    <3> HIDE DEF again
    <3> QED BY <1>0, <2>2, <3>1, DeliverCounts
  <2>4. /\ IsBusy(w, j, TaskGenerates)' + more = IsBusy(w, j, TaskGenerates)
        /\ IsBusy(w, j, TaskWrites)' + more = IsBusy(w, j, TaskWrites)
    BY <1>5 DEF PublishRetry, Step, IsBusy, TaskGenerates, TaskWrites, TypeOK
  <2>5. UNCHANGED <<rows, generated, repeats>> /\ HasOutcome(j)' = HasOutcome(j)
    BY <1>5 DEF PublishRetry, NoFault, HasOutcome
  <2> HIDE DEF more
  <2> QED BY <1>0, <1>1, <1>2, <1>3, <2>3, <2>4, <2>5, WorkerCounts, CountTypes
<1>6. CASE \/ Start(w) \/ Generate(w) \/ Complete(w) \/ RecordMetrics(w)
          \/ OnFailure(w) \/ Acknowledge(w)
  <2>0. /\ Copies(j)' = Copies(j) /\ Cardinality(Copies(j)') = Cardinality(Copies(j)) + 0
        /\ task[w].job \in Jobs
    <3>1. Copies(j)' = Copies(j)
      BY <1>6 DEF Start, Generate, Complete, RecordMetrics, OnFailure, Acknowledge, Copies
    <3>2. pc[w] # "idle"
      BY <1>6 DEF Start, Generate, Complete, RecordMetrics, OnFailure, Acknowledge, Step
    <3>3. task[w] \in Messages
      BY <3>2 DEF TypeOK
    <3> QED BY <1>0, <3>1, <3>3 DEF Messages
  <2>1. generated'[j] + IsBusy(w, j, TaskGenerates)' - repeats'[j]
          <= generated[j] + IsBusy(w, j, TaskGenerates) - repeats[j]
    BY <1>6, <2>0
    DEF Start, Generate, Complete, RecordMetrics, OnFailure, Acknowledge, Step, Release,
        TypeOK, IsBusy, TaskGenerates, CountText, NoFault, SpendOnRepeat, AfterTransient
  <2>2. HasOutcome(j)' + IsBusy(w, j, TaskWrites)' - repeats'[j]
          <= HasOutcome(j) + IsBusy(w, j, TaskWrites) - repeats[j]
    <3>1. CASE Complete(w) \/ OnFailure(w)
      <4>1. HasOutcome(j)' <= HasOutcome(j) + (IF task[w].job = j THEN 1 ELSE 0)
        BY <3>1, <2>0, OutcomeWrites DEF Complete, OnFailure
      <4>2. /\ IsBusy(w, j, TaskWrites)' =
                 IsBusy(w, j, TaskWrites) - (IF task[w].job = j THEN 1 ELSE 0)
            /\ repeats' = repeats
        BY <3>1
        DEF Complete, OnFailure, Step, TypeOK, IsBusy, TaskWrites, TaskGenerates
      <4> QED BY <1>3, <4>1, <4>2, CountTypes
    <3>2. CASE Start(w) \/ Generate(w) \/ RecordMetrics(w) \/ Acknowledge(w)
      <4>1. HasOutcome(j)' <= HasOutcome(j)
        BY <3>2, <2>0, OutcomeWrites DEF Start, Generate, RecordMetrics, Acknowledge
      <4>2. IsBusy(w, j, TaskWrites)' - repeats'[j] <= IsBusy(w, j, TaskWrites) - repeats[j]
        BY <3>2, <2>0
        DEF Start, Generate, RecordMetrics, Acknowledge, Step, Release, TypeOK, IsBusy,
            TaskGenerates, TaskWrites, NoFault, SpendOnRepeat, AfterTransient
      <4> QED BY <1>3, <4>1, <4>2, CountTypes
    <3> QED BY <1>6, <3>1, <3>2
  <2>3. /\ generated'[j] + 0 + IsBusy(w, j, TaskGenerates)' - repeats'[j]
            <= generated[j] + IsBusy(w, j, TaskGenerates) - repeats[j]
        /\ HasOutcome(j)' + 0 + IsBusy(w, j, TaskWrites)' - repeats'[j]
            <= HasOutcome(j) + IsBusy(w, j, TaskWrites) - repeats[j]
    BY <1>3, <2>1, <2>2
  <2> QED BY <1>0, <1>1, <1>2, <1>3, <2>0, <2>3, WorkerCounts
<1> QED BY <1>4, <1>5, <1>6 DEF WorkerStep

\* The faults of workers.
LEMMA FaultCounts ==
  ASSUME TypeOK, [Next]_vars, NEW w \in Workers, NEW j \in Jobs, OneAtATime(j),
         WorkerCrash(w) \/ Redeliver(w) \/ ChildKilled(w)
  PROVE  OneAtATime(j)'
<1>0. TypeOK' /\ Cardinality(Copies(j)) \in Nat /\ IsFiniteSet(Copies(j))
  BY TypeStep, CountTypes DEF OneAtATime
<1>1. \A v \in Workers \ {w} : pc'[v] = pc[v] /\ task'[v] = task[v]
  BY DEF WorkerCrash, Redeliver, ChildKilled, Release, TypeOK
<1>2. UNCHANGED <<handler, rows, generated>> /\ HasOutcome(j)' = HasOutcome(j)
  BY DEF WorkerCrash, Redeliver, ChildKilled, HasOutcome
<1>3. /\ IsBusy(w, j, TaskGenerates) \in {0, 1} /\ IsBusy(w, j, TaskGenerates)' \in {0, 1}
      /\ IsBusy(w, j, TaskWrites) \in {0, 1} /\ IsBusy(w, j, TaskWrites)' \in {0, 1}
      /\ generated'[j] \in Nat /\ repeats'[j] \in Nat
      /\ HasOutcome(j) \in {0, 1} /\ 0 \in Int
  BY <1>0 DEF IsBusy, TypeOK, HasOutcome
<1>4. task[w] \in Messages /\ task[w].job \in Jobs
  BY DEF WorkerCrash, Redeliver, ChildKilled, TypeOK, Messages
<1>5. /\ IsBusy(w, j, TaskGenerates)' <= IsBusy(w, j, TaskGenerates)
      /\ IsBusy(w, j, TaskWrites)' <= IsBusy(w, j, TaskWrites)
  BY <1>4
  DEF WorkerCrash, Redeliver, ChildKilled, Release, TypeOK, IsBusy, TaskGenerates, TaskWrites
<1>6. CASE Deliver(task[w]) /\ (WorkerCrash(w) \/ Redeliver(w))
  <2> DEFINE more == IF task[w].job = j THEN 1 ELSE 0
  <2>1. /\ IsFiniteSet(Copies(j)') /\ more \in Int
        /\ Cardinality(Copies(j)') = Cardinality(Copies(j)) + more
    BY <1>0, <1>4, <1>6, DeliverCounts
  <2>2. repeats'[j] = repeats[j] + more
    BY <1>6, <1>4 DEF WorkerCrash, Redeliver, SpendOnRepeat, TypeOK
  <2> HIDE DEF more
  <2> QED BY <1>0, <1>1, <1>2, <1>3, <1>5, <2>1, <2>2, WorkerCounts, CountTypes
<1>7. CASE UNCHANGED ready
  <2>1. Copies(j)' = Copies(j) /\ Cardinality(Copies(j)') = Cardinality(Copies(j)) + 0
    BY <1>0, <1>7 DEF Copies
  <2>2. repeats[j] <= repeats'[j]
    BY <1>4 DEF WorkerCrash, Redeliver, ChildKilled, SpendOnRepeat, TypeOK
  <2>3. /\ generated'[j] + 0 + IsBusy(w, j, TaskGenerates)' - repeats'[j]
            <= generated[j] + IsBusy(w, j, TaskGenerates) - repeats[j]
        /\ HasOutcome(j)' + 0 + IsBusy(w, j, TaskWrites)' - repeats'[j]
            <= HasOutcome(j) + IsBusy(w, j, TaskWrites) - repeats[j]
    BY <1>2, <1>3, <1>5, <2>2, CountTypes
  <2> QED BY <1>0, <1>1, <1>2, <1>3, <2>1, <2>3, WorkerCounts
<1> QED BY <1>6, <1>7 DEF WorkerCrash, Redeliver, ChildKilled

LEMMA CountStep ==
  ASSUME CountInv, RetriesLeft, [Next]_vars
  PROVE  CountInv'
<1> SUFFICES ASSUME NEW j \in Jobs PROVE OneAtATime(j)'
  BY TypeStep DEF CountInv
<1>0. TypeOK /\ TypeOK' /\ OneAtATime(j)
  BY TypeStep DEF CountInv
<1>1. ASSUME NEW i \in Jobs, RequestStep(i) \/ BackgroundStep(i) \/ BlockingStep(i)
      PROVE  OneAtATime(j)'
  BY <1>0, <1>1, RequestCounts, HandlerCounts
<1>2. ASSUME NEW w \in Workers,
             WorkerStep(w) \/ WorkerCrash(w) \/ Redeliver(w) \/ ChildKilled(w)
      PROVE  OneAtATime(j)'
  BY <1>0, <1>2, TaskCounts, FaultCounts
<1>3. CASE ApiCrash \/ UNCHANGED vars
  <2>1. /\ UNCHANGED <<task, pc, generated, repeats>> /\ Copies(j)' = Copies(j)
        /\ HasOutcome(j)' = HasOutcome(j)
    BY <1>3 DEF ApiCrash, vars, broker, Copies, HasOutcome
  <2>2. /\ Asks(j, AskGenerates)' <= Asks(j, AskGenerates)
        /\ Asks(j, AskWrites)' <= Asks(j, AskWrites)
        /\ Asks(j, AskGenerates)' \in {0, 1} /\ Asks(j, AskWrites)' \in {0, 1}
    BY <1>0, <1>3 DEF ApiCrash, vars, Asks, TypeOK, AskGenerates, AskWrites
  <2>3. /\ IsFiniteSet(Copies(j)') /\ 0 \in Int
        /\ Cardinality(Copies(j)') = Cardinality(Copies(j)) + 0
    BY <1>0, <2>1, CountTypes DEF OneAtATime
  <2>4. /\ generated'[j] + Asks(j, AskGenerates)' + 0 - repeats'[j]
              <= generated[j] + Asks(j, AskGenerates) - repeats[j]
        /\ HasOutcome(j)' + Asks(j, AskWrites)' + 0 - repeats'[j]
              <= HasOutcome(j) + Asks(j, AskWrites) - repeats[j]
    BY <1>0, <2>1, <2>2, CountTypes
  <2> QED BY <1>0, <2>1, <2>3, <2>4, ApiCounts
<1> QED BY <1>1, <1>2, <1>3 DEF Next, Done

LEMMA CountInit == Init => CountInv
<1> SUFFICES ASSUME Init, NEW j \in Jobs PROVE OneAtATime(j)
  BY TypeInit DEF CountInv
<1>1. Copies(j) = {} /\ Busy(j, TaskWrites) = {} /\ Busy(j, TaskGenerates) = {}
  BY DEF Init, Copies, Busy, TaskWrites, TaskGenerates
<1>2. /\ HasOutcome(j) = 0 /\ generated[j] = 0 /\ repeats[j] = 0
      /\ Asks(j, AskGenerates) = 1 /\ Asks(j, AskWrites) = 1
  BY DEF Init, HasOutcome, Settled, Asks, AskGenerates, AskWrites
<1> QED BY <1>1, <1>2, FS_EmptySet DEF OneAtATime, Generators, Writers

\* A text is generated a second time only after a fault that repeats work:
\* neither the retries after errors of the generator nor anything the API and
\* the workers do at the same time generates one (content.py, tasks.py).
THEOREM TextsNeedFaults == Spec => []RepeatsNeedFaults
<1>1. CountInv => RepeatsNeedFaults
  <2> SUFFICES ASSUME CountInv, NEW j \in Jobs PROVE generated[j] <= 1 + repeats[j]
    BY DEF RepeatsNeedFaults
  <2>1. Generators(j) \in Nat
    BY CountTypes DEF CountInv, Generators
  <2> QED BY <2>1, CountTypes DEF CountInv, OneAtATime
<1>2. CountInv /\ QueueInv /\ [Next]_vars => (CountInv /\ QueueInv)'
  BY CountStep, InvStep DEF QueueInv
<1> QED BY <1>1, <1>2, CountInit, InvInit, PTL DEF Spec

-----------------------------------------------------------------------------
(* What a job goes through while no fault repeats its work.                *)

MayGenerate(j) == handler[j] \in AskGenerates \/ Copies(j) # {} \/ Busy(j, TaskGenerates) # {}
MayWrite(j) == handler[j] \in AskWrites \/ Copies(j) # {} \/ Busy(j, TaskWrites) # {}

\* While there is somebody who may generate its text, a job has none; while
\* there is somebody who may write its row, the row has no outcome.
LEMMA OneAuthor ==
  ASSUME CountInv, NEW j \in Jobs, repeats[j] = 0
  PROVE  /\ MayGenerate(j) => generated[j] = 0 /\ MayWrite(j)
         /\ MayWrite(j) => rows[j].status \notin Settled
         /\ generated[j] \in {0, 1}
<1>1. TypeOK /\ OneAtATime(j)
  BY DEF CountInv
<1>2. /\ Copies(j) # {} => Cardinality(Copies(j)) # 0
      /\ Busy(j, TaskGenerates) # {} => Cardinality(Busy(j, TaskGenerates)) # 0
      /\ Busy(j, TaskWrites) # {} => Cardinality(Busy(j, TaskWrites)) # 0
  BY <1>1, CountTypes, FS_EmptySet DEF OneAtATime
<1>3. MayGenerate(j) => MayWrite(j)
  BY DEF MayGenerate, MayWrite, AskWrites, TaskWrites, Busy
<1>4. /\ handler[j] \in AskGenerates => Asks(j, AskGenerates) = 1
      /\ handler[j] \in AskWrites => Asks(j, AskWrites) = 1
      /\ rows[j].status \in Settled => HasOutcome(j) = 1
  BY DEF Asks, HasOutcome
<1>5. MayGenerate(j) => generated[j] = 0
  BY <1>1, <1>2, <1>4, CountTypes DEF OneAtATime, Generators, MayGenerate
<1>6. MayWrite(j) => rows[j].status \notin Settled
  BY <1>1, <1>2, <1>4, CountTypes DEF OneAtATime, Writers, MayWrite
<1>7. generated[j] \in {0, 1}
  BY <1>1, CountTypes DEF OneAtATime, Generators
<1> QED BY <1>3, <1>5, <1>6, <1>7

\* The count of a job's faults never falls.
LEMMA RepeatsGrow ==
  ASSUME TypeOK, [Next]_vars, NEW j \in Jobs, repeats'[j] = 0
  PROVE  repeats[j] = 0
<1>1. repeats[j] \in Nat
  BY DEF TypeOK
<1>2. ASSUME NEW i \in Jobs, repeats' = [repeats EXCEPT ![i] = @ + 1]
      PROVE  repeats[j] = 0
  BY <1>1, <1>2 DEF TypeOK
<1>3. ASSUME NEW i \in Jobs, RequestStep(i) \/ BackgroundStep(i) \/ BlockingStep(i)
      PROVE  UNCHANGED repeats \/ repeats' = [repeats EXCEPT ![i] = @ + 1]
  BY <1>3
  DEF RequestStep, BackgroundStep, BlockingStep,
      Post, PostSync, Enqueue, FallBack, FallBackAfterPublish,
      BgStart, BgGenerate, BgComplete, BgMetrics, BgFail,
      SyncGenerate, SyncMetrics, SyncPersist, SyncComplete, NoFault, SpendOnRepeat
<1>4. ASSUME NEW w \in Workers,
             WorkerStep(w) \/ WorkerCrash(w) \/ Redeliver(w) \/ ChildKilled(w)
      PROVE  UNCHANGED repeats \/ repeats' = [repeats EXCEPT ![task[w].job] = @ + 1]
  BY <1>4
  DEF WorkerStep, Receive, Start, Generate, Complete, RecordMetrics, PublishRetry,
      OnFailure, Acknowledge, WorkerCrash, Redeliver, ChildKilled, NoFault, SpendOnRepeat
<1>5. ASSUME NEW i, i \notin Jobs, repeats' = [repeats EXCEPT ![i] = @ + 1]
      PROVE  repeats[j] = 0
  BY <1>5 DEF TypeOK
<1>6. ApiCrash \/ UNCHANGED vars => UNCHANGED repeats
  BY DEF ApiCrash, vars
<1> QED BY <1>2, <1>3, <1>4, <1>5, <1>6 DEF Next, Done

\* What a step does to a job, and who does it.
JobStays(j) == rows'[j] = rows[j] /\ generated'[j] = generated[j]
JobWritten(j, s, q) == UpdateStatus(j, s, q) /\ MayWrite(j) /\ generated' = generated

JobStep(j) ==
  \/ JobStays(j)
  \/ /\ PersistPending(j) /\ handler[j] \in {"new", "sync_persist"}
     /\ MayWrite(j) /\ generated' = generated
  \/ JobWritten(j, "processing", "none")
  \/ rows' = rows /\ CountText(j) /\ MayGenerate(j)
  \/ JobWritten(j, "completed", "result") /\ generated[j] > 0
  \/ JobWritten(j, "failed", "error")

\* A write or a text of another job.
LEMMA OtherJob ==
  ASSUME TypeOK, NEW i, NEW j \in Jobs, i # j,
         UNCHANGED rows \/ PersistPending(i) \/ \E s, q : UpdateStatus(i, s, q),
         UNCHANGED generated \/ CountText(i)
  PROVE  JobStays(j)
BY DEF TypeOK, PersistPending, UpdateStatus, CountText, JobStays

LEMMA HandlerJobStep ==
  ASSUME TypeOK, TextExists, NEW i \in Jobs,
         RequestStep(i) \/ BackgroundStep(i) \/ BlockingStep(i)
  PROVE  JobStep(i) /\ \A j \in Jobs \ {i} : JobStays(j)
<1>1. JobStep(i)
  BY DEF RequestStep, BackgroundStep, BlockingStep,
         Post, PostSync, Enqueue, FallBack, FallBackAfterPublish,
         BgStart, BgGenerate, BgComplete, BgMetrics, BgFail,
         SyncGenerate, SyncMetrics, SyncPersist, SyncComplete, GoTo, TextExists,
         JobStep, JobStays, JobWritten, MayWrite, MayGenerate, AskWrites, AskGenerates
<1>2. /\ UNCHANGED rows \/ PersistPending(i) \/ \E s, q : UpdateStatus(i, s, q)
      /\ UNCHANGED generated \/ CountText(i)
  BY DEF RequestStep, BackgroundStep, BlockingStep,
         Post, PostSync, Enqueue, FallBack, FallBackAfterPublish,
         BgStart, BgGenerate, BgComplete, BgMetrics, BgFail,
         SyncGenerate, SyncMetrics, SyncPersist, SyncComplete
<1> QED BY <1>1, <1>2, OtherJob

LEMMA WorkerJobStep ==
  ASSUME TypeOK, TextExists, NEW w \in Workers, WorkerStep(w)
  PROVE  \/ UNCHANGED <<rows, generated>>
         \/ /\ task[w].job \in Jobs /\ JobStep(task[w].job)
            /\ \A j \in Jobs \ {task[w].job} : JobStays(j)
<1>1. CASE \/ \E m \in Messages : Receive(w, m)
          \/ RecordMetrics(w) \/ PublishRetry(w) \/ Acknowledge(w)
  BY <1>1 DEF Receive, RecordMetrics, PublishRetry, Acknowledge
<1>2. CASE Start(w) \/ Generate(w) \/ Complete(w) \/ OnFailure(w)
  <2>1. pc[w] # "idle"
    BY <1>2 DEF Start, Generate, Complete, OnFailure, Step
  <2>2. task[w].job \in Jobs
    BY <2>1 DEF TypeOK, Messages
  <2>3. /\ pc[w] \in TaskWrites => MayWrite(task[w].job)
        /\ pc[w] \in TaskGenerates => MayGenerate(task[w].job)
    BY DEF MayWrite, MayGenerate, Busy
  <2>4. JobStep(task[w].job)
    BY <1>2, <2>3
    DEF Start, Generate, Complete, OnFailure, Step, TextExists,
        JobStep, JobStays, JobWritten, TaskWrites, TaskGenerates
  <2>5. /\ UNCHANGED rows \/ \E s, q : UpdateStatus(task[w].job, s, q)
        /\ UNCHANGED generated \/ CountText(task[w].job)
    BY <1>2 DEF Start, Generate, Complete, OnFailure
  <2> QED BY <2>2, <2>4, <2>5, OtherJob
<1> QED BY <1>1, <1>2 DEF WorkerStep

\* A step changes at most one job, and that as JobStep says.
LEMMA OneJobMoves ==
  ASSUME TypeOK, TextExists, [Next]_vars
  PROVE  \/ UNCHANGED <<rows, generated>>
         \/ \E i \in Jobs : JobStep(i) /\ \A j \in Jobs \ {i} : JobStays(j)
<1>1. ASSUME NEW w \in Workers, WorkerCrash(w) \/ Redeliver(w) \/ ChildKilled(w)
      PROVE  UNCHANGED <<rows, generated>>
  BY <1>1 DEF WorkerCrash, Redeliver, ChildKilled
<1>2. ApiCrash \/ Done \/ UNCHANGED vars => UNCHANGED <<rows, generated>>
  BY DEF ApiCrash, Done, vars
<1> QED BY <1>1, <1>2, HandlerJobStep, WorkerJobStep DEF Next

\* What the promise to the caller rests on.
PromiseInv == CountInv /\ QueueInv /\ TextExists

LEMMA PromiseInvariant == Spec => []PromiseInv
<1>1. Init => PromiseInv
  BY CountInit, InvInit DEF PromiseInv, Init, TextExists
<1>2. PromiseInv /\ [Next]_vars => PromiseInv'
  BY CountStep, InvStep, TextExistsStep DEF PromiseInv, QueueInv
<1> QED BY <1>1, <1>2, PTL DEF Spec

\* A settled row is final as long as no fault makes the job run again: of all
\* who still work on the job nobody can write its row (content.py:_update_status,
\* tasks.py:on_failure).
THEOREM SettledIsFinal == Spec => SettledRowIsStable
<1> DEFINE Stable == \A j \in Jobs :
      rows[j].status \in Settled /\ repeats'[j] = 0 => rows'[j] = rows[j]
<1>1. ASSUME PromiseInv, [Next]_vars PROVE Stable
  <2> SUFFICES ASSUME NEW j \in Jobs, rows[j].status \in Settled, repeats'[j] = 0
               PROVE  rows'[j] = rows[j]
    OBVIOUS
  <2>1. TypeOK /\ TextExists /\ CountInv
    BY <1>1 DEF PromiseInv, CountInv
  <2>2. ~ MayWrite(j) /\ ~ MayGenerate(j)
    BY <1>1, <2>1, RepeatsGrow, OneAuthor
  <2>3. JobStep(j) => rows'[j] = rows[j]
    BY <2>2 DEF JobStep, JobStays, JobWritten
  <2>4. JobStays(j) => rows'[j] = rows[j]
    BY DEF JobStays
  <2> QED BY <1>1, <2>1, <2>3, <2>4, OneJobMoves
<1>2. PromiseInv /\ [Next]_vars => [Stable]_vars
  BY <1>1
<1> QED BY <1>2, PromiseInvariant, PTL DEF Spec, SettledRowIsStable

-----------------------------------------------------------------------------
(* The promise of ContentJob.                                              *)

\* A request that has not inserted its row finds none.
Unposted ==
  \A j \in Jobs :
    handler[j] \in {"new", "sync_generate", "sync_metrics", "sync_persist"}
      => rows[j].status = "absent"

LEMMA UnpostedStep ==
  ASSUME TypeOK, TextExists, Unposted, [Next]_vars
  PROVE  Unposted'
<1> DEFINE Early == {"new", "sync_generate", "sync_metrics", "sync_persist"}
<1> SUFFICES ASSUME NEW j \in Jobs, handler'[j] \in Early
             PROVE  rows'[j].status = "absent"
  BY DEF Unposted
<1>1. ASSUME NEW i \in Jobs, RequestStep(i) \/ BackgroundStep(i) \/ BlockingStep(i)
      PROVE  handler[j] \in Early /\ rows'[j] = rows[j]
  <2>1. /\ handler[j] \in Early
        /\ i = j => rows'[j] = rows[j]
    BY <1>1
    DEF RequestStep, BackgroundStep, BlockingStep,
        Post, PostSync, Enqueue, FallBack, FallBackAfterPublish,
        BgStart, BgGenerate, BgComplete, BgMetrics, BgFail,
        SyncGenerate, SyncMetrics, SyncPersist, SyncComplete, GoTo, TypeOK
  <2>2. i # j => rows'[j] = rows[j]
    BY <1>1, HandlerJobStep DEF JobStays
  <2> QED BY <2>1, <2>2
<1>2. ASSUME NEW w \in Workers,
             WorkerStep(w) \/ WorkerCrash(w) \/ Redeliver(w) \/ ChildKilled(w)
      PROVE  handler' = handler /\ (rows' = rows \/ \E i, s, q : UpdateStatus(i, s, q))
  BY <1>2
  DEF WorkerStep, Receive, Start, Generate, Complete, RecordMetrics, PublishRetry,
      OnFailure, Acknowledge, WorkerCrash, Redeliver, ChildKilled
<1>3. ASSUME NEW i, NEW s, NEW q, UpdateStatus(i, s, q), rows[j].status = "absent"
      PROVE  rows'[j] = rows[j]
  BY <1>3 DEF UpdateStatus, UpdatedRow, TypeOK
<1>4. ApiCrash \/ Done \/ UNCHANGED vars => handler[j] \in Early /\ rows' = rows
  BY DEF ApiCrash, Done, vars, TypeOK
<1> QED BY <1>1, <1>2, <1>3, <1>4 DEF Next, Unposted

\* As long as no fault repeats its work, a job does what the promise allows.
LEMMA JobKeepsPromise ==
  ASSUME PromiseInv, Unposted, [Next]_vars, NEW i \in Jobs, repeats'[i] = 0,
         JobStep(i), \A j \in Jobs \ {i} : JobStays(j)
  PROVE  [Promise!Next]_(Promise!vars)
<1> DEFINE status == [j \in Jobs |-> rows[j].status]
<1>0. TypeOK /\ TypeOK' /\ TextExists /\ CountInv /\ repeats[i] = 0
  BY TypeStep, RepeatsGrow DEF PromiseInv, CountInv
<1>1. /\ generated[i] \in {0, 1} /\ rows[i].status \in Statuses
      /\ MayGenerate(i) => generated[i] = 0 /\ MayWrite(i)
      /\ MayWrite(i) => rows[i].status \notin Settled
  BY <1>0, OneAuthor DEF TypeOK, Rows
<1>2. status' = [status EXCEPT ![i] = rows'[i].status] /\ status[i] = rows[i].status
  BY <1>0 DEF JobStays
<1>3. generated' = [generated EXCEPT ![i] = generated'[i]]
  BY <1>0 DEF JobStays, TypeOK
<1>4. ASSUME rows'[i].status = rows[i].status, generated'[i] = generated[i]
      PROVE  UNCHANGED Promise!vars
  <2>1. \A j \in Jobs : rows'[j].status = rows[j].status /\ generated'[j] = generated[j]
    BY <1>4 DEF JobStays
  <2>2. status' = status
    BY <2>1
  <2>3. generated' = generated
    BY <1>0, <2>1 DEF TypeOK
  <2> QED BY <2>2, <2>3 DEF Promise!vars
<1>5. CASE JobStays(i)
  BY <1>4, <1>5 DEF JobStays
<1>6. CASE /\ PersistPending(i) /\ handler[i] \in {"new", "sync_persist"}
           /\ generated' = generated
  <2>1. CASE rows' = rows
    BY <1>4, <1>6, <2>1
  <2>2. CASE rows'[i].status = "pending"
    <3>1. rows[i].status = "absent"
      BY <1>6 DEF Unposted
    <3>2. Promise!Submit(i)
      BY <1>2, <1>6, <2>2, <3>1 DEF Promise!Submit, Promise!Move
    <3> QED BY <3>2 DEF Promise!Next
  <2> QED BY <1>0, <1>6, <2>1, <2>2 DEF PersistPending, TypeOK
<1>7. CASE JobWritten(i, "processing", "none")
  <2>1. CASE rows[i].status = "pending" /\ rows'[i].status = "processing"
    <3>1. Promise!Begin(i)
      BY <1>2, <1>7, <2>1 DEF JobWritten, Promise!Begin, Promise!Move
    <3> QED BY <3>1 DEF Promise!Next
  <2>2. CASE rows'[i].status = rows[i].status
    BY <1>4, <1>7, <2>2 DEF JobWritten
  <2> QED
    BY <1>0, <1>1, <1>7, <2>1, <2>2
    DEF JobWritten, UpdateStatus, UpdatedRow, TypeOK, Statuses
<1>8. CASE rows' = rows /\ CountText(i) /\ MayGenerate(i)
  <2>1. Promise!Generate(i)
    BY <1>0, <1>1, <1>2, <1>8
    DEF CountText, TypeOK, Promise!Generate, Promise!Settled, Settled
  <2> QED BY <2>1 DEF Promise!Next
<1>9. CASE JobWritten(i, "completed", "result") /\ generated[i] > 0
  <2>1. CASE rows[i].status \in {"pending", "processing"} /\ rows'[i].status = "completed"
    <3>1. Promise!Complete(i)
      BY <1>1, <1>2, <1>9, <2>1 DEF JobWritten, Promise!Complete, Promise!Move
    <3> QED BY <3>1 DEF Promise!Next
  <2>2. CASE rows'[i].status = rows[i].status
    BY <1>4, <1>9, <2>2 DEF JobWritten
  <2> QED
    BY <1>0, <1>1, <1>9, <2>1, <2>2
    DEF JobWritten, UpdateStatus, UpdatedRow, TypeOK, Statuses
<1>10. CASE JobWritten(i, "failed", "error")
  <2>1. CASE rows[i].status \in {"pending", "processing"} /\ rows'[i].status = "failed"
    <3>1. Promise!Fail(i)
      BY <1>1, <1>2, <1>10, <2>1 DEF JobWritten, Promise!Fail, Promise!Move
    <3> QED BY <3>1 DEF Promise!Next
  <2>2. CASE rows'[i].status = rows[i].status
    BY <1>4, <1>10, <2>2 DEF JobWritten
  <2> QED
    BY <1>0, <1>1, <1>10, <2>1, <2>2
    DEF JobWritten, UpdateStatus, UpdatedRow, TypeOK, Statuses
<1> QED BY <1>5, <1>6, <1>7, <1>8, <1>9, <1>10 DEF JobStep

\* No fault that makes a job run again.
NothingRepeats ==
  \A k \in {"ambiguous", "redeliver", "crash", "metrics"} : FaultBudget[k] = 0

LEMMA NoRepeat ==
  ASSUME NothingRepeats, TypeOK, BudgetFalls, [Next]_vars
  PROVE  UNCHANGED repeats
<1>1. ASSUME NEW k \in {"ambiguous", "redeliver", "crash", "metrics"} PROVE ~ Spend(k)
  BY <1>1 DEF NothingRepeats, BudgetFalls, FaultKinds, TypeOK, Spend
<1>2. \A k \in {"ambiguous", "redeliver", "crash", "metrics"} : \A i : ~ SpendOnRepeat(k, i)
  BY <1>1 DEF SpendOnRepeat
<1>3. ASSUME NEW i \in Jobs, RequestStep(i) \/ BackgroundStep(i) \/ BlockingStep(i)
      PROVE  UNCHANGED repeats
  BY <1>2, <1>3
  DEF RequestStep, BackgroundStep, BlockingStep,
      Post, PostSync, Enqueue, FallBack, FallBackAfterPublish,
      BgStart, BgGenerate, BgComplete, BgMetrics, BgFail,
      SyncGenerate, SyncMetrics, SyncPersist, SyncComplete, NoFault
<1>4. ASSUME NEW w \in Workers,
             WorkerStep(w) \/ WorkerCrash(w) \/ Redeliver(w) \/ ChildKilled(w)
      PROVE  UNCHANGED repeats
  BY <1>2, <1>4
  DEF WorkerStep, Receive, Start, Generate, Complete, RecordMetrics, PublishRetry,
      OnFailure, Acknowledge, WorkerCrash, Redeliver, ChildKilled, NoFault
<1>5. ApiCrash \/ Done \/ UNCHANGED vars => UNCHANGED repeats
  BY DEF ApiCrash, Done, vars
<1> QED BY <1>3, <1>4, <1>5 DEF Next

\* The queue, its broker and its workers, their retries and every fault that
\* only loses things, implement the promise made by POST /content/generate: a
\* status that moves forward, one text, and an outcome that stays.
THEOREM PromiseKept ==
  ASSUME NothingRepeats
  PROVE  Spec => KeepsPromise
<1> DEFINE KeptInv == PromiseInv /\ Unposted /\ \A j \in Jobs : repeats[j] = 0
<1>1. Init => KeptInv /\ Promise!Init
  <2>1. Init => Promise!Init
    BY DEF Init, Promise!Init
  <2>2. Init => Unposted /\ \A j \in Jobs : repeats[j] = 0
    BY DEF Init, Unposted
  <2>3. Init => PromiseInv
    BY CountInit, InvInit DEF PromiseInv, Init, TextExists
  <2> QED BY <2>1, <2>2, <2>3
<1>2. ASSUME KeptInv, [Next]_vars PROVE KeptInv' /\ [Promise!Next]_(Promise!vars)
  <2>1. TypeOK /\ TextExists /\ BudgetFalls
    BY <1>2 DEF PromiseInv, QueueInv
  <2>2. UNCHANGED repeats
    BY <1>2, <2>1, NoRepeat
  <2>3. PromiseInv'
    BY <1>2, CountStep, InvStep, TextExistsStep DEF PromiseInv, QueueInv
  <2>4. Unposted'
    BY <1>2, <2>1, UnpostedStep
  <2>5. ASSUME UNCHANGED <<rows, generated>> PROVE [Promise!Next]_(Promise!vars)
    BY <2>5 DEF Promise!vars
  <2>6. ASSUME NEW i \in Jobs, JobStep(i), \A j \in Jobs \ {i} : JobStays(j)
        PROVE  [Promise!Next]_(Promise!vars)
    BY <1>2, <2>2, <2>6, JobKeepsPromise
  <2> QED BY <1>2, <2>1, <2>2, <2>3, <2>4, <2>5, <2>6, OneJobMoves
<1> HIDE DEF KeptInv
<1> QED BY <1>1, <1>2, PTL DEF Spec, KeepsPromise, Promise!Spec
=============================================================================
