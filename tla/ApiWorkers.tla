----------------------------- MODULE ApiWorkers -----------------------------
(***************************************************************************)
(* The worker processes of the API and the files their metrics are in.     *)
(* Gunicorn's master forks the workers; each of them builds its middleware *)
(* stack, which opens the worker's metric files, then runs the lifespan    *)
(* startup of the application, then serves requests.  /metrics adds up the *)
(* files it finds in the directory all workers share, whichever worker     *)
(* answers.  A container that is killed leaves its files for the next.      *)
(*                                                                         *)
(* A file that is removed while its worker lives is written to, and not    *)
(* seen, until the worker ends: prometheus_client maps a file once.  One   *)
(* file of a worker stands for its live gauges, one for its counters.      *)
(***************************************************************************)
EXTENDS Integers, FiniteSets

CONSTANTS
  Pids,        \* process ids of workers; none is used twice
  MaxServing,  \* bound: requests a worker serves at a time
  MaxServed    \* bound: requests a worker counts

ASSUME WorkersAssumption ==
  IsFiniteSet(Pids) /\ MaxServing \in Nat \ {0} /\ MaxServed \in Nat \ {0}

VARIABLES
  master,   \* "down" or "up"
  phase,    \* [Pids -> Phases]: how far a worker is
  gauge,    \* [Pids -> FileStates]: gauge_livesum_<pid>.db
  counter,  \* [Pids -> FileStates]: counter_<pid>.db
  serving,  \* [Pids -> Nat]: iigp_http_requests_in_progress of a worker
  served    \* [Pids -> Nat]: its iigp_http_requests_total

files == <<gauge, counter>>
workersVars == <<master, phase, files, serving, served>>

\* "gone": the master has seen to its exit; "old": of a server that was killed.
Phases == {"none", "forked", "built", "up", "dead", "gone", "old"}
Alive == {"forked", "built", "up"}
FileStates == {"none", "seen", "removed"}

WorkersTypeOK ==
  /\ master \in {"down", "up"}
  /\ phase \in [Pids -> Phases]
  /\ gauge \in [Pids -> FileStates] /\ counter \in [Pids -> FileStates]
  /\ serving \in [Pids -> 0..MaxServing] /\ served \in [Pids -> 0..MaxServed]
  /\ \A p \in Pids :
       /\ phase[p] \in Alive => master = "up"
       /\ serving[p] > 0 => phase[p] \in {"up", "dead", "gone", "old"}
       /\ counter[p] = "none" => served[p] = 0

WorkersInit ==
  /\ master = "down"
  /\ phase = [p \in Pids |-> "none"]
  /\ gauge = [p \in Pids |-> "none"]
  /\ counter = [p \in Pids |-> "none"]
  /\ serving = [p \in Pids |-> 0]
  /\ served = [p \in Pids |-> 0]

-----------------------------------------------------------------------------
(* The files.                                                              *)

\* setup() creates the gauges without labels, and so their file, at once;
\* counters have labels and get theirs with the first sample.
Opened(file) == IF file = "none" THEN "seen" ELSE file

Removed(file) == IF file = "seen" THEN "removed" ELSE file

\* cleanup_multiprocess_dir() removes every file there is.
CleanUp ==
  /\ gauge' = [p \in Pids |-> Removed(gauge[p])]
  /\ counter' = [p \in Pids |-> Removed(counter[p])]

-----------------------------------------------------------------------------
(* The master and the startup of a worker.                                 *)

\* Mutation: the files of the last server stay.
OnStartingKeepsFiles ==
  /\ master = "down"
  /\ master' = "up"
  /\ UNCHANGED <<phase, files, serving, served>>

OnStarting ==
  /\ master = "down"
  /\ master' = "up"
  /\ CleanUp
  /\ UNCHANGED <<phase, serving, served>>

Fork(p) ==
  /\ master = "up" /\ phase[p] = "none"
  /\ phase' = [phase EXCEPT ![p] = "forked"]
  /\ UNCHANGED <<master, files, serving, served>>

\* The first message of the worker builds the stack: PrometheusMiddleware.
BuildStack(p) ==
  /\ phase[p] = "forked"
  /\ phase' = [phase EXCEPT ![p] = "built"]
  /\ gauge' = [gauge EXCEPT ![p] = Opened(@)]
  /\ UNCHANGED <<master, counter, serving, served>>

\* That message is the lifespan startup, which cleans up in every worker.
Lifespan(p) ==
  /\ phase[p] = "built"
  /\ phase' = [phase EXCEPT ![p] = "up"]
  /\ CleanUp
  /\ UNCHANGED <<master, serving, served>>

-----------------------------------------------------------------------------
(* Requests.  The middleware is the outermost: it counts a request that is *)
(* refused for want of a key, and one that raises.                         *)

Begin(p) ==
  /\ phase[p] = "up" /\ serving[p] < MaxServing
  /\ serving' = [serving EXCEPT ![p] = @ + 1]
  /\ UNCHANGED <<master, phase, files, served>>

End(p) ==
  /\ phase[p] = "up" /\ serving[p] > 0 /\ served[p] < MaxServed
  /\ serving' = [serving EXCEPT ![p] = @ - 1]
  /\ served' = [served EXCEPT ![p] = @ + 1]
  /\ counter' = [counter EXCEPT ![p] = Opened(@)]
  /\ UNCHANGED <<master, phase, gauge>>

-----------------------------------------------------------------------------
(* The end of a worker, and of all of them.                                *)

Die(p) ==
  /\ phase[p] \in Alive
  /\ phase' = [phase EXCEPT ![p] = "dead"]
  /\ UNCHANGED <<master, files, serving, served>>

\* mark_process_dead() removes the live gauges of the process.
ChildExit(p) ==
  /\ master = "up" /\ phase[p] = "dead"
  /\ phase' = [phase EXCEPT ![p] = "gone"]
  /\ gauge' = [gauge EXCEPT ![p] = Removed(@)]
  /\ UNCHANGED <<master, counter, serving, served>>

\* The container is killed: no hook runs.
Kill ==
  /\ master = "up"
  /\ master' = "down"
  /\ phase' = [p \in Pids |-> IF phase[p] = "none" THEN "none" ELSE "old"]
  /\ UNCHANGED <<files, serving, served>>

WorkersNext ==
  \/ OnStarting \/ Kill
  \/ \E p \in Pids :
       \/ Fork(p) \/ BuildStack(p) \/ Lifespan(p)
       \/ Begin(p) \/ End(p)
       \/ Die(p) \/ ChildExit(p)

WorkersSpec == WorkersInit /\ [][WorkersNext]_workersVars

-----------------------------------------------------------------------------
(* Correctness.                                                            *)

\* What /metrics adds up for a worker.
Shown(p) ==
  [inProgress |-> IF gauge[p] = "seen" THEN serving[p] ELSE 0,
   total      |-> IF counter[p] = "seen" THEN served[p] ELSE 0]

Nothing == [inProgress |-> 0, total |-> 0]

\* A server shows nothing of the one before it, whenever that one was killed:
\* neither what its workers counted nor what they were serving
\* (gunicorn.conf.py:41-54, metrics.py:389-410).
OldCountsAreForgotten ==
  master = "up" => \A p \in Pids : phase[p] = "old" => Shown(p) = Nothing

\* /metrics adds up what every worker serves and has served: the cleanup "is
\* performed ONCE in the master" and "before collectors are created"
\* (main.py:57-61), so that it does not "erase siblings' live metrics"
\* (gunicorn.conf.py:12-14).
AllWorkersAreShown ==
  master = "up" => \A p \in Pids :
    phase[p] = "up" => Shown(p) = [inProgress |-> serving[p], total |-> served[p]]

\* /metrics "stops counting a gone worker" (gunicorn.conf.py:15-17), its
\* "gauges/counters" alike (:60-62).
GoneWorkersAreNotCounted ==
  master = "up" => \A p \in Pids : phase[p] = "gone" => Shown(p) = Nothing
=============================================================================
