----------------------------- MODULE ContentJob -----------------------------
(***************************************************************************)
(* What POST /content/generate promises its caller, without queue, broker, *)
(* workers or retries: a job's row is written once, its visible status     *)
(* only moves forward, a completed row carries the one text generated for  *)
(* it, and a settled row never changes again.  A row may be skipped over   *)
(* or never appear: every database write of the service is fire-and-forget *)
(* (api/routes/content.py:18-19).                                          *)
(***************************************************************************)
EXTENDS Naturals

CONSTANT Jobs   \* the accepted generation requests

VARIABLES
  status,      \* [Jobs -> the status column GET /content/status reports]
  generated    \* [Jobs -> how many texts were generated for the job]

vars == <<status, generated>>

Settled == {"completed", "failed"}
Statuses == {"absent", "pending", "processing"} \cup Settled

Init ==
  /\ status = [j \in Jobs |-> "absent"]
  /\ generated = [j \in Jobs |-> 0]

\* The status column moves from one of `from` to `to`.
Move(j, from, to) ==
  /\ status[j] \in from
  /\ status' = [status EXCEPT ![j] = to]

Submit(j) ==
  /\ Move(j, {"absent"}, "pending")
  /\ UNCHANGED generated

Begin(j) ==
  /\ Move(j, {"pending"}, "processing")
  /\ UNCHANGED generated

\* The text is generated at most once, and never for a settled row.
Generate(j) ==
  /\ status[j] \notin Settled
  /\ generated[j] = 0
  /\ generated' = [generated EXCEPT ![j] = 1]
  /\ UNCHANGED status

\* A completed row shows the text that was generated.
Complete(j) ==
  /\ generated[j] = 1
  /\ Move(j, {"pending", "processing"}, "completed")
  /\ UNCHANGED generated

\* A job fails without a text, or with one that could not be checked.
Fail(j) ==
  /\ Move(j, {"pending", "processing"}, "failed")
  /\ UNCHANGED generated

Next ==
  \E j \in Jobs :
    Submit(j) \/ Begin(j) \/ Generate(j) \/ Complete(j) \/ Fail(j)

Spec == Init /\ [][Next]_vars

=============================================================================
