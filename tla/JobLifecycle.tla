---------------------------- MODULE JobLifecycle ----------------------------
(***************************************************************************)
(* What the queue and the executor promise of a job to whoever follows it: *)
(* it is submitted when nothing of it is active, given one slot under the  *)
(* limit of the moment, run once, and its slot is given back before its    *)
(* outcome is shown.  JobExecution implements it.                          *)
(***************************************************************************)
EXTENDS Integers, FiniteSets

CONSTANTS
  Jobs,
  Limits     \* how many jobs may be processed at once, depending on the hour

VARIABLES
  status,    \* job -> the status of its execution
  slots      \* the jobs that are processed

vars == <<status, slots>>

Waiting == {"queued", "waiting_vram"}
Ended   == {"completed", "failed", "cancelled"}

Init == status = [j \in Jobs |-> "none"] /\ slots = {}

Submit(j) ==
  /\ status[j] \in {"none"} \cup Ended /\ j \notin slots
  /\ status' = [status EXCEPT ![j] = "queued"]
  /\ UNCHANGED slots

Claim(j) ==
  /\ status[j] \in Waiting /\ j \notin slots
  /\ \E limit \in Limits : Cardinality(slots) < limit
  /\ slots' = slots \cup {j}
  /\ UNCHANGED status

Start(j) ==
  /\ status[j] \in Waiting /\ j \in slots
  /\ status' = [status EXCEPT ![j] = "running"]
  /\ UNCHANGED slots

Release(j) ==
  /\ status[j] = "running" /\ j \in slots
  /\ slots' = slots \ {j}
  /\ UNCHANGED status

\* An outcome, or another wait.
Conclude(j) ==
  /\ status[j] = "running" /\ j \notin slots
  /\ \E s \in Waiting \cup Ended : status' = [status EXCEPT ![j] = s]
  /\ UNCHANGED slots

Next == \E j \in Jobs : Submit(j) \/ Claim(j) \/ Start(j) \/ Release(j) \/ Conclude(j)

Spec == Init /\ [][Next]_vars
=============================================================================
