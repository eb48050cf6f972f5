------------------------------ MODULE JobStatus ------------------------------
(***************************************************************************)
(* The vocabulary the rest of the project shares: the three statuses a     *)
(* meeting job carries, each kept by a different writer, and the pure      *)
(* functions that change them.                                             *)
(*   job_queue.status        where the job is in the queue table           *)
(*   execution.status        what the executor says of its current run     *)
(*   jobs.state              what the user sees of the job                  *)
(***************************************************************************)

\* job_queue.status; NoEntry is a job that has no row in the table.
NoEntry == "none"
EntryTerminal == {"done", "cancelled", "failed"}
EntryStatus == {"waiting", "paused", "running"} \cup EntryTerminal

\* extra_data.execution: its status, and the cancel_requested flag beside it.
ExecActive == {"queued", "running", "waiting_vram"}
ExecTerminal == {"completed", "failed", "cancelled"}
Execution == [status: {"none"} \cup ExecActive \cup ExecTerminal, cancel: BOOLEAN]
NoExecution == [status |-> "none", cancel |-> FALSE]

(***************************************************************************)
(* jobs.state, the twenty states of the source grouped by what the guards  *)
(* below tell apart: "prepared" stands for the states from which the       *)
(* chosen profile may be started (lexicon_done and the wizard's other      *)
(* validated steps), "ready" is ready_to_process, "working" the states the *)
(* pipeline sets while it runs (transcribing ... quality_checking) and     *)
(* "checked" those it sets at its end (quality_checked, export_ready).     *)
(***************************************************************************)
JobState == {"prepared", "ready", "working", "checked", "completed", "failed", "cancelled"}

\* can_start_profile: the states a processing request is accepted from.  The retry
\* states are accepted as such, and the others because their wizard steps are done,
\* a completed job's included.
Startable == JobState
\* _REPROCESSABLE_STATES: the states a reprocess request is accepted from.
Reprocessable == {"checked", "completed", "failed", "cancelled"}

\* jobs/transitions.py: refusal_reason(current, target) is None.
TerminalState == {"completed", "cancelled"}
FromTerminal == {"cancelled", "failed"}
Allowed(current, target) ==
  current = target \/ current \notin TerminalState \/ target \in FromTerminal

\* Mutant: starting a run forgets what was asked of it while it waited.
MarkStartedAfresh(x) == [status |-> "running", cancel |-> FALSE]

\* workflow/transitions.py: each operator is one merge into the execution block.
MarkQueued(x) == [x EXCEPT !.status = "queued", !.cancel = FALSE]
MarkStarted(x) == [x EXCEPT !.status = "running"]
MarkCompleted(x) == [x EXCEPT !.status = "completed", !.cancel = FALSE]
MarkFailed(x) == [x EXCEPT !.status = "failed"]
MarkWaitingVram(x) == [x EXCEPT !.status = "waiting_vram"]
MarkCancelled(x) == [x EXCEPT !.status = "cancelled", !.cancel = FALSE]
RequestCancel(x) == [x EXCEPT !.cancel = TRUE]
=============================================================================
