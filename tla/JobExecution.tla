---------------------------- MODULE JobExecution ----------------------------
(***************************************************************************)
(* The life of a meeting job between the web routes, the queue dispatcher, *)
(* the worker threads and a restart of the service.                        *)
(*                                                                         *)
(* Three statuses are kept of one job, in three columns that four kinds of *)
(* actors write without a common lock: the row of job_queue (entry, due),  *)
(* extra_data.execution (exec) and jobs.state (state).  Every action below *)
(* is one committed transaction, or one in-memory step, of one actor; the  *)
(* interleavings between them are those the deployed processes have.       *)
(***************************************************************************)
EXTENDS JobStatus, Integers, FiniteSets

CONSTANTS
  Jobs,         \* the jobs of the installation
  NoJob,        \* what an idle thread works on
  Handlers,     \* the HTTP threads that may serve a request at one time
  MaxWorkers,   \* workflow.execution.max_concurrent_jobs
  Calendar,     \* the capacities the scheduling windows may impose
  Kinds,        \* the requests users make in this instance
  Waits,        \* the transient outcomes the pipeline may meet
  Prompt,       \* does no claim fall between the two writes of a submission?
  Overlaps,     \* may a commit fall between the read and the write of an update_state?
  Planned,      \* may api_process be given a later scheduled_at?
  AudioLoss,    \* may the original audio disappear while a job waits?
  MaxCrashes    \* how often the scheduler process is killed

ASSUME JobsAssumption == IsFiniteSet(Jobs)
ASSUME NoJobAssumption == NoJob \notin Jobs
ASSUME WorkersAssumption == MaxWorkers \in Nat \ {0}
ASSUME CalendarAssumption == Calendar \subseteq 0..MaxWorkers
ASSUME KindsAssumption ==
  Kinds \subseteq {"process", "reprocess", "cancel", "queue_cancel", "pause", "resume"}
ASSUME WaitsAssumption == Waits \subseteq {"deferred", "waiting_vram"}
ASSUME SwitchesAssumption == {Prompt, Overlaps, Planned, AudioLoss} \subseteq BOOLEAN
ASSUME CrashesAssumption == MaxCrashes \in Nat

VARIABLES
  entry,     \* job -> job_queue.status, or NoEntry
  due,       \* job -> scheduled_at is null or past
  exec,      \* job -> the extra_data.execution block
  state,     \* job -> jobs.state
  corrected, \* job -> metadata/transcription_corrigee.srt exists
  audio,     \* job -> the original audio can be found or materialized
  wpc, wout, \* job -> where its worker thread is, and the outcome it carries
  wblock,    \* job -> the execution block its thread read and will write back
  tracked,   \* QueueScheduler._running
  disp,      \* the dispatcher thread
  hand,      \* handler -> the request it serves
  todo, rec, \* the reconciliation of a restart: jobs left, and the one in hand
  crashes,   \* restarts so far, at most MaxCrashes
  revived    \* history: the jobs whose ended run an update_state wrote back as running

tables == <<entry, due, exec, state>>
files == <<corrected, audio>>
workers == <<wpc, wout, wblock, tracked>>
restart == <<todo, rec, crashes>>
vars == <<tables, files, workers, disp, hand, restart, revived>>

Outcomes == {"success", "failed", "cancelled"} \cup Waits
WorkerSteps == {"none", "submitted", "mark", "load", "begin", "pipeline",
                "failing", "queue", "exec", "state", "write", "finish"}
HandlerSteps == {"idle", "lookup", "enqueue", "queued", "ready",
                 "decide", "dequeue", "cancelled", "state", "write", "pause", "resume"}

Idle == [pc |-> "idle", kind |-> "none", job |-> NoJob, seen |-> NoEntry,
         block |-> NoExecution]
DispIdle == [pc |-> "idle", job |-> NoJob, cand |-> {},
             budget |-> 0, drop |-> NoEntry]
RecIdle == [pc |-> "idle", job |-> NoJob, ok |-> FALSE, block |-> NoExecution]

TypeOK ==
  /\ entry \in [Jobs -> EntryStatus \cup {NoEntry}]
  /\ due \in [Jobs -> BOOLEAN]
  /\ exec \in [Jobs -> Execution]
  /\ state \in [Jobs -> JobState]
  /\ corrected \in [Jobs -> BOOLEAN]
  /\ audio \in [Jobs -> BOOLEAN]
  /\ wpc \in [Jobs -> WorkerSteps]
  /\ wout \in [Jobs -> Outcomes \cup {"none"}]
  /\ wblock \in [Jobs -> Execution]
  /\ tracked \in SUBSET Jobs
  /\ disp \in [pc: {"idle", "fetch", "scan", "drop", "claim", "submit"}, job: Jobs \cup {NoJob},
               cand: SUBSET Jobs, budget: 0..MaxWorkers, drop: EntryStatus \cup {NoEntry}]
  /\ disp.pc \in {"drop", "claim", "submit"} => disp.job \in Jobs
  /\ hand \in [Handlers -> [pc: HandlerSteps, kind: Kinds \cup {"none"},
                            job: Jobs \cup {NoJob}, seen: EntryStatus \cup {NoEntry},
                            block: Execution]]
  /\ \A h \in Handlers : hand[h].pc # "idle" => hand[h].job \in Jobs
  /\ todo \in SUBSET Jobs
  /\ rec \in [pc: {"idle", "exec", "state", "write"}, job: Jobs \cup {NoJob}, ok: BOOLEAN,
             block: Execution]
  /\ rec.pc # "idle" => rec.job \in Jobs
  /\ crashes \in 0..MaxCrashes
  /\ revived \in SUBSET Jobs

Init ==
  /\ entry = [j \in Jobs |-> NoEntry]
  /\ due = [j \in Jobs |-> TRUE]
  /\ exec = [j \in Jobs |-> NoExecution]
  /\ state = [j \in Jobs |-> "prepared"]
  /\ corrected = [j \in Jobs |-> FALSE]
  /\ audio = [j \in Jobs |-> TRUE]
  /\ wpc = [j \in Jobs |-> "none"]
  /\ wout = [j \in Jobs |-> "none"]
  /\ wblock = [j \in Jobs |-> NoExecution]
  /\ tracked = {}
  /\ disp = DispIdle
  /\ hand = [h \in Handlers |-> Idle]
  /\ todo = {}
  /\ rec = RecIdle
  /\ crashes = 0
  /\ revived = {}

-----------------------------------------------------------------------------
(* Web routes.  A request that the guards refuse changes nothing and is not *)
(* an action.                                                               *)

\* History: a run that had ended is shown as running again by the block written back.
Revive(j, block) ==
  revived' = IF block.status = "running" /\ exec[j].status # "running"
             THEN revived \cup {j} ELSE revived

Goto(h, step) == hand' = [hand EXCEPT ![h].pc = step]
Answer(h) == hand' = [hand EXCEPT ![h] = Idle]

\* Mutant: the route forgets to ask whether an execution is active.
AcceptsActive(kind, j) ==
  audio[j] /\ state[j] \in (IF kind = "process" THEN Startable ELSE Reprocessable)

\* The guards api_process and api_reprocess evaluate on the row they loaded.
Accepts(kind, j) ==
  /\ audio[j]
  /\ exec[j].status \notin ExecActive
  /\ state[j] \in (IF kind = "process" THEN Startable ELSE Reprocessable)

FirstStep(kind) ==
  IF kind \in {"process", "reprocess"} THEN "lookup"
  ELSE IF kind \in {"cancel", "queue_cancel"} THEN "decide" ELSE kind

\* A request arrives.  A cancellation first commits cancel_requested, and mode=cancel
\* is refused without audio as any processing is; a pause or a resume first reads
\* the entry it will overwrite.
Receive(h, kind, j) ==
  /\ hand[h].pc = "idle"
  /\ kind \in {"process", "reprocess"} => Accepts(kind, j)
  /\ kind = "cancel" => audio[j]
  /\ kind = "pause" => entry[j] \notin {NoEntry, "running"}
  /\ kind = "resume" => entry[j] = "paused"
  /\ hand' = [hand EXCEPT ![h] = [pc |-> FirstStep(kind), kind |-> kind, job |-> j,
                                  seen |-> NoEntry, block |-> NoExecution]]
  /\ exec' = IF kind \in {"cancel", "queue_cancel"}
             THEN [exec EXCEPT ![j] = RequestCancel(@)] ELSE exec
  /\ UNCHANGED <<entry, due, state, files, workers, disp, restart, revived>>

\* submit_process: an entry that is already active refuses the request.  The row
\* read here is the one _refresh_entry later decides on (same session, no commit
\* in between).
Lookup(h) ==
  LET j == hand[h].job IN
  /\ hand[h].pc = "lookup"
  /\ IF entry[j] \in {"waiting", "paused", "running"}
     THEN Answer(h)
     ELSE hand' = [hand EXCEPT ![h].pc = "enqueue", ![h].seen = entry[j]]
  /\ UNCHANGED <<tables, files, workers, disp, restart, revived>>

\* QueueStore.enqueue: insert, or revive an entry seen terminal.  When a concurrent
\* insert won, the row is read again and only revived if it is terminal.  Its
\* scheduled_at is overwritten either way.
Enqueue(h) ==
  LET j == hand[h].job
      keeps == hand[h].seen = NoEntry /\ entry[j] \notin {NoEntry} \cup EntryTerminal
  IN
  /\ hand[h].pc = "enqueue"
  /\ entry' = [entry EXCEPT ![j] = IF keeps THEN @ ELSE "waiting"]
  /\ \E now \in IF Planned /\ hand[h].kind = "process" THEN BOOLEAN ELSE {TRUE} :
       due' = [due EXCEPT ![j] = now]
  /\ hand' = [hand EXCEPT ![h].pc = "queued", ![h].seen = NoEntry]
  /\ UNCHANGED <<exec, state, files, workers, disp, restart, revived>>

\* submit_to_queue: the execution is marked queued after the entry is committed.
MarkAsQueued(h) ==
  LET j == hand[h].job IN
  /\ hand[h].pc = "queued"
  /\ exec' = [exec EXCEPT ![j] = MarkQueued(@)]
  /\ Goto(h, "ready")
  /\ UNCHANGED <<entry, due, state, files, workers, disp, restart, revived>>

\* Back in the route: the job is set ready_to_process.  api_process does so under
\* the transition rules (a refusal is an exception, the write is lost), and
\* api_reprocess with force=True.
MarkAsReady(h) ==
  LET j == hand[h].job IN
  /\ hand[h].pc = "ready"
  /\ state' = [state EXCEPT ![j] =
                 IF hand[h].kind = "reprocess" \/ Allowed(@, "ready") THEN "ready" ELSE @]
  /\ Answer(h)
  /\ UNCHANGED <<entry, due, exec, files, workers, disp, restart, revived>>

\* Mutant: an execution that is queued is left to the dispatcher as well.
CancelDecideLate(h) ==
  /\ hand[h].pc = "decide"
  /\ IF exec[hand[h].job].status \in ExecActive THEN Answer(h) ELSE Goto(h, "dequeue")
  /\ UNCHANGED <<tables, files, workers, disp, restart, revived>>

\* Both cancellation routes re-read the execution after their request: one lets
\* every active execution but a queued one finish by itself, the other only a
\* running one.
CancelDecide(h) ==
  LET x == exec[hand[h].job].status
      now == IF hand[h].kind = "cancel" THEN x \notin {"running", "waiting_vram"}
                                        ELSE x # "running"
  IN
  /\ hand[h].pc = "decide"
  /\ IF now THEN Goto(h, "dequeue") ELSE Answer(h)
  /\ UNCHANGED <<tables, files, workers, disp, restart, revived>>

CancelDequeue(h) ==
  LET j == hand[h].job IN
  /\ hand[h].pc = "dequeue"
  /\ entry' = [entry EXCEPT ![j] = IF @ = NoEntry THEN @ ELSE "cancelled"]
  /\ Goto(h, "cancelled")
  /\ UNCHANGED <<due, exec, state, files, workers, disp, restart, revived>>

CancelExecution(h) ==
  LET j == hand[h].job IN
  /\ hand[h].pc = "cancelled"
  /\ exec' = [exec EXCEPT ![j] = MarkCancelled(@)]
  /\ Goto(h, "state")
  /\ UNCHANGED <<entry, due, state, files, workers, disp, restart, revived>>

\* JobStore.update_state to failed or cancelled, here and below, reads the row, keeps
\* the state it had in extra_data, and writes state and the whole of extra_data with no
\* lock on the row: what others committed to the execution since is overwritten.  (The
\* other targets leave extra_data alone, and those two are never refused.)
CancelState(h) ==
  LET j == hand[h].job IN
  /\ hand[h].pc = "state"
  /\ IF Overlaps
     THEN /\ hand' = [hand EXCEPT ![h].pc = "write", ![h].block = exec[j]]
          /\ UNCHANGED state
     ELSE /\ state' = [state EXCEPT ![j] = "cancelled"]
          /\ Answer(h)
  /\ UNCHANGED <<entry, due, exec, files, workers, disp, restart, revived>>

CancelWriteBack(h) ==
  LET j == hand[h].job IN
  /\ hand[h].pc = "write"
  /\ state' = [state EXCEPT ![j] = "cancelled"]
  /\ exec' = [exec EXCEPT ![j] = hand[h].block]
  /\ Revive(j, hand[h].block)
  /\ Answer(h)
  /\ UNCHANGED <<entry, due, files, workers, disp, restart>>

\* QueueStore.pause and resume write over whatever the entry has become since
\* they read it.
PauseWrite(h) ==
  LET j == hand[h].job IN
  /\ hand[h].pc \in {"pause", "resume"}
  /\ entry' = [entry EXCEPT ![j] = IF hand[h].pc = "pause" THEN "paused" ELSE "waiting"]
  /\ Answer(h)
  /\ UNCHANGED <<due, exec, state, files, workers, disp, restart, revived>>

HandlerStep(h) ==
  \/ Lookup(h) \/ Enqueue(h) \/ MarkAsQueued(h) \/ MarkAsReady(h)
  \/ CancelDecide(h) \/ CancelDequeue(h) \/ CancelExecution(h) \/ CancelState(h)
  \/ CancelWriteBack(h) \/ PauseWrite(h)

-----------------------------------------------------------------------------
(* The dispatcher thread: one iteration counts, fetches, then walks the     *)
(* candidates in priority order, abstracted to any order.                   *)

RunningEntries == {j \in Jobs : entry[j] = "running"}
Cancelled(j) == state[j] = "cancelled" \/ exec[j].status = "cancelled" \/ exec[j].cancel

\* Mutant: the capacity forgets the entries that already run.
DispatchCountAll ==
  /\ disp.pc = "idle"
  /\ \E e \in Calendar : e > 0 /\ disp' = [disp EXCEPT !.pc = "fetch", !.budget = e]
  /\ UNCHANGED <<tables, files, workers, hand, restart, revived>>

DispatchCount ==
  /\ disp.pc = "idle"
  /\ \E e \in Calendar :
       LET capacity == e - Cardinality(RunningEntries) IN
       /\ capacity > 0
       /\ disp' = [disp EXCEPT !.pc = "fetch", !.budget = capacity]
  /\ UNCHANGED <<tables, files, workers, hand, restart, revived>>

\* get_next_candidates
DispatchFetch ==
  /\ disp.pc = "fetch"
  /\ disp' = [disp EXCEPT !.pc = "scan", !.cand = {j \in Jobs : entry[j] = "waiting" /\ due[j]}]
  /\ UNCHANGED <<tables, files, workers, hand, restart, revived>>

\* The candidate has a live thread already, or its resources are not available.
DispatchSkip(j) ==
  /\ disp.pc = "scan" /\ j \in disp.cand
  /\ j \in tracked \/ (~Cancelled(j) /\ audio[j])
  /\ disp' = [disp EXCEPT !.cand = @ \ {j}]
  /\ UNCHANGED <<tables, files, workers, hand, restart, revived>>

\* The candidate is withdrawn: cancelled meanwhile, or its audio is gone.
DispatchRefuse(j) ==
  /\ disp.pc = "scan" /\ j \in disp.cand \ tracked
  /\ Cancelled(j) \/ ~audio[j]
  /\ disp' = [disp EXCEPT !.pc = "drop", !.job = j, !.cand = @ \ {j},
                          !.drop = IF Cancelled(j) THEN "cancelled" ELSE "failed"]
  /\ UNCHANGED <<tables, files, workers, hand, restart, revived>>

DispatchDrop ==
  /\ disp.pc = "drop"
  /\ entry' = [entry EXCEPT ![disp.job] = disp.drop]
  /\ disp' = [disp EXCEPT !.pc = "scan"]
  /\ UNCHANGED <<due, exec, state, files, workers, hand, restart, revived>>

\* Mutants: the dispatcher does not look for a live thread, or at its capacity.
DispatchTakeTracked(j) ==
  /\ disp.pc = "scan" /\ j \in disp.cand
  /\ disp.budget > 0
  /\ ~Cancelled(j) /\ audio[j]
  /\ disp' = [disp EXCEPT !.pc = "claim", !.job = j, !.cand = @ \ {j}]
  /\ UNCHANGED <<tables, files, workers, hand, restart, revived>>
DispatchTakeAll(j) ==
  /\ disp.pc = "scan" /\ j \in disp.cand \ tracked
  /\ ~Cancelled(j) /\ audio[j]
  /\ disp' = [disp EXCEPT !.pc = "claim", !.job = j, !.cand = @ \ {j}]
  /\ UNCHANGED <<tables, files, workers, hand, restart, revived>>

DispatchTake(j) ==
  /\ disp.pc = "scan" /\ j \in disp.cand \ tracked
  /\ disp.budget > 0
  /\ ~Cancelled(j) /\ audio[j]
  /\ disp' = [disp EXCEPT !.pc = "claim", !.job = j, !.cand = @ \ {j}]
  /\ UNCHANGED <<tables, files, workers, hand, restart, revived>>

\* The entry of j is committed, its execution not yet marked queued.
HalfSubmitted(j) == \E h \in Handlers : hand[h].pc = "queued" /\ hand[h].job = j

\* QueueStore.claim: the atomic waiting -> running.
DispatchClaim ==
  /\ disp.pc = "claim"
  /\ Prompt => ~HalfSubmitted(disp.job)
  /\ IF entry[disp.job] = "waiting"
     THEN /\ entry' = [entry EXCEPT ![disp.job] = "running"]
          /\ disp' = [disp EXCEPT !.pc = "submit"]
     ELSE /\ disp' = [disp EXCEPT !.pc = "scan"]
          /\ UNCHANGED entry
  /\ UNCHANGED <<due, exec, state, files, workers, hand, restart, revived>>

DispatchSubmit ==
  /\ disp.pc = "submit"
  /\ wpc' = [wpc EXCEPT ![disp.job] = "submitted"]
  /\ tracked' = tracked \cup {disp.job}
  /\ disp' = [disp EXCEPT !.pc = "scan", !.budget = @ - 1]
  /\ UNCHANGED <<tables, files, wout, wblock, hand, restart, revived>>

DispatchEnd ==
  /\ disp.pc = "scan"
  /\ disp.cand = {} \/ disp.budget = 0
  /\ disp' = DispIdle
  /\ UNCHANGED <<tables, files, workers, hand, restart, revived>>

Dispatch ==
  \/ DispatchCount \/ DispatchFetch \/ DispatchDrop \/ DispatchClaim
  \/ DispatchSubmit \/ DispatchEnd
  \/ \E j \in Jobs : DispatchSkip(j) \/ DispatchRefuse(j) \/ DispatchTake(j)

-----------------------------------------------------------------------------
(* A worker thread: JobExecutorService._run_process.                        *)

ThreadsBusy == {j \in Jobs : wpc[j] \notin {"none", "submitted"}}

\* A pool thread picks the submission up: mark_execution_started.
WorkerStart(j) ==
  /\ wpc[j] = "submitted"
  /\ Cardinality(ThreadsBusy) < MaxWorkers
  /\ exec' = [exec EXCEPT ![j] = MarkStarted(@)]
  /\ wpc' = [wpc EXCEPT ![j] = "mark"]
  /\ UNCHANGED <<entry, due, state, files, wout, wblock, tracked, disp, hand, restart, revived>>

WorkerMarkRunning(j) ==
  /\ wpc[j] = "mark"
  /\ entry' = [entry EXCEPT ![j] = IF @ = NoEntry THEN @ ELSE "running"]
  /\ wpc' = [wpc EXCEPT ![j] = "load"]
  /\ UNCHANGED <<due, exec, state, files, wout, wblock, tracked, disp, hand, restart, revived>>

\* Mutant: the outcome is published without releasing the queue first.
PublishExecFirst(j, out) ==
  /\ wout' = [wout EXCEPT ![j] = out]
  /\ wpc' = [wpc EXCEPT ![j] = "exec"]

\* The thread will publish the outcome out, in the three writes below.
Publish(j, out) ==
  /\ wout' = [wout EXCEPT ![j] = out]
  /\ wpc' = [wpc EXCEPT ![j] = "queue"]

\* The job is loaded: a cancellation asked meanwhile aborts it, its files may fail
\* to materialize or the cloud guard refuse it, or the pipeline starts.
WorkerLoad(j) ==
  /\ wpc[j] = "load"
  /\ IF exec[j].cancel
     THEN Publish(j, "cancelled")
     ELSE \/ Publish(j, "failed")
          \/ /\ wpc' = [wpc EXCEPT ![j] = "begin"]
             /\ UNCHANGED wout
  /\ UNCHANGED <<tables, files, wblock, tracked, disp, hand, restart, revived>>

\* The pipeline's pre-flight fails or defers the job before the cancel token is read.
PipelineGate(j) ==
  /\ wpc[j] = "begin"
  /\ \E out \in {"failed"} \cup (Waits \cap {"deferred"}) : Publish(j, out)
  /\ UNCHANGED <<tables, files, wblock, tracked, disp, hand, restart, revived>>

\* The token, then the first phase: it sets its state, or fails where the
\* transition is refused.
PipelineBegin(j) ==
  /\ wpc[j] = "begin"
  /\ IF exec[j].cancel THEN Publish(j, "cancelled") /\ UNCHANGED state
     ELSE IF ~Allowed(state[j], "working") THEN Publish(j, "failed") /\ UNCHANGED state
     ELSE /\ state' = [state EXCEPT ![j] = "working"]
          /\ wpc' = [wpc EXCEPT ![j] = "pipeline"]
          /\ UNCHANGED wout
  /\ UNCHANGED <<entry, due, exec, files, wblock, tracked, disp, hand, restart, revived>>

\* The phases end.  The correction phase may have written its file.
PipelineSucceed(j) ==
  /\ wpc[j] = "pipeline"
  /\ Allowed(state[j], "checked")
  /\ \E c \in BOOLEAN : corrected' = [corrected EXCEPT ![j] = @ \/ c]
  /\ state' = [state EXCEPT ![j] = "checked"]
  /\ Publish(j, "success")
  /\ UNCHANGED <<entry, due, exec, audio, wblock, tracked, disp, hand, restart, revived>>

\* The thread's update_state reads the row.
ReadRow(j, step) ==
  /\ wblock' = [wblock EXCEPT ![j] = exec[j]]
  /\ wpc' = [wpc EXCEPT ![j] = step]

\* A phase fails; it may have set the job failed itself.
PipelineFail(j) ==
  /\ wpc[j] = "pipeline"
  /\ \E c \in BOOLEAN : corrected' = [corrected EXCEPT ![j] = @ \/ c]
  /\ \/ /\ \E s \in IF Overlaps THEN {state[j]} ELSE {state[j], "failed"} :
             state' = [state EXCEPT ![j] = s]
        /\ Publish(j, "failed")
        /\ UNCHANGED wblock
     \/ /\ Overlaps
        /\ ReadRow(j, "failing")
        /\ wout' = [wout EXCEPT ![j] = "failed"]
        /\ UNCHANGED state
  /\ UNCHANGED <<entry, due, exec, audio, tracked, disp, hand, restart, revived>>

\* A phase finds the VRAM taken.
PipelineWait(j) ==
  /\ wpc[j] = "pipeline"
  /\ "waiting_vram" \in Waits
  /\ \E c \in BOOLEAN : corrected' = [corrected EXCEPT ![j] = @ \/ c]
  /\ Publish(j, "waiting_vram")
  /\ UNCHANGED <<tables, audio, wblock, tracked, disp, hand, restart, revived>>

\* The token is read between two phases.
PipelineCancel(j) ==
  /\ wpc[j] = "pipeline"
  /\ exec[j].cancel
  /\ Publish(j, "cancelled")
  /\ UNCHANGED <<tables, files, wblock, tracked, disp, hand, restart, revived>>

\* Mutant: a job that has to wait is released instead of requeued.
EntryOfReleased(out) ==
  IF out = "success" THEN "done" ELSE IF out = "cancelled" THEN out ELSE "failed"

\* First write of the outcome: dequeue, or requeue_later.
EntryOf(out) ==
  IF out \in {"failed", "cancelled"} THEN out
  ELSE IF out = "success" THEN "done" ELSE "waiting"

\* Mutant: the failure path does not release its slot.
WorkerQueueLeaks(j) ==
  /\ wpc[j] = "queue"
  /\ entry' = [entry EXCEPT ![j] =
       IF @ = NoEntry \/ wout[j] = "failed" THEN @ ELSE EntryOf(wout[j])]
  /\ due' = [due EXCEPT ![j] = @ /\ wout[j] \notin Waits]
  /\ wpc' = [wpc EXCEPT ![j] = "exec"]
  /\ UNCHANGED <<exec, state, files, wout, wblock, tracked, disp, hand, restart, revived>>

WorkerQueue(j) ==
  /\ wpc[j] = "queue"
  /\ entry' = [entry EXCEPT ![j] = IF @ = NoEntry THEN @ ELSE EntryOf(wout[j])]
  /\ due' = [due EXCEPT ![j] = @ /\ wout[j] \notin Waits]
  /\ wpc' = [wpc EXCEPT ![j] = "exec"]
  /\ UNCHANGED <<exec, state, files, wout, wblock, tracked, disp, hand, restart, revived>>

\* Mutant: the failure path does not end the execution.
MarkOutcomeUnfailed(out, x) ==
  IF out = "success" THEN MarkCompleted(x)
  ELSE IF out = "failed" THEN x
  ELSE IF out = "cancelled" THEN MarkCancelled(x)
  ELSE IF out = "deferred" THEN MarkQueued(x) ELSE MarkWaitingVram(x)

\* Second write: the execution block.
MarkOutcome(out, x) ==
  IF out = "success" THEN MarkCompleted(x)
  ELSE IF out = "failed" THEN MarkFailed(x)
  ELSE IF out = "cancelled" THEN MarkCancelled(x)
  ELSE IF out = "deferred" THEN MarkQueued(x) ELSE MarkWaitingVram(x)

WorkerExec(j) ==
  /\ wpc[j] = "exec"
  /\ exec' = [exec EXCEPT ![j] = MarkOutcome(wout[j], @)]
  /\ wpc' = [wpc EXCEPT ![j] = IF wout[j] \in Waits THEN "finish" ELSE "state"]
  /\ UNCHANGED <<entry, due, state, files, wout, wblock, tracked, disp, hand, restart, revived>>

\* Third write: jobs.state.  A refused transition is an exception, whose handler
\* publishes a failure over what was just written.
StateOf(out) ==
  IF out \in {"failed", "cancelled"} THEN out ELSE "completed"

WorkerState(j) ==
  LET target == StateOf(wout[j]) IN
  /\ wpc[j] = "state"
  /\ IF Overlaps /\ wout[j] # "success"
     THEN ReadRow(j, "write") /\ UNCHANGED <<state, wout>>
     ELSE IF Allowed(state[j], target)
     THEN /\ state' = [state EXCEPT ![j] = target]
          /\ wpc' = [wpc EXCEPT ![j] = "finish"]
          /\ UNCHANGED <<wout, wblock>>
     ELSE Publish(j, "failed") /\ UNCHANGED <<state, wblock>>
  /\ UNCHANGED <<entry, due, exec, files, tracked, disp, hand, restart, revived>>

\* The write that ends an update_state of the thread: a phase's, or the third one.
WorkerWriteBack(j) ==
  /\ wpc[j] \in {"failing", "write"}
  /\ state' = [state EXCEPT ![j] = StateOf(wout[j])]
  /\ exec' = [exec EXCEPT ![j] = wblock[j]]
  /\ Revive(j, wblock[j])
  /\ wblock' = [wblock EXCEPT ![j] = NoExecution]
  /\ wpc' = [wpc EXCEPT ![j] = IF @ = "failing" THEN "queue" ELSE "finish"]
  /\ UNCHANGED <<entry, due, files, wout, tracked, disp, hand, restart>>

\* The thread ends and its callback forgets it (_on_done).
WorkerFinish(j) ==
  /\ wpc[j] = "finish"
  /\ wpc' = [wpc EXCEPT ![j] = "none"]
  /\ wout' = [wout EXCEPT ![j] = "none"]
  /\ tracked' = tracked \ {j}
  /\ UNCHANGED <<tables, files, wblock, disp, hand, restart, revived>>

Work(j) ==
  \/ WorkerStart(j) \/ WorkerMarkRunning(j) \/ WorkerLoad(j)
  \/ PipelineGate(j) \/ PipelineBegin(j)
  \/ PipelineSucceed(j) \/ PipelineFail(j) \/ PipelineWait(j) \/ PipelineCancel(j)
  \/ WorkerQueue(j) \/ WorkerExec(j) \/ WorkerState(j) \/ WorkerWriteBack(j) \/ WorkerFinish(j)

-----------------------------------------------------------------------------
(* The environment, and the restart of the scheduler process.               *)

\* The scheduled_at of a postponed entry is reached.
BecomeDue(j) ==
  /\ ~due[j]
  /\ due' = [due EXCEPT ![j] = TRUE]
  /\ UNCHANGED <<entry, exec, state, files, workers, disp, hand, restart, revived>>

LoseAudio(j) ==
  /\ AudioLoss /\ audio[j]
  /\ audio' = [audio EXCEPT ![j] = FALSE]
  /\ UNCHANGED <<tables, corrected, workers, disp, hand, restart, revived>>

\* Mutant: the new process does not reconcile.
CrashUnreconciled ==
  /\ crashes < MaxCrashes
  /\ crashes' = crashes + 1
  /\ wpc' = [j \in Jobs |-> "none"]
  /\ wout' = [j \in Jobs |-> "none"]
  /\ wblock' = [j \in Jobs |-> NoExecution]
  /\ tracked' = {}
  /\ disp' = DispIdle
  /\ hand' \in {hand, [h \in Handlers |-> Idle]}
  /\ UNCHANGED <<tables, files, todo, rec, revived>>

\* The process dies with its threads; the HTTP threads survive it when the web role
\* is a process of its own.  The new process starts its dispatcher, then reconciles.
Crash ==
  /\ crashes < MaxCrashes
  /\ crashes' = crashes + 1
  /\ wpc' = [j \in Jobs |-> "none"]
  /\ wout' = [j \in Jobs |-> "none"]
  /\ wblock' = [j \in Jobs |-> NoExecution]
  /\ tracked' = {}
  /\ disp' = DispIdle
  /\ hand' \in {hand, [h \in Handlers |-> Idle]}
  /\ todo' = Jobs
  /\ rec' = RecIdle
  /\ UNCHANGED <<tables, files, revived>>

\* _STATUT_FILE_TERMINAL
EntryOfExec == [failed |-> "failed", completed |-> "done", cancelled |-> "cancelled"]

\* _reconcile_interrupted_jobs, one job: a queued execution without entry is put
\* back in the queue, an orphan running entry of an ended execution is released,
\* everything else that is not running is left alone.
ReconcileEntry(j) ==
  LET x == exec[j].status IN
  /\ rec.pc = "idle" /\ j \in todo
  /\ x # "running"
  /\ todo' = todo \ {j}
  /\ entry' = [entry EXCEPT ![j] =
       IF x = "queued" /\ @ = NoEntry THEN "waiting"
       ELSE IF x \in ExecTerminal /\ @ = "running" THEN EntryOfExec[x] ELSE @]
  /\ UNCHANGED <<due, exec, state, files, workers, disp, hand, rec, crashes, revived>>

\* An interrupted job is judged by the corrected transcription on disk.
ReconcileRunning(j) ==
  /\ rec.pc = "idle" /\ j \in todo
  /\ exec[j].status = "running"
  /\ rec' = [pc |-> "exec", job |-> j, ok |-> corrected[j], block |-> NoExecution]
  /\ UNCHANGED <<tables, files, workers, disp, hand, todo, crashes, revived>>

\* Mutant: only the recovered jobs get their execution closed.
ReconcileExecRecovered ==
  /\ rec.pc = "exec"
  /\ exec' = [exec EXCEPT ![rec.job] = IF rec.ok THEN MarkCompleted(@) ELSE @]
  /\ rec' = [rec EXCEPT !.pc = "state"]
  /\ UNCHANGED <<entry, due, state, files, workers, disp, hand, todo, crashes, revived>>

ReconcileExec ==
  /\ rec.pc = "exec"
  /\ exec' = [exec EXCEPT ![rec.job] = IF rec.ok THEN MarkCompleted(@) ELSE MarkFailed(@)]
  /\ rec' = [rec EXCEPT !.pc = "state"]
  /\ UNCHANGED <<entry, due, state, files, workers, disp, hand, todo, crashes, revived>>

\* A refused transition ends the whole reconciliation: its one except clause is
\* around the loop.
ReconcileState ==
  LET target == IF rec.ok THEN "completed" ELSE "failed"
      accepted == Allowed(state[rec.job], target)
  IN
  /\ rec.pc = "state"
  /\ IF Overlaps /\ ~rec.ok
     THEN /\ rec' = [rec EXCEPT !.pc = "write", !.block = exec[rec.job]]
          /\ UNCHANGED <<state, todo>>
     ELSE /\ state' = IF accepted THEN [state EXCEPT ![rec.job] = target] ELSE state
          /\ todo' = IF accepted THEN todo \ {rec.job} ELSE {}
          /\ rec' = RecIdle
  /\ UNCHANGED <<entry, due, exec, files, workers, disp, hand, crashes, revived>>

ReconcileWriteBack ==
  /\ rec.pc = "write"
  /\ state' = [state EXCEPT ![rec.job] = "failed"]
  /\ exec' = [exec EXCEPT ![rec.job] = rec.block]
  /\ Revive(rec.job, rec.block)
  /\ todo' = todo \ {rec.job}
  /\ rec' = RecIdle
  /\ UNCHANGED <<entry, due, files, workers, disp, hand, crashes>>

Reconcile ==
  \/ \E j \in Jobs : ReconcileEntry(j) \/ ReconcileRunning(j)
  \/ ReconcileExec \/ ReconcileState \/ ReconcileWriteBack

-----------------------------------------------------------------------------
Next ==
  \/ \E h \in Handlers :
       HandlerStep(h) \/ \E kind \in Kinds, j \in Jobs : Receive(h, kind, j)
  \/ Dispatch
  \/ \E j \in Jobs : Work(j) \/ BecomeDue(j) \/ LoseAudio(j)
  \/ Crash
  \/ Reconcile

Spec == Init /\ [][Next]_vars

(***************************************************************************)
(* Fairness.  A thread that runs takes its next step; scheduled_at is      *)
(* reached; a resource shortage does not repeat for ever (strong fairness   *)
(* on the outcome other than a wait); and every candidate is at the head of *)
(* the queue again and again (strong fairness on taking it: QueueOrder      *)
(* examines when).  Requests, losses and crashes are not fair.              *)
(***************************************************************************)
Fairness ==
  /\ WF_vars(DispatchCount \/ DispatchFetch \/ DispatchDrop \/ DispatchClaim
             \/ DispatchSubmit \/ DispatchEnd)
  /\ WF_vars(ReconcileExec \/ ReconcileState \/ ReconcileWriteBack)
  /\ \A h \in Handlers : WF_vars(HandlerStep(h))
  /\ \A j \in Jobs :
       /\ WF_vars(Work(j))
       /\ WF_vars(BecomeDue(j))
       /\ WF_vars(DispatchSkip(j) \/ DispatchRefuse(j) \/ DispatchTake(j))
       /\ WF_vars(ReconcileEntry(j) \/ ReconcileRunning(j))
       /\ SF_vars(DispatchTake(j))
       /\ SF_vars(PipelineBegin(j))
       /\ SF_vars(PipelineSucceed(j) \/ PipelineFail(j) \/ PipelineCancel(j))

FairSpec == Spec /\ Fairness

-----------------------------------------------------------------------------
(* Correctness.                                                             *)

\* No actor is in the middle of something that concerns job j.
Settled(j) ==
  /\ wpc[j] = "none"
  /\ \A h \in Handlers : hand[h].pc = "idle" \/ hand[h].job # j
  /\ disp.pc \in {"drop", "claim", "submit"} => disp.job # j
  /\ todo = {} /\ rec.pc = "idle"

\* The dispatcher never gives a job to a second thread: whatever was requeued,
\* resubmitted, paused, cancelled or interrupted meanwhile, the job it is about to
\* submit has no live thread (claim, _running and _on_done together).
NoSecondThread == disp.pc = "submit" => wpc[disp.job] = "none"

\* A running entry takes a slot of count_running: somebody who will give it back
\* owns it, the job's thread or the dispatcher about to start it.
SlotsAreOwned ==
  \A j \in Jobs : entry[j] = "running" =>
    wpc[j] # "none" \/ (disp.pc = "submit" /\ disp.job = j)

\* The jobs a slot is taken for: their entry runs, or their thread has not yet
\* published an outcome.
Processing ==
  RunningEntries \cup {j \in Jobs : wpc[j] \in {"submitted", "mark", "load", "begin", "pipeline",
                                                "failing"}}

\* An active execution refuses every new processing request; so, once nobody works
\* on the job, its entry is still one that will be dispatched.
NoZombie ==
  \A j \in Jobs : Settled(j) /\ exec[j].status \in ExecActive =>
    entry[j] \in {"waiting", "paused"}

\* NoZombie, for the launches that were accepted: they stay in the queue.
LaunchesAreKept ==
  \A j \in Jobs : Settled(j) /\ exec[j].status = "queued" =>
    entry[j] \in {"waiting", "paused"}

\* A job whose entry failed can be launched again.
FailedIsRelaunchable ==
  \A j \in Jobs : Settled(j) /\ entry[j] = "failed" => exec[j].status \notin ExecActive

\* Once the reconciliation of a restart is done, no job holds a slot without a thread.
RestartFreesSlots ==
  \A j \in Jobs : Settled(j) => entry[j] # "running"

\* Once the reconciliation of a restart is done, no job is left "running" for ever: but
\* for a run that had ended and that an update_state, having read it before, wrote back.
NoGhostRun ==
  \A j \in Jobs : Settled(j) /\ exec[j].status = "running" => j \in revived

\* A job is judged interrupted only if it is: it has no thread that works on it.
OnlyInterruptedAreJudged ==
  [][\A j \in Jobs : rec.pc = "idle" /\ rec'.pc = "exec" /\ rec'.job = j =>
       wpc[j] \in {"none", "submitted"}]_vars

\* The entry and the execution agree on how a run ended once every writer is done,
\* and a completed execution is a completed job.
OutcomesAgree ==
  \A j \in Jobs : Settled(j) =>
    /\ entry[j] = "done" <=> exec[j].status = "completed"
    /\ entry[j] = "failed" <=> exec[j].status = "failed"
    /\ exec[j].status = "completed" => state[j] = "completed"

\* The three columns and the threads together behave as JobLifecycle promises: one
\* run at a time, its slot given back before its outcome is shown, and the limit of a
\* scheduling window put on what is really processed, not only on the entries that say
\* so: the capacity is counted before the candidates are fetched and spent one claim
\* at a time, while outcomes and requests rewrite the entries.
Lifecycle == INSTANCE JobLifecycle WITH
  Limits <- Calendar, status <- [j \in Jobs |-> exec[j].status], slots <- Processing
FollowsLifecycle == Lifecycle!Spec

\* The execution blocks of j that an update_state has read and will write back.
ReadBefore(j) ==
  {hand[h].block : h \in {g \in Handlers : hand[g].pc = "write" /\ hand[g].job = j}}
  \cup (IF wpc[j] \in {"failing", "write"} THEN {wblock[j]} ELSE {})
  \cup (IF rec.pc = "write" /\ rec.job = j THEN {rec.block} ELSE {})

\* The ways in which the code forgets a request to cancel.  Two of them are meant: the
\* run it was made for ends, or the job is submitted again.  Two are not, and nothing
\* else loses one: the run is deferred, or the job becomes failed or cancelled by an
\* update_state that had read the execution before the request.
CancelIsKept ==
  [][\A j \in Jobs : exec[j].cancel /\ ~exec'[j].cancel =>
       \/ exec'[j].status \in ExecTerminal
       \/ HalfSubmitted(j)
       \/ wpc[j] = "exec" /\ wout[j] = "deferred"
       \/ state'[j] \in {"failed", "cancelled"} /\ \E b \in ReadBefore(j) : ~b.cancel]_vars

\* Every accepted request is eventually answered by an outcome.
QueuedJobsEnd ==
  \A j \in Jobs : exec[j].status = "queued" ~> exec[j].status \in ExecTerminal

\* Every run ends, a restart in the middle of it included, unless an update_state has
\* written an ended run of the job back.
RunsEnd ==
  \A j \in Jobs : exec[j].status = "running" ~> exec[j].status # "running" \/ j \in revived

\* Every cancellation is eventually settled.
CancelsEnd ==
  \A j \in Jobs : exec[j].cancel ~> (~exec[j].cancel \/ exec[j].status \in ExecTerminal)
=============================================================================
