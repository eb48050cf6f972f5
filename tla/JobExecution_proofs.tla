------------------------ MODULE JobExecution_proofs ------------------------
(***************************************************************************)
(* What holds of JobExecution for every set of jobs, number of workers,    *)
(* calendar, mix of requests and number of restarts, and what holds of it  *)
(* where some requests are not made: each theorem names what it leaves out. *)
(*                                                                         *)
(* TypeInv is TypeOK and the one fact its preservation needs: between the  *)
(* choice of a candidate and its submission, the iteration has capacity    *)
(* left to spend.  The other invariants are stacked on it, each with the   *)
(* ones before it as hypotheses of its step:                               *)
(*   ThreadInv      one thread per job                NeverTwoThreads      *)
(*   OutcomeInv     only bad ends overlap             CancellationKept     *)
(*   SlotInv        who holds a slot gives it back    SlotsOwned           *)
(*   NeverCancelled, RunsHeld                         NoRunIsLeft          *)
(*   QuietInv, QueueInv                               NoZombieIsLeft       *)
(*   OneRunInv, RoomLeft                              ImplementsLifecycle  *)
(*   AgreeInv                                         OutcomesAreAgreed    *)
(***************************************************************************)
EXTENDS JobExecution, FiniteSetTheorems, TLAPS

BudgetLeft == disp.pc \in {"claim", "submit"} => disp.budget > 0
TypeInv == TypeOK /\ BudgetLeft

\* The number of running entries is a natural number: there are finitely many jobs.
LEMMA RunningIsNatural == Cardinality(RunningEntries) \in Nat
  BY JobsAssumption, FS_Subset, FS_CardinalityType DEF RunningEntries

\* Each merge into the execution block yields an execution block.
LEMMA MergesAreTyped ==
  ASSUME NEW x \in Execution
  PROVE  /\ MarkQueued(x) \in Execution /\ MarkStarted(x) \in Execution
         /\ MarkCompleted(x) \in Execution /\ MarkFailed(x) \in Execution
         /\ MarkWaitingVram(x) \in Execution /\ MarkCancelled(x) \in Execution
         /\ RequestCancel(x) \in Execution
  BY DEF Execution, ExecActive, ExecTerminal, MarkQueued, MarkStarted, MarkCompleted,
         MarkFailed, MarkWaitingVram, MarkCancelled, RequestCancel

\* An execution block exists.
LEMMA NoExecutionTyped == NoExecution \in Execution
  BY DEF NoExecution, Execution

\* What a worker publishes is an entry status, an execution block and a job state.
LEMMA OutcomesAreTyped ==
  ASSUME NEW out, NEW x \in Execution
  PROVE  /\ EntryOf(out) \in EntryStatus
         /\ MarkOutcome(out, x) \in Execution
         /\ StateOf(out) \in JobState
  <1>1. EntryOf(out) \in EntryStatus
    BY DEF EntryOf, EntryStatus, EntryTerminal
  <1>2. MarkOutcome(out, x) \in Execution
    BY MergesAreTyped DEF MarkOutcome
  <1>3. StateOf(out) \in JobState
    BY DEF StateOf, JobState
  <1> QED BY <1>1, <1>2, <1>3

-----------------------------------------------------------------------------
\* The initial state has the types, and no candidate.
LEMMA InitTyped == Init => TypeInv
  <1> SUFFICES ASSUME Init PROVE TypeInv
    OBVIOUS
  <1>1. NoExecution \in Execution
    BY NoExecutionTyped
  <1>2. DispIdle.pc = "idle" /\ DispIdle \in
          [pc: {"idle", "fetch", "scan", "drop", "claim", "submit"}, job: Jobs \cup {NoJob},
           cand: SUBSET Jobs, budget: 0..MaxWorkers, drop: EntryStatus \cup {NoEntry}]
    BY WorkersAssumption DEF DispIdle
  <1>3. 0 \in 0..MaxCrashes
    BY CrashesAssumption
  <1>4. "prepared" \in JobState
    BY DEF JobState
  <1>5. Idle.pc = "idle" /\ Idle \in
          [pc: HandlerSteps, kind: Kinds \cup {"none"}, job: Jobs \cup {NoJob},
           seen: EntryStatus \cup {NoEntry}, block: Execution]
    BY <1>1 DEF Idle, HandlerSteps
  <1> QED
    BY <1>1, <1>2, <1>3, <1>4, <1>5 DEF Init, TypeInv, TypeOK, BudgetLeft, WorkerSteps, RecIdle
-----------------------------------------------------------------------------
(* Every step keeps the types: one lemma per actor, one step per action.    *)

USE DEF Idle, DispIdle, RecIdle, HandlerSteps, WorkerSteps

\* A request is received with its types.
LEMMA ReceiveTyped ==
  ASSUME TypeInv, NEW h \in Handlers, NEW kind \in Kinds, NEW j \in Jobs,
         Receive(h, kind, j)
  PROVE  TypeInv'
  <1>1. FirstStep(kind) \in HandlerSteps
    BY KindsAssumption DEF FirstStep
  <1>2. exec' \in [Jobs -> Execution]
    BY MergesAreTyped DEF Receive, TypeInv, TypeOK
  <1> QED BY <1>1, <1>2, NoExecutionTyped
          DEF Receive, TypeInv, TypeOK, BudgetLeft, files, workers, restart

\* A request that goes to its next step keeps the type of the handlers.
LEMMA GotoTyped ==
  ASSUME TypeInv, NEW h \in Handlers, hand[h].pc # "idle",
         NEW step \in HandlerSteps, Goto(h, step)
  PROVE  /\ hand' \in [Handlers -> [pc: HandlerSteps, kind: Kinds \cup {"none"},
                                    job: Jobs \cup {NoJob}, seen: EntryStatus \cup {NoEntry},
                                    block: Execution]]
         /\ \A g \in Handlers : hand'[g].pc # "idle" => hand'[g].job \in Jobs
  <1>1. hand' = [hand EXCEPT ![h].pc = step]
    BY DEF Goto
  <1>2. hand[h].job \in Jobs
    BY DEF TypeInv, TypeOK
  <1> QED BY <1>1, <1>2 DEF TypeInv, TypeOK

\* A web route keeps the types.
LEMMA HandlerTyped ==
  ASSUME TypeInv, NEW h \in Handlers, HandlerStep(h)
  PROVE  TypeInv'
  <1> USE DEF TypeInv, TypeOK, BudgetLeft, tables, files, workers, restart, Goto, Answer,
          Revive
  <1> USE NoExecutionTyped
  <1>1. CASE Lookup(h)
    BY <1>1, SMTT(30) DEF Lookup
  <1>2. CASE Enqueue(h)
    <2>1. due' \in [Jobs -> BOOLEAN]
      <3>1. PICK now \in BOOLEAN : due' = [due EXCEPT ![hand[h].job] = now]
        BY <1>2 DEF Enqueue
      <3> QED BY <3>1
    <2>2. entry' \in [Jobs -> EntryStatus \cup {NoEntry}]
      BY <1>2 DEF Enqueue, EntryStatus
    <2>3. hand' = [hand EXCEPT ![h].pc = "queued", ![h].seen = NoEntry]
      BY <1>2 DEF Enqueue
    <2>4. UNCHANGED <<exec, state, files, workers, disp, restart, revived>>
      BY <1>2 DEF Enqueue
    <2>5. hand[h].pc = "enqueue"
      BY <1>2 DEF Enqueue
    <2>6. /\ hand' \in [Handlers -> [pc: HandlerSteps, kind: Kinds \cup {"none"},
                                     job: Jobs \cup {NoJob}, seen: EntryStatus \cup {NoEntry},
                                     block: Execution]]
          /\ \A g \in Handlers : hand'[g].pc # "idle" => hand'[g].job \in Jobs
      <3>1. hand[h] \in [pc: HandlerSteps, kind: Kinds \cup {"none"}, job: Jobs \cup {NoJob},
                         seen: EntryStatus \cup {NoEntry}, block: Execution]
        OBVIOUS
      <3>2. [hand[h] EXCEPT !.pc = "queued", !.seen = NoEntry]
              \in [pc: HandlerSteps, kind: Kinds \cup {"none"}, job: Jobs \cup {NoJob},
                   seen: EntryStatus \cup {NoEntry}, block: Execution]
        BY <3>1 DEF HandlerSteps
      <3>3. hand' = [hand EXCEPT ![h] = [hand[h] EXCEPT !.pc = "queued", !.seen = NoEntry]]
        BY <2>3
      <3>4. hand[h].job \in Jobs
        BY <2>5
      <3> QED BY <3>2, <3>3, <3>4
    <2> QED BY <2>1, <2>2, <2>4, <2>6
  <1>3. CASE MarkAsQueued(h)
    <2>1. exec' \in [Jobs -> Execution]
      BY <1>3, MergesAreTyped DEF MarkAsQueued
    <2>2. hand[h].pc # "idle" /\ Goto(h, "ready")
      BY <1>3 DEF MarkAsQueued
    <2>3. UNCHANGED <<entry, due, state, files, workers, disp, restart, revived>>
      BY <1>3 DEF MarkAsQueued
    <2> QED BY <2>1, <2>2, <2>3, GotoTyped
  <1>4. CASE MarkAsReady(h)
    BY <1>4, SMTT(30) DEF MarkAsReady, JobState
  <1>5. CASE CancelDecide(h)
    BY <1>5 DEF CancelDecide
  <1>6. CASE CancelDequeue(h)
    BY <1>6 DEF CancelDequeue, EntryStatus, EntryTerminal
  <1>7. CASE CancelExecution(h)
    <2>1. exec' \in [Jobs -> Execution]
      BY <1>7, MergesAreTyped DEF CancelExecution
    <2>2. hand[h].pc # "idle" /\ Goto(h, "state")
      BY <1>7 DEF CancelExecution
    <2>3. UNCHANGED <<entry, due, state, files, workers, disp, restart, revived>>
      BY <1>7 DEF CancelExecution
    <2> QED BY <2>1, <2>2, <2>3, GotoTyped
  <1>8. CASE CancelState(h)
    <2>1. hand[h].job \in Jobs /\ exec[hand[h].job] \in Execution
      BY <1>8 DEF CancelState
    <2>2. state' \in [Jobs -> JobState]
      BY <1>8 DEF CancelState, JobState
    <2>3. \/ hand' = [hand EXCEPT ![h] = Idle]
          \/ hand' = [hand EXCEPT ![h].pc = "write", ![h].block = exec[hand[h].job]]
      BY <1>8 DEF CancelState
    <2>4. /\ hand' \in [Handlers -> [pc: HandlerSteps, kind: Kinds \cup {"none"},
                                     job: Jobs \cup {NoJob}, seen: EntryStatus \cup {NoEntry},
                                     block: Execution]]
          /\ \A g \in Handlers : hand'[g].pc # "idle" => hand'[g].job \in Jobs
      BY <2>1, <2>3
    <2> QED BY <1>8, <2>2, <2>4 DEF CancelState
  <1>9. CASE PauseWrite(h)
    BY <1>9 DEF PauseWrite, EntryStatus
  <1>10. CASE CancelWriteBack(h)
    <2>1. exec' \in [Jobs -> Execution] /\ state' \in [Jobs -> JobState]
      BY <1>10 DEF CancelWriteBack, JobState
    <2> QED BY <1>10, <2>1 DEF CancelWriteBack
  <1> QED BY <1>1, <1>2, <1>3, <1>4, <1>5, <1>6, <1>7, <1>8, <1>9, <1>10 DEF HandlerStep

\* The dispatcher keeps the types, and its budget within the workers.
LEMMA DispatchTyped ==
  ASSUME TypeInv, Dispatch
  PROVE  TypeInv'
  <1> USE DEF TypeInv, TypeOK, BudgetLeft, tables, files, workers, restart, Revive
  <1>1. CASE DispatchCount
    <2>1. PICK e \in Calendar :
            /\ e - Cardinality(RunningEntries) > 0
            /\ disp' = [disp EXCEPT !.pc = "fetch", !.budget = e - Cardinality(RunningEntries)]
      BY <1>1 DEF DispatchCount
    <2>2. e \in 0..MaxWorkers
      BY CalendarAssumption
    <2>3. e - Cardinality(RunningEntries) \in 0..MaxWorkers
      BY <2>1, <2>2, RunningIsNatural, WorkersAssumption
    <2> QED BY <1>1, <2>1, <2>3 DEF DispatchCount
  <1>2. CASE DispatchFetch
    BY <1>2 DEF DispatchFetch
  <1>3. CASE DispatchDrop
    BY <1>3 DEF DispatchDrop
  <1>4. CASE DispatchClaim
    BY <1>4 DEF DispatchClaim, EntryStatus
  <1>5. CASE DispatchSubmit
    <2>1. disp.budget - 1 \in 0..MaxWorkers
      BY <1>5, WorkersAssumption DEF DispatchSubmit
    <2> QED BY <1>5, <2>1 DEF DispatchSubmit
  <1>6. CASE DispatchEnd
    BY <1>6, WorkersAssumption DEF DispatchEnd
  <1>7. ASSUME NEW j \in Jobs, DispatchSkip(j) PROVE TypeInv'
    BY <1>7 DEF DispatchSkip
  <1>8. ASSUME NEW j \in Jobs, DispatchRefuse(j) PROVE TypeInv'
    BY <1>8 DEF DispatchRefuse, EntryStatus, EntryTerminal
  <1>9. ASSUME NEW j \in Jobs, DispatchTake(j) PROVE TypeInv'
    BY <1>9 DEF DispatchTake
  <1> QED
    BY <1>1, <1>2, <1>3, <1>4, <1>5, <1>6, <1>7, <1>8, <1>9 DEF Dispatch

\* A worker thread keeps the types.
LEMMA WorkTyped ==
  ASSUME TypeInv, NEW j \in Jobs, Work(j)
  PROVE  TypeInv'
  <1> USE DEF TypeInv, TypeOK, BudgetLeft, tables, files, workers, restart, Publish, Outcomes,
          Revive
  <1>1. CASE WorkerStart(j)
    BY <1>1, MergesAreTyped DEF WorkerStart
  <1>2. CASE WorkerMarkRunning(j)
    BY <1>2 DEF WorkerMarkRunning, EntryStatus
  <1>3. CASE WorkerLoad(j)
    BY <1>3 DEF WorkerLoad
  <1>4. CASE PipelineGate(j)
    BY <1>4 DEF PipelineGate
  <1>5. CASE PipelineBegin(j)
    BY <1>5 DEF PipelineBegin, JobState
  <1>6. CASE PipelineSucceed(j)
    BY <1>6 DEF PipelineSucceed, JobState
  <1>7. CASE PipelineFail(j)
    BY <1>7 DEF PipelineFail, ReadRow, JobState
  <1>8. CASE PipelineWait(j)
    BY <1>8 DEF PipelineWait
  <1>9. CASE PipelineCancel(j)
    BY <1>9 DEF PipelineCancel
  <1>10. CASE WorkerQueue(j)
    BY <1>10, OutcomesAreTyped, NoExecutionTyped DEF WorkerQueue
  <1>11. CASE WorkerExec(j)
    BY <1>11, OutcomesAreTyped DEF WorkerExec
  <1>12. CASE WorkerState(j)
    <2>1. StateOf(wout[j]) \in JobState
      BY OutcomesAreTyped, NoExecutionTyped
    <2>2. state' \in [Jobs -> JobState] /\ wblock' \in [Jobs -> Execution]
      BY <1>12, <2>1 DEF WorkerState, ReadRow
    <2>3. wpc' \in [Jobs -> WorkerSteps] /\ wout' \in [Jobs -> Outcomes \cup {"none"}]
      BY <1>12 DEF WorkerState, ReadRow
    <2> QED BY <1>12, <2>2, <2>3 DEF WorkerState
  <1>13. CASE WorkerFinish(j)
    BY <1>13 DEF WorkerFinish
  <1>14. CASE WorkerWriteBack(j)
    <2>1. StateOf(wout[j]) \in JobState
      BY OutcomesAreTyped, NoExecutionTyped
    <2>2. /\ state' \in [Jobs -> JobState] /\ exec' \in [Jobs -> Execution]
          /\ wblock' \in [Jobs -> Execution] /\ wpc' \in [Jobs -> WorkerSteps]
      BY <1>14, <2>1, NoExecutionTyped DEF WorkerWriteBack
    <2> QED BY <1>14, <2>2 DEF WorkerWriteBack
  <1> QED
    BY <1>1, <1>2, <1>3, <1>4, <1>5, <1>6, <1>7, <1>8, <1>9, <1>10, <1>11, <1>12, <1>13, <1>14
       DEF Work

\* The environment, a restart and the reconciliation keep the types.
LEMMA RestartTyped ==
  ASSUME TypeInv,
         Crash \/ Reconcile \/ \E j \in Jobs : BecomeDue(j) \/ LoseAudio(j)
  PROVE  TypeInv'
  <1> USE DEF TypeInv, TypeOK, BudgetLeft, tables, files, workers, restart, Revive
  <1>1. CASE Crash
    BY <1>1, CrashesAssumption, WorkersAssumption, NoExecutionTyped DEF Crash
  <1>2. ASSUME NEW j \in Jobs, ReconcileEntry(j) PROVE TypeInv'
    BY <1>2 DEF ReconcileEntry, EntryOfExec, EntryStatus, EntryTerminal, ExecTerminal
  <1>3. ASSUME NEW j \in Jobs, ReconcileRunning(j) PROVE TypeInv'
    BY <1>3, NoExecutionTyped DEF ReconcileRunning
  <1>4. CASE ReconcileExec
    BY <1>4, MergesAreTyped DEF ReconcileExec
  <1>5. CASE ReconcileState
    <2>1. rec.job \in Jobs /\ exec[rec.job] \in Execution
      BY <1>5 DEF ReconcileState
    <2>2. state' \in [Jobs -> JobState] /\ todo' \in SUBSET Jobs
      BY <1>5 DEF ReconcileState, JobState
    <2>3. rec' = RecIdle \/ rec' = [rec EXCEPT !.pc = "write", !.block = exec[rec.job]]
      BY <1>5 DEF ReconcileState
    <2>4. /\ rec' \in [pc: {"idle", "exec", "state", "write"}, job: Jobs \cup {NoJob},
                       ok: BOOLEAN, block: Execution]
          /\ rec'.pc # "idle" => rec'.job \in Jobs
      <3>1. CASE rec' = RecIdle
        BY <3>1, NoExecutionTyped
      <3>2. CASE rec' = [rec EXCEPT !.pc = "write", !.block = exec[rec.job]]
        BY <2>1, <3>2
      <3> QED BY <2>3, <3>1, <3>2
    <2> QED BY <1>5, <2>2, <2>4 DEF ReconcileState
  <1>6. ASSUME NEW j \in Jobs, BecomeDue(j) PROVE TypeInv'
    BY <1>6 DEF BecomeDue
  <1>7. ASSUME NEW j \in Jobs, LoseAudio(j) PROVE TypeInv'
    BY <1>7 DEF LoseAudio
  <1>8. CASE ReconcileWriteBack
    BY <1>8, NoExecutionTyped DEF ReconcileWriteBack, JobState
  <1> QED
    BY <1>1, <1>2, <1>3, <1>4, <1>5, <1>6, <1>7, <1>8 DEF Reconcile

\* A step that changes no variable keeps the types.
LEMMA StutterTyped == TypeInv /\ UNCHANGED vars => TypeInv'
  BY DEF TypeInv, TypeOK, BudgetLeft, vars, tables, files, workers, restart

\* TypeInv is inductive.
LEMMA TypeHolds == Spec => []TypeInv
  <1>1. TypeInv /\ [Next]_vars => TypeInv'
    BY ReceiveTyped, HandlerTyped, DispatchTyped, WorkTyped, RestartTyped, StutterTyped DEF
       Next
  <1> QED BY InitTyped, <1>1, PTL DEF Spec

\* The three columns, the threads' program counters and the counters keep their
\* types whatever web requests, dispatches, outcomes and restarts do.
THEOREM TypeCorrect == Spec => []TypeOK
  <1>1. TypeInv => TypeOK
    BY DEF TypeInv
  <1> QED BY TypeHolds, <1>1, PTL

-----------------------------------------------------------------------------
(* No job has two threads.  NoSecondThread is not inductive: it speaks of   *)
(* the submission only, and a claim says nothing of the job's thread.  What *)
(* makes it true is that every live thread is tracked, and that the         *)
(* dispatcher, which alone adds to the tracked jobs, chose one that is not. *)

ThreadsTracked == \A j \in Jobs : wpc[j] # "none" => j \in tracked
ChosenUntracked == disp.pc \in {"drop", "claim", "submit"} => disp.job \notin tracked
ThreadInv == ThreadsTracked /\ ChosenUntracked

\* The dispatcher chooses a job without thread and tracks the one it submits.
LEMMA DispatchThreads ==
  ASSUME TypeOK, ThreadInv, Dispatch
  PROVE  ThreadInv'
  <1> USE DEF TypeOK, ThreadInv, ThreadsTracked, ChosenUntracked, workers
  <1>1. CASE DispatchCount \/ DispatchFetch \/ DispatchDrop \/ DispatchEnd
    <2>1. UNCHANGED <<wpc, tracked>>
      BY <1>1 DEF DispatchCount, DispatchFetch, DispatchDrop, DispatchEnd
    <2>2. CASE DispatchCount
      <3>1. disp'.pc = "fetch"
        BY <2>2 DEF DispatchCount
      <3> QED BY <2>1, <3>1
    <2>3. CASE DispatchFetch \/ DispatchDrop
      BY <2>1, <2>3 DEF DispatchFetch, DispatchDrop
    <2>4. CASE DispatchEnd
      BY <2>1, <2>4 DEF DispatchEnd
    <2> QED BY <1>1, <2>2, <2>3, <2>4
  <1>2. CASE DispatchClaim
    BY <1>2 DEF DispatchClaim
  <1>3. CASE DispatchSubmit
    BY <1>3 DEF DispatchSubmit
  <1>4. ASSUME NEW j \in Jobs, DispatchSkip(j) \/ DispatchRefuse(j) PROVE ThreadInv'
    BY <1>4 DEF DispatchSkip, DispatchRefuse
  <1>5. ASSUME NEW j \in Jobs, DispatchTake(j) PROVE ThreadInv'
    BY <1>5 DEF DispatchTake
  <1> QED BY <1>1, <1>2, <1>3, <1>4, <1>5 DEF Dispatch

\* A thread stays tracked until the step that ends it.
LEMMA WorkThreads ==
  ASSUME TypeOK, ThreadInv, NEW j \in Jobs, Work(j)
  PROVE  ThreadInv'
  <1> USE DEF TypeOK, ThreadInv, ThreadsTracked, ChosenUntracked
  <1>1. CASE WorkerFinish(j)
    BY <1>1 DEF WorkerFinish
  <1>2. CASE ~WorkerFinish(j)
    <2>1. wpc[j] # "none" /\ tracked' = tracked /\ disp' = disp
      BY <1>2 DEF Work, WorkerStart, WorkerMarkRunning, WorkerLoad, PipelineGate,
           PipelineBegin, PipelineSucceed, PipelineFail, PipelineWait, PipelineCancel,
           WorkerQueue, WorkerExec, WorkerState, WorkerWriteBack, ReadRow
    <2>2. \A k \in Jobs \ {j} : wpc'[k] = wpc[k]
      BY <1>2 DEF Work, WorkerStart, WorkerMarkRunning, WorkerLoad, PipelineGate,
           PipelineBegin, PipelineSucceed, PipelineFail, PipelineWait, PipelineCancel,
           WorkerQueue, WorkerExec, WorkerState, WorkerWriteBack, ReadRow, Publish
    <2> QED BY <2>1, <2>2
  <1> QED BY <1>1, <1>2

\* Whoever else steps leaves the threads and the dispatcher alone, or ends them all.
LEMMA OtherThreads ==
  ASSUME TypeOK, ThreadInv,
         \/ \E h \in Handlers :
              HandlerStep(h) \/ \E kind \in Kinds, j \in Jobs : Receive(h, kind, j)
         \/ Crash \/ Reconcile \/ \E j \in Jobs : BecomeDue(j) \/ LoseAudio(j)
         \/ UNCHANGED vars
  PROVE  ThreadInv'
  <1> USE DEF ThreadInv, ThreadsTracked, ChosenUntracked
  <1>1. CASE Crash
    BY <1>1 DEF Crash
  <1>2. CASE ~Crash
    <2>1. UNCHANGED <<wpc, tracked, disp>>
      BY <1>2 DEF HandlerStep, Receive, Lookup, Enqueue, MarkAsQueued, MarkAsReady,
           CancelDecide, CancelDequeue, CancelExecution, CancelState, CancelWriteBack,
           PauseWrite,
           Reconcile, ReconcileEntry, ReconcileRunning, ReconcileExec, ReconcileState,
           ReconcileWriteBack,
           BecomeDue, LoseAudio, workers, vars
    <2> QED BY <2>1
  <1> QED BY <1>1, <1>2

\* The dispatcher's tracking of the threads is exact enough, always.
LEMMA ThreadsHold == Spec => []ThreadInv
  <1>1. Init => ThreadInv
    BY DEF Init, ThreadInv, ThreadsTracked, ChosenUntracked
  <1>2. TypeOK /\ ThreadInv /\ [Next]_vars => ThreadInv'
    BY DispatchThreads, WorkThreads, OtherThreads DEF Next
  <1> QED BY TypeCorrect, <1>1, <1>2, PTL DEF Spec

\* The job that the dispatcher is about to submit has no live thread: no mix of
\* requests, requeues, pauses, cancellations and restarts makes it run twice at once.
THEOREM NeverTwoThreads == Spec => []NoSecondThread
  <1>1. TypeOK /\ ThreadInv => NoSecondThread
    BY DEF TypeOK, ThreadInv, ThreadsTracked, ChosenUntracked, NoSecondThread
  <1> QED BY TypeCorrect, ThreadsHold, <1>1, PTL

-----------------------------------------------------------------------------
(* What the merges into the execution block do to its status and its flag.  *)

\* The status each merge writes.
LEMMA MergeStatus ==
  ASSUME NEW x \in Execution
  PROVE  /\ MarkQueued(x).status = "queued" /\ MarkStarted(x).status = "running"
         /\ MarkCompleted(x).status = "completed" /\ MarkFailed(x).status = "failed"
         /\ MarkWaitingVram(x).status = "waiting_vram"
         /\ MarkCancelled(x).status = "cancelled" /\ RequestCancel(x).status = x.status
  BY DEF Execution, MarkQueued, MarkStarted, MarkCompleted, MarkFailed,
         MarkWaitingVram, MarkCancelled, RequestCancel

\* Only a request raises the flag, and two merges leave it as it is.
LEMMA MergeCancel ==
  ASSUME NEW x \in Execution
  PROVE  /\ ~MarkQueued(x).cancel /\ ~MarkCompleted(x).cancel /\ ~MarkCancelled(x).cancel
         /\ MarkStarted(x).cancel = x.cancel /\ MarkFailed(x).cancel = x.cancel
         /\ MarkWaitingVram(x).cancel = x.cancel /\ RequestCancel(x).cancel = TRUE
  BY DEF Execution, MarkQueued, MarkStarted, MarkCompleted, MarkFailed,
         MarkWaitingVram, MarkCancelled, RequestCancel

\* The status a worker writes for an outcome.
StatusOf(out) ==
  IF out = "success" THEN "completed"
  ELSE IF out \in {"failed", "cancelled"} THEN out
  ELSE IF out = "deferred" THEN "queued" ELSE "waiting_vram"

\* An outcome writes its status, and raises no flag.
LEMMA OutcomeMerged ==
  ASSUME NEW out, NEW x \in Execution
  PROVE  /\ MarkOutcome(out, x).status = StatusOf(out)
         /\ MarkOutcome(out, x).cancel => x.cancel
  <1>1. CASE out = "success"
    BY <1>1, MergeStatus, MergeCancel DEF MarkOutcome, StatusOf
  <1>2. CASE out = "failed"
    BY <1>2, MergeStatus, MergeCancel DEF MarkOutcome, StatusOf
  <1>3. CASE out = "cancelled"
    BY <1>3, MergeStatus, MergeCancel DEF MarkOutcome, StatusOf
  <1>4. CASE out = "deferred"
    BY <1>4, MergeStatus, MergeCancel DEF MarkOutcome, StatusOf
  <1>5. CASE out \notin {"success", "failed", "cancelled", "deferred"}
    BY <1>5, MergeStatus, MergeCancel DEF MarkOutcome, StatusOf
  <1> QED BY <1>1, <1>2, <1>3, <1>4, <1>5

\* Only a deferral drops the flag without ending the execution.
LEMMA OutcomeKeepsCancel ==
  ASSUME NEW out, NEW x \in Execution, out # "deferred"
  PROVE  MarkOutcome(out, x).cancel = x.cancel \/ MarkOutcome(out, x).status \in ExecTerminal
  <1>1. CASE out \in {"success", "failed", "cancelled"}
    BY <1>1, OutcomeMerged DEF StatusOf, ExecTerminal
  <1>2. CASE out \notin {"success", "failed", "cancelled"}
    BY <1>2, MergeCancel DEF MarkOutcome
  <1> QED BY <1>1, <1>2

-----------------------------------------------------------------------------
(* When a cancellation is forgotten.  The writes that overlap others are    *)
(* those of a failure or of a cancellation: OutcomeInv says so of the       *)
(* threads, through what they are about to publish.                         *)

Ends == {"failed", "cancelled"}
OutcomeOf(j) ==
  /\ wpc[j] \in {"queue", "exec"} => wout[j] \in Outcomes
  /\ wpc[j] = "state" => wout[j] \in Ends \cup {"success"}
  /\ wpc[j] \in {"failing", "write"} => wout[j] \in Ends
OutcomeInv == \A j \in Jobs : OutcomeOf(j)

\* A thread has an outcome before it publishes it, and a bad one before it overlaps.
LEMMA WorkOutcome ==
  ASSUME TypeOK, OutcomeInv, NEW j \in Jobs, Work(j)
  PROVE  OutcomeInv'
  <1> USE DEF TypeOK, Outcomes, Ends
  <1>1. \A k \in Jobs \ {j} : wpc'[k] = wpc[k] /\ wout'[k] = wout[k]
    BY DEF Work, WorkerStart, WorkerMarkRunning, WorkerLoad, PipelineGate, PipelineBegin,
       PipelineSucceed, PipelineFail, PipelineWait, PipelineCancel, WorkerQueue, WorkerExec,
       WorkerState, WorkerWriteBack, ReadRow, WorkerFinish, Publish
  <1>2. OutcomeOf(j)'
    <2>1. CASE WorkerStart(j) \/ WorkerMarkRunning(j) \/ WorkerFinish(j)
      BY <2>1 DEF WorkerStart, WorkerMarkRunning, WorkerFinish, OutcomeOf
    <2>2. CASE WorkerLoad(j) \/ PipelineGate(j) \/ PipelineBegin(j)
      BY <2>2 DEF WorkerLoad, PipelineGate, PipelineBegin, Publish, OutcomeOf
    <2>3. CASE PipelineSucceed(j) \/ PipelineWait(j) \/ PipelineCancel(j)
      BY <2>3 DEF PipelineSucceed, PipelineWait, PipelineCancel, Publish, OutcomeOf
    <2>4. CASE PipelineFail(j)
      BY <2>4 DEF PipelineFail, ReadRow, Publish, OutcomeOf
    <2>5. CASE WorkerQueue(j)
      BY <2>5 DEF WorkerQueue, OutcomeOf, OutcomeInv
    <2>6. CASE WorkerExec(j)
      <3>1. wout[j] \in Outcomes /\ wout' = wout
        BY <2>6 DEF WorkerExec, OutcomeInv, OutcomeOf
      <3>2. wpc'[j] = IF wout[j] \in Waits THEN "finish" ELSE "state"
        BY <2>6 DEF WorkerExec
      <3> QED BY <3>1, <3>2 DEF OutcomeOf
    <2>7. CASE WorkerState(j)
      <3>1. wout[j] \in Ends \cup {"success"}
        BY <2>7 DEF WorkerState, OutcomeInv, OutcomeOf
      <3> QED BY <2>7, <3>1 DEF WorkerState, ReadRow, Publish, OutcomeOf
    <2>8. CASE WorkerWriteBack(j)
      <3>1. wout[j] \in Ends
        BY <2>8 DEF WorkerWriteBack, OutcomeInv, OutcomeOf
      <3> QED BY <2>8, <3>1 DEF WorkerWriteBack, OutcomeOf
    <2> QED BY <2>1, <2>2, <2>3, <2>4, <2>5, <2>6, <2>7, <2>8 DEF Work
  <1> QED BY <1>1, <1>2 DEF OutcomeInv, OutcomeOf

\* A thread that is about to publish has an outcome to publish.
LEMMA OutcomesHold == Spec => []OutcomeInv
  <1>1. Init => OutcomeInv
    BY DEF Init, OutcomeInv, OutcomeOf
  <1>2. ASSUME TypeOK, OutcomeInv, [Next]_vars PROVE OutcomeInv'
    <2>1. ASSUME NEW j \in Jobs, Work(j) PROVE OutcomeInv'
      BY <1>2, <2>1, WorkOutcome
    <2>2. CASE Dispatch
      <3>1. wout' = wout
        BY <2>2 DEF Dispatch, DispatchCount, DispatchFetch, DispatchDrop, DispatchClaim,
           DispatchSubmit, DispatchEnd, DispatchSkip, DispatchRefuse, DispatchTake, workers
      <3>2. wpc' = wpc \/ wpc' = [wpc EXCEPT ![disp.job] = "submitted"]
        BY <2>2 DEF Dispatch, DispatchCount, DispatchFetch, DispatchDrop, DispatchClaim,
           DispatchSubmit, DispatchEnd, DispatchSkip, DispatchRefuse, DispatchTake, workers
      <3> QED BY <1>2, <3>1, <3>2 DEF OutcomeInv, OutcomeOf, TypeOK
    <2>3. CASE Crash
      BY <2>3 DEF Crash, OutcomeInv, OutcomeOf
    <2>4. CASE \/ \E h \in Handlers :
                    HandlerStep(h) \/ \E kind \in Kinds, j \in Jobs : Receive(h, kind, j)
               \/ Reconcile \/ (\E j \in Jobs : BecomeDue(j) \/ LoseAudio(j)) \/ UNCHANGED vars
      <3>1. UNCHANGED <<wpc, wout>>
        BY <2>4 DEF HandlerStep, Receive, Lookup, Enqueue, MarkAsQueued, MarkAsReady,
           CancelDecide, CancelDequeue, CancelExecution, CancelState, CancelWriteBack,
           PauseWrite, Reconcile, ReconcileEntry, ReconcileRunning, ReconcileExec,
           ReconcileState, ReconcileWriteBack, BecomeDue, LoseAudio, workers, vars
      <3> QED BY <1>2, <3>1 DEF OutcomeInv, OutcomeOf
    <2> QED BY <1>2, <2>1, <2>2, <2>3, <2>4 DEF Next
  <1>3. TypeOK /\ OutcomeInv /\ [Next]_vars => OutcomeInv'
    BY <1>2
  <1> QED BY TypeCorrect, <1>1, <1>3, PTL DEF Spec

\* The job becomes failed or cancelled by an update_state that had read the execution
\* before the request.
Overwritten(j) == state'[j] \in Ends /\ \E b \in ReadBefore(j) : ~b.cancel

KeepsCancel ==
  \A j \in Jobs : exec[j].cancel /\ ~exec'[j].cancel =>
    \/ exec'[j].status \in ExecTerminal
    \/ HalfSubmitted(j)
    \/ wpc[j] = "exec" /\ wout[j] = "deferred"
    \/ Overwritten(j)

\* A web route forgets a request by a new submission or by a write that overlaps.
LEMMA HandlerKeepsCancel ==
  ASSUME TypeOK, NEW h \in Handlers, HandlerStep(h), NEW j \in Jobs,
         exec[j].cancel, ~exec'[j].cancel
  PROVE  exec'[j].status \in ExecTerminal \/ HalfSubmitted(j) \/ Overwritten(j)
  <1> USE DEF TypeOK
  <1>1. exec' # exec /\ exec[j] \in Execution
    OBVIOUS
  <1>2. CASE MarkAsQueued(h)
    BY <1>1, <1>2 DEF MarkAsQueued, HalfSubmitted
  <1>3. CASE CancelExecution(h)
    BY <1>1, <1>3, MergeStatus DEF CancelExecution, ExecTerminal
  <1>4. CASE CancelWriteBack(h)
    <2>1. /\ hand[h].pc = "write"
          /\ exec' = [exec EXCEPT ![hand[h].job] = hand[h].block]
          /\ state' = [state EXCEPT ![hand[h].job] = "cancelled"]
      BY <1>4 DEF CancelWriteBack
    <2>2. hand[h].job = j
      BY <2>1
    <2>3. exec'[j] = hand[h].block /\ state'[j] = "cancelled"
      BY <2>1, <2>2
    <2>4. hand[h].block \in ReadBefore(j)
      BY <2>1, <2>2 DEF ReadBefore
    <2> QED BY <2>3, <2>4 DEF Overwritten, Ends
  <1> QED BY <1>1, <1>2, <1>3, <1>4 DEF HandlerStep, Lookup, Enqueue, MarkAsReady,
             CancelDecide, CancelDequeue, CancelState, PauseWrite, tables

\* A thread forgets a request by its outcome, or by a write that overlaps.
LEMMA WorkKeepsCancel ==
  ASSUME TypeOK, OutcomeInv, NEW k \in Jobs, Work(k), NEW j \in Jobs,
         exec[j].cancel, ~exec'[j].cancel
  PROVE  \/ exec'[j].status \in ExecTerminal
         \/ wpc[j] = "exec" /\ wout[j] = "deferred"
         \/ Overwritten(j)
  <1> USE DEF TypeOK
  <1>1. exec' # exec /\ exec[j] \in Execution
    OBVIOUS
  <1>2. CASE WorkerStart(k)
    <2>1. exec'[j] = exec[j] \/ exec'[j] = MarkStarted(exec[j])
      BY <1>1, <1>2 DEF WorkerStart
    <2>2. MarkStarted(exec[j]).cancel = exec[j].cancel
      BY <1>1, MergeCancel
    <2> QED BY <2>1, <2>2
  <1>3. CASE WorkerExec(k)
    <2>1. /\ wpc[k] = "exec" /\ k = j
          /\ exec'[j] = MarkOutcome(wout[j], exec[j])
      BY <1>1, <1>3 DEF WorkerExec
    <2>2. CASE wout[j] = "deferred"
      BY <2>1, <2>2
    <2>3. CASE wout[j] # "deferred"
      BY <1>1, <2>1, <2>3, OutcomeKeepsCancel
    <2> QED BY <2>2, <2>3
  <1>4. CASE WorkerWriteBack(k)
    <2>1. /\ wpc[k] \in {"failing", "write"}
          /\ exec' = [exec EXCEPT ![k] = wblock[k]]
          /\ state' = [state EXCEPT ![k] = StateOf(wout[k])]
      BY <1>4 DEF WorkerWriteBack
    <2>2. k = j
      BY <2>1
    <2>3. exec'[j] = wblock[j] /\ state'[j] = StateOf(wout[j])
      BY <2>1, <2>2
    <2>4. StateOf(wout[j]) \in Ends
      BY <2>1, <2>2 DEF OutcomeInv, OutcomeOf, StateOf, Ends
    <2>5. wblock[j] \in ReadBefore(j)
      BY <2>1, <2>2 DEF ReadBefore
    <2> QED BY <2>3, <2>4, <2>5 DEF Overwritten
  <1> QED BY <1>1, <1>2, <1>3, <1>4 DEF Work, WorkerMarkRunning, WorkerLoad, PipelineGate,
             PipelineBegin, PipelineSucceed, PipelineFail, PipelineWait, PipelineCancel,
             WorkerQueue, WorkerState, ReadRow, WorkerFinish, tables

\* A request to cancel is forgotten in four ways only, whatever the writers of the
\* execution block do and in whatever order: its run ends, the job is submitted again,
\* the run is deferred, or an update_state to failed or cancelled writes back a block
\* it had read before the request.
THEOREM CancellationKept == Spec => CancelIsKept
  <1>1. ASSUME TypeOK, OutcomeInv, [Next]_vars PROVE KeepsCancel
    <2> SUFFICES ASSUME NEW j \in Jobs, exec[j].cancel, ~exec'[j].cancel
                 PROVE  \/ exec'[j].status \in ExecTerminal
                        \/ HalfSubmitted(j)
                        \/ wpc[j] = "exec" /\ wout[j] = "deferred"
                        \/ Overwritten(j)
      BY DEF KeepsCancel
    <2> USE <1>1 DEF TypeOK
    <2>1. exec' # exec /\ exec[j] \in Execution
      OBVIOUS
    <2>2. ASSUME NEW h \in Handlers, NEW kind \in Kinds, NEW k \in Jobs, Receive(h, kind, k)
          PROVE  FALSE
      <3>1. exec' = [exec EXCEPT ![k] = RequestCancel(@)]
        BY <2>1, <2>2 DEF Receive
      <3>2. CASE k = j
        <4>1. exec'[j] = RequestCancel(exec[j])
          BY <2>1, <3>1, <3>2
        <4>2. RequestCancel(exec[j]).cancel = TRUE
          BY <2>1, MergeCancel
        <4> QED BY <4>1, <4>2
      <3>3. CASE k # j
        BY <2>1, <3>1, <3>3
      <3> QED BY <3>2, <3>3
    <2>3. CASE \E h \in Handlers : HandlerStep(h)
      BY <2>3, HandlerKeepsCancel
    <2>4. CASE \E k \in Jobs : Work(k)
      BY <2>4, WorkKeepsCancel
    <2>5. CASE ReconcileExec
      <3>1. exec' = [exec EXCEPT ![rec.job] =
                       IF rec.ok THEN MarkCompleted(@) ELSE MarkFailed(@)]
        BY <2>5 DEF ReconcileExec
      <3> QED BY <2>1, <3>1, MergeStatus, MergeCancel DEF ExecTerminal
    <2>6. CASE ReconcileWriteBack
      <3>1. /\ rec.pc = "write"
            /\ exec' = [exec EXCEPT ![rec.job] = rec.block]
            /\ state' = [state EXCEPT ![rec.job] = "failed"]
        BY <2>6 DEF ReconcileWriteBack
      <3>2. rec.job = j
        BY <3>1
      <3>3. exec'[j] = rec.block /\ state'[j] = "failed"
        BY <3>1, <3>2
      <3>4. rec.block \in ReadBefore(j)
        BY <3>1, <3>2 DEF ReadBefore
      <3> QED BY <3>3, <3>4 DEF Overwritten, Ends
    <2>7. exec' = exec \/ ReconcileExec \/ ReconcileWriteBack
            \/ (\E h \in Handlers : HandlerStep(h))
            \/ (\E h \in Handlers, kind \in Kinds, k \in Jobs : Receive(h, kind, k))
            \/ (\E k \in Jobs : Work(k))
      BY DEF Next, Dispatch, DispatchCount, DispatchFetch, DispatchDrop, DispatchClaim,
         DispatchSubmit, DispatchEnd, DispatchSkip, DispatchRefuse, DispatchTake, BecomeDue,
         LoseAudio, Crash, Reconcile, ReconcileEntry, ReconcileRunning, ReconcileState,
         tables, vars
    <2> QED BY <2>1, <2>2, <2>3, <2>4, <2>5, <2>6, <2>7
  <1>2. TypeOK /\ OutcomeInv /\ [Next]_vars => KeepsCancel
    BY <1>1
  <1>3. KeepsCancel => \A j \in Jobs : exec[j].cancel /\ ~exec'[j].cancel =>
          \/ exec'[j].status \in ExecTerminal
          \/ HalfSubmitted(j)
          \/ wpc[j] = "exec" /\ wout[j] = "deferred"
          \/ state'[j] \in {"failed", "cancelled"} /\ \E b \in ReadBefore(j) : ~b.cancel
    BY DEF KeepsCancel, Overwritten, Ends
  <1> QED BY TypeCorrect, OutcomesHold, <1>2, <1>3, PTL DEF Spec, CancelIsKept

-----------------------------------------------------------------------------
(* No slot is lost before a restart.  SlotsAreOwned names the thread only;  *)
(* what is inductive names the steps at which it still has to give the slot *)
(* back, and what the dispatcher may write when it withdraws a candidate.   *)

SlotSteps == {"submitted", "mark", "load", "begin", "pipeline", "failing", "queue"}
BeingSubmitted(j) == disp.pc = "submit" /\ disp.job = j
Held(j) == wpc[j] \in SlotSteps \/ BeingSubmitted(j)
DropsAreEnds == disp.pc = "drop" => disp.drop \in {"cancelled", "failed"}
SlotsHeld == crashes = 0 => \A j \in Jobs : entry[j] = "running" => Held(j)
SlotInv == DropsAreEnds /\ SlotsHeld

\* The dispatcher owns the slot it has claimed, until the thread it submits does.
LEMMA DispatchSlots ==
  ASSUME TypeOK, SlotInv, Dispatch
  PROVE  SlotInv'
  <1> USE DEF TypeOK, SlotInv, DropsAreEnds, SlotsHeld, Held, BeingSubmitted, restart, workers,
              tables, SlotSteps
  <1>1. CASE DispatchCount
    BY <1>1 DEF DispatchCount
  <1>2. CASE DispatchFetch
    BY <1>2 DEF DispatchFetch
  <1>3. CASE DispatchDrop
    BY <1>3 DEF DispatchDrop
  <1>4. CASE DispatchClaim
    BY <1>4 DEF DispatchClaim
  <1>5. CASE DispatchSubmit
    BY <1>5 DEF DispatchSubmit
  <1>6. CASE DispatchEnd
    BY <1>6 DEF DispatchEnd
  <1>7. ASSUME NEW j \in Jobs, DispatchSkip(j) \/ DispatchTake(j) PROVE SlotInv'
    <2>1. disp'.pc \in {"scan", "claim"} /\ disp.pc = "scan"
      BY <1>7 DEF DispatchSkip, DispatchTake
    <2>2. UNCHANGED <<entry, wpc, crashes>>
      BY <1>7 DEF DispatchSkip, DispatchTake
    <2> QED BY <2>1, <2>2
  <1>8. ASSUME NEW j \in Jobs, DispatchRefuse(j) PROVE SlotInv'
    BY <1>8 DEF DispatchRefuse
  <1> QED BY <1>1, <1>2, <1>3, <1>4, <1>5, <1>6, <1>7, <1>8 DEF Dispatch

\* A thread gives its slot back before it leaves the steps that hold it.
LEMMA WorkSlots ==
  ASSUME TypeOK, SlotInv, NEW j \in Jobs, Work(j)
  PROVE  SlotInv'
  <1>1. /\ disp' = disp /\ crashes' = crashes
        /\ \A k \in Jobs \ {j} : entry'[k] = entry[k] /\ wpc'[k] = wpc[k]
    BY DEF Work, WorkerStart, WorkerMarkRunning, WorkerLoad, PipelineGate, PipelineBegin,
       PipelineSucceed, PipelineFail, PipelineWait, PipelineCancel, WorkerQueue, WorkerExec,
       WorkerState, WorkerWriteBack, ReadRow, WorkerFinish, Publish, tables, restart, TypeOK
  <1>2. wpc'[j] \in SlotSteps \/ (entry'[j] = "running" => entry[j] = "running" /\ wpc[j] \notin SlotSteps)
    <2>1. CASE WorkerQueue(j)
      BY <2>1 DEF WorkerQueue, EntryOf, NoEntry, TypeOK
    <2>2. CASE WorkerExec(j) \/ WorkerFinish(j) \/ WorkerState(j) \/ WorkerWriteBack(j)
      BY <2>2 DEF WorkerExec, WorkerFinish, WorkerState, WorkerWriteBack, ReadRow, tables,
         SlotSteps,
         Publish, TypeOK
    <2>3. CASE WorkerStart(j) \/ WorkerMarkRunning(j) \/ WorkerLoad(j) \/ PipelineGate(j)
               \/ PipelineBegin(j) \/ PipelineSucceed(j) \/ PipelineFail(j) \/ PipelineWait(j)
               \/ PipelineCancel(j)
      BY <2>3 DEF WorkerStart, WorkerMarkRunning, WorkerLoad, PipelineGate, PipelineBegin,
         PipelineSucceed, PipelineFail, PipelineWait, PipelineCancel, Publish, ReadRow,
         SlotSteps, TypeOK
    <2> QED BY <2>1, <2>2, <2>3 DEF Work
  <1> QED BY <1>1, <1>2 DEF SlotInv, DropsAreEnds, SlotsHeld, Held, BeingSubmitted

\* No request, reconciliation or event of the environment makes an entry run.
LEMMA OthersRunNothing ==
  ASSUME TypeOK, ~Crash,
         \/ \E h \in Handlers :
              HandlerStep(h) \/ \E kind \in Kinds, j \in Jobs : Receive(h, kind, j)
         \/ Crash \/ Reconcile \/ \E j \in Jobs : BecomeDue(j) \/ LoseAudio(j)
         \/ UNCHANGED vars
  PROVE  \A j \in Jobs : entry'[j] = "running" => entry[j] = "running"
  <1>1. ASSUME NEW h \in Handlers, Enqueue(h) \/ CancelDequeue(h) \/ PauseWrite(h)
        PROVE  \A j \in Jobs : entry'[j] = "running" => entry[j] = "running"
    <2>1. PICK e \in {entry[hand[h].job], "waiting", "cancelled", "paused"} :
            entry' = [entry EXCEPT ![hand[h].job] = e]
      <3>1. CASE Enqueue(h)
        BY <3>1 DEF Enqueue
      <3>2. CASE CancelDequeue(h)
        BY <3>2 DEF CancelDequeue
      <3>3. CASE PauseWrite(h)
        BY <3>3 DEF PauseWrite
      <3> QED BY <1>1, <3>1, <3>2, <3>3
    <2> QED BY <2>1 DEF TypeOK
  <1>2. ASSUME NEW k \in Jobs, ReconcileEntry(k)
        PROVE  \A j \in Jobs : entry'[j] = "running" => entry[j] = "running"
    <2>1. /\ EntryOfExec["failed"] = "failed" /\ EntryOfExec["completed"] = "done"
          /\ EntryOfExec["cancelled"] = "cancelled"
      BY DEF EntryOfExec
    <2>2. entry'[k] \in {"waiting", "failed", "done", "cancelled", entry[k]}
          /\ \A j \in Jobs \ {k} : entry'[j] = entry[j]
      BY <1>2, <2>1 DEF ReconcileEntry, ExecTerminal, TypeOK
    <2> QED BY <2>2
  <1>3. entry' = entry \/ (\E k \in Jobs : ReconcileEntry(k))
          \/ (\E h \in Handlers : Enqueue(h) \/ CancelDequeue(h) \/ PauseWrite(h))
    BY DEF HandlerStep, Receive, Lookup, MarkAsQueued, MarkAsReady, CancelDecide,
       CancelExecution, CancelState, CancelWriteBack, Reconcile, ReconcileRunning,
       ReconcileExec,
       ReconcileState, ReconcileWriteBack, BecomeDue, LoseAudio, tables, vars
  <1> QED BY <1>1, <1>2, <1>3

\* Nobody else takes a slot; a restart ends the promise.
LEMMA OtherSlots ==
  ASSUME TypeOK, SlotInv,
         \/ \E h \in Handlers :
              HandlerStep(h) \/ \E kind \in Kinds, j \in Jobs : Receive(h, kind, j)
         \/ Crash \/ Reconcile \/ \E j \in Jobs : BecomeDue(j) \/ LoseAudio(j)
         \/ UNCHANGED vars
  PROVE  SlotInv'
  <1> USE DEF SlotInv, DropsAreEnds, SlotsHeld, Held, BeingSubmitted
  <1>1. CASE Crash
    BY <1>1, CrashesAssumption DEF Crash, TypeOK
  <1>2. CASE ~Crash
    <2>1. UNCHANGED <<wpc, disp, crashes>>
      BY <1>2 DEF HandlerStep, Receive, Lookup, Enqueue, MarkAsQueued, MarkAsReady,
         CancelDecide, CancelDequeue, CancelExecution, CancelState, CancelWriteBack, PauseWrite,
         Reconcile, ReconcileEntry, ReconcileRunning, ReconcileExec, ReconcileState,
         ReconcileWriteBack,
         BecomeDue, LoseAudio, workers, restart, vars
    <2>2. \A j \in Jobs : entry'[j] = "running" => entry[j] = "running"
      BY <1>2, OthersRunNothing
    <2> QED BY <2>1, <2>2
  <1> QED BY <1>1, <1>2

\* SlotInv is inductive.
LEMMA SlotsHold == Spec => []SlotInv
  <1>1. Init => SlotInv
    BY DEF Init, SlotInv, DropsAreEnds, SlotsHeld, NoEntry
  <1>2. TypeOK /\ SlotInv /\ [Next]_vars => SlotInv'
    BY DispatchSlots, WorkSlots, OtherSlots DEF Next
  <1> QED BY TypeCorrect, <1>1, <1>2, PTL DEF Spec

\* Until the process is restarted, whoever holds a slot is going to give it back:
\* whatever is requested, paused, resumed or cancelled meanwhile, with any number of
\* requests at once.
THEOREM SlotsOwned == Spec => [](crashes = 0 => SlotsAreOwned)
  <1>1. SlotInv => (crashes = 0 => SlotsAreOwned)
    BY DEF SlotInv, SlotsHeld, Held, BeingSubmitted, SlotSteps, SlotsAreOwned
  <1> QED BY SlotsHold, <1>1, PTL

-----------------------------------------------------------------------------
(* Where nobody cancels, nothing is cancelled: no flag is raised, no         *)
(* execution ends cancelled, and no job is, so that no transition is refused. *)
(* Where no commit falls inside an update_state either (NoWriteBack), nobody  *)
(* writes a block back; with one that does, ImplementsLifecycle does not hold. *)

NoCancellations == Kinds \cap {"cancel", "queue_cancel"} = {}

Unflagged == \A j \in Jobs : ~exec[j].cancel /\ exec[j].status # "cancelled"
NotCancelled == \A j \in Jobs : state[j] # "cancelled" /\ wout[j] # "cancelled"
NoCancelStep ==
  \A h \in Handlers : hand[h].pc \notin {"decide", "dequeue", "cancelled", "state", "write"}
BlocksUnflagged ==
  /\ \A j \in Jobs : ~wblock[j].cancel /\ wblock[j].status # "cancelled"
  /\ ~rec.block.cancel /\ rec.block.status # "cancelled"
NoWriteBack ==
  ~Overlaps =>
  /\ \A j \in Jobs : wpc[j] \notin {"failing", "write"}
  /\ rec.pc # "write"
NeverCancelled == Unflagged /\ NotCancelled /\ NoCancelStep /\ BlocksUnflagged /\ NoWriteBack

\* The web routes cancel nothing.
LEMMA HandlerNeverCancels ==
  ASSUME NoCancellations, TypeOK, NeverCancelled, NEW h \in Handlers,
         HandlerStep(h) \/ \E kind \in Kinds, j \in Jobs : Receive(h, kind, j)
  PROVE  NeverCancelled'
  <1> USE DEF TypeOK, NeverCancelled, Unflagged, NotCancelled, NoCancelStep, BlocksUnflagged,
          NoWriteBack
  <1>1. ASSUME NEW kind \in Kinds, NEW j \in Jobs, Receive(h, kind, j) PROVE NeverCancelled'
    <2>1. kind \in {"process", "reprocess", "pause", "resume"}
      BY KindsAssumption DEF NoCancellations
    <2>2. FirstStep(kind) \in {"lookup", "pause", "resume"}
      BY <2>1 DEF FirstStep
    <2>3. UNCHANGED <<exec, state, wpc, wout, wblock, rec>>
      BY <1>1, <2>1 DEF Receive, workers, restart
    <2>4. NoCancelStep'
      BY <1>1, <2>2 DEF Receive
    <2> QED BY <2>3, <2>4
  <1>2. CASE HandlerStep(h)
    <2>1. Lookup(h) \/ Enqueue(h) \/ MarkAsQueued(h) \/ MarkAsReady(h) \/ PauseWrite(h)
      BY <1>2 DEF HandlerStep, CancelDecide, CancelDequeue, CancelExecution, CancelState,
         CancelWriteBack
    <2>2. NoCancelStep' /\ wout' = wout
      <3>1. hand'[h].pc \in {"idle", "enqueue", "queued", "ready"}
        <4>1. CASE Lookup(h)
          BY <4>1 DEF Lookup, Answer
        <4>2. CASE Enqueue(h) \/ MarkAsQueued(h)
          <5>1. \/ hand' = [hand EXCEPT ![h].pc = "queued", ![h].seen = NoEntry]
                \/ hand' = [hand EXCEPT ![h].pc = "ready"]
            BY <4>2 DEF Enqueue, MarkAsQueued, Goto
          <5> QED BY <5>1
        <4>3. CASE MarkAsReady(h) \/ PauseWrite(h)
          BY <4>3 DEF MarkAsReady, PauseWrite, Answer
        <4> QED BY <2>1, <4>1, <4>2, <4>3
      <3>2. \A g \in Handlers \ {h} : hand'[g] = hand[g]
        <4>1. CASE Lookup(h)
          BY <4>1 DEF Lookup, Answer
        <4>2. CASE Enqueue(h)
          <5>1. hand' = [hand EXCEPT ![h].pc = "queued", ![h].seen = NoEntry]
            BY <4>2 DEF Enqueue, Goto
          <5> QED BY <5>1
        <4>3. CASE MarkAsQueued(h)
          BY <4>3 DEF MarkAsQueued, Goto
        <4>4. CASE MarkAsReady(h) \/ PauseWrite(h)
          BY <4>4 DEF MarkAsReady, PauseWrite, Answer
        <4> QED BY <2>1, <4>1, <4>2, <4>3, <4>4
      <3>3. wout' = wout
        BY <2>1 DEF Lookup, Enqueue, MarkAsQueued, MarkAsReady, PauseWrite, workers
      <3> QED BY <3>1, <3>2, <3>3
    <2>3. ASSUME NEW j \in Jobs PROVE ~exec'[j].cancel /\ exec'[j].status # "cancelled"
      <3>1. exec'[j] = exec[j] \/ exec'[j] = MarkQueued(exec[j])
        <4>1. CASE MarkAsQueued(h)
          BY <4>1 DEF MarkAsQueued
        <4>2. CASE ~MarkAsQueued(h)
          BY <2>1, <4>2 DEF Lookup, Enqueue, MarkAsReady, PauseWrite, tables
        <4> QED BY <4>1, <4>2
      <3>2. MarkQueued(exec[j]).status = "queued" /\ ~MarkQueued(exec[j]).cancel
        <4>1. exec[j] \in Execution /\ ~exec[j].cancel
          OBVIOUS
        <4> QED BY <4>1, MergeStatus, MergeCancel
      <3> QED BY <3>1, <3>2
    <2>4. ASSUME NEW j \in Jobs PROVE state'[j] # "cancelled"
      <3>1. state'[j] = state[j] \/ state'[j] = "ready"
        <4>1. CASE MarkAsReady(h)
          BY <4>1 DEF MarkAsReady
        <4>2. CASE ~MarkAsReady(h)
          BY <2>1, <4>2 DEF Lookup, Enqueue, MarkAsQueued, PauseWrite, tables
        <4> QED BY <4>1, <4>2
      <3> QED BY <3>1
    <2>5. UNCHANGED <<wpc, wblock, rec>>
      BY <2>1 DEF Lookup, Enqueue, MarkAsQueued, MarkAsReady, PauseWrite, workers, restart
    <2> QED BY <2>2, <2>3, <2>4, <2>5
  <1> QED BY <1>1, <1>2

\* A worker thread publishes no cancellation.
LEMMA WorkNeverCancels ==
  ASSUME TypeOK, NeverCancelled, NEW j \in Jobs, Work(j)
  PROVE  NeverCancelled'
  <1> USE DEF TypeOK, NeverCancelled, Unflagged, NotCancelled, NoCancelStep, BlocksUnflagged,
          NoWriteBack
  <1>1. hand' = hand
    BY DEF Work, WorkerStart, WorkerMarkRunning, WorkerLoad, PipelineGate, PipelineBegin,
       PipelineSucceed, PipelineFail, PipelineWait, PipelineCancel, WorkerQueue, WorkerExec,
       WorkerState, WorkerWriteBack, ReadRow, WorkerFinish
  <1>2. ASSUME NEW k \in Jobs PROVE wout'[k] # "cancelled"
    <2>1. wout'[k] \in {wout[k], "none", "success", "failed", "deferred", "waiting_vram"}
      BY DEF Work, WorkerStart, WorkerMarkRunning, WorkerLoad, PipelineGate, PipelineBegin,
         PipelineSucceed, PipelineFail, PipelineWait, PipelineCancel, WorkerQueue, WorkerExec,
         WorkerState, WorkerWriteBack, ReadRow, WorkerFinish, Publish
    <2> QED BY <2>1
  <1>3. ASSUME NEW k \in Jobs PROVE ~exec'[k].cancel /\ exec'[k].status # "cancelled"
    <2>1. exec'[k] \in {exec[k], wblock[k], MarkStarted(exec[k]), MarkOutcome(wout[k], exec[k])}
      BY DEF Work, WorkerStart, WorkerMarkRunning, WorkerLoad, PipelineGate, PipelineBegin,
         PipelineSucceed, PipelineFail, PipelineWait, PipelineCancel, WorkerQueue, WorkerExec,
         WorkerState, WorkerWriteBack, ReadRow, WorkerFinish, tables
    <2>2. MarkStarted(exec[k]).status = "running" /\ ~MarkStarted(exec[k]).cancel
      <3>1. /\ exec[k] \in Execution /\ ~exec[k].cancel
            /\ MarkStarted(exec[k]).cancel = exec[k].cancel
        BY MergeCancel
      <3> QED BY <3>1, MergeStatus
    <2>3. /\ MarkOutcome(wout[k], exec[k]).status = StatusOf(wout[k])
          /\ ~MarkOutcome(wout[k], exec[k]).cancel
      BY OutcomeMerged
    <2>4. StatusOf(wout[k]) # "cancelled"
      BY DEF StatusOf
    <2> QED BY <2>1, <2>2, <2>3, <2>4
  <1>4. ASSUME NEW k \in Jobs PROVE state'[k] # "cancelled"
    <2>1. CASE WorkerState(j)
      BY <2>1 DEF WorkerState, StateOf
    <2>2. CASE ~WorkerState(j)
      <3>1. state'[k] \in {state[k], "working", "checked", "completed", "failed"}
        BY <2>2 DEF StateOf, Work, WorkerStart, WorkerMarkRunning, WorkerLoad, PipelineGate,
           PipelineBegin, PipelineSucceed, PipelineFail, PipelineWait, PipelineCancel,
           WorkerQueue, WorkerExec, WorkerWriteBack, WorkerFinish, tables
      <3> QED BY <3>1
    <2> QED BY <2>1, <2>2
  <1>5. /\ rec' = rec
        /\ ~Overlaps => \A k \in Jobs : wpc'[k] \notin {"failing", "write"}
    BY DEF Work, WorkerStart, WorkerMarkRunning, WorkerLoad, PipelineGate, PipelineBegin,
       PipelineSucceed, PipelineFail, PipelineWait, PipelineCancel, WorkerQueue, WorkerExec,
       WorkerState, WorkerWriteBack, WorkerFinish, Publish, restart
  <1>6. ASSUME NEW k \in Jobs PROVE ~wblock'[k].cancel /\ wblock'[k].status # "cancelled"
    <2>1. wblock'[k] \in {wblock[k], exec[k], NoExecution}
      BY DEF Work, WorkerStart, WorkerMarkRunning, WorkerLoad, PipelineGate, PipelineBegin,
         PipelineSucceed, PipelineFail, PipelineWait, PipelineCancel, WorkerQueue, WorkerExec,
         WorkerState, WorkerWriteBack, ReadRow, WorkerFinish, Publish
    <2> QED BY <2>1 DEF NoExecution
  <1> QED BY <1>1, <1>2, <1>3, <1>4, <1>5, <1>6

\* Nor do the dispatcher, the environment, a restart and its reconciliation.
LEMMA OtherNeverCancels ==
  ASSUME TypeOK, NeverCancelled,
         Dispatch \/ Crash \/ Reconcile \/ (\E j \in Jobs : BecomeDue(j) \/ LoseAudio(j))
         \/ UNCHANGED vars
  PROVE  NeverCancelled'
  <1> USE DEF TypeOK, NeverCancelled, Unflagged, NotCancelled, NoCancelStep, BlocksUnflagged,
          NoWriteBack
  <1>1. CASE Crash
    BY <1>1 DEF Crash, RecIdle, NoExecution, tables
  <1>2. CASE ReconcileExec
    <2>1. UNCHANGED <<state, wpc, wout, wblock, hand>>
          /\ rec'.pc = "state" /\ rec'.block = rec.block
      BY <1>2 DEF ReconcileExec, workers
    <2>2. ASSUME NEW j \in Jobs PROVE ~exec'[j].cancel /\ exec'[j].status # "cancelled"
      <3>1. exec'[j] \in {exec[j], MarkCompleted(exec[j]), MarkFailed(exec[j])}
        BY <1>2 DEF ReconcileExec
      <3>2. /\ MarkCompleted(exec[j]).status = "completed" /\ ~MarkCompleted(exec[j]).cancel
            /\ MarkFailed(exec[j]).status = "failed" /\ ~MarkFailed(exec[j]).cancel
        <4>1. exec[j] \in Execution /\ ~exec[j].cancel
          OBVIOUS
        <4> QED BY <4>1, MergeStatus, MergeCancel
      <3> QED BY <3>1, <3>2
    <2> QED BY <2>1, <2>2
  <1>3. CASE ReconcileState
    <2>1. UNCHANGED <<exec, wpc, wout, wblock, hand>> /\ (~Overlaps => rec'.pc = "idle")
      BY <1>3 DEF ReconcileState, RecIdle, workers
    <2>3. ~rec'.block.cancel /\ rec'.block.status # "cancelled"
      <3>1. rec.job \in Jobs
        BY <1>3 DEF ReconcileState
      <3>2. rec' = RecIdle \/ rec' = [rec EXCEPT !.pc = "write", !.block = exec[rec.job]]
        BY <1>3 DEF ReconcileState
      <3>3. CASE rec' = RecIdle
        BY <3>3 DEF RecIdle, NoExecution
      <3>4. CASE rec' = [rec EXCEPT !.pc = "write", !.block = exec[rec.job]]
        <4>1. rec'.block = exec[rec.job]
          BY <3>4
        <4> QED BY <3>1, <4>1
      <3> QED BY <3>2, <3>3, <3>4
    <2>2. ASSUME NEW j \in Jobs PROVE state'[j] # "cancelled"
      <3>1. state'[j] \in {state[j], "completed", "failed"}
        BY <1>3 DEF ReconcileState
      <3> QED BY <3>1
    <2> QED BY <2>1, <2>2, <2>3
  <1>4. CASE ReconcileWriteBack
    <2>1. /\ UNCHANGED <<wpc, wout, wblock, hand>> /\ rec' = RecIdle
          /\ state' = [state EXCEPT ![rec.job] = "failed"]
          /\ exec' = [exec EXCEPT ![rec.job] = rec.block]
      BY <1>4 DEF ReconcileWriteBack, workers
    <2> QED BY <2>1 DEF RecIdle, NoExecution
  <1>5. CASE ~Crash /\ ~ReconcileExec /\ ~ReconcileState /\ ~ReconcileWriteBack
    <2>1. UNCHANGED <<exec, state, wout, wblock, hand>>
      BY <1>5 DEF Dispatch, DispatchCount, DispatchFetch, DispatchDrop, DispatchClaim,
         DispatchSubmit, DispatchEnd, DispatchSkip, DispatchRefuse, DispatchTake, BecomeDue,
         LoseAudio, Reconcile, ReconcileEntry, ReconcileRunning, ReconcileWriteBack, tables,
         workers, vars
    <2>2. rec'.pc # "write" \/ rec' = rec
      <3>1. CASE Reconcile
        BY <1>5, <3>1 DEF Reconcile, ReconcileEntry, ReconcileRunning, ReconcileWriteBack
      <3>2. CASE ~Reconcile
        <4>1. rec' = rec
          BY <1>5, <3>2 DEF Dispatch, DispatchCount, DispatchFetch, DispatchDrop,
             DispatchClaim, DispatchSubmit, DispatchEnd, DispatchSkip, DispatchRefuse,
             DispatchTake, BecomeDue, LoseAudio, restart, vars
        <4> QED BY <4>1
      <3> QED BY <3>1, <3>2
    <2>4. rec'.block = rec.block \/ rec'.block = NoExecution
      <3>1. CASE Reconcile
        BY <1>5, <3>1 DEF Reconcile, ReconcileEntry, ReconcileRunning
      <3>2. CASE ~Reconcile
        <4>1. rec' = rec
          BY <1>5, <3>2 DEF Dispatch, DispatchCount, DispatchFetch, DispatchDrop,
             DispatchClaim, DispatchSubmit, DispatchEnd, DispatchSkip, DispatchRefuse,
             DispatchTake, BecomeDue, LoseAudio, restart, vars
        <4> QED BY <4>1
      <3> QED BY <3>1, <3>2
    <2>3. wpc' = wpc \/ wpc' = [wpc EXCEPT ![disp.job] = "submitted"]
      BY <1>5 DEF Dispatch, DispatchCount, DispatchFetch, DispatchDrop, DispatchClaim,
         DispatchSubmit, DispatchEnd, DispatchSkip, DispatchRefuse, DispatchTake, BecomeDue,
         LoseAudio, Reconcile, ReconcileEntry, ReconcileRunning, ReconcileWriteBack, workers,
         vars
    <2> QED BY <2>1, <2>2, <2>3, <2>4 DEF NoExecution
  <1> QED BY <1>1, <1>2, <1>3, <1>4, <1>5

\* NeverCancelled is inductive.
LEMMA NothingCancelled ==
  ASSUME NoCancellations
  PROVE  Spec => []NeverCancelled
  <1>1. Init => NeverCancelled
    BY DEF Init, NeverCancelled, Unflagged, NotCancelled, NoCancelStep, BlocksUnflagged,
       NoWriteBack, RecIdle, Idle, NoExecution
  <1>2. TypeOK /\ NeverCancelled /\ [Next]_vars => NeverCancelled'
    BY HandlerNeverCancels, WorkNeverCancels, OtherNeverCancels DEF Next
  <1> QED BY TypeCorrect, <1>1, <1>2, PTL DEF Spec

-----------------------------------------------------------------------------
(* No run is left "running".  NoGhostRun speaks of settled jobs only; at any *)
(* time an execution that runs has a thread which will publish its outcome,  *)
(* or the reconciliation still has it to judge, or an update_state revived it. *)

RunSteps == {"mark", "load", "begin", "pipeline", "failing", "queue", "exec"}
Judged(j) == j \in todo /\ ~(rec.pc \in {"state", "write"} /\ rec.job = j)
RunsHeld ==
  \A j \in Jobs : exec[j].status = "running" =>
    wpc[j] \in RunSteps \/ Judged(j) \/ j \in revived

\* A thread that leaves those steps has ended its execution.
LEMMA WorkHoldsRuns ==
  ASSUME TypeOK, NeverCancelled, RunsHeld, NEW j \in Jobs, Work(j)
  PROVE  RunsHeld'
  <1> USE DEF TypeOK
  <1>1. /\ UNCHANGED <<todo, rec>> /\ revived \subseteq revived'
        /\ \A k \in Jobs \ {j} : exec'[k] = exec[k] /\ wpc'[k] = wpc[k]
    BY DEF Work, WorkerStart, WorkerMarkRunning, WorkerLoad, PipelineGate, PipelineBegin,
       PipelineSucceed, PipelineFail, PipelineWait, PipelineCancel, WorkerQueue, WorkerExec,
       WorkerState, WorkerWriteBack, Revive, ReadRow, WorkerFinish, Publish, tables, restart
  <1>2. \/ wpc'[j] \in RunSteps \/ exec'[j].status # "running" \/ j \in revived'
        \/ exec[j].status = "running" /\ wpc[j] \notin RunSteps
    <2>1. CASE WorkerExec(j)
      <3>1. exec'[j] = MarkOutcome(wout[j], exec[j])
        BY <2>1 DEF WorkerExec
      <3>2. MarkOutcome(wout[j], exec[j]).status = StatusOf(wout[j])
        BY OutcomeMerged
      <3> QED BY <3>1, <3>2 DEF StatusOf
    <2>2. CASE WorkerState(j) \/ WorkerFinish(j)
      BY <2>2 DEF WorkerState, WorkerFinish, Publish, ReadRow, tables, RunSteps
    <2>3. CASE WorkerStart(j) \/ WorkerMarkRunning(j) \/ WorkerLoad(j) \/ PipelineGate(j)
               \/ PipelineBegin(j) \/ PipelineSucceed(j) \/ PipelineFail(j) \/ PipelineWait(j)
               \/ PipelineCancel(j) \/ WorkerQueue(j)
      BY <2>3 DEF WorkerStart, WorkerMarkRunning, WorkerLoad, PipelineGate, PipelineBegin,
         PipelineSucceed, PipelineFail, PipelineWait, PipelineCancel, WorkerQueue, Publish,
         ReadRow, RunSteps
    <2>4. CASE WorkerWriteBack(j)
      BY <2>4 DEF WorkerWriteBack, Revive, RunSteps
    <2> QED BY <2>1, <2>2, <2>3, <2>4 DEF Work
  <1> QED BY <1>1, <1>2 DEF RunsHeld, Judged

\* The reconciliation forgets a job only once its execution is closed: no transition
\* is refused, so that the loop goes to its end.
LEMMA ReconcileHoldsRuns ==
  ASSUME TypeOK, NeverCancelled, RunsHeld, Reconcile
  PROVE  RunsHeld'
  <1> USE DEF TypeOK, RunsHeld, Judged
  <1>1. ASSUME NEW j \in Jobs, ReconcileEntry(j) PROVE RunsHeld'
    BY <1>1 DEF ReconcileEntry, workers
  <1>2. ASSUME NEW j \in Jobs, ReconcileRunning(j) PROVE RunsHeld'
    BY <1>2 DEF ReconcileRunning, tables, workers
  <1>3. CASE ReconcileExec
    <2>1. /\ UNCHANGED <<wpc, todo, revived>>
          /\ rec.job \in Jobs /\ rec'.job = rec.job /\ rec'.pc = "state"
      BY <1>3 DEF ReconcileExec, workers
    <2>2. exec'[rec.job].status # "running"
      <3>1. exec'[rec.job] \in {MarkCompleted(exec[rec.job]), MarkFailed(exec[rec.job])}
        BY <1>3, <2>1 DEF ReconcileExec
      <3>2. /\ MarkCompleted(exec[rec.job]).status = "completed"
            /\ MarkFailed(exec[rec.job]).status = "failed"
        BY <2>1, MergeStatus
      <3> QED BY <3>1, <3>2
    <2>3. \A k \in Jobs \ {rec.job} : exec'[k] = exec[k]
      BY <1>3 DEF ReconcileExec
    <2>4. rec.pc = "exec"
      BY <1>3 DEF ReconcileExec
    <2> QED BY <2>1, <2>2, <2>3, <2>4
  <1>4. CASE ReconcileState
    <2>1. rec.job \in Jobs /\ rec.pc = "state"
      BY <1>4 DEF ReconcileState
    <2>2. state[rec.job] # "cancelled"
      BY <2>1 DEF NeverCancelled, NotCancelled
    <2>3. Allowed(state[rec.job], IF rec.ok THEN "completed" ELSE "failed")
      BY <2>2 DEF Allowed, TerminalState, FromTerminal
    <2>4. \/ todo' = todo \ {rec.job} /\ rec'.pc = "idle"
          \/ todo' = todo /\ rec'.pc = "write" /\ rec'.job = rec.job
      <3>1. CASE Overlaps /\ ~rec.ok
        <4>1. todo' = todo /\ rec' = [rec EXCEPT !.pc = "write", !.block = exec[rec.job]]
          BY <1>4, <3>1 DEF ReconcileState
        <4> QED BY <4>1
      <3>2. CASE ~(Overlaps /\ ~rec.ok)
        <4>1. todo' = todo \ {rec.job} /\ rec' = RecIdle
          BY <1>4, <2>3, <3>2 DEF ReconcileState
        <4> QED BY <4>1 DEF RecIdle
      <3> QED BY <3>1, <3>2
    <2>5. UNCHANGED <<exec, wpc, revived>>
      BY <1>4 DEF ReconcileState, workers
    <2> QED BY <2>1, <2>4, <2>5
  <1>5. CASE ReconcileWriteBack
    <2>1. /\ rec.job \in Jobs /\ rec.pc = "write"
          /\ todo' = todo \ {rec.job} /\ rec'.pc = "idle" /\ wpc' = wpc
          /\ exec' = [exec EXCEPT ![rec.job] = rec.block]
      BY <1>5 DEF ReconcileWriteBack, RecIdle, workers
    <2>2. /\ revived \subseteq revived'
          /\ exec'[rec.job].status = "running" /\ exec[rec.job].status # "running"
               => rec.job \in revived'
      BY <1>5, <2>1 DEF ReconcileWriteBack, Revive
    <2> QED BY <2>1, <2>2
  <1> QED BY <1>1, <1>2, <1>3, <1>4, <1>5 DEF Reconcile

\* Whoever else steps starts no execution; a restart has all of them judged.
LEMMA OtherHoldsRuns ==
  ASSUME TypeOK, NoSecondThread, NeverCancelled, RunsHeld,
         \/ \E h \in Handlers :
              HandlerStep(h) \/ \E kind \in Kinds, j \in Jobs : Receive(h, kind, j)
         \/ Dispatch \/ Crash \/ (\E j \in Jobs : BecomeDue(j) \/ LoseAudio(j))
         \/ UNCHANGED vars
  PROVE  RunsHeld'
  <1> USE DEF TypeOK, RunsHeld, Judged
  <1>1. CASE Crash
    BY <1>1 DEF Crash, tables
  <1>2. CASE Dispatch
    <2>1. UNCHANGED <<exec, todo, rec, revived>>
      BY <1>2 DEF Dispatch, DispatchCount, DispatchFetch, DispatchDrop, DispatchClaim,
         DispatchSubmit, DispatchEnd, DispatchSkip, DispatchRefuse, DispatchTake, tables,
         restart
    <2>2. \A j \in Jobs : wpc'[j] = wpc[j] \/ wpc[j] \notin RunSteps \/ wpc'[j] \in RunSteps
      <3>1. CASE DispatchSubmit
        BY <3>1 DEF DispatchSubmit, NoSecondThread, RunSteps
      <3>2. CASE ~DispatchSubmit
        BY <1>2, <3>2 DEF Dispatch, DispatchCount, DispatchFetch, DispatchDrop, DispatchClaim,
           DispatchEnd, DispatchSkip, DispatchRefuse, DispatchTake, workers
      <3> QED BY <3>1, <3>2
    <2> QED BY <2>1, <2>2
  <1>3. CASE UNCHANGED vars \/ (\E j \in Jobs : BecomeDue(j) \/ LoseAudio(j))
    BY <1>3 DEF BecomeDue, LoseAudio, vars, tables, workers, restart
  <1>4. CASE \E h \in Handlers :
               HandlerStep(h) \/ \E kind \in Kinds, j \in Jobs : Receive(h, kind, j)
    <2>1. UNCHANGED <<wpc, todo, rec, revived>>
      BY <1>4 DEF NeverCancelled, NoCancelStep,
         HandlerStep, Receive, Lookup, Enqueue, MarkAsQueued, MarkAsReady,
         CancelDecide, CancelDequeue, CancelExecution, CancelState, CancelWriteBack,
         PauseWrite, workers, restart
    <2>2. ASSUME NEW k \in Jobs PROVE exec'[k].status = "running" => exec[k].status = "running"
      <3>1. exec'[k] \in {exec[k], MarkQueued(exec[k]), MarkCancelled(exec[k]),
                          RequestCancel(exec[k])}
        <4>1. ASSUME NEW h \in Handlers, HandlerStep(h)
              PROVE  exec'[k] \in {exec[k], MarkQueued(exec[k]), MarkCancelled(exec[k])}
          <5>1. CASE MarkAsQueued(h)
            BY <5>1 DEF MarkAsQueued
          <5>2. CASE CancelExecution(h)
            BY <5>2 DEF CancelExecution
          <5>3. CASE ~MarkAsQueued(h) /\ ~CancelExecution(h)
            BY <4>1, <5>3 DEF HandlerStep, Lookup, Enqueue, MarkAsReady, CancelDecide,
               CancelDequeue, CancelState, CancelWriteBack, PauseWrite, tables,
               NeverCancelled, NoCancelStep
          <5> QED BY <5>1, <5>2, <5>3
        <4>2. ASSUME NEW h \in Handlers, NEW kind \in Kinds, NEW j \in Jobs, Receive(h, kind, j)
              PROVE  exec'[k] \in {exec[k], RequestCancel(exec[k])}
          BY <4>2 DEF Receive
        <4> QED BY <1>4, <4>1, <4>2
      <3>2. /\ MarkQueued(exec[k]).status = "queued"
            /\ MarkCancelled(exec[k]).status = "cancelled"
            /\ RequestCancel(exec[k]).status = exec[k].status
        BY MergeStatus
      <3> QED BY <3>1, <3>2
    <2> QED BY <2>1, <2>2
  <1> QED BY <1>1, <1>2, <1>3, <1>4

\* Where nobody cancels, the reconciliation of a restart, however often the process is
\* restarted and whatever is committed inside an update_state, leaves no job "running"
\* without a thread, but for those an update_state wrote back as running.
THEOREM NoRunIsLeft ==
  ASSUME NoCancellations
  PROVE  Spec => []NoGhostRun
  <1>1. Init => RunsHeld
    BY DEF Init, RunsHeld, NoExecution
  <1>2. TypeOK /\ NoSecondThread /\ NeverCancelled /\ RunsHeld /\ [Next]_vars => RunsHeld'
    BY WorkHoldsRuns, ReconcileHoldsRuns, OtherHoldsRuns DEF Next
  <1>3. RunsHeld => NoGhostRun
    BY DEF RunsHeld, Judged, RunSteps, NoGhostRun, Settled
  <1> QED BY TypeCorrect, NeverTwoThreads, NothingCancelled, <1>1, <1>2, <1>3, PTL DEF Spec

-----------------------------------------------------------------------------
(* One submission at a time, without interruption: the setting in which an  *)
(* accepted launch cannot be lost.  QuietInv says what does not happen in it.*)

Quiet ==
  /\ NoCancellations /\ ~Overlaps /\ MaxCrashes = 0 /\ Prompt
  /\ \A g, h \in Handlers : g = h

Undisturbed == crashes = 0 /\ todo = {} /\ rec.pc = "idle"
AudioKept == AudioLoss \/ \A j \in Jobs : audio[j]
DropsAreLosses == disp.pc = "drop" => AudioLoss /\ disp.drop = "failed"
QuietInv == Undisturbed /\ AudioKept /\ DropsAreLosses

\* Nothing is reconciled, and a candidate is withdrawn only for its audio.
LEMMA QuietStep ==
  ASSUME MaxCrashes = 0, TypeOK, NeverCancelled, QuietInv, [Next]_vars
  PROVE  QuietInv' /\ ~Crash /\ ~Reconcile
  <1> USE DEF QuietInv
  <1>1. ~Crash /\ ~Reconcile
    BY DEF Undisturbed, Crash, Reconcile, ReconcileEntry, ReconcileRunning, ReconcileExec,
       ReconcileState, ReconcileWriteBack
  <1>2. Undisturbed'
    BY <1>1, ZenonT(30)
      DEF Undisturbed, Next, HandlerStep, Receive, Lookup, Enqueue, MarkAsQueued,
       MarkAsReady, CancelDecide, CancelDequeue, CancelExecution, CancelState,
       CancelWriteBack, PauseWrite,
       Dispatch, DispatchCount, DispatchFetch, DispatchDrop, DispatchClaim, DispatchSubmit,
       DispatchEnd, DispatchSkip, DispatchRefuse, DispatchTake, Work, WorkerStart,
       WorkerMarkRunning, WorkerLoad, PipelineGate, PipelineBegin, PipelineSucceed,
       PipelineFail, PipelineWait, PipelineCancel, WorkerQueue, WorkerExec, WorkerState,
       WorkerWriteBack, ReadRow,
       WorkerFinish, BecomeDue, LoseAudio, restart, vars
  <1>3. AudioKept'
    <2>1. CASE AudioLoss
      BY <2>1 DEF AudioKept
    <2>2. CASE ~AudioLoss
      <3>1. audio' = audio
        BY <1>1, <2>2, ZenonT(30) DEF Next, HandlerStep, Receive, Lookup, Enqueue, MarkAsQueued,
           MarkAsReady, CancelDecide, CancelDequeue, CancelExecution, CancelState,
           CancelWriteBack, PauseWrite,
           Dispatch, DispatchCount, DispatchFetch, DispatchDrop, DispatchClaim, DispatchSubmit,
           DispatchEnd, DispatchSkip, DispatchRefuse, DispatchTake, Work, WorkerStart,
           WorkerMarkRunning, WorkerLoad, PipelineGate, PipelineBegin, PipelineSucceed,
           PipelineFail, PipelineWait, PipelineCancel, WorkerQueue, WorkerExec, WorkerState,
           WorkerWriteBack, ReadRow,
           WorkerFinish, BecomeDue, LoseAudio, files, vars
      <3> QED BY <2>2, <3>1 DEF AudioKept
    <2> QED BY <2>1, <2>2
  <1>4. DropsAreLosses'
    <2>1. ASSUME NEW j \in Jobs, DispatchRefuse(j) PROVE DropsAreLosses'
      <3>1. ~Cancelled(j)
        BY DEF Cancelled, NeverCancelled, Unflagged, NotCancelled
      <3>2. disp'.drop = "failed" /\ ~audio[j]
        BY <2>1, <3>1 DEF DispatchRefuse, TypeOK
      <3> QED BY <3>2 DEF AudioKept, DropsAreLosses
    <2>2. CASE Dispatch /\ ~(\E j \in Jobs : DispatchRefuse(j))
      <3>1. disp'.pc # "drop"
        <4>1. CASE DispatchCount \/ DispatchFetch \/ DispatchDrop \/ DispatchEnd
          <5>1. CASE DispatchCount
            BY <5>1 DEF DispatchCount, TypeOK
          <5>2. CASE DispatchFetch \/ DispatchDrop
            BY <5>2 DEF DispatchFetch, DispatchDrop, TypeOK
          <5>3. CASE DispatchEnd
            BY <5>3 DEF DispatchEnd
          <5> QED BY <4>1, <5>1, <5>2, <5>3
        <4>2. CASE DispatchClaim \/ DispatchSubmit
          BY <4>2 DEF DispatchClaim, DispatchSubmit, TypeOK
        <4>3. ASSUME NEW j \in Jobs, DispatchSkip(j) \/ DispatchTake(j) PROVE disp'.pc # "drop"
          BY <4>3 DEF DispatchSkip, DispatchTake, TypeOK
        <4> QED BY <2>2, <4>1, <4>2, <4>3 DEF Dispatch
      <3> QED BY <3>1 DEF DropsAreLosses
    <2>3. CASE ~Dispatch
      <3>1. disp' = disp
        BY <1>1, <2>3, ZenonT(30) DEF Next, HandlerStep, Receive, Lookup, Enqueue, MarkAsQueued,
           MarkAsReady, CancelDecide, CancelDequeue, CancelExecution, CancelState,
           CancelWriteBack, PauseWrite,
           Work, WorkerStart, WorkerMarkRunning, WorkerLoad, PipelineGate, PipelineBegin,
           PipelineSucceed, PipelineFail, PipelineWait, PipelineCancel, WorkerQueue,
           WorkerExec, WorkerState, WorkerWriteBack, ReadRow, WorkerFinish, BecomeDue,
           LoseAudio, vars
      <3> QED BY <3>1 DEF DropsAreLosses
    <2> QED BY <2>1, <2>2, <2>3
  <1> QED BY <1>1, <1>2, <1>3, <1>4

\* QuietInv is inductive, given NeverCancelled.
LEMMA QuietHolds ==
  ASSUME NoCancellations, ~Overlaps, MaxCrashes = 0
  PROVE  Spec => []QuietInv
  <1>1. Init => QuietInv
    BY DEF Init, QuietInv, Undisturbed, AudioKept, DropsAreLosses
  <1>2. TypeOK /\ NeverCancelled /\ QuietInv /\ [Next]_vars => QuietInv'
    BY QuietStep
  <1> QED BY TypeCorrect, NothingCancelled, <1>1, <1>2, PTL DEF Spec

-----------------------------------------------------------------------------
(* An accepted launch is in the queue until its run.  NoZombie speaks of    *)
(* settled jobs; InQueue follows a job through its submission, its slot and *)
(* its outcome, and is what one submission at a time keeps true.            *)

Pending == {"queued", "waiting_vram"}
AtEnqueue(j) == \E h \in Handlers : hand[h].pc = "enqueue" /\ hand[h].job = j
Lost(j) == AudioLoss /\ entry[j] = "failed"

\* A job that holds a slot has an entry the requests leave alone.
SlotIsActive(j) == Held(j) => entry[j] \in {"waiting", "paused", "running"}
\* Its execution runs from the first step of the thread to the outcome.
RunIsShown(j) ==
  /\ wpc[j] \in SlotSteps \ {"submitted"} => exec[j].status = "running"
  /\ exec[j].status = "running" => wpc[j] \in RunSteps
\* The entry says the outcome first, unless somebody has paused or resumed it since.
EntryIsFirst(j) == wpc[j] = "exec" => entry[j] \in {EntryOf(wout[j]), "waiting", "paused"}
\* The entry a submission is about to write is nobody's.
EntryIsFree(j) == AtEnqueue(j) => entry[j] \in {NoEntry} \cup EntryTerminal
\* Between its two writes, nobody has taken the entry it wrote.
EntryIsKept(j) == HalfSubmitted(j) => ~Held(j) /\ (entry[j] = "waiting" \/ Lost(j))
\* A pending execution that holds no slot has an entry that will be dispatched.
PendingIsQueued(j) ==
  exec[j].status \in Pending /\ ~Held(j) => entry[j] \in {"waiting", "paused"} \/ Lost(j)

InQueue(j) ==
  /\ SlotIsActive(j) /\ RunIsShown(j) /\ EntryIsFirst(j)
  /\ EntryIsFree(j) /\ EntryIsKept(j) /\ PendingIsQueued(j)
QueueInv == \A j \in Jobs : InQueue(j)

\* A step that leaves the columns, the thread and the slot of a job alone, and makes
\* no submission reach it, keeps InQueue.
LEMMA InQueueFrame ==
  ASSUME NEW k \in Jobs, InQueue(k),
         entry'[k] = entry[k], exec'[k].status = exec[k].status,
         wpc'[k] = wpc[k], wout'[k] = wout[k], BeingSubmitted(k)' <=> BeingSubmitted(k),
         AtEnqueue(k)' => AtEnqueue(k), HalfSubmitted(k)' => HalfSubmitted(k)
  PROVE  InQueue(k)'
  BY DEF InQueue, SlotIsActive, RunIsShown, EntryIsFirst, EntryIsFree, EntryIsKept,
         PendingIsQueued, Held, Lost

\* A thread passes its slot on to its outcome.
LEMMA WorkInQueue ==
  ASSUME ~Overlaps, TypeOK, NoSecondThread, NeverCancelled, QueueInv, NEW j \in Jobs, Work(j)
  PROVE  QueueInv'
  <1> USE DEF TypeOK
  <1>1. /\ UNCHANGED <<disp, hand>>
        /\ \A k \in Jobs \ {j} : /\ entry'[k] = entry[k] /\ exec'[k] = exec[k]
                                 /\ wpc'[k] = wpc[k] /\ wout'[k] = wout[k]
    BY DEF Work, WorkerStart, WorkerMarkRunning, WorkerLoad, PipelineGate, PipelineBegin,
       PipelineSucceed, PipelineFail, PipelineWait, PipelineCancel, WorkerQueue, WorkerExec,
       WorkerState, WorkerWriteBack, ReadRow, WorkerFinish, Publish, tables
  <1>2. \A k \in Jobs : /\ BeingSubmitted(k)' <=> BeingSubmitted(k)
                        /\ AtEnqueue(k)' <=> AtEnqueue(k)
                        /\ HalfSubmitted(k)' <=> HalfSubmitted(k)
    BY <1>1 DEF BeingSubmitted, AtEnqueue, HalfSubmitted
  <1>3. ASSUME NEW k \in Jobs, k # j PROVE InQueue(k)'
    BY <1>1, <1>2, <1>3, InQueueFrame DEF QueueInv
  <1>4. InQueue(j)'
    <2> USE DEF InQueue, SlotIsActive, RunIsShown, EntryIsFirst, EntryIsFree, EntryIsKept,
                PendingIsQueued, Held, Lost, SlotSteps, RunSteps, Pending
    <2>1. InQueue(j)
      BY DEF QueueInv
    <2>2. CASE WorkerStart(j)
      <3>1. /\ wpc[j] = "submitted" /\ wpc'[j] = "mark" /\ entry'[j] = entry[j]
            /\ exec'[j] = MarkStarted(exec[j])
        BY <2>2 DEF WorkerStart
      <3>2. exec'[j].status = "running"
        BY <3>1, MergeStatus
      <3> QED BY <1>2, <2>1, <3>1, <3>2
    <2>3. CASE WorkerMarkRunning(j)
      <3>1. /\ wpc[j] = "mark" /\ wpc'[j] = "load" /\ exec'[j] = exec[j]
            /\ entry'[j] = "running"
        BY <2>1, <2>3 DEF WorkerMarkRunning, NoEntry
      <3> QED BY <1>2, <2>1, <3>1 DEF NoEntry, EntryTerminal
    <2>4. CASE WorkerLoad(j) \/ PipelineGate(j) \/ PipelineBegin(j) \/ PipelineSucceed(j)
               \/ PipelineFail(j) \/ PipelineWait(j) \/ PipelineCancel(j)
      <3>1. /\ wpc[j] \in {"load", "begin", "pipeline"}
            /\ wpc'[j] \in {"begin", "pipeline", "queue"}
            /\ entry'[j] = entry[j] /\ exec'[j] = exec[j]
        BY <2>4 DEF WorkerLoad, PipelineGate, PipelineBegin, PipelineSucceed, PipelineFail,
           PipelineWait, PipelineCancel, Publish, tables, NeverCancelled, NoWriteBack
      <3> QED BY <1>2, <2>1, <3>1
    <2>5. CASE WorkerQueue(j)
      <3>1. /\ wpc[j] = "queue" /\ wpc'[j] = "exec" /\ exec'[j] = exec[j] /\ wout'[j] = wout[j]
            /\ entry'[j] = EntryOf(wout[j])
        BY <2>1, <2>5 DEF WorkerQueue, NoEntry
      <3>2. /\ exec[j].status = "running" /\ ~AtEnqueue(j) /\ ~HalfSubmitted(j)
            /\ ~BeingSubmitted(j)
        BY <2>1, <3>1 DEF NoEntry, EntryTerminal, NoSecondThread, BeingSubmitted
      <3> QED BY <1>2, <3>1, <3>2
    <2>6. CASE WorkerExec(j)
      <3>1. /\ wpc[j] = "exec" /\ wpc'[j] \in {"state", "finish"} /\ entry'[j] = entry[j]
            /\ exec'[j] = MarkOutcome(wout[j], exec[j])
        BY <2>6 DEF WorkerExec, tables
      <3>2. exec'[j].status = StatusOf(wout[j])
        BY <3>1, OutcomeMerged
      <3>3. StatusOf(wout[j]) # "running"
        BY DEF StatusOf
      <3>4. StatusOf(wout[j]) \in Pending => EntryOf(wout[j]) = "waiting"
        BY DEF StatusOf, EntryOf
      <3> QED BY <1>2, <2>1, <3>1, <3>2, <3>3, <3>4
    <2>7. CASE WorkerState(j)
      <3>1. Allowed(state[j], StateOf(wout[j]))
        BY DEF NeverCancelled, NotCancelled, Allowed, StateOf, TerminalState, FromTerminal
      <3>2. /\ wpc[j] = "state" /\ wpc'[j] = "finish" /\ entry'[j] = entry[j]
            /\ exec'[j] = exec[j]
        BY <2>7, <3>1 DEF WorkerState, NeverCancelled, NoWriteBack
      <3> QED BY <1>2, <2>1, <3>2
    <2>8. CASE WorkerFinish(j)
      <3>1. /\ wpc[j] = "finish" /\ wpc'[j] = "none" /\ entry'[j] = entry[j]
            /\ exec'[j] = exec[j]
        BY <2>8 DEF WorkerFinish, tables
      <3> QED BY <1>2, <2>1, <3>1
    <2> QED BY <2>2, <2>3, <2>4, <2>5, <2>6, <2>7, <2>8 DEF Work, WorkerWriteBack,
               NeverCancelled, NoWriteBack
  <1> QED BY <1>3, <1>4 DEF QueueInv

\* What a request changes for the job it is about, with no other request in progress.
LEMMA HandlerInQueue ==
  ASSUME Quiet, TypeOK, NeverCancelled, QueueInv, NEW h \in Handlers, HandlerStep(h)
  PROVE  QueueInv'
  <1> SUFFICES ASSUME NEW j, j = hand[h].job PROVE QueueInv'
    OBVIOUS
  <1> USE DEF TypeOK
  <1>1. Lookup(h) \/ Enqueue(h) \/ MarkAsQueued(h) \/ MarkAsReady(h) \/ PauseWrite(h)
    BY DEF HandlerStep, CancelDecide, CancelDequeue, CancelExecution, CancelState,
       CancelWriteBack,
       NeverCancelled, NoCancelStep
  <1>2. j \in Jobs
    BY <1>1 DEF Lookup, Enqueue, MarkAsQueued, MarkAsReady, PauseWrite
  <1>3. /\ UNCHANGED <<disp, wpc, wout>>
        /\ \A k \in Jobs \ {j} : entry'[k] = entry[k] /\ exec'[k] = exec[k]
    BY <1>1 DEF Lookup, Enqueue, MarkAsQueued, MarkAsReady, PauseWrite, workers, tables
  <1>4. /\ hand'[h].job \in {j, NoJob}
        /\ hand'[h].pc = "enqueue" => Lookup(h)
        /\ hand'[h].pc = "queued" => Enqueue(h)
    <2>1. CASE Lookup(h)
      <3>1. \/ hand' = [hand EXCEPT ![h].pc = "enqueue", ![h].seen = entry[hand[h].job]]
            \/ hand' = [hand EXCEPT ![h] = Idle]
        BY <2>1, SMTT(30) DEF Lookup, Answer
      <3> QED BY <2>1, <3>1 DEF Idle
    <2>2. CASE Enqueue(h)
      <3>1. hand' = [hand EXCEPT ![h].pc = "queued", ![h].seen = NoEntry]
        BY <2>2 DEF Enqueue, Goto
      <3> QED BY <2>2, <3>1
    <2>3. CASE MarkAsQueued(h)
      BY <2>3 DEF MarkAsQueued, Goto
    <2>4. CASE MarkAsReady(h) \/ PauseWrite(h)
      BY <2>4 DEF MarkAsReady, PauseWrite, Answer
    <2> QED BY <1>1, <2>1, <2>2, <2>3, <2>4
  <1>5. /\ \A k \in Jobs : AtEnqueue(k)' => k = j /\ Lookup(h)
        /\ \A k \in Jobs : HalfSubmitted(k)' => k = j /\ Enqueue(h)
    BY <1>4, NoJobAssumption DEF AtEnqueue, HalfSubmitted, Quiet
  <1>6. \A k \in Jobs : BeingSubmitted(k)' <=> BeingSubmitted(k)
    BY <1>3 DEF BeingSubmitted
  <1>7. ASSUME NEW k \in Jobs, k # j PROVE InQueue(k)'
    BY <1>3, <1>5, <1>6, <1>7, InQueueFrame DEF QueueInv
  <1>8. InQueue(j)'
    <2>1. InQueue(j)
      BY <1>2 DEF QueueInv
    <2>2. CASE Lookup(h)
      <3>1. /\ UNCHANGED <<entry, exec>> /\ hand[h].pc = "lookup"
            /\ hand'[h].pc = "enqueue" => entry[j] \notin {"waiting", "paused", "running"}
        BY <2>2 DEF Lookup, tables, Answer
      <3>2. ~HalfSubmitted(j)'
        BY <1>2, <1>5, <3>1 DEF Enqueue
      <3>3. EntryIsFree(j)'
        BY <1>2, <3>1 DEF EntryIsFree, AtEnqueue, EntryStatus, EntryTerminal, Quiet
      <3> QED BY <1>2, <1>3, <1>6, <2>1, <3>1, <3>2, <3>3 DEF InQueue, SlotIsActive, RunIsShown,
                 EntryIsFirst, EntryIsKept, PendingIsQueued, Held, Lost
    <2>3. CASE Enqueue(h)
      <3>1. hand[h].pc = "enqueue" /\ exec' = exec
        BY <2>3 DEF Enqueue
      <3>2. entry[j] \in {NoEntry} \cup EntryTerminal /\ ~Held(j)
        BY <1>2, <2>1, <3>1 DEF InQueue, EntryIsFree, AtEnqueue, SlotIsActive, NoEntry,
           EntryTerminal
      <3>3. entry'[j] = "waiting"
        BY <1>2, <2>3, <3>2 DEF Enqueue
      <3>4. ~AtEnqueue(j)'
        BY <1>2, <1>5, <3>1 DEF Lookup
      <3> QED BY <1>3, <1>6, <2>1, <3>1, <3>2, <3>3, <3>4 DEF InQueue, SlotIsActive, RunIsShown,
                 EntryIsFirst, EntryIsFree, EntryIsKept, PendingIsQueued, Held
    <2>4. CASE MarkAsQueued(h)
      <3>1. hand[h].pc = "queued" /\ entry' = entry /\ exec'[j] = MarkQueued(exec[j])
        BY <1>2, <2>4 DEF MarkAsQueued
      <3>2. exec'[j].status = "queued"
        BY <1>2, <3>1, MergeStatus
      <3>3. ~Held(j) /\ (entry[j] = "waiting" \/ Lost(j))
        BY <2>1, <3>1 DEF InQueue, EntryIsKept, HalfSubmitted
      <3>4. ~AtEnqueue(j)' /\ ~HalfSubmitted(j)'
        BY <1>2, <1>5, <3>1 DEF Lookup, Enqueue
      <3> QED BY <1>3, <1>6, <2>1, <3>1, <3>2, <3>3, <3>4 DEF InQueue, SlotIsActive, RunIsShown,
                 EntryIsFirst, EntryIsFree, EntryIsKept, PendingIsQueued, Held, Lost, SlotSteps
    <2>5. CASE MarkAsReady(h)
      <3>1. hand[h].pc = "ready" /\ UNCHANGED <<entry, exec>>
        BY <2>5 DEF MarkAsReady
      <3>2. ~AtEnqueue(j)' /\ ~HalfSubmitted(j)'
        BY <1>2, <1>5, <3>1 DEF Lookup, Enqueue
      <3> QED BY <1>2, <1>3, <1>6, <2>1, <3>1, <3>2, InQueueFrame
    <2>6. CASE PauseWrite(h)
      <3>1. /\ hand[h].pc \in {"pause", "resume"} /\ exec' = exec
            /\ entry'[j] \in {"paused", "waiting"}
        BY <1>2, <2>6 DEF PauseWrite
      <3>2. ~AtEnqueue(j)' /\ ~HalfSubmitted(j)'
        BY <1>2, <1>5, <3>1 DEF Lookup, Enqueue
      <3> QED BY <1>3, <1>6, <2>1, <3>1, <3>2 DEF InQueue, SlotIsActive, RunIsShown,
                 EntryIsFirst, EntryIsFree, EntryIsKept, PendingIsQueued, Held
    <2> QED BY <1>1, <2>2, <2>3, <2>4, <2>5, <2>6
  <1> QED BY <1>7, <1>8 DEF QueueInv

\* A request that is received has written nothing yet.
LEMMA ReceiveInQueue ==
  ASSUME Quiet, TypeOK, QueueInv,
         NEW h \in Handlers, NEW kind \in Kinds, NEW j \in Jobs, Receive(h, kind, j)
  PROVE  QueueInv'
  <1>1. kind \in {"process", "reprocess", "pause", "resume"}
    BY KindsAssumption DEF Quiet, NoCancellations
  <1>2. FirstStep(kind) \in {"lookup", "pause", "resume"}
    BY <1>1 DEF FirstStep
  <1>3. UNCHANGED <<entry, exec, wpc, wout, disp>>
    BY <1>1 DEF Receive, workers
  <1>4. hand'[h].pc \in {"lookup", "pause", "resume"}
    BY <1>2 DEF Receive, TypeOK
  <1>5. \A k \in Jobs : ~AtEnqueue(k)' /\ ~HalfSubmitted(k)'
    BY <1>4 DEF AtEnqueue, HalfSubmitted, Quiet
  <1>6. \A k \in Jobs : BeingSubmitted(k)' <=> BeingSubmitted(k)
    BY <1>3 DEF BeingSubmitted
  <1> QED BY <1>3, <1>5, <1>6, InQueueFrame DEF QueueInv

\* The dispatcher's other steps choose, and write nothing.
LEMMA OtherDispatch ==
  ASSUME TypeOK, Dispatch, ~DispatchDrop, ~DispatchClaim, ~DispatchSubmit
  PROVE  UNCHANGED <<entry, wpc>> /\ disp.pc # "submit" /\ disp'.pc # "submit"
  <1> USE DEF TypeOK
  <1>1. UNCHANGED <<entry, wpc>> /\ disp.pc # "submit"
    BY DEF Dispatch, DispatchCount, DispatchFetch, DispatchEnd, DispatchSkip,
       DispatchRefuse, DispatchTake, tables, workers
  <1>2. disp'.pc # "submit"
    <2>1. CASE DispatchCount
      BY <2>1 DEF DispatchCount
    <2>2. CASE DispatchFetch
      BY <2>2 DEF DispatchFetch
    <2>3. ASSUME NEW k \in Jobs, DispatchSkip(k) PROVE disp'.pc # "submit"
      BY <2>3 DEF DispatchSkip
    <2>4. ASSUME NEW k \in Jobs, DispatchRefuse(k) \/ DispatchTake(k)
          PROVE  disp'.pc # "submit"
      BY <2>4 DEF DispatchRefuse, DispatchTake
    <2>5. CASE DispatchEnd
      BY <2>5 DEF DispatchEnd
    <2> QED BY <2>1, <2>2, <2>3, <2>4, <2>5 DEF Dispatch
  <1> QED BY <1>1, <1>2

\* The dispatcher takes the entries that wait, and between the two writes of a
\* submission none.
LEMMA DispatchInQueue ==
  ASSUME Quiet, TypeOK, ThreadInv, QuietInv, QueueInv, Dispatch
  PROVE  QueueInv'
  <1> USE DEF TypeOK
  <1>1. UNCHANGED <<exec, wout, hand>>
    BY DEF Dispatch, DispatchCount, DispatchFetch, DispatchDrop, DispatchClaim, DispatchSubmit,
       DispatchEnd, DispatchSkip, DispatchRefuse, DispatchTake, tables, workers
  <1>2. \A k \in Jobs : (AtEnqueue(k)' <=> AtEnqueue(k)) /\ (HalfSubmitted(k)' <=> HalfSubmitted(k))
    BY <1>1 DEF AtEnqueue, HalfSubmitted
  <1>3. CASE DispatchDrop
    <2>1. /\ disp.job \in Jobs /\ disp.pc = "drop" /\ disp'.pc = "scan" /\ wpc' = wpc
          /\ entry' = [entry EXCEPT ![disp.job] = "failed"] /\ AudioLoss
      BY <1>3 DEF DispatchDrop, QuietInv, DropsAreLosses, workers
    <2>2. \A k \in Jobs : ~BeingSubmitted(k) /\ ~BeingSubmitted(k)'
      BY <2>1 DEF BeingSubmitted
    <2>3. ASSUME NEW k \in Jobs, k # disp.job PROVE InQueue(k)'
      BY <1>1, <1>2, <2>1, <2>2, <2>3, InQueueFrame DEF QueueInv
    <2>4. wpc[disp.job] = "none"
      BY <2>1 DEF ThreadInv, ThreadsTracked, ChosenUntracked
    <2>5. InQueue(disp.job) /\ entry'[disp.job] = "failed"
      BY <2>1 DEF QueueInv
    <2>6. ASSUME NEW k \in Jobs, k = disp.job PROVE InQueue(k)'
      BY <1>1, <1>2, <2>1, <2>2, <2>4, <2>5, <2>6 DEF InQueue, SlotIsActive, RunIsShown,
         EntryIsFirst, EntryIsFree, EntryIsKept, PendingIsQueued, Held, Lost, SlotSteps,
         RunSteps, EntryTerminal
    <2> QED BY <2>3, <2>6 DEF QueueInv
  <1>4. CASE DispatchClaim
    <2>1. /\ disp.job \in Jobs /\ disp.pc = "claim" /\ wpc' = wpc /\ ~HalfSubmitted(disp.job)
          /\ \A k \in Jobs : ~BeingSubmitted(k)
      BY <1>4 DEF DispatchClaim, Quiet, workers, BeingSubmitted
    <2>2. CASE entry[disp.job] = "waiting"
      <3>1. /\ entry' = [entry EXCEPT ![disp.job] = "running"]
            /\ disp'.pc = "submit" /\ disp'.job = disp.job
        BY <1>4, <2>2 DEF DispatchClaim
      <3>2. ASSUME NEW k \in Jobs, k # disp.job PROVE InQueue(k)'
        <4>1. ~BeingSubmitted(k)' /\ entry'[k] = entry[k]
          BY <3>1, <3>2 DEF BeingSubmitted
        <4> QED BY <1>1, <1>2, <2>1, <4>1, InQueueFrame DEF QueueInv
      <3>3. /\ InQueue(disp.job) /\ entry'[disp.job] = "running"
            /\ wpc[disp.job] = "none"
        BY <2>1, <3>1 DEF QueueInv, ThreadInv, ThreadsTracked, ChosenUntracked
      <3>4. ASSUME NEW k \in Jobs, k = disp.job PROVE InQueue(k)'
        <4>1. BeingSubmitted(k)' /\ ~AtEnqueue(k)
          BY <2>2, <3>1, <3>3, <3>4 DEF BeingSubmitted, InQueue, EntryIsFree, NoEntry,
             EntryTerminal
        <4> QED BY <1>1, <1>2, <2>1, <3>3, <3>4, <4>1 DEF InQueue, SlotIsActive,
                   RunIsShown, EntryIsFirst, EntryIsFree, EntryIsKept, PendingIsQueued, Held,
                   SlotSteps, RunSteps
      <3> QED BY <3>2, <3>4 DEF QueueInv
    <2>3. CASE entry[disp.job] # "waiting"
      <3>1. entry' = entry /\ disp'.pc = "scan"
        BY <1>4, <2>3 DEF DispatchClaim
      <3>2. \A k \in Jobs : ~BeingSubmitted(k)'
        BY <3>1 DEF BeingSubmitted
      <3> QED BY <1>1, <1>2, <2>1, <3>1, <3>2, InQueueFrame DEF QueueInv
    <2> QED BY <2>2, <2>3
  <1>5. CASE DispatchSubmit
    <2>1. /\ disp.job \in Jobs /\ disp.pc = "submit" /\ disp'.pc = "scan" /\ entry' = entry
          /\ wpc' = [wpc EXCEPT ![disp.job] = "submitted"]
      BY <1>5 DEF DispatchSubmit, tables
    <2>2. \A k \in Jobs : ~BeingSubmitted(k)' /\ (BeingSubmitted(k) <=> k = disp.job)
      BY <2>1 DEF BeingSubmitted
    <2>3. ASSUME NEW k \in Jobs, k # disp.job PROVE InQueue(k)'
      BY <1>1, <1>2, <2>1, <2>2, <2>3, InQueueFrame DEF QueueInv
    <2>4. InQueue(disp.job) /\ wpc'[disp.job] = "submitted" /\ wpc[disp.job] = "none"
      BY <2>1 DEF QueueInv, ThreadInv, ThreadsTracked, ChosenUntracked
    <2>5. ASSUME NEW k \in Jobs, k = disp.job PROVE InQueue(k)'
      BY <1>1, <1>2, <2>1, <2>2, <2>4, <2>5 DEF InQueue, SlotIsActive, RunIsShown,
         EntryIsFirst, EntryIsFree, EntryIsKept, PendingIsQueued, Held, SlotSteps, RunSteps
    <2> QED BY <2>3, <2>5 DEF QueueInv
  <1>6. CASE ~DispatchDrop /\ ~DispatchClaim /\ ~DispatchSubmit
    <2>1. UNCHANGED <<entry, wpc>> /\ disp.pc # "submit" /\ disp'.pc # "submit"
      BY <1>6, OtherDispatch
    <2>2. \A k \in Jobs : ~BeingSubmitted(k) /\ ~BeingSubmitted(k)'
      BY <2>1 DEF BeingSubmitted
    <2> QED BY <1>1, <1>2, <2>1, <2>2, InQueueFrame DEF QueueInv
  <1> QED BY <1>3, <1>4, <1>5, <1>6

\* A step of nobody, or of the environment, concerns no entry.
LEMMA IdleInQueue ==
  ASSUME QueueInv, UNCHANGED vars \/ \E j \in Jobs : BecomeDue(j) \/ LoseAudio(j)
  PROVE  QueueInv'
  <1>1. UNCHANGED <<entry, exec, wpc, wout, disp, hand>>
    BY DEF BecomeDue, LoseAudio, vars, tables, workers
  <1>2. \A k \in Jobs : /\ BeingSubmitted(k)' <=> BeingSubmitted(k)
                        /\ AtEnqueue(k)' <=> AtEnqueue(k)
                        /\ HalfSubmitted(k)' <=> HalfSubmitted(k)
    BY <1>1 DEF BeingSubmitted, AtEnqueue, HalfSubmitted
  <1> QED BY <1>1, <1>2, InQueueFrame DEF QueueInv

\* QueueInv is inductive, given NeverCancelled, QuietInv and the threads.
LEMMA QueueHolds ==
  ASSUME Quiet
  PROVE  Spec => []QueueInv
  <1>0. NoCancellations /\ ~Overlaps /\ MaxCrashes = 0
    BY DEF Quiet
  <1>1. Init => QueueInv
    <2> SUFFICES ASSUME Init, NEW j \in Jobs PROVE InQueue(j)
      BY DEF QueueInv
    <2>1. /\ entry[j] = NoEntry /\ exec[j].status = "none" /\ wpc[j] = "none"
          /\ ~BeingSubmitted(j) /\ ~AtEnqueue(j) /\ ~HalfSubmitted(j)
      BY DEF Init, BeingSubmitted, AtEnqueue, HalfSubmitted, NoExecution
    <2> QED BY <2>1 DEF InQueue, SlotIsActive, RunIsShown, EntryIsFirst, EntryIsFree,
               EntryIsKept, PendingIsQueued, Held, SlotSteps, RunSteps, Pending
  <1>2. TypeOK /\ NoSecondThread /\ ThreadInv /\ NeverCancelled /\ QuietInv /\ QueueInv /\ [Next]_vars
          => QueueInv'
    BY <1>0, QuietStep, WorkInQueue, HandlerInQueue, ReceiveInQueue, DispatchInQueue,
       IdleInQueue DEF Next
  <1>3. Spec => []NeverCancelled
    BY <1>0, NothingCancelled
  <1>4. Spec => []QuietInv
    BY <1>0, QuietHolds
  <1> QED BY TypeCorrect, NeverTwoThreads, ThreadsHold, <1>1, <1>2, <1>3, <1>4, PTL DEF Spec

\* Where one submission is made at a time, no audio is lost and no commit falls inside
\* an update_state, every launch that was
\* accepted is in the queue or with somebody who works on it, whatever is paused and
\* resumed: an active execution, which refuses every new request, is never for ever.
THEOREM NoZombieIsLeft ==
  ASSUME Quiet, ~AudioLoss
  PROVE  Spec => []NoZombie
  <1>1. QueueInv => NoZombie
    BY DEF QueueInv, InQueue, RunIsShown, PendingIsQueued, Lost, Held, BeingSubmitted,
       SlotSteps,
       RunSteps, Pending, NoZombie, Settled, ExecActive
  <1> QED BY QueueHolds, <1>1, PTL

-----------------------------------------------------------------------------
(* One run at a time.  Where nobody pauses either, the entries that run are *)
(* exactly the slots (HeldIsRunning and SlotsHeld), and a slot is held for   *)
(* an execution that waits for it: what JobLifecycle promises, and what the *)
(* simulation below needs at each step.                                     *)

OnlySubmissions == Kinds \subseteq {"process", "reprocess"}
NoPauseStep == \A h \in Handlers : hand[h].pc \notin {"pause", "resume"}
Submitting(j) ==
  \E h \in Handlers : hand[h].pc \in {"lookup", "enqueue", "queued"} /\ hand[h].job = j

\* The entry of a slot says so.
HeldIsRunning(j) == Held(j) => entry[j] = "running"
\* The slot is given back, with its outcome, before the execution says it.
ReleasedFirst(j) == wpc[j] = "exec" => entry[j] = EntryOf(wout[j]) /\ exec[j].status = "running"
\* A slot is taken for an execution that waits.
TakenForPending(j) == wpc[j] = "submitted" \/ BeingSubmitted(j) => exec[j].status \in Pending
\* A submission is made while nothing of the job is active.
SubmittedIdle(j) == Submitting(j) => exec[j].status \notin ExecActive
\* An entry waits for an execution that waits, or is about to.
WaitingIsPending(j) ==
  entry[j] = "waiting" => exec[j].status \in Pending \/ HalfSubmitted(j) \/ wpc[j] = "exec"

OneRun(j) ==
  /\ HeldIsRunning(j) /\ ReleasedFirst(j) /\ TakenForPending(j)
  /\ SubmittedIdle(j) /\ WaitingIsPending(j)
OneRunInv == NoPauseStep /\ \A j \in Jobs : OneRun(j)

\* A step that leaves the columns, the thread and the slot of a job alone, and makes
\* no submission begin or end its first write, keeps OneRun.
LEMMA OneRunFrame ==
  ASSUME NEW k \in Jobs, OneRun(k),
         entry'[k] = entry[k], exec'[k].status = exec[k].status,
         wpc'[k] = wpc[k], wout'[k] = wout[k], BeingSubmitted(k)' <=> BeingSubmitted(k),
         Submitting(k)' => Submitting(k), HalfSubmitted(k) => HalfSubmitted(k)'
  PROVE  OneRun(k)'
  BY DEF OneRun, HeldIsRunning, ReleasedFirst, TakenForPending, SubmittedIdle,
         WaitingIsPending, Held

\* A thread runs the execution its slot was taken for, and gives the slot back first.
LEMMA WorkOneRun ==
  ASSUME ~Overlaps, TypeOK, NoSecondThread, NeverCancelled, QueueInv, OneRunInv,
         NEW j \in Jobs, Work(j)
  PROVE  OneRunInv'
  <1> USE DEF TypeOK
  <1>1. /\ UNCHANGED <<disp, hand>>
        /\ \A k \in Jobs \ {j} : /\ entry'[k] = entry[k] /\ exec'[k] = exec[k]
                                 /\ wpc'[k] = wpc[k] /\ wout'[k] = wout[k]
    BY DEF Work, WorkerStart, WorkerMarkRunning, WorkerLoad, PipelineGate, PipelineBegin,
       PipelineSucceed, PipelineFail, PipelineWait, PipelineCancel, WorkerQueue, WorkerExec,
       WorkerState, WorkerWriteBack, ReadRow, WorkerFinish, Publish, tables
  <1>2. \A k \in Jobs : /\ BeingSubmitted(k)' <=> BeingSubmitted(k)
                        /\ Submitting(k)' <=> Submitting(k)
                        /\ HalfSubmitted(k)' <=> HalfSubmitted(k)
    BY <1>1 DEF BeingSubmitted, Submitting, HalfSubmitted
  <1>3. ASSUME NEW k \in Jobs, k # j PROVE OneRun(k)'
    BY <1>1, <1>2, <1>3, OneRunFrame DEF OneRunInv
  <1>4. OneRun(j)'
    <2> USE DEF OneRun, HeldIsRunning, ReleasedFirst, TakenForPending, SubmittedIdle,
                WaitingIsPending, Held, SlotSteps, RunSteps, Pending
    <2>1. OneRun(j) /\ RunIsShown(j)
      BY DEF OneRunInv, QueueInv, InQueue
    <2>2. ~BeingSubmitted(j) \/ wpc[j] = "none"
      BY DEF BeingSubmitted, NoSecondThread
    <2>3. CASE WorkerStart(j)
      <3>1. /\ wpc[j] = "submitted" /\ wpc'[j] = "mark" /\ entry'[j] = entry[j]
            /\ exec'[j] = MarkStarted(exec[j])
        BY <2>3 DEF WorkerStart
      <3>2. exec'[j].status = "running" /\ entry[j] = "running"
        BY <2>1, <3>1, MergeStatus
      <3>3. ~Submitting(j)
        BY <2>1, <3>1 DEF ExecActive
      <3> QED BY <1>2, <2>2, <3>1, <3>2, <3>3
    <2>4. CASE WorkerMarkRunning(j)
      <3>1. /\ wpc[j] = "mark" /\ wpc'[j] = "load" /\ exec'[j] = exec[j]
            /\ entry'[j] = "running"
        BY <2>1, <2>4 DEF WorkerMarkRunning, NoEntry
      <3> QED BY <1>2, <2>1, <2>2, <3>1
    <2>5. CASE WorkerLoad(j) \/ PipelineGate(j) \/ PipelineBegin(j) \/ PipelineSucceed(j)
               \/ PipelineFail(j) \/ PipelineWait(j) \/ PipelineCancel(j)
      <3>1. /\ wpc[j] \in {"load", "begin", "pipeline"}
            /\ wpc'[j] \in {"begin", "pipeline", "queue"}
            /\ entry'[j] = entry[j] /\ exec'[j] = exec[j]
        BY <2>5 DEF WorkerLoad, PipelineGate, PipelineBegin, PipelineSucceed, PipelineFail,
           PipelineWait, PipelineCancel, Publish, tables, NeverCancelled, NoWriteBack
      <3> QED BY <1>2, <2>1, <2>2, <3>1
    <2>6. CASE WorkerQueue(j)
      <3>1. /\ wpc[j] = "queue" /\ wpc'[j] = "exec" /\ exec'[j] = exec[j] /\ wout'[j] = wout[j]
            /\ entry'[j] = EntryOf(wout[j])
        BY <2>1, <2>6 DEF WorkerQueue, NoEntry
      <3>2. exec[j].status = "running" /\ ~Submitting(j)
        BY <2>1, <3>1 DEF RunIsShown, ExecActive
      <3> QED BY <1>2, <2>2, <3>1, <3>2
    <2>7. CASE WorkerExec(j)
      <3>1. /\ wpc[j] = "exec" /\ wpc'[j] \in {"state", "finish"} /\ entry'[j] = entry[j]
            /\ exec'[j] = MarkOutcome(wout[j], exec[j])
        BY <2>7 DEF WorkerExec, tables
      <3>2. exec'[j].status = StatusOf(wout[j])
        BY <3>1, OutcomeMerged
      <3>3. EntryOf(wout[j]) = "waiting" => StatusOf(wout[j]) \in Pending
        BY DEF StatusOf, EntryOf
      <3>4. entry[j] = EntryOf(wout[j]) /\ ~Submitting(j)
        BY <2>1, <3>1 DEF ExecActive
      <3> QED BY <1>2, <2>2, <3>1, <3>2, <3>3, <3>4
    <2>8. CASE WorkerState(j)
      <3>1. Allowed(state[j], StateOf(wout[j]))
        BY DEF NeverCancelled, NotCancelled, Allowed, StateOf, TerminalState, FromTerminal
      <3>2. /\ wpc[j] = "state" /\ wpc'[j] = "finish" /\ entry'[j] = entry[j]
            /\ exec'[j] = exec[j]
        BY <2>8, <3>1 DEF WorkerState, NeverCancelled, NoWriteBack
      <3> QED BY <1>2, <2>1, <2>2, <3>2
    <2>9. CASE WorkerFinish(j)
      <3>1. /\ wpc[j] = "finish" /\ wpc'[j] = "none" /\ entry'[j] = entry[j]
            /\ exec'[j] = exec[j]
        BY <2>9 DEF WorkerFinish, tables
      <3> QED BY <1>2, <2>1, <2>2, <3>1
    <2> QED BY <2>3, <2>4, <2>5, <2>6, <2>7, <2>8, <2>9 DEF Work, WorkerWriteBack,
               NeverCancelled, NoWriteBack
  <1>5. NoPauseStep'
    BY <1>1 DEF OneRunInv, NoPauseStep
  <1> QED BY <1>3, <1>4, <1>5 DEF OneRunInv

\* A submission finds nothing of the job active, and leaves it pending.
LEMMA HandlerOneRun ==
  ASSUME Quiet, TypeOK, NeverCancelled, QueueInv, OneRunInv, NEW h \in Handlers, HandlerStep(h)
  PROVE  OneRunInv'
  <1> SUFFICES ASSUME NEW j, j = hand[h].job PROVE OneRunInv'
    OBVIOUS
  <1> USE DEF TypeOK
  <1>1. Lookup(h) \/ Enqueue(h) \/ MarkAsQueued(h) \/ MarkAsReady(h)
    BY DEF HandlerStep, CancelDecide, CancelDequeue, CancelExecution, CancelState,
       CancelWriteBack, PauseWrite,
       NeverCancelled, NoCancelStep, OneRunInv, NoPauseStep
  <1>2. j \in Jobs
    BY <1>1 DEF Lookup, Enqueue, MarkAsQueued, MarkAsReady
  <1>3. /\ UNCHANGED <<disp, wpc, wout>>
        /\ \A k \in Jobs \ {j} : entry'[k] = entry[k] /\ exec'[k] = exec[k]
    BY <1>1 DEF Lookup, Enqueue, MarkAsQueued, MarkAsReady, workers, tables
  <1>4. /\ hand'[h].job \in {j, NoJob}
        /\ hand'[h].pc \in {"idle", "enqueue", "queued", "ready"}
        /\ hand'[h].pc = "enqueue" => Lookup(h)
        /\ hand'[h].pc = "queued" <=> Enqueue(h)
        /\ \A g \in Handlers \ {h} : hand'[g] = hand[g]
    <2>1. CASE Lookup(h)
      BY <2>1 DEF Lookup, Answer, Enqueue
    <2>2. CASE Enqueue(h)
      <3>1. hand' = [hand EXCEPT ![h].pc = "queued", ![h].seen = NoEntry]
        BY <2>2 DEF Enqueue, Goto
      <3> QED BY <2>2, <3>1
    <2>3. CASE MarkAsQueued(h)
      BY <2>3 DEF MarkAsQueued, Goto, Enqueue
    <2>4. CASE MarkAsReady(h)
      BY <2>4 DEF MarkAsReady, Answer, Enqueue
    <2> QED BY <1>1, <2>1, <2>2, <2>3, <2>4
  <1>5. /\ \A k \in Jobs : Submitting(k)' => k = j /\ (Lookup(h) \/ Enqueue(h)) /\ Submitting(k)
        /\ \A k \in Jobs : HalfSubmitted(k) => k = j /\ MarkAsQueued(h)
        /\ ~Submitting(j) => MarkAsReady(h)
    <2>1. \A k \in Jobs : Submitting(k)' => k = j /\ (Lookup(h) \/ Enqueue(h))
      BY <1>4, NoJobAssumption DEF Submitting, Quiet
    <2>2. Submitting(j) \/ MarkAsReady(h)
      BY <1>1 DEF Lookup, Enqueue, MarkAsQueued, Submitting
    <2>3. Lookup(h) \/ Enqueue(h) => ~MarkAsReady(h)
      BY DEF Lookup, Enqueue, MarkAsReady
    <2>4. \A k \in Jobs : HalfSubmitted(k) => k = j /\ hand[h].pc = "queued"
      BY DEF HalfSubmitted, Quiet
    <2>5. hand[h].pc = "queued" => MarkAsQueued(h)
      BY <1>1 DEF Lookup, Enqueue, MarkAsReady
    <2> QED BY <2>1, <2>2, <2>3, <2>4, <2>5
  <1>6. \A k \in Jobs : BeingSubmitted(k)' <=> BeingSubmitted(k)
    BY <1>3 DEF BeingSubmitted
  <1>7. ASSUME NEW k \in Jobs, k # j PROVE OneRun(k)'
    BY <1>3, <1>5, <1>6, <1>7, OneRunFrame DEF OneRunInv
  <1>8. OneRun(j)'
    <2>1. OneRun(j) /\ InQueue(j)
      BY <1>2 DEF OneRunInv, QueueInv
    <2>2. CASE Lookup(h) \/ MarkAsReady(h)
      <3>1. UNCHANGED <<entry, exec>> /\ hand[h].pc # "queued"
        BY <2>2 DEF Lookup, MarkAsReady, tables
      <3>2. ~HalfSubmitted(j)
        BY <3>1 DEF HalfSubmitted, Quiet
      <3> QED BY <1>2, <1>3, <1>5, <1>6, <2>1, <3>1, <3>2, OneRunFrame
    <2>3. CASE Enqueue(h)
      <3>1. hand[h].pc = "enqueue" /\ exec' = exec
        BY <2>3 DEF Enqueue
      <3>2. entry[j] \in {NoEntry} \cup EntryTerminal /\ ~Held(j)
        BY <1>2, <2>1, <3>1 DEF InQueue, EntryIsFree, AtEnqueue, SlotIsActive, NoEntry,
           EntryTerminal
      <3>3. entry'[j] = "waiting"
        BY <1>2, <2>3, <3>2 DEF Enqueue
      <3>4. HalfSubmitted(j)'
        BY <1>2, <1>4, <2>3 DEF HalfSubmitted, Enqueue, Goto
      <3>5. exec[j].status \notin ExecActive
        BY <2>1, <3>1 DEF OneRun, SubmittedIdle, Submitting
      <3> QED BY <1>3, <1>6, <2>1, <3>1, <3>2, <3>3, <3>4, <3>5 DEF OneRun, HeldIsRunning,
                 ReleasedFirst, TakenForPending, SubmittedIdle, WaitingIsPending, Held,
                 ExecActive
    <2>4. CASE MarkAsQueued(h)
      <3>1. hand[h].pc = "queued" /\ entry' = entry /\ exec'[j] = MarkQueued(exec[j])
        BY <1>2, <2>4 DEF MarkAsQueued
      <3>2. exec'[j].status = "queued"
        BY <1>2, <3>1, MergeStatus
      <3>3. exec[j].status # "running"
        BY <2>1, <3>1 DEF OneRun, SubmittedIdle, Submitting, ExecActive
      <3>4. ~Submitting(j)'
        BY <1>2, <1>5, <3>1 DEF Lookup, Enqueue
      <3> QED BY <1>3, <1>6, <2>1, <3>1, <3>2, <3>3, <3>4 DEF OneRun, HeldIsRunning,
                 ReleasedFirst, TakenForPending, SubmittedIdle, WaitingIsPending, Held, Pending
    <2> QED BY <1>1, <2>2, <2>3, <2>4
  <1>9. NoPauseStep'
    BY <1>4 DEF OneRunInv, NoPauseStep
  <1> QED BY <1>7, <1>8, <1>9 DEF OneRunInv

\* A request is accepted when nothing of the job is active.
LEMMA ReceiveOneRun ==
  ASSUME Quiet, OnlySubmissions, TypeOK, OneRunInv,
         NEW h \in Handlers, NEW kind \in Kinds, NEW j \in Jobs, Receive(h, kind, j)
  PROVE  OneRunInv'
  <1>1. kind \in {"process", "reprocess"}
    BY DEF OnlySubmissions
  <1>2. /\ UNCHANGED <<entry, exec, wpc, wout, disp>>
        /\ exec[j].status \notin ExecActive /\ hand[h].pc = "idle"
    BY <1>1 DEF Receive, Accepts, workers
  <1>3. hand'[h].pc = "lookup" /\ hand'[h].job = j
    BY <1>1 DEF Receive, FirstStep, TypeOK
  <1>4. \A k \in Jobs : (Submitting(k)' => k = j) /\ ~HalfSubmitted(k)
    BY <1>2, <1>3 DEF Submitting, HalfSubmitted, Quiet
  <1>5. \A k \in Jobs : BeingSubmitted(k)' <=> BeingSubmitted(k)
    BY <1>2 DEF BeingSubmitted
  <1>6. ASSUME NEW k \in Jobs PROVE OneRun(k)'
    BY <1>2, <1>4, <1>5 DEF OneRunInv, OneRun, HeldIsRunning, ReleasedFirst, TakenForPending,
       SubmittedIdle, WaitingIsPending, Held
  <1>7. NoPauseStep'
    BY <1>3 DEF NoPauseStep, Quiet
  <1> QED BY <1>6, <1>7 DEF OneRunInv

\* The dispatcher claims entries whose execution waits.
LEMMA DispatchOneRun ==
  ASSUME Quiet, TypeOK, ThreadInv, QuietInv, QueueInv, OneRunInv, Dispatch
  PROVE  OneRunInv'
  <1> USE DEF TypeOK
  <1>1. UNCHANGED <<exec, wout, hand>>
    BY DEF Dispatch, DispatchCount, DispatchFetch, DispatchDrop, DispatchClaim, DispatchSubmit,
       DispatchEnd, DispatchSkip, DispatchRefuse, DispatchTake, tables, workers
  <1>2. \A k \in Jobs : (Submitting(k)' <=> Submitting(k)) /\ (HalfSubmitted(k)' <=> HalfSubmitted(k))
    BY <1>1 DEF Submitting, HalfSubmitted
  <1>3. NoPauseStep'
    BY <1>1 DEF NoPauseStep, OneRunInv
  <1> USE DEF OneRun, HeldIsRunning, ReleasedFirst, TakenForPending, SubmittedIdle,
              WaitingIsPending, Held
  <1>4. ASSUME NEW k \in Jobs, DispatchDrop PROVE OneRun(k)'
    <2>1. /\ disp.pc = "drop" /\ disp'.pc = "scan" /\ wpc' = wpc
          /\ entry' = [entry EXCEPT ![disp.job] = "failed"]
      BY <1>4 DEF DispatchDrop, QuietInv, DropsAreLosses, workers
    <2>2. ~BeingSubmitted(k) /\ ~BeingSubmitted(k)' /\ OneRun(k)
      BY <2>1 DEF BeingSubmitted, OneRunInv
    <2>3. CASE k # disp.job
      BY <1>1, <1>2, <2>1, <2>2, <2>3
    <2>4. CASE k = disp.job
      <3>1. wpc[k] = "none" /\ entry'[k] = "failed"
        BY <2>1, <2>4 DEF ThreadInv, ThreadsTracked, ChosenUntracked
      <3> QED BY <1>1, <1>2, <2>1, <2>2, <3>1 DEF SlotSteps
    <2> QED BY <2>3, <2>4
  <1>5. ASSUME NEW k \in Jobs, DispatchClaim PROVE OneRun(k)'
    <2>1. /\ disp.job \in Jobs /\ disp.pc = "claim" /\ wpc' = wpc /\ ~HalfSubmitted(disp.job)
          /\ ~BeingSubmitted(k) /\ OneRun(k)
      BY <1>5 DEF DispatchClaim, Quiet, workers, BeingSubmitted, OneRunInv
    <2>2. CASE entry[disp.job] = "waiting"
      <3>1. /\ entry' = [entry EXCEPT ![disp.job] = "running"]
            /\ disp'.pc = "submit" /\ disp'.job = disp.job
        BY <1>5, <2>2 DEF DispatchClaim
      <3>2. CASE k # disp.job
        <4>1. ~BeingSubmitted(k)' /\ entry'[k] = entry[k]
          BY <3>1, <3>2 DEF BeingSubmitted
        <4> QED BY <1>1, <1>2, <2>1, <4>1
      <3>3. CASE k = disp.job
        <4>1. wpc[k] = "none" /\ entry'[k] = "running"
          BY <2>1, <3>1, <3>3 DEF ThreadInv, ThreadsTracked, ChosenUntracked
        <4>2. exec[k].status \in Pending
          BY <2>1, <2>2, <3>3, <4>1
        <4> QED BY <1>1, <1>2, <2>1, <4>1, <4>2 DEF SlotSteps
      <3> QED BY <3>2, <3>3
    <2>3. CASE entry[disp.job] # "waiting"
      <3>1. entry' = entry /\ disp'.pc = "scan"
        BY <1>5, <2>3 DEF DispatchClaim
      <3>2. ~BeingSubmitted(k)'
        BY <3>1 DEF BeingSubmitted
      <3> QED BY <1>1, <1>2, <2>1, <3>1, <3>2
    <2> QED BY <2>2, <2>3
  <1>6. ASSUME NEW k \in Jobs, DispatchSubmit PROVE OneRun(k)'
    <2>1. /\ disp.job \in Jobs /\ disp.pc = "submit" /\ disp'.pc = "scan" /\ entry' = entry
          /\ wpc' = [wpc EXCEPT ![disp.job] = "submitted"]
      BY <1>6 DEF DispatchSubmit, tables
    <2>2. ~BeingSubmitted(k)' /\ (BeingSubmitted(k) <=> k = disp.job) /\ OneRun(k)
      BY <2>1 DEF BeingSubmitted, OneRunInv
    <2>3. CASE k # disp.job
      BY <1>1, <1>2, <2>1, <2>2, <2>3
    <2>4. CASE k = disp.job
      <3>1. wpc[k] = "none" /\ wpc'[k] = "submitted"
        BY <2>1, <2>4 DEF ThreadInv, ThreadsTracked, ChosenUntracked
      <3> QED BY <1>1, <1>2, <2>1, <2>2, <2>4, <3>1 DEF SlotSteps
    <2> QED BY <2>3, <2>4
  <1>7. ASSUME NEW k \in Jobs, ~DispatchDrop, ~DispatchClaim, ~DispatchSubmit PROVE OneRun(k)'
    <2>1. UNCHANGED <<entry, wpc>> /\ disp.pc # "submit" /\ disp'.pc # "submit"
      BY <1>7, OtherDispatch
    <2>2. ~BeingSubmitted(k) /\ ~BeingSubmitted(k)' /\ OneRun(k)
      BY <2>1 DEF BeingSubmitted, OneRunInv
    <2> QED BY <1>1, <1>2, <2>1, <2>2
  <1> QED BY <1>3, <1>4, <1>5, <1>6, <1>7 DEF OneRunInv

\* A step of nobody, or of the environment, concerns no run.
LEMMA IdleOneRun ==
  ASSUME OneRunInv, UNCHANGED vars \/ \E j \in Jobs : BecomeDue(j) \/ LoseAudio(j)
  PROVE  OneRunInv'
  <1>1. UNCHANGED <<entry, exec, wpc, wout, disp, hand>>
    BY DEF BecomeDue, LoseAudio, vars, tables, workers
  <1>2. \A k \in Jobs : /\ BeingSubmitted(k)' <=> BeingSubmitted(k)
                        /\ Submitting(k)' <=> Submitting(k)
                        /\ HalfSubmitted(k)' <=> HalfSubmitted(k)
    BY <1>1 DEF BeingSubmitted, Submitting, HalfSubmitted
  <1>3. ASSUME NEW k \in Jobs PROVE OneRun(k)'
    BY <1>1, <1>2, OneRunFrame DEF OneRunInv
  <1>4. NoPauseStep'
    BY <1>1 DEF NoPauseStep, OneRunInv
  <1> QED BY <1>3, <1>4 DEF OneRunInv

\* OneRunInv is inductive, given the invariants above.
LEMMA OneRunHolds ==
  ASSUME Quiet, OnlySubmissions
  PROVE  Spec => []OneRunInv
  <1>0. NoCancellations /\ ~Overlaps /\ MaxCrashes = 0
    BY DEF Quiet
  <1>1. Init => OneRunInv
    <2> SUFFICES ASSUME Init PROVE OneRunInv
      OBVIOUS
    <2>1. NoPauseStep
      BY DEF Init, NoPauseStep
    <2>2. ASSUME NEW j \in Jobs PROVE OneRun(j)
      <3>1. /\ entry[j] = NoEntry /\ wpc[j] = "none" /\ ~BeingSubmitted(j) /\ ~Submitting(j)
        BY DEF Init, BeingSubmitted, Submitting
      <3> QED BY <3>1 DEF OneRun, HeldIsRunning, ReleasedFirst, TakenForPending, SubmittedIdle,
                 WaitingIsPending, Held, SlotSteps, NoEntry
    <2> QED BY <2>1, <2>2 DEF OneRunInv
  <1>2. TypeOK /\ NoSecondThread /\ ThreadInv /\ NeverCancelled /\ QuietInv /\ QueueInv
          /\ OneRunInv /\ [Next]_vars => OneRunInv'
    BY <1>0, QuietStep, WorkOneRun, HandlerOneRun, ReceiveOneRun, DispatchOneRun, IdleOneRun
       DEF Next
  <1>3. Spec => []NeverCancelled
    BY <1>0, NothingCancelled
  <1>4. Spec => []QuietInv
    BY <1>0, QuietHolds
  <1>5. Spec => []QueueInv
    BY QueueHolds
  <1> QED BY TypeCorrect, NeverTwoThreads, ThreadsHold, <1>1, <1>2, <1>3, <1>4, <1>5, PTL
          DEF Spec

-----------------------------------------------------------------------------
(* The limit of a scheduling window is respected: what an iteration may     *)
(* still claim, and the entries that run, are within a limit it has read.   *)

RoomLeft ==
  disp.pc # "idle" =>
    \E limit \in Calendar :
      Cardinality(RunningEntries) + disp.budget <= limit + (IF disp.pc = "submit" THEN 1 ELSE 0)

\* The running entries are counted: they are finitely many, and a part of them no more.
LEMMA RunningAreFinite == IsFiniteSet(RunningEntries)
  BY JobsAssumption, FS_Subset DEF RunningEntries

\* A claim adds one running entry at most.
LEMMA OneMoreRuns ==
  ASSUME NEW j
  PROVE  Cardinality(RunningEntries \cup {j})
           \in {Cardinality(RunningEntries), Cardinality(RunningEntries) + 1}
  BY RunningAreFinite, FS_AddElement

\* Where no entry begins to run, no more of them do.
LEMMA FewerRun ==
  ASSUME TypeOK, TypeOK', \A j \in Jobs : entry'[j] = "running" => entry[j] = "running"
  PROVE  /\ RunningEntries' \in SUBSET RunningEntries
         /\ Cardinality(RunningEntries') \in Nat /\ Cardinality(RunningEntries) \in Nat
         /\ Cardinality(RunningEntries') <= Cardinality(RunningEntries)
  <1>1. RunningEntries' \in SUBSET RunningEntries
    BY DEF RunningEntries
  <1>2. IsFiniteSet(RunningEntries)
    BY RunningAreFinite
  <1>3. /\ IsFiniteSet(RunningEntries')
        /\ Cardinality(RunningEntries') <= Cardinality(RunningEntries)
    BY <1>1, <1>2, FS_Subset
  <1>4. Cardinality(RunningEntries') \in Nat /\ Cardinality(RunningEntries) \in Nat
    BY <1>2, <1>3, FS_CardinalityType
  <1> QED BY <1>1, <1>3, <1>4

\* Where no entry begins to run, there is as much room as there was.
LEMMA RoomStays ==
  ASSUME TypeOK, TypeOK', RoomLeft, disp.pc # "submit", disp'.pc # "submit",
         disp'.pc # "idle" => disp.pc # "idle" /\ disp'.budget = disp.budget,
         \A j \in Jobs : entry'[j] = "running" => entry[j] = "running"
  PROVE  RoomLeft'
  <1> SUFFICES ASSUME disp'.pc # "idle" PROVE RoomLeft'
    BY DEF RoomLeft
  <1>1. PICK limit \in Calendar : Cardinality(RunningEntries) + disp.budget <= limit
    <2>1. PICK limit \in Calendar :
            Cardinality(RunningEntries) + disp.budget
              <= limit + (IF disp.pc = "submit" THEN 1 ELSE 0)
      BY DEF RoomLeft
    <2>2. limit \in Nat /\ disp.budget \in Nat /\ Cardinality(RunningEntries) \in Nat
      BY CalendarAssumption, WorkersAssumption, FewerRun DEF TypeOK
    <2> QED BY <2>1, <2>2
  <1>2. limit \in Nat /\ disp.budget \in Nat
    BY CalendarAssumption, WorkersAssumption DEF TypeOK
  <1>3. Cardinality(RunningEntries') + disp'.budget <= limit + 0
    BY <1>1, <1>2, FewerRun
  <1> QED BY <1>3 DEF RoomLeft

\* One claim spends one of the budget, between its two steps.
LEMMA DispatchRoom ==
  ASSUME TypeOK, TypeOK', QuietInv, RoomLeft, Dispatch
  PROVE  RoomLeft'
  <1> USE DEF TypeOK
  <1>1. CASE DispatchCount
    <2>1. PICK e \in Calendar :
            /\ disp'.pc = "fetch" /\ disp'.budget = e - Cardinality(RunningEntries)
      BY <1>1 DEF DispatchCount
    <2>2. Cardinality(RunningEntries') = Cardinality(RunningEntries)
      <3>1. entry' = entry
        BY <1>1 DEF DispatchCount, tables
      <3>2. RunningEntries' = RunningEntries
        BY <3>1 DEF RunningEntries
      <3> QED BY <3>2
    <2>3. e \in Nat /\ Cardinality(RunningEntries) \in Nat
      BY CalendarAssumption, WorkersAssumption, RunningIsNatural
    <2>4. Cardinality(RunningEntries') + disp'.budget <= e + 0
      BY <2>1, <2>2, <2>3
    <2> QED BY <2>1, <2>4 DEF RoomLeft
  <1>2. CASE DispatchDrop
    <2>1. /\ disp.pc = "drop" /\ disp'.pc = "scan" /\ disp'.budget = disp.budget
          /\ entry' = [entry EXCEPT ![disp.job] = "failed"]
      BY <1>2 DEF DispatchDrop, QuietInv, DropsAreLosses
    <2> QED BY <2>1, RoomStays
  <1>3. CASE DispatchClaim
    <2>1. disp.job \in Jobs /\ disp.pc = "claim" /\ disp'.budget = disp.budget
      BY <1>3 DEF DispatchClaim
    <2>2. CASE entry[disp.job] # "waiting"
      <3>1. entry' = entry /\ disp'.pc = "scan"
        BY <1>3, <2>2 DEF DispatchClaim
      <3> QED BY <2>1, <3>1, RoomStays
    <2>3. CASE entry[disp.job] = "waiting"
      <3>1. entry' = [entry EXCEPT ![disp.job] = "running"] /\ disp'.pc = "submit"
        BY <1>3, <2>3 DEF DispatchClaim
      <3>2. RunningEntries' = RunningEntries \cup {disp.job}
        BY <2>1, <3>1 DEF RunningEntries
      <3>3. Cardinality(RunningEntries) \in Nat
        BY RunningIsNatural
      <3>4. /\ Cardinality(RunningEntries') \in Nat
            /\ Cardinality(RunningEntries') <= Cardinality(RunningEntries) + 1
        <4>1. Cardinality(RunningEntries \cup {disp.job})
                \in {Cardinality(RunningEntries), Cardinality(RunningEntries) + 1}
          BY OneMoreRuns
        <4> QED BY ONLY <3>2, <3>3, <4>1
      <3>5. PICK limit \in Calendar :
              Cardinality(RunningEntries) + disp.budget
                <= limit + (IF disp.pc = "submit" THEN 1 ELSE 0)
        BY <2>1 DEF RoomLeft
      <3>6. limit \in Nat /\ disp.budget \in Nat
        BY CalendarAssumption, WorkersAssumption
      <3>7. Cardinality(RunningEntries') + disp'.budget <= limit + 1
        BY <2>1, <3>3, <3>4, <3>5, <3>6
      <3> QED BY <3>1, <3>7 DEF RoomLeft
    <2> QED BY <2>2, <2>3
  <1>4. CASE DispatchSubmit
    <2>1. /\ disp.pc = "submit" /\ disp'.pc = "scan" /\ disp'.budget = disp.budget - 1
          /\ entry' = entry
      BY <1>4 DEF DispatchSubmit, tables
    <2>2. PICK limit \in Calendar :
            Cardinality(RunningEntries) + disp.budget
              <= limit + (IF disp.pc = "submit" THEN 1 ELSE 0)
      BY <2>1 DEF RoomLeft
    <2>3. limit \in Nat /\ disp.budget \in Nat /\ Cardinality(RunningEntries) \in Nat
      BY CalendarAssumption, WorkersAssumption, RunningIsNatural
    <2>4. RunningEntries' = RunningEntries
      BY <2>1 DEF RunningEntries
    <2>5. Cardinality(RunningEntries') + disp'.budget <= limit + 0
      BY <2>1, <2>2, <2>3, <2>4
    <2> QED BY <2>1, <2>5 DEF RoomLeft
  <1>5. CASE DispatchEnd
    BY <1>5 DEF DispatchEnd, RoomLeft
  <1>6. CASE DispatchFetch
    <2>1. /\ disp.pc = "fetch" /\ disp'.pc = "scan" /\ disp'.budget = disp.budget
          /\ entry' = entry
      BY <1>6 DEF DispatchFetch, tables
    <2> QED BY <2>1, RoomStays
  <1>7. ASSUME NEW j \in Jobs, DispatchSkip(j) \/ DispatchRefuse(j) \/ DispatchTake(j)
        PROVE  RoomLeft'
    <2>1. disp.pc = "scan" /\ entry' = entry
      BY <1>7 DEF DispatchSkip, DispatchRefuse, DispatchTake, tables
    <2>2. disp'.pc \in {"scan", "drop", "claim"} /\ disp'.budget = disp.budget
      <3>1. CASE DispatchSkip(j)
        BY <3>1 DEF DispatchSkip
      <3>2. CASE DispatchRefuse(j)
        BY <3>2 DEF DispatchRefuse
      <3>3. CASE DispatchTake(j)
        BY <3>3 DEF DispatchTake
      <3> QED BY <1>7, <3>1, <3>2, <3>3
    <2> QED BY <2>1, <2>2, RoomStays
  <1> QED BY <1>1, <1>2, <1>3, <1>4, <1>5, <1>6, <1>7 DEF Dispatch

\* Where the entries that run are the slots, nobody but the dispatcher spends room.
LEMMA OtherRoom ==
  ASSUME TypeOK, TypeOK', OneRunInv, RoomLeft, [Next]_vars, ~Crash, ~Dispatch
  PROVE  RoomLeft'
  <1>1. disp' = disp
    BY ZenonT(30) DEF Next, HandlerStep, Receive, Lookup, Enqueue, MarkAsQueued,
       MarkAsReady, CancelDecide, CancelDequeue, CancelExecution, CancelState,
       CancelWriteBack, PauseWrite,
       Work, WorkerStart, WorkerMarkRunning, WorkerLoad, PipelineGate, PipelineBegin,
       PipelineSucceed, PipelineFail, PipelineWait, PipelineCancel, WorkerQueue,
       WorkerExec, WorkerState, WorkerWriteBack, ReadRow, WorkerFinish, BecomeDue, LoseAudio,
       Reconcile,
       ReconcileEntry, ReconcileRunning, ReconcileExec, ReconcileState, ReconcileWriteBack, vars
  <1>2. \A j \in Jobs : entry'[j] = "running" => entry[j] = "running"
    <2>1. ASSUME NEW k \in Jobs, Work(k)
          PROVE  \A j \in Jobs : entry'[j] = "running" => entry[j] = "running"
      <3>1. CASE WorkerQueue(k)
        BY <3>1 DEF WorkerQueue, EntryOf, NoEntry, TypeOK
      <3>2. CASE WorkerMarkRunning(k)
        <4>1. entry[k] = "running"
          BY <3>2 DEF WorkerMarkRunning, OneRunInv, OneRun, HeldIsRunning, Held, SlotSteps
        <4> QED BY <3>2, <4>1 DEF WorkerMarkRunning, TypeOK
      <3>3. CASE ~WorkerQueue(k) /\ ~WorkerMarkRunning(k)
        BY <2>1, <3>3 DEF Work, WorkerStart, WorkerLoad, PipelineGate, PipelineBegin,
           PipelineSucceed, PipelineFail, PipelineWait, PipelineCancel, WorkerExec,
           WorkerState, WorkerWriteBack, ReadRow, WorkerFinish, tables
      <3> QED BY <3>1, <3>2, <3>3
    <2> QED BY <2>1, OthersRunNothing DEF Next
  <1> SUFFICES ASSUME disp.pc # "idle" PROVE RoomLeft'
    BY <1>1 DEF RoomLeft
  <1>3. PICK limit \in Calendar :
          Cardinality(RunningEntries) + disp.budget
            <= limit + (IF disp.pc = "submit" THEN 1 ELSE 0)
    BY DEF RoomLeft
  <1>4. limit \in Nat /\ disp.budget \in Nat
    BY CalendarAssumption, WorkersAssumption DEF TypeOK
  <1>5. Cardinality(RunningEntries') + disp'.budget
          <= limit + (IF disp'.pc = "submit" THEN 1 ELSE 0)
    BY <1>1, <1>2, <1>3, <1>4, FewerRun
  <1> QED BY <1>5 DEF RoomLeft

\* RoomLeft is inductive, given QuietInv and OneRunInv.
LEMMA RoomHolds ==
  ASSUME Quiet, OnlySubmissions
  PROVE  Spec => []RoomLeft
  <1>1. Init => RoomLeft
    BY DEF Init, RoomLeft
  <1>2. TypeOK /\ TypeOK' /\ QuietInv /\ OneRunInv /\ RoomLeft /\ [Next]_vars /\ ~Crash => RoomLeft'
    BY DispatchRoom, OtherRoom
  <1>3. TypeOK /\ NeverCancelled /\ QuietInv /\ [Next]_vars => ~Crash
    BY QuietStep DEF Quiet
  <1>4. Spec => []NeverCancelled
    BY NothingCancelled DEF Quiet
  <1>5. Spec => []QuietInv
    BY QuietHolds DEF Quiet
  <1>6. Spec => []OneRunInv
    BY OneRunHolds
  <1> QED BY TypeCorrect, <1>1, <1>2, <1>3, <1>4, <1>5, <1>6, PTL DEF Spec

-----------------------------------------------------------------------------
(* JobExecution implements JobLifecycle: every step of an actor is one step *)
(* of the abstract job, or none.  The slots of the abstraction are the      *)
(* entries that run; each lemma turns what a step writes into the abstract  *)
(* step it is.                                                              *)

\* The jobs a slot is taken for are those whose entry runs.
LEMMA SlotsAreEntries ==
  (OneRunInv => Processing = RunningEntries) /\ (OneRunInv' => Processing' = RunningEntries')
  BY DEF OneRunInv, OneRun, HeldIsRunning, Held, SlotSteps, Processing, RunningEntries

\* A step that changes no status and no slot is a stutter of JobLifecycle.
LEMMA SameShown ==
  ASSUME OneRunInv, OneRunInv', RunningEntries' = RunningEntries,
         \A k \in Jobs : exec'[k].status = exec[k].status
  PROVE  UNCHANGED Lifecycle!vars
  <1>1. Processing' = Processing
    BY SlotsAreEntries
  <1>2. [k \in Jobs |-> exec'[k].status] = [k \in Jobs |-> exec[k].status]
    OBVIOUS
  <1> QED BY <1>1, <1>2 DEF Lifecycle!vars

\* A step that writes one status.
LEMMA OneShown ==
  ASSUME NEW j \in Jobs, NEW s, exec'[j].status = s,
         \A k \in Jobs \ {j} : exec'[k].status = exec[k].status
  PROVE  [k \in Jobs |-> exec'[k].status] = [[k \in Jobs |-> exec[k].status] EXCEPT ![j] = s]
  OBVIOUS

\* A submission of JobLifecycle: the second write of a request.
LEMMA SubmitShown ==
  ASSUME OneRunInv, OneRunInv', NEW j \in Jobs, RunningEntries' = RunningEntries,
         j \notin RunningEntries, exec[j].status \in {"none"} \cup ExecTerminal,
         exec'[j].status = "queued", \A k \in Jobs \ {j} : exec'[k].status = exec[k].status
  PROVE  Lifecycle!Next
  <1>1. Processing' = Processing /\ j \notin Processing
    BY SlotsAreEntries
  <1>2. [k \in Jobs |-> exec'[k].status] = [[k \in Jobs |-> exec[k].status] EXCEPT ![j] = "queued"]
    BY OneShown
  <1>3. Lifecycle!Submit(j)
    BY <1>1, <1>2 DEF Lifecycle!Submit, Lifecycle!Ended, ExecTerminal
  <1> QED BY <1>3 DEF Lifecycle!Next

\* A claim of JobLifecycle: the entry begins to run under a limit.
LEMMA ClaimShown ==
  ASSUME OneRunInv, OneRunInv', NEW j \in Jobs, RunningEntries' = RunningEntries \cup {j},
         j \notin RunningEntries, exec[j].status \in Pending,
         \E limit \in Calendar : Cardinality(RunningEntries) < limit,
         \A k \in Jobs : exec'[k].status = exec[k].status
  PROVE  Lifecycle!Next
  <1>1. Processing' = Processing \cup {j} /\ Processing = RunningEntries
    BY SlotsAreEntries
  <1>2. [k \in Jobs |-> exec'[k].status] = [k \in Jobs |-> exec[k].status]
    OBVIOUS
  <1>3. \E limit \in Calendar : Lifecycle!Cardinality(Processing) < limit
    <2>1. Lifecycle!Cardinality(Processing) = Cardinality(Processing)
      BY DEF Lifecycle!Cardinality, Cardinality
    <2> QED BY <1>1, <2>1
  <1>4. Lifecycle!Claim(j)
    BY <1>1, <1>2, <1>3 DEF Lifecycle!Claim, Lifecycle!Waiting, Pending
  <1> QED BY <1>4 DEF Lifecycle!Next

\* The start of a run in JobLifecycle: the mark of the thread.
LEMMA StartShown ==
  ASSUME OneRunInv, OneRunInv', NEW j \in Jobs, RunningEntries' = RunningEntries,
         j \in RunningEntries, exec[j].status \in Pending,
         exec'[j].status = "running", \A k \in Jobs \ {j} : exec'[k].status = exec[k].status
  PROVE  Lifecycle!Next
  <1>1. Processing' = Processing /\ j \in Processing
    BY SlotsAreEntries
  <1>2. [k \in Jobs |-> exec'[k].status] = [[k \in Jobs |-> exec[k].status] EXCEPT ![j] = "running"]
    BY OneShown
  <1>3. Lifecycle!Start(j)
    BY <1>1, <1>2 DEF Lifecycle!Start, Lifecycle!Waiting, Pending
  <1> QED BY <1>3 DEF Lifecycle!Next

\* The release of a slot in JobLifecycle: the entry of the outcome.
LEMMA ReleaseShown ==
  ASSUME OneRunInv, OneRunInv', NEW j \in Jobs, RunningEntries' = RunningEntries \ {j},
         j \in RunningEntries, exec[j].status = "running",
         \A k \in Jobs : exec'[k].status = exec[k].status
  PROVE  Lifecycle!Next
  <1>1. Processing' = Processing \ {j} /\ j \in Processing
    BY SlotsAreEntries
  <1>2. [k \in Jobs |-> exec'[k].status] = [k \in Jobs |-> exec[k].status]
    OBVIOUS
  <1>3. Lifecycle!Release(j)
    BY <1>1, <1>2 DEF Lifecycle!Release
  <1> QED BY <1>3 DEF Lifecycle!Next

\* The end of a run in JobLifecycle: the execution of the outcome.
LEMMA ConcludeShown ==
  ASSUME OneRunInv, OneRunInv', NEW j \in Jobs, RunningEntries' = RunningEntries,
         j \notin RunningEntries, exec[j].status = "running",
         exec'[j].status \in Pending \cup ExecTerminal,
         \A k \in Jobs \ {j} : exec'[k].status = exec[k].status
  PROVE  Lifecycle!Next
  <1>1. Processing' = Processing /\ j \notin Processing
    BY SlotsAreEntries
  <1>2. [k \in Jobs |-> exec'[k].status]
          = [[k \in Jobs |-> exec[k].status] EXCEPT ![j] = exec'[j].status]
    BY OneShown
  <1>3. Lifecycle!Conclude(j)
    BY <1>1, <1>2 DEF Lifecycle!Conclude, Lifecycle!Waiting, Lifecycle!Ended, Pending,
       ExecTerminal
  <1> QED BY <1>3 DEF Lifecycle!Next

-----------------------------------------------------------------------------
\* A thread starts the run, releases the slot and concludes; its other steps show nothing.
LEMMA WorkImplements ==
  ASSUME ~Overlaps, TypeOK, NeverCancelled, QueueInv, OneRunInv, OneRunInv', NEW j \in Jobs, Work(j)
  PROVE  Lifecycle!Next \/ UNCHANGED Lifecycle!vars
  <1> USE DEF TypeOK
  <1>1. OneRun(j) /\ RunIsShown(j)
    BY DEF OneRunInv, QueueInv, InQueue
  <1>2. CASE WorkerStart(j)
    <2>1. /\ entry' = entry /\ wpc[j] = "submitted"
          /\ exec' = [exec EXCEPT ![j] = MarkStarted(exec[j])]
      BY <1>2 DEF WorkerStart
    <2>2. RunningEntries' = RunningEntries
      BY <2>1 DEF RunningEntries
    <2>3. exec'[j].status = "running" /\ \A k \in Jobs \ {j} : exec'[k].status = exec[k].status
      BY <2>1, MergeStatus
    <2>4. exec[j].status \in Pending /\ j \in RunningEntries
      BY <1>1, <2>1 DEF OneRun, TakenForPending, HeldIsRunning, Held, SlotSteps, RunningEntries
    <2> QED BY <2>2, <2>3, <2>4, StartShown
  <1>3. CASE WorkerMarkRunning(j)
    <2>1. entry[j] = "running" /\ exec' = exec
      BY <1>1, <1>3 DEF WorkerMarkRunning, OneRun, HeldIsRunning, Held, SlotSteps
    <2>2. entry' = entry
      BY <1>3, <2>1 DEF WorkerMarkRunning, NoEntry
    <2> QED BY <2>1, <2>2, SameShown DEF RunningEntries
  <1>4. CASE WorkerQueue(j)
    <2>1. exec' = exec /\ wpc[j] = "queue" /\ entry[j] = "running"
      BY <1>1, <1>4 DEF WorkerQueue, OneRun, HeldIsRunning, Held, SlotSteps
    <2>2. entry' = [entry EXCEPT ![j] = EntryOf(wout[j])] /\ EntryOf(wout[j]) # "running"
      BY <1>4, <2>1 DEF WorkerQueue, NoEntry, EntryOf
    <2>3. RunningEntries' = RunningEntries \ {j} /\ j \in RunningEntries
      BY <2>1, <2>2 DEF RunningEntries
    <2>4. exec[j].status = "running"
      BY <1>1, <2>1 DEF RunIsShown, SlotSteps
    <2> QED BY <2>1, <2>3, <2>4, ReleaseShown
  <1>5. CASE WorkerExec(j)
    <2>1. /\ entry' = entry /\ wpc[j] = "exec"
          /\ exec' = [exec EXCEPT ![j] = MarkOutcome(wout[j], exec[j])]
      BY <1>5 DEF WorkerExec
    <2>2. exec[j].status = "running" /\ entry[j] # "running"
      BY <1>1, <2>1 DEF OneRun, ReleasedFirst, EntryOf
    <2>3. RunningEntries' = RunningEntries /\ j \notin RunningEntries
      BY <2>1, <2>2 DEF RunningEntries
    <2>4. /\ exec'[j].status = StatusOf(wout[j])
          /\ \A k \in Jobs \ {j} : exec'[k].status = exec[k].status
      BY <2>1, OutcomeMerged
    <2>5. StatusOf(wout[j]) \in Pending \cup ExecTerminal
      BY DEF StatusOf, Pending, ExecTerminal
    <2> QED BY <2>2, <2>3, <2>4, <2>5, ConcludeShown
  <1>6. CASE ~WorkerStart(j) /\ ~WorkerMarkRunning(j) /\ ~WorkerQueue(j) /\ ~WorkerExec(j)
    <2>1. entry' = entry /\ exec' = exec
      BY <1>6 DEF Work, WorkerLoad, PipelineGate, PipelineBegin, PipelineSucceed, PipelineFail,
         PipelineWait, PipelineCancel, WorkerState, WorkerWriteBack, WorkerFinish, tables,
         NeverCancelled, NoWriteBack
    <2> QED BY <2>1, SameShown DEF RunningEntries
  <1> QED BY <1>2, <1>3, <1>4, <1>5, <1>6

\* A request submits the job when it marks it queued.
LEMMA HandlerImplements ==
  ASSUME Quiet, TypeOK, NeverCancelled, QueueInv, OneRunInv, OneRunInv',
         NEW h \in Handlers, HandlerStep(h)
  PROVE  Lifecycle!Next \/ UNCHANGED Lifecycle!vars
  <1> SUFFICES ASSUME NEW j, j = hand[h].job
               PROVE  Lifecycle!Next \/ UNCHANGED Lifecycle!vars
    OBVIOUS
  <1> USE DEF TypeOK
  <1>1. Lookup(h) \/ Enqueue(h) \/ MarkAsQueued(h) \/ MarkAsReady(h)
    BY DEF HandlerStep, CancelDecide, CancelDequeue, CancelExecution, CancelState,
       CancelWriteBack, PauseWrite,
       NeverCancelled, NoCancelStep, OneRunInv, NoPauseStep
  <1>2. j \in Jobs
    BY <1>1 DEF Lookup, Enqueue, MarkAsQueued, MarkAsReady
  <1>3. InQueue(j) /\ OneRun(j)
    BY <1>2 DEF QueueInv, OneRunInv
  <1>4. CASE Lookup(h) \/ MarkAsReady(h)
    BY <1>4, SameShown DEF Lookup, MarkAsReady, tables, RunningEntries
  <1>5. CASE Enqueue(h)
    <2>1. exec' = exec /\ hand[h].pc = "enqueue"
      BY <1>5 DEF Enqueue
    <2>2. entry[j] \in {NoEntry} \cup EntryTerminal
      BY <1>3, <2>1 DEF InQueue, EntryIsFree, AtEnqueue
    <2>3. entry' = [entry EXCEPT ![j] = "waiting"]
      BY <1>5, <2>2 DEF Enqueue
    <2>4. RunningEntries' = RunningEntries
      BY <2>2, <2>3 DEF RunningEntries, NoEntry, EntryTerminal
    <2> QED BY <2>1, <2>4, SameShown
  <1>6. CASE MarkAsQueued(h)
    <2>1. /\ hand[h].pc = "queued" /\ entry' = entry
          /\ exec' = [exec EXCEPT ![j] = MarkQueued(exec[j])]
      BY <1>6 DEF MarkAsQueued
    <2>2. RunningEntries' = RunningEntries
      BY <2>1 DEF RunningEntries
    <2>3. exec'[j].status = "queued" /\ \A k \in Jobs \ {j} : exec'[k].status = exec[k].status
      BY <1>2, <2>1, MergeStatus
    <2>4. exec[j].status \in {"none"} \cup ExecTerminal
      BY <1>2, <1>3, <2>1 DEF OneRun, SubmittedIdle, Submitting, Execution
    <2>5. j \notin RunningEntries
      BY <1>3, <2>1 DEF InQueue, EntryIsKept, HalfSubmitted, Lost, RunningEntries
    <2> QED BY <1>2, <2>2, <2>3, <2>4, <2>5, SubmitShown
  <1> QED BY <1>1, <1>4, <1>5, <1>6

\* The dispatcher takes a slot when its claim finds the entry waiting, within a limit.
LEMMA DispatchImplements ==
  ASSUME Quiet, TypeInv, ThreadInv, QuietInv, SlotInv, OneRunInv, OneRunInv', RoomLeft,
         Dispatch
  PROVE  Lifecycle!Next \/ UNCHANGED Lifecycle!vars
  <1> USE DEF TypeInv, TypeOK
  <1>1. exec' = exec
    BY DEF Dispatch, DispatchCount, DispatchFetch, DispatchDrop, DispatchClaim, DispatchSubmit,
       DispatchEnd, DispatchSkip, DispatchRefuse, DispatchTake, tables
  <1>2. CASE DispatchClaim /\ entry[disp.job] = "waiting"
    <2>1. /\ disp.job \in Jobs /\ disp.pc = "claim" /\ ~HalfSubmitted(disp.job)
          /\ entry' = [entry EXCEPT ![disp.job] = "running"]
      BY <1>2 DEF DispatchClaim, Quiet
    <2>2. RunningEntries' = RunningEntries \cup {disp.job} /\ disp.job \notin RunningEntries
      BY <1>2, <2>1 DEF RunningEntries
    <2>3. wpc[disp.job] = "none" /\ OneRun(disp.job)
      BY <2>1 DEF ThreadInv, ThreadsTracked, ChosenUntracked, OneRunInv
    <2>4. exec[disp.job].status \in Pending
      BY <1>2, <2>1, <2>3 DEF OneRun, WaitingIsPending
    <2>5. \E limit \in Calendar : Cardinality(RunningEntries) < limit
      <3>1. disp.budget \in Nat /\ disp.budget > 0
        BY <2>1, WorkersAssumption DEF BudgetLeft
      <3>2. PICK limit \in Calendar :
              Cardinality(RunningEntries) + disp.budget
                <= limit + (IF disp.pc = "submit" THEN 1 ELSE 0)
        BY <2>1 DEF RoomLeft
      <3>3. limit \in Nat /\ Cardinality(RunningEntries) \in Nat
        BY CalendarAssumption, WorkersAssumption, RunningIsNatural
      <3>4. Cardinality(RunningEntries) < limit
        BY <2>1, <3>1, <3>2, <3>3
      <3> QED BY <3>4
    <2> QED BY <1>1, <2>1, <2>2, <2>4, <2>5, ClaimShown
  <1>3. CASE DispatchClaim /\ entry[disp.job] # "waiting"
    BY <1>1, <1>3, SameShown DEF DispatchClaim, RunningEntries
  <1>4. CASE DispatchDrop
    <2>1. /\ disp.pc = "drop" /\ disp.job \in Jobs
          /\ entry' = [entry EXCEPT ![disp.job] = "failed"]
      BY <1>4 DEF DispatchDrop, QuietInv, DropsAreLosses
    <2>2. wpc[disp.job] = "none" /\ ~BeingSubmitted(disp.job)
      BY <2>1 DEF ThreadInv, ThreadsTracked, ChosenUntracked, BeingSubmitted
    <2>3. entry[disp.job] # "running"
      BY <2>1, <2>2 DEF SlotInv, SlotsHeld, Held, SlotSteps, QuietInv, Undisturbed
    <2>4. RunningEntries' = RunningEntries
      BY <2>1, <2>3 DEF RunningEntries
    <2> QED BY <1>1, <2>4, SameShown
  <1>5. CASE ~DispatchClaim /\ ~DispatchDrop
    <2>1. entry' = entry
      BY <1>5 DEF Dispatch, DispatchCount, DispatchFetch, DispatchSubmit,
         DispatchEnd, DispatchSkip, DispatchRefuse, DispatchTake, tables
    <2> QED BY <1>1, <2>1, SameShown DEF RunningEntries
  <1> QED BY <1>2, <1>3, <1>4, <1>5

\* Receiving a request, and the environment, show nothing.
LEMMA IdleImplements ==
  ASSUME Quiet, TypeOK, OneRunInv, OneRunInv',
         \/ UNCHANGED vars \/ (\E j \in Jobs : BecomeDue(j) \/ LoseAudio(j))
         \/ \E h \in Handlers, kind \in Kinds, j \in Jobs : Receive(h, kind, j)
  PROVE  Lifecycle!Next \/ UNCHANGED Lifecycle!vars
  <1>1. entry' = entry /\ exec' = exec
    <2>1. \A kind \in Kinds : kind \notin {"cancel", "queue_cancel"}
      BY DEF Quiet, NoCancellations
    <2> QED BY <2>1 DEF Receive, BecomeDue, LoseAudio, vars, tables
  <1> QED BY <1>1, SameShown DEF RunningEntries

\* Where one processing request is served at a time, its two writes are not parted by
\* a claim, nobody pauses, cancels or restarts, and no commit falls inside an
\* update_state, the three columns and the threads
\* together behave as JobLifecycle promises: one run at a time, taken under the limit
\* of a scheduling window, its slot given back before its outcome is shown.
THEOREM ImplementsLifecycle ==
  ASSUME Quiet, OnlySubmissions
  PROVE  Spec => FollowsLifecycle
  <1>1. Init => Lifecycle!Init
    <2> SUFFICES ASSUME Init PROVE Lifecycle!Init
      OBVIOUS
    <2>1. Processing = {}
      BY DEF Init, Processing, RunningEntries, NoEntry
    <2>2. [j \in Jobs |-> exec[j].status] = [j \in Jobs |-> "none"]
      BY DEF Init, NoExecution
    <2> QED BY <2>1, <2>2 DEF Lifecycle!Init
  <1>2. TypeInv /\ ThreadInv /\ NeverCancelled /\ QuietInv /\ SlotInv /\ QueueInv
          /\ OneRunInv /\ OneRunInv' /\ RoomLeft /\ [Next]_vars
        => Lifecycle!Next \/ UNCHANGED Lifecycle!vars
    <2> SUFFICES ASSUME TypeInv, ThreadInv, NeverCancelled, QuietInv, SlotInv, QueueInv,
                        OneRunInv, OneRunInv', RoomLeft, [Next]_vars
                 PROVE  Lifecycle!Next \/ UNCHANGED Lifecycle!vars
      OBVIOUS
    <2>1. TypeOK /\ MaxCrashes = 0
      BY DEF TypeInv, Quiet
    <2>2. ~Crash /\ ~Reconcile
      BY <2>1, QuietStep
    <2>3. ~Overlaps
      BY DEF Quiet
    <2> QED BY <2>1, <2>2, <2>3, WorkImplements, HandlerImplements, DispatchImplements,
               IdleImplements
            DEF Next
  <1>3. Spec => []NeverCancelled
    BY NothingCancelled DEF Quiet
  <1>4. Spec => []QuietInv
    BY QuietHolds DEF Quiet
  <1>5. Spec => []QueueInv /\ []OneRunInv /\ []RoomLeft
    BY QueueHolds, OneRunHolds, RoomHolds, PTL
  <1> QED BY TypeHolds, ThreadsHold, SlotsHold, <1>1, <1>2, <1>3, <1>4, <1>5, PTL
          DEF Spec, FollowsLifecycle, Lifecycle!Spec

-----------------------------------------------------------------------------
(* The three columns agree on how a run ended.  While a run ends they differ *)
(* in turn, and Agree says how: the entry first, then the execution, then the *)
(* state; a submission then writes the entry before the execution.           *)

OnlyProcesses == Kinds \subseteq {"process"}

CompletedIsDone(j) == exec[j].status = "completed" => HalfSubmitted(j) \/ entry[j] = "done"
FailedIsFailed(j) == exec[j].status = "failed" => HalfSubmitted(j) \/ entry[j] = "failed"
DoneIsCompleted(j) == entry[j] = "done" => exec[j].status = "completed" \/ wpc[j] = "exec"
FailureIsFailed(j) == entry[j] = "failed" => exec[j].status = "failed" \/ wpc[j] = "exec"
CompletedIsShown(j) ==
  exec[j].status = "completed" =>
    IF wpc[j] = "state" THEN wout[j] = "success" ELSE state[j] = "completed"

Agree(j) ==
  /\ CompletedIsDone(j) /\ FailedIsFailed(j) /\ DoneIsCompleted(j) /\ FailureIsFailed(j)
  /\ CompletedIsShown(j)
AgreeInv == \A j \in Jobs : Agree(j)

\* A step that leaves the columns and the thread of a job alone, and completes no
\* submission of it, keeps Agree.
LEMMA AgreeFrame ==
  ASSUME NEW k \in Jobs, Agree(k),
         entry'[k] = entry[k], exec'[k].status = exec[k].status, state'[k] = state[k],
         wpc'[k] = wpc[k], wout'[k] = wout[k], HalfSubmitted(k) => HalfSubmitted(k)'
  PROVE  Agree(k)'
  BY DEF Agree, CompletedIsDone, FailedIsFailed, DoneIsCompleted, FailureIsFailed,
     CompletedIsShown

\* A thread publishes its outcome in the three columns, one after the other.
LEMMA WorkAgrees ==
  ASSUME ~Overlaps, TypeOK, NeverCancelled, QueueInv, OneRunInv, AgreeInv, NEW j \in Jobs, Work(j)
  PROVE  AgreeInv'
  <1> USE DEF TypeOK
  <1>1. /\ hand' = hand
        /\ \A k \in Jobs \ {j} : /\ entry'[k] = entry[k] /\ exec'[k] = exec[k]
                                 /\ wpc'[k] = wpc[k] /\ wout'[k] = wout[k]
                                 /\ state'[k] = state[k]
    BY DEF Work, WorkerStart, WorkerMarkRunning, WorkerLoad, PipelineGate, PipelineBegin,
       PipelineSucceed, PipelineFail, PipelineWait, PipelineCancel, WorkerQueue, WorkerExec,
       WorkerState, WorkerWriteBack, ReadRow, WorkerFinish, Publish, tables
  <1>2. \A k \in Jobs : HalfSubmitted(k)' <=> HalfSubmitted(k)
    BY <1>1 DEF HalfSubmitted
  <1>3. ASSUME NEW k \in Jobs, k # j PROVE Agree(k)'
    BY <1>1, <1>2, <1>3, AgreeFrame DEF AgreeInv
  <1>4. Agree(j)'
    <2> USE DEF Agree, CompletedIsDone, FailedIsFailed, DoneIsCompleted, FailureIsFailed,
                CompletedIsShown
    <2>1. OneRun(j) /\ RunIsShown(j) /\ Agree(j)
      BY DEF OneRunInv, QueueInv, InQueue, AgreeInv
    <2>2. CASE WorkerStart(j)
      <3>1. /\ wpc[j] = "submitted" /\ entry'[j] = entry[j]
            /\ exec'[j] = MarkStarted(exec[j])
        BY <2>2 DEF WorkerStart
      <3>2. exec'[j].status = "running" /\ entry[j] = "running"
        BY <2>1, <3>1, MergeStatus DEF OneRun, HeldIsRunning, Held, SlotSteps
      <3> QED BY <3>1, <3>2
    <2>3. CASE WorkerMarkRunning(j) \/ WorkerLoad(j) \/ PipelineGate(j) \/ PipelineBegin(j)
               \/ PipelineSucceed(j) \/ PipelineFail(j) \/ PipelineWait(j) \/ PipelineCancel(j)
      <3>1. /\ wpc[j] \in {"mark", "load", "begin", "pipeline"} /\ exec'[j] = exec[j]
            /\ entry'[j] \in {"running", entry[j]}
        BY <2>3 DEF WorkerMarkRunning, WorkerLoad, PipelineGate, PipelineBegin,
           PipelineSucceed, PipelineFail, PipelineWait, PipelineCancel, Publish, tables
      <3>2. exec[j].status = "running" /\ entry[j] = "running"
        BY <2>1, <3>1 DEF OneRun, HeldIsRunning, Held, RunIsShown, SlotSteps
      <3> QED BY <3>1, <3>2
    <2>4. CASE WorkerQueue(j)
      <3>1. wpc[j] = "queue" /\ wpc'[j] = "exec" /\ exec'[j] = exec[j]
        BY <2>4 DEF WorkerQueue
      <3>2. exec[j].status = "running"
        BY <2>1, <3>1 DEF RunIsShown, SlotSteps
      <3> QED BY <3>1, <3>2
    <2>5. CASE WorkerExec(j)
      <3>1. /\ wpc[j] = "exec" /\ entry'[j] = entry[j] /\ wout'[j] = wout[j]
            /\ wpc'[j] = IF wout[j] \in Waits THEN "finish" ELSE "state"
            /\ exec'[j] = MarkOutcome(wout[j], exec[j])
        BY <2>5 DEF WorkerExec
      <3>2. exec'[j].status = StatusOf(wout[j]) /\ entry[j] = EntryOf(wout[j])
        BY <2>1, <3>1, OutcomeMerged DEF OneRun, ReleasedFirst
      <3>3. wout[j] # "cancelled" /\ "success" \notin Waits
        BY WaitsAssumption DEF NeverCancelled, NotCancelled
      <3> QED BY <3>1, <3>2, <3>3 DEF StatusOf, EntryOf
    <2>6. CASE WorkerState(j)
      <3>1. Allowed(state[j], StateOf(wout[j]))
        BY DEF NeverCancelled, NotCancelled, Allowed, StateOf, TerminalState, FromTerminal
      <3>2. /\ wpc[j] = "state" /\ wpc'[j] = "finish" /\ entry'[j] = entry[j]
            /\ exec'[j] = exec[j] /\ state'[j] = StateOf(wout[j])
        BY <2>6, <3>1 DEF WorkerState, NeverCancelled, NoWriteBack
      <3> QED BY <1>2, <2>1, <3>2 DEF StateOf
    <2>7. CASE WorkerFinish(j)
      <3>1. /\ wpc[j] = "finish" /\ wpc'[j] = "none" /\ entry'[j] = entry[j]
            /\ exec'[j] = exec[j] /\ state'[j] = state[j]
        BY <2>7 DEF WorkerFinish, tables
      <3> QED BY <1>2, <2>1, <3>1
    <2> QED BY <2>2, <2>3, <2>4, <2>5, <2>6, <2>7 DEF Work, WorkerWriteBack,
               NeverCancelled, NoWriteBack
  <1> QED BY <1>3, <1>4 DEF AgreeInv

\* A submission parts the entry from the execution between its two writes, and does
\* not move a job that is completed.
LEMMA HandlerAgrees ==
  ASSUME Quiet, OnlyProcesses, ~AudioLoss, TypeOK, NeverCancelled, QueueInv, OneRunInv,
         AgreeInv, NEW h \in Handlers, HandlerStep(h)
  PROVE  AgreeInv'
  <1> SUFFICES ASSUME NEW j, j = hand[h].job PROVE AgreeInv'
    OBVIOUS
  <1> USE DEF TypeOK
  <1>1. Lookup(h) \/ Enqueue(h) \/ MarkAsQueued(h) \/ MarkAsReady(h)
    BY DEF HandlerStep, CancelDecide, CancelDequeue, CancelExecution, CancelState,
       CancelWriteBack, PauseWrite,
       NeverCancelled, NoCancelStep, OneRunInv, NoPauseStep
  <1>2. j \in Jobs
    BY <1>1 DEF Lookup, Enqueue, MarkAsQueued, MarkAsReady
  <1>3. /\ UNCHANGED <<wpc, wout>>
        /\ \A k \in Jobs \ {j} : /\ entry'[k] = entry[k] /\ exec'[k] = exec[k]
                                 /\ state'[k] = state[k]
    BY <1>1 DEF Lookup, Enqueue, MarkAsQueued, MarkAsReady, workers, tables
  <1>4. \A k \in Jobs : HalfSubmitted(k) => k = j /\ hand[h].pc = "queued"
    BY DEF HalfSubmitted, Quiet
  <1>5. ASSUME NEW k \in Jobs, k # j PROVE Agree(k)'
    BY <1>3, <1>4, <1>5, AgreeFrame DEF AgreeInv
  <1>6. Agree(j)'
    <2>1. Agree(j) /\ OneRun(j) /\ InQueue(j)
      BY <1>2 DEF AgreeInv, OneRunInv, QueueInv
    <2> USE DEF Agree, CompletedIsDone, FailedIsFailed, DoneIsCompleted, FailureIsFailed,
                CompletedIsShown
    <2>2. CASE Lookup(h)
      <3>1. UNCHANGED <<entry, exec, state>> /\ hand[h].pc = "lookup"
        BY <2>2 DEF Lookup, tables
      <3> QED BY <1>2, <1>3, <1>4, <2>1, <3>1, AgreeFrame
    <2>3. CASE Enqueue(h)
      <3>1. hand[h].pc = "enqueue" /\ UNCHANGED <<exec, state>>
        BY <2>3 DEF Enqueue
      <3>2. entry[j] \in {NoEntry} \cup EntryTerminal
        BY <2>1, <3>1 DEF InQueue, EntryIsFree, AtEnqueue
      <3>3. entry'[j] = "waiting"
        BY <1>2, <2>3, <3>2 DEF Enqueue
      <3>4. HalfSubmitted(j)'
        <4>1. hand' = [hand EXCEPT ![h].pc = "queued", ![h].seen = NoEntry]
          BY <2>3 DEF Enqueue, Goto
        <4> QED BY <4>1 DEF HalfSubmitted
      <3> QED BY <1>3, <2>1, <3>1, <3>3, <3>4
    <2>4. CASE MarkAsQueued(h)
      <3>1. hand[h].pc = "queued" /\ entry' = entry /\ exec'[j] = MarkQueued(exec[j])
        BY <1>2, <2>4 DEF MarkAsQueued
      <3>2. exec'[j].status = "queued"
        BY <1>2, <3>1, MergeStatus
      <3>3. entry[j] = "waiting"
        BY <2>1, <3>1 DEF InQueue, EntryIsKept, HalfSubmitted, Lost
      <3> QED BY <1>3, <3>1, <3>2, <3>3
    <2>5. CASE MarkAsReady(h)
      <3>1. hand[h].pc = "ready" /\ UNCHANGED <<entry, exec>>
        BY <2>5 DEF MarkAsReady
      <3>2. hand[h].kind # "reprocess"
        BY DEF OnlyProcesses
      <3>3. ~Allowed("completed", "ready")
        BY DEF Allowed, TerminalState, FromTerminal
      <3>4. state[j] = "completed" => state'[j] = "completed"
        BY <1>2, <2>5, <3>2, <3>3 DEF MarkAsReady
      <3> QED BY <1>3, <1>4, <2>1, <3>1, <3>4
    <2> QED BY <1>1, <2>2, <2>3, <2>4, <2>5
  <1> QED BY <1>5, <1>6 DEF AgreeInv

\* The dispatcher takes the entries of pending executions.
LEMMA DispatchAgrees ==
  ASSUME Quiet, ~AudioLoss, TypeOK, ThreadInv, QuietInv, QueueInv, OneRunInv, AgreeInv, Dispatch
  PROVE  AgreeInv'
  <1> USE DEF TypeOK
  <1>1. UNCHANGED <<exec, state, wout, hand>>
    BY DEF Dispatch, DispatchCount, DispatchFetch, DispatchDrop, DispatchClaim, DispatchSubmit,
       DispatchEnd, DispatchSkip, DispatchRefuse, DispatchTake, tables, workers
  <1>2. \A k \in Jobs : HalfSubmitted(k)' <=> HalfSubmitted(k)
    BY <1>1 DEF HalfSubmitted
  <1>3. ~DispatchDrop
    BY DEF DispatchDrop, QuietInv, DropsAreLosses
  <1>4. ASSUME NEW k \in Jobs, DispatchClaim PROVE Agree(k)'
    <2>1. wpc' = wpc /\ Agree(k) /\ ~HalfSubmitted(disp.job)
      BY <1>4 DEF DispatchClaim, workers, AgreeInv, Quiet
    <2>2. CASE entry'[k] = entry[k]
      BY <1>1, <1>2, <2>1, <2>2, AgreeFrame
    <2>3. CASE entry'[k] # entry[k]
      <3>1. k = disp.job /\ entry[k] = "waiting" /\ entry'[k] = "running"
        BY <1>4, <2>3 DEF DispatchClaim
      <3>2. exec[k].status \notin {"completed", "failed"}
        BY <2>1, <3>1 DEF Agree, CompletedIsDone, FailedIsFailed
      <3> QED BY <1>1, <2>1, <3>1, <3>2 DEF Agree, CompletedIsDone, FailedIsFailed,
                 DoneIsCompleted, FailureIsFailed, CompletedIsShown
    <2> QED BY <2>2, <2>3
  <1>5. ASSUME NEW k \in Jobs, DispatchSubmit PROVE Agree(k)'
    <2>1. /\ disp.pc = "submit" /\ entry' = entry /\ Agree(k) /\ OneRun(k)
          /\ wpc' = [wpc EXCEPT ![disp.job] = "submitted"]
      BY <1>5 DEF DispatchSubmit, tables, AgreeInv, OneRunInv
    <2>2. CASE k # disp.job
      BY <1>1, <1>2, <2>1, <2>2, AgreeFrame
    <2>3. CASE k = disp.job
      <3>1. exec[k].status \in Pending /\ entry[k] = "running"
        BY <2>1, <2>3 DEF OneRun, TakenForPending, HeldIsRunning, Held, BeingSubmitted
      <3> QED BY <1>1, <2>1, <3>1 DEF Agree, CompletedIsDone, FailedIsFailed,
                 DoneIsCompleted, FailureIsFailed, CompletedIsShown, Pending
    <2> QED BY <2>2, <2>3
  <1>6. ASSUME NEW k \in Jobs, ~DispatchClaim, ~DispatchSubmit PROVE Agree(k)'
    <2>1. UNCHANGED <<entry, wpc>> /\ Agree(k)
      BY <1>3, <1>6, OtherDispatch DEF AgreeInv
    <2> QED BY <1>1, <1>2, <2>1, AgreeFrame
  <1> QED BY <1>4, <1>5, <1>6 DEF AgreeInv

\* Receiving a request, and the environment, write none of the columns.
LEMMA IdleAgrees ==
  ASSUME Quiet, TypeOK, AgreeInv,
         \/ UNCHANGED vars \/ (\E j \in Jobs : BecomeDue(j) \/ LoseAudio(j))
         \/ \E h \in Handlers, kind \in Kinds, j \in Jobs : Receive(h, kind, j)
  PROVE  AgreeInv'
  <1>1. UNCHANGED <<entry, exec, state, wpc, wout>>
    <2>1. \A kind \in Kinds : kind \notin {"cancel", "queue_cancel"}
      BY DEF Quiet, NoCancellations
    <2> QED BY <2>1 DEF Receive, BecomeDue, LoseAudio, vars, tables, workers
  <1>2. \A k \in Jobs : HalfSubmitted(k) => HalfSubmitted(k)'
    <2>1. CASE UNCHANGED vars \/ (\E j \in Jobs : BecomeDue(j) \/ LoseAudio(j))
      BY <2>1 DEF BecomeDue, LoseAudio, vars, HalfSubmitted
    <2>2. CASE \E h \in Handlers, kind \in Kinds, j \in Jobs : Receive(h, kind, j)
      BY <2>2 DEF Receive, HalfSubmitted, Quiet
    <2> QED BY <2>1, <2>2
  <1> QED BY <1>1, <1>2, AgreeFrame DEF AgreeInv

\* Where one processing request is served at a time, its two writes are not parted by
\* a claim, no audio is lost and nobody reprocesses, pauses, cancels or restarts, the
\* columns of a job that nobody works on tell the same outcome.
THEOREM OutcomesAreAgreed ==
  ASSUME Quiet, OnlyProcesses, ~AudioLoss
  PROVE  Spec => []OutcomesAgree
  <1>0. OnlySubmissions /\ NoCancellations /\ ~Overlaps /\ MaxCrashes = 0
    BY DEF OnlySubmissions, OnlyProcesses, Quiet
  <1>1. Init => AgreeInv
    <2> SUFFICES ASSUME Init, NEW j \in Jobs PROVE Agree(j)
      BY DEF AgreeInv
    <2>1. entry[j] = NoEntry /\ exec[j].status = "none"
      BY DEF Init, NoExecution
    <2> QED BY <2>1 DEF Agree, CompletedIsDone, FailedIsFailed, DoneIsCompleted,
               FailureIsFailed, CompletedIsShown, NoEntry
  <1>2. TypeOK /\ ThreadInv /\ NeverCancelled /\ QuietInv /\ QueueInv /\ OneRunInv /\ AgreeInv
          /\ [Next]_vars => AgreeInv'
    BY <1>0, QuietStep, WorkAgrees, HandlerAgrees, DispatchAgrees, IdleAgrees DEF Next
  <1>3. AgreeInv => OutcomesAgree
    <2> SUFFICES ASSUME AgreeInv, NEW j \in Jobs, Settled(j)
                 PROVE  /\ entry[j] = "done" <=> exec[j].status = "completed"
                        /\ entry[j] = "failed" <=> exec[j].status = "failed"
                        /\ exec[j].status = "completed" => state[j] = "completed"
      BY DEF OutcomesAgree
    <2>1. wpc[j] = "none" /\ ~HalfSubmitted(j) /\ Agree(j)
      BY DEF Settled, HalfSubmitted, AgreeInv
    <2> QED BY <2>1 DEF Agree, CompletedIsDone, FailedIsFailed, DoneIsCompleted,
               FailureIsFailed, CompletedIsShown
  <1>4. Spec => []NeverCancelled
    BY <1>0, NothingCancelled
  <1>5. Spec => []QuietInv
    BY <1>0, QuietHolds
  <1>6. Spec => []QueueInv /\ []OneRunInv
    BY <1>0, QueueHolds, OneRunHolds, PTL
  <1> QED BY TypeCorrect, ThreadsHold, <1>1, <1>2, <1>3, <1>4, <1>5, <1>6, PTL DEF Spec
=============================================================================
