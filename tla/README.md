# TranscrIA in TLA+

TranscrIA turns recordings of meetings into transcripts and minutes. A Flask
application serves the users; a queue dispatches jobs to worker threads; the
phases of a job share the GPUs of the machine with one arbitration LLM and with
the live transcription facade. This directory holds TLA+ models of the parts
whose correctness depends on the order in which those actors act, the TLC runs
that check them on small instances, and TLAPS proofs about them for every
instance.

| File | Contents |
|---|---|
| `JobStatus.tla` | the three status columns of a job: their values, the merges of the execution block, the transition rules of `jobs.state` |
| `JobExecution.tla` | web routes, queue, dispatcher, workers, restart: the composition |
| `JobLifecycle.tla` | the abstract promise of the queue to whoever follows a job; `JobExecution` implements it |
| `MCJobExecution.tla` + `JobSubmit`, `JobRequests`, `JobCancelEnds`, `JobRestart`, `RelaunchCancelled` (`.cfg`) | its instances for TLC |
| `QueueOrder.tla`, `.cfg` | the order in which the queue serves: priorities, positions, aging |
| `Pipeline.tla` + `Resumption.cfg` | the phases of a job, what marks them done, how a run is resumed |
| `GpuSharing.tla` | GPU bookings, the LLM server and its lock, the facade, the phases of a job |
| `LlmServer.tla` | the abstract server behind the LLM lock; `GpuSharing` implements it |
| `MCGpuSharing.tla` + `GpuShared.cfg` | its instance for TLC |
| `MeetingSessions.tla`, `MCMeetingSessions.tla` + `Meetings.cfg` | planned meetings: portal, runners, bots |
| `ArtifactStore.tla`, `MCArtifactStore.tla` + `Artifacts.cfg` | the files of a job between machines that share no disk |
| `Questions.tla`, `.cfg` | questions asked to past meetings |
| `SingleScheduler.tla`, `.cfg` | which process drains the queue |
| `JobExecution_proofs`, `QueueOrder_proofs`, `GpuSharing_proofs`, `Questions_proofs`, `SingleScheduler_proofs`, `ArtifactStore_proofs`, `Pipeline_proofs`, `MeetingSessions_proofs` (`.tla`) | theorems about them |
| `PROJECT.json` | components, runs, mutants, the map from definitions to source lines, findings, hazards, theorems |

How the modules relate: each models one component with the others reduced to
what it sees of them. `JobExecution` leaves the order of the candidates open,
`QueueOrder` models that order with one iteration of the dispatcher as one step;
`SingleScheduler` runs several processes, each with the dispatcher and the
reconciliation of `JobExecution` in coarser steps; `GpuSharing` starts where a
job has its thread, and its `queued` is a job the queue holds; `Questions` takes
the LLM lock of `GpuSharing` as had or not; `Pipeline` walks through the phases
that are one step of a worker of `JobExecution`; a recording that `MeetingSessions`
attaches is where a job of `JobExecution` begins.

Paths below are relative to `src/transcria/` unless they start with another
directory of the repository.

## Inventory

### Job queue and dispatcher (`queue/store.py`, `queue/scheduler.py`, `queue/routes.py`)
State: one row of `job_queue` per job (status, priority, position,
`scheduled_at`), and the dispatcher's in-memory `_running`. Operations: enqueue
(insert or revive), claim, mark running, dequeue, requeue later, pause, resume,
move, purge; the dispatch loop counts the running entries, fetches candidates
and launches them; `_on_done` forgets a job. Interacts with the routes that
submit and cancel, with the executor it submits to, with the calendar that
limits it and with the allocator that admits. Hard: every column is written by
several threads without a common lock; the loop works on what it read before.
Correct when a job is never given to two threads, no slot leaks, the limit of
the window holds, and no accepted job is forgotten.

### Job executor and restart reconciliation (`services/job_executor.py`)
State: the thread of each job and the outcome it carries. Operations: run a
job, publish its outcome in three transactions (queue, execution, state),
reconcile at start-up what a dead process left. Hard: crashes between any two
writes, refused transitions after a part has been published. Correct when the
three columns agree at rest and nothing stays running without a thread.

### Execution block and job state (`workflow/transitions.py`, `jobs/transitions.py`, `jobs/store.py`)
State: `extra_data.execution` (status, `cancel_requested`, flags of the VRAM
wait) and `jobs.state`. Operations: the `mark_*` merges under a row lock,
`update_state` under the transition rules or forced. Hard: `update_state`
writes back the `extra_data` it read without that lock. Correct when a request
recorded in the block is not lost and an ended job stays ended.

### Processing routes (`web/processing_api.py`)
`process`, `reprocess` and `cancel`; their guards read one row and their writes
are several transactions. Correct when what they accept is really launched.

### Processing pipeline (`services/pipeline_service.py`, `workflow/phases/`, `workflow/checkpoints.py`, `workflow/resume.py`)
State: the phases done (`completed_phases`), the fingerprints of their inputs
(`phase_inputs`), the phases passed over (`skipped_phases`), the files of the
job; in memory, the markers a dispatch has loaded. Operations: gate, phases in
order, checkpoint after each, cancellation between two, resumption; users edit
the files meanwhile. Hard: resumption after a wait must redo what is missing and
nothing else, whatever users and the phases themselves have rewritten since; a
file of an earlier run must not vouch for a later one. Correct when a success
rests on no stale input and nothing that ended is done twice for nothing.

### GPU allocator, LLM lock and LLM server (`queue/allocator.py`, `gpu/vram_manager.py`, `gpu/vram_reclaim.py`, `gpu/vram_release.py`, `gpu/llm_prelaunch.py`)
State: bookings per card, `_llm_lock` and `_llm_owner`, the server process.
Operations: book a phase on one card, book the LLM on all its cards or none,
release, take and release the lock by name, launch with a preflight on real
memory, stop an idle server to make room. Interacts with every phase, with the
dispatcher's admission, with the end of every pipeline and with the facade.
Hard: the lock and its owner are two writes, and releases may come late, twice
or without a name; what is admitted on paper and what nvidia-smi reports differ
while models load. Correct when nobody stops a server in use, what is admitted
fits, and idle tenants make room.

### Live facade (`web/facade_api.py`)
State: the cached transcriber, its booking, an idle timer. Operations: serve a
live window, unload when idle or when asked. Hard: the cache, the booking and
the model on the card are three things given up at three moments.

### Processing calendar (`queue/calendar.py`)
Windows that limit the concurrency, pause the queue or allow preemption. A pure
function of the time; correct when exactly one effective limit applies.

### Single scheduler (`queue/scheduler_lock.py`, `queue/notify_listener.py`)
An advisory lock bound to a database connection, and wake-ups that may be
missed. Correct when two processes never both dispatch.

### Questions to meetings (`ask_meetings/`)
Requests `waiting`, `running`, `done`, `failed`; one worker; expiry by the
worker and by the page that reads. Correct when an expired question keeps no
half answer.

### Artefact store (`jobs/artifact_store.py`)
Files of a job as chunks in the database, a manifest on each disk. Push, pull,
purge. Correct when a pull sees files of one push and never destroys local work.

### Meeting sessions and runners (`ingestion/`)
A session is planned, claimed under a lease, joined, held, ingested. Retries,
leases that expire, cancellation, late reports. Correct when one meeting has
one bot and a verdict overwrites no other.

### Not protocol state
Speech recognition, diarization, audio analysis, exports, quality reports,
installer, configuration, diagnostics, accounts and permissions: numerical or
file processing and record keeping with no interleaving worth a model. See "Not
modelled" at the end for these and for the rest.

## Model of the jobs

Three statuses are kept of one job: `entry` (`job_queue.status`), `exec`
(`extra_data.execution`) and `state` (`jobs.state`). One action is one committed
transaction or one in-memory step of one actor:

| Actor | Code | Actions |
|---|---|---|
| HTTP threads (`hand`) | `api_process`, `api_reprocess`, `api_cancel`, `api_queue_cancel`, pause, resume | `Receive` (guards on the row read), then `Lookup`, `Enqueue`, `MarkAsQueued`, `MarkAsReady`; `CancelDecide`, `CancelDequeue`, `CancelExecution`, `CancelState` + `CancelWriteBack`; `PauseWrite` |
| dispatcher (`disp`) | `_dispatch_iteration`, `_launch` | `DispatchCount`, `DispatchFetch`, then for each candidate `DispatchSkip`, `DispatchRefuse` + `DispatchDrop`, or `DispatchTake` + `DispatchClaim` + `DispatchSubmit`; `DispatchEnd` |
| workers (`wpc`, `wout`) | `_run_process`, `PipelineService.run_process`, `_on_done` | `WorkerStart`, `WorkerMarkRunning`, `WorkerLoad`, `Pipeline*`, then the three writes `WorkerQueue`, `WorkerExec`, `WorkerState` + `WorkerWriteBack`, and `WorkerFinish` |
| restart (`todo`, `rec`) | `init_job_executor`, `_reconcile_interrupted_jobs` | `Crash`, `ReconcileEntry`, `ReconcileRunning`, `ReconcileExec`, `ReconcileState` + `ReconcileWriteBack` |
| environment | | `BecomeDue`, `LoseAudio` |

What is abstracted:

* Only full processing runs. Summary, speaker and refinement entries use the
  same queue and executor and are left out.
* Candidates are taken in any order; `QueueOrder` has the order. Remote slots
  and resources that are missing at admission are `DispatchSkip`.
* The pipeline is seen from the executor (`Pipeline` looks inside): its gate, the state it sets, its
  cancellation points, its outcomes, and whether it wrote the corrected
  transcript by which the reconciliation judges an interrupted run.
* `update_state` to failed or cancelled reads the row, and writes back the whole
  `extra_data` it has read with no lock on it (`jobs/store.py:96-115`). Where
  `Overlaps` is TRUE these are two steps, of the cancelling route, of the pipeline,
  of the worker and of the reconciliation, with anything in between. To the other
  targets it leaves `extra_data` alone; its check of the transition and its write
  are one step there. That a session may leave out a write which changes nothing
  is not followed.
* The reconciliation reads each job when it reaches it. Jobs are not deleted.
* `dequeue` and `mark_running` read and write their row in one step. `pause`,
  `resume` and the revival of an entry, where the row is read by an earlier
  query, take two.
* `Crash` may take the HTTP threads along (one process) or not (the web role is
  a process of its own): both are outcomes.

Switches: `Kinds` (the requests users make), `Waits` (the transient outcomes),
`AudioLoss`, `MaxCrashes`, `Planned` (a processing may be asked for later), and
`Prompt`, which forbids a claim between the two transactions of one submission, and
`Overlaps`, which allows other commits between the read and the write of an
`update_state`. `JobRequests` has both windows open and `JobRestart` the second. In the
other runs they are closed, because the code then breaks what the run shows (see
Variants) and the rest of what it shows would not be checked.

| Run | Instance | Shows |
|---|---|---|
| `JobSubmit` | 2 jobs, 1 handler, 2 workers, limits 0 and 1, both waits | `TypeOK`, `NoZombie`, `OutcomesAgree`, `FollowsLifecycle` |
| `JobRequests` | 1 job, 2 handlers, process (also for later), cancel, pause, resume, both waits, `Prompt = FALSE`, `Overlaps = TRUE` (2.9 million states) | `SlotsAreOwned`, `NoSecondThread`, `CancelIsKept` |
| `JobCancelEnds` | 1 job, process and both cancellations, audio may be lost, fair | `CancelsEnd` |
| `JobRestart` | 1 job, process, reprocess, both waits, 2 crashes, `Overlaps = TRUE`, fair (420 000 states) | `NoGhostRun`, `RunsEnd` |
| `RelaunchCancelled` | 1 job, process, cancel | refutes `LaunchesAreKept` |

The refinement. `JobLifecycle` has two variables: the status users see and the
slots. Under the mapping of `FollowsLifecycle` the status is that of the
execution block, and a job has a slot while its entry runs or its thread has not
yet published an outcome. The property then says at once that a job is claimed
only while the window's limit leaves room, starts after its claim, gives its
slot back before its outcome is shown, and is submitted anew only when nothing
of it is active. It holds of submissions, waits and runs; reprocessing,
cancellation, pause and restart reset an execution by force, which the abstract
specification does not promise, and other properties look at them.

What becomes of a cancellation. `CancelIsKept` lists every way in which
`cancel_requested` is dropped, and says that there is no other. Two are meant: the
run it was made for ends, or the job is submitted again. Two are not: a deferral
marks the execution queued and resets the flag (`services/job_executor.py:266`),
and an `update_state` that had read the row before the request writes the old block
over it (a phase that fails, the failure of a run, another cancellation, the
reconciliation). The comment of `update_extra_data` (`jobs/store.py:131`) and
`CHANGELOG.md:2043` take the row lock for the end of this lost update, « une demande
d'annulation écrasée par une mise à jour de progression »: it is, among the updates
that take the lock, and `update_state` does not. In this run `wblock` and the `block`
of a handler hold what was read, `ReadBefore` says which blocks are about to be
written. `VIEW Visible` leaves out the corrected file, which only a restart looks at,
and what a thread writes again before it reads it.

What becomes of a run. An `update_state` that read the execution while it ran can also
write it back as running after it has ended: the reconciliation of a restart or a
failing phase reads "running", the thread or the reconciliation closes the execution,
the old block is written over it, and nothing ends it before the next restart. The
history variable `revived` records the jobs to which this happens, at the write itself;
`NoGhostRun` and `RunsEnd` are claimed of every other job, and so say that a run is left
behind in no other way, with two restarts at any moment.

Bounds. The number of requests and of runs is not bounded: the state space is
finite by itself. Only restarts are counted (`MaxCrashes`): two, so that the
second one meets what the first reconciliation left. Two jobs suffice for what
concerns the capacity and the candidates, since the dispatcher carries one job
at a time and the jobs are interchangeable; a window below the capacity of the
pool (`Calendar = {0, 1}`, `MaxWorkers = 2`) makes the limit and the number of
threads different. Two handlers suffice for the stale row of
`_refresh_entry`, which one thread reads while another writes. Jobs and
handlers are symmetric in the runs without liveness. Deadlock is checked except
in `JobRestart`, where a running entry without a thread (see below) takes the
only slot and every later request is refused.

Fairness. `FairSpec` assumes what the threads and timers give: a thread that
can act does (weak fairness of each handler, of each worker, of the dispatcher
and of the reconciliation); `scheduled_at` is reached; the dispatcher comes back
to every candidate (strong fairness on taking it; `QueueOrder` examines when the
order of the queue gives it); and a shortage of resources does not meet every
run of a job (strong fairness on an outcome other than a wait), without which the
waits alone would keep a job in the queue. Requests, crashes and losses have no
fairness.

### Finding

`RelaunchCancelled`: the route accepts a cancelled job, enqueues it, and the
transition rules then refuse `ready_to_process`; the dispatcher withdraws the
entry as cancelled, and the execution stays `queued`, which refuses every
later request.

### Variants

The same definitions exhibit further divergences; each takes a variant of one
of the configurations, which is not kept as a run:

* `JobCancelEnds.cfg` with `FailedIsRelaunchable`: an entry that failed for want
  of audio keeps a queued execution.
* `JobRestart.cfg` with one crash and `RestartFreesSlots`: the branch of the
  reconciliation that ends an interrupted run does not touch its entry, which
  stays `running` and keeps a slot. With `LaunchesAreKept`: a restart between the
  claim and the start of the thread leaves a queued execution with a running
  entry, which no branch of the reconciliation looks at. With
  `OnlyInterruptedAreJudged`: the dispatcher is started before the reconciliation
  (`services/job_executor.py:112`), which then judges a run that the new process
  itself has just started, against its docstring (line 483).
* `Overlaps = TRUE`: in `JobSubmit.cfg` the block a failing phase has read
  overwrites a relaunch (`FollowsLifecycle`); in `JobCancelEnds.cfg` the cancelling route writes back the
  "running" it has read over the end of the run, and every later request is refused
  until a restart (`CancelsEnd`).
* `JobCancelEnds.cfg` with `Waits = {"waiting_vram"}`: a cancellation during a
  wait for memory. The dispatcher withdraws the entry without closing the
  execution, which stays `waiting_vram` with its request (`CancelsEnd`).
* `JobSubmit.cfg` with `Prompt = FALSE`: a claim between the two transactions of
  a submission starts the run before it is marked queued. With pause and resume
  among the `Kinds`: a pause that overwrites a concurrent claim takes the job out
  of the count. Both break `FollowsLifecycle`.
* 2 jobs, 1 worker, process only, fair: `QueuedJobsEnd` holds; with `AudioLoss` it
  does not.
* 2 jobs, 2 workers, cancellations, two restarts and `NoGhostRun`: a cancellation
  committed while one job is reconciled ends the reconciliation before the other
  (15 million states).

## Model of the pipeline

| Code | In `Pipeline` |
|---|---|
| `api_process`, `api_reprocess`; pause and resume of an ended entry | `Launch`, `Revive` |
| `_run_pipeline_steps`, `CheckpointManager` | `Dispatch`, then for each phase `Skip`, `Backfill` or `Start`; `Cancelled`, `Finish` |
| `is_done`, `phase_state_valid`, `unmark_phase` | `Done`, `PhaseStateValid`, `Unmarked` and `Forgotten` |
| the phases (`workflow/phases/`), `checkpoint`, `mark_skipped` | `Work`, `Checkpoint`, `SkipTransient` |
| a wait for memory, a failure, a refused state, the reconciliation | `Wait`, `Fail`, `Refused`, `Restart` |
| lexicon, speakers, meeting, the summary step, invitation, editor of the transcript | `Edit`, `EditInvite`, `EditTranscript` |
| the preprocessed audio, which stays on one disk | `LoseAudio` |

A file is the number of its content, 0 when absent, so that two fingerprints are
equal when the contents are. What a phase reads and writes is in tables
(`Inputs`, `Artifact`, `Prepares`, `Writes`); the context is rewritten with the
hour of its generation, hence anew each time. The phases are walked in one order
(`Order`), a profile leaving out those it has not (`Advance`). A phase is two steps, its work and
its checkpoint, between which users edit. The filtered lexicon, which the
correction itself derives, is covered by the context; the bounds on how often a
job may wait, and what phases compute, are left out.

| Run | Instance | Shows |
|---|---|---|
| `Resumption` | 2 profiles (all the usual phases; one with the second speech engine and the fields of a type, without review), 2 launches, 3 dispatches, 1 edit of any kind (3.9 million states) | `TypeOK`, `NothingStale`, `NoRework` |

Bounds. Two launches let the files of the first be found by the second, with
another profile. Three dispatches: one that works, one that resumes, one that
resumes what the second left. One edit of any kind, at any moment: the properties
ask of each input by itself whether it is stale. A launch or a dispatch is
missing in the end, hence `CHECK_DEADLOCK FALSE`. No fairness: that a run ends is
the matter of `JobExecution`.

`NothingStale` compares, when a run succeeds, what each phase read with what is
on the disk. It exempts what nobody who has already left a phase could have seen
(`since`), and what was changed while the phase was at work (`during`), because
the fingerprints are taken at its end. `NoRework` is the other side: within a
launch, an ended phase begins again only for an input that others changed. It
is why the fingerprints are taken at the end: the review rewrites the transcript
it fingerprints.

What the model brings out:

* an edit during the work of a phase is fingerprinted with the rest at its end, so
  that nothing ever redoes the phase (`during`);
* the change of an invitation withdraws the marker of the correction in the base
  (`web/wizard_api.py:503`); a dispatch that has loaded the markers skips the
  correction all the same, and only the next dispatch redoes it;
* `type_fields` and `multi_stt_review` declare no inputs, against the rule of
  `workflow/resume.py:62` (« toute nouvelle phase déclare ici les fichiers
  qu'elle lit »): once done they are skipped whatever happens to the transcript;
* « Reprocess = run PROPRE » (`web/processing_api.py:414`) empties the markers and
  keeps the files: the transcription is taken for done as long as its file is
  there (`workflow/checkpoints.py:53`);
* an ended entry that a manager pauses and resumes is dispatched with its old
  markers; the phases that must be redone on a completed job fail at the first
  state the rules refuse (`Refused`);
* a restart concludes `completed` from a corrected transcript that may be an
  earlier launch's (`recovered`, of which nothing is promised).

## Model of the order of the queue

`QueueOrder` keeps one row per job (`base`, `bonus`, `position`, the rank of
`submitted_at`, whether it is due, the age since its last aging), the row a
submission has computed and not yet inserted (`asked`), and the history `before`
of who waited when whom was submitted.

| Code (`queue/store.py`) | Action |
|---|---|
| `enqueue`, `_next_position` | `Ask` (reads the position), `Insert` |
| `_refresh_entry` | `Refresh`: the row of an ended job keeps its position and its dates |
| `move_to_position`, `move_up`, `move_down` | `MoveTo` |
| `set_priority` | `SetPriority` |
| `pause`, `resume`, `dequeue` | `Pause`, `Resume`, `Cancel`, `Finish` |
| `requeue_later` | `Defer`, `BecomeDue` |
| `apply_aging` | `Age` |
| `get_next_candidates`, `claim` | `Candidates`, `Dispatch` |

Time passes in `Tick`s, each shorter than the aging interval and longer than a
poll of the dispatcher, so the dispatcher has nothing left to do when one
passes. `blocked` jobs never find their resources; there are fewer of them than
candidates an iteration looks at.

| Run | Instance | Shows |
|---|---|---|
| `QueueOrder` | 2 jobs, priorities 1 and 2, an interval of 2 ticks, a cap of 3, 1 slot, runs of 2 ticks, one deferral of a run, one request of a manager, fair | `TypeOK`, `NoOvertaking`, `EntriesServed` |

`NoOvertaking` is what the three keys of the order, the renumbering of a move and
the dates of the aging have to give together: first come, first served, among
jobs of one priority that nobody has touched. `EntriesServed` is served entries
under a stream of new ones, and needs the cap to exceed what separates the
priorities and what the others gain while they wait. Two jobs are enough for an
overtaking, which has two parties, and for starvation, a stream being the
relaunches of one job; the same properties hold of three jobs without managers
and deferrals (cap 4). Fairness: the dispatcher goes on; a run that may go on no
longer ends; time passes (strong, since a tick waits for the dispatcher).

What the model brings out and no property states:

* With a cap of 2 the instance violates `EntriesServed`: the bonus is bounded, and
  base priorities go from 1 to 100 with a cap of 49, so that a stream of urgent
  jobs can starve the rest (`docs/PISTES_AMELIORATION.md:864` takes the aging for
  a guarantee of fairness).
* A relaunched row keeps its position, `submitted_at` and `last_aging_at`: it goes
  ahead of jobs that waited, and is ripe for a bonus at once. Planned entries age
  before they are due.
* Head candidates that can never run, as many as an iteration looks at, block all
  that follows (hence the bound on `blocked`).
* A move between entries of different effective priority has no effect. `move_up`
  reads the rank, then the queue again: it may move down. A submission whose
  position was read before another's move may overtake: `Forget` drops those
  pairs.

## Model of the GPUs

`GpuSharing` follows each job through its speech phase, its LLM phase and the
end of its pipeline, with the dispatcher's reclaim, a thread of live requests,
the idle timer of the facade and the releases that LLM phases ask for.

| State | Code |
|---|---|
| `booked` | `GPUAllocator._gpu_reservations` |
| `lock`, `owner` | `_llm_lock`, `_llm_owner`: two variables, written by two steps |
| `llm` | the server: off, loading (launched, port not yet answering), up |
| `resident` | the speech model a job has on a card |
| `inst`, `req`, `unload` | the facade's cache, the live request that works with an instance, the thread of the idle timer |
| `pc`, `had`, `stt`, `out` | where a thread is, `llm_was_already_running`, the checkpoint of the speech phase, what becomes of the job |

`Take` and `Name` are the two halves of `try_acquire_llm`, `ReleaseLlm` is
`release_llm` with its rule that a named release is for the recorded owner only
and an unnamed one for anybody. `Reserve`, `Book` and `HostsLlm` are the
admissions of the allocator on `Available` memory (what the cards report minus
all bookings); `Ready` and `Loaded` are the launch with its preflight; `Press`
and `Yield` are the release under pressure; `StopLlm` is reached from the
reclaim of a worker, from that of the dispatcher and from the end of a pipeline,
which may keep the server warm. The dispatcher is one thread: it admits nobody
while it reclaims (`SchedReclaim` .. `Retest`), and then tests the card again but
not the LLM it has just stopped.

What is abstracted: one LLM phase stands for the summary, the correction and
the review, which share one shape. A local LLM launched by script; cloud,
remote and Ollama backends take other paths. A launch that times out is taken
to have died. A speech phase gives its memory and its booking back in one step:
its last model offloads itself before the booking is released, as diarization
does (a transcription that is not followed by one leaves its memory in the CUDA
cache; see the hazards). A server that is loading shows no memory on the cards yet. The
preemption of foreign processes, the served speech engines, the prelaunch of
the wizard and a server that answers its port but not its API are left out.
Among cards that serve equally any may be chosen. Live requests come one at a
time; each use of the allocation lock is one step. So the order of the facade's
lock and the allocation lock (`queue/allocator.py:346`) is not checked but argued:
the allocator copies its list of releasers and calls them outside its lock, and
the facade, which holds its own lock when it comes back for the allocation lock,
is therefore never waited for under it.

| Run | Instance | Shows |
|---|---|---|
| `GpuShared` | 2 jobs, 2 cards of size 3, every tenant needs 2, LLM on both cards, 2 live requests, idle timer, fair | `TypeOK`, `LockIsHeld`, `AdmittedFit`, `LlmServed`, `JobsServed` |

Bounds. Cards too small for two tenants make every admission contend; with two
cards a speech phase can have a place that the LLM has not. Two live requests
let the cache be emptied between them (`MaxRequests` bounds them). All work is
finite, jobs included, so the system stops when every job is done:
`CHECK_DEADLOCK FALSE`.

Fairness. A thread that runs goes on; an armed timer fires; the dispatcher comes
back to a queued job whenever it may be admitted again and again, and so does
its reclaim (strong fairness: its loop runs for ever, and its probes fall at
arbitrary moments). Live requests have no fairness.

What the run shows: the strict ownership of `release_llm` is what keeps the lock
with its holder in the window before its name is recorded, although the export
phase releases a lock it no longer holds and the reclaim releases without a
name; only because the reclaim's unnamed release follows its own acquisition
does it not steal. `LlmServed` is the refinement: the lock, the phases that use
the server and the server itself behave as `LlmServer`, where one thread at a
time launches it, works with it or stops it, and nobody leaves it loading.
`AdmittedFit` says that bookings and real memory together never promise more than
a card has, although a server shows no memory while it loads. `JobsServed` needs
the reclaims, the retries and the idle timer.

Variants. With one job, cards of size 7, a facade model of 3 and no timer,
`NoSquatter` is violated: the release under pressure empties the cache and the
booking without asking whether a request works with the model, which then sits
on the card uncounted. With one job, cards of size 3 and no timer, `JobsServed`
is: only what already runs asks idle models to leave; the admission does not,
and a job waits as long as an idle model occupies a card of the LLM, for ever
when `idle_unload_s` is 0. With the prelaunch of the wizard (off by default),
which launches without booking, `AdmittedFit` would not hold.

## Model of the meeting sessions

| Part | Code | In `MeetingSessions` |
|---|---|---|
| the row | `ingestion/session_store.py`, table of `session_states.py` | `sessions`, `Transitions`, `StateForExitCode` |
| requests that read the row and commit later | `apply_event`, `apply_result`, `cancel`, `close_on_ingest` | `txns`: `Read` at the start, `Commit` at the end |
| claims, which lock their rows, and leases | `claim_due`, `release_expired_leases` | `Claim`, `Expired`, `Released` |
| the pages | creation, reschedule, cancellation | `CheckDuplicate` + `Create`, `Reschedule`, `Cancel` |
| the runner | `connector_service/runner/daemon.py` | `Launch`, `Relay`, `Report`, `TaskEnds`, `Heartbeat`, `Crash`; `active` and `procs` are its two dictionaries |
| the bot | `connector_service/bot/cli.py`, `web/facade_api.py` | `BotAdmitted`, `BotUploads`, `BotExits`, `imports` |

The clock is left out: a lease runs out at any moment its length allows (five
minutes for a claim, more than the two a bot waits at the door and more than a
report takes; eight hours for a meeting, more than the four a bot stays).
`SlowAdmission` lifts the first limit.

A behaviour meets at most one mishap, chosen at the start (`fate`): a POST that
never arrives, a runner that dies with its containers alive, a request that
commits over a row changed since it was read. Two mishaps multiply the states
without a new question. What each one breaks is excluded from the properties by
name: `OneBot` and `CancelReaches` are promised while none has been met, `VerdictsStand` whatever is lost or dies, `SessionsSettle` always.

| Run | Instance | Shows |
|---|---|---|
| `Meetings` | 1 session with 2 attempts and one claim more and every mishap, another of the same meeting where nothing goes wrong, 2 runners of capacity 1, fair | `TypeOK`, `OneBot`, `CancelReaches`, `VerdictsStand`, `SessionsSettle` |

Bounds. One session is enough for what concerns one row; two runners let the
session change hands; the claim beyond the attempts would let a retry too many
show itself (`SessionsSettle` refuses a session that stays planned there). The
second session is created in a race with the first or by its rescheduling and
stays planned: it is the row a late recording of their job closes. Deadlock is
not checked (`CHECK_DEADLOCK FALSE`) because sessions are finite. Fairness: the
portal commits, runners poll, the hour comes, tasks and bots go on; nothing on
users and crashes. Variant: with one runner of capacity 1 and a claim for the
second session, `WithinCapacity` holds (216 000 states).

What the model brings out: a lost `in_meeting` event lets the lease of the claim
run out and a second bot join (against `session_store.py:31-33`); a stale commit
overwrites a verdict (against `session_states.py:40-41`), a cancellation
included; a cancelled session that was released has no runner in its row, so
that a bot that still runs is not stopped; creation checks for a duplicate and
inserts later, and a reschedule does not check; an import stays after a refused
attachment, and the next upload of the job is answered that it exists; an `asap`
session has no limit of lateness. `SessionsEnd` fails of `Meetings`: `ingesting`
has no lease, and a session whose upload never arrives stays there
(`session_states.py:54`).

## Model of the artefact store

`disk`, `manifest` and `db` are the file, the local bookmark (the content and
whether the file still is as it was noted) and the rows in the database, a blob
having two chunks. Each thread pulls, works, pushes and answers: `StartPull`,
`LoadManifest`, `Look`, `Materialize`, `Record`, `EndPull` are `pull_job_files`;
`StartPush`, `ReadRows`, `Examine`, `Upload`, `EndPush` are `push_job_files`; the
checksum that does not match is retried once (`Materialize`, `PullFails`). A
transfer works on the manifest it loaded and writes it whole at its end, without
a lock. `Stop` is a failure of a transfer or of a machine. A content is named by
its write, so its sha256 is its number. A write replaces its file at once, as
`JobFilesystem` does (`jobs/filesystem.py:53`); `save_upload` is the exception, which
writes in place, so that a push during an upload may read a part of it.

| Run | Instance | Shows |
|---|---|---|
| `Artifacts` | a front end with two request threads, a worker, one file both write, two contents | `TypeOK`, `SyncedIsShared`, `UnpushedKept`, `SavedIsDurable` |

Transfers of different files do not meet but in the manifest, whose entries are
lost as a whole; so one file is enough for the properties, which speak of one
file at a time. Two threads of one machine and one of another give the manifest's
lost update and the torn blob; two contents give the older and the newer.
`SyncedIsShared` is the heart: whatever manifests overwrite each other, no edit
passes for pushed, because an entry that does not describe the file as it is
is only ever a reason to push again.

What the model brings out: between the look at a file and its replacement by a
pull an edit is lost (`raced`, which the properties exempt); the path of the
second try records the sum that was read first; an entry of another thread is
lost with the manifest and its file hashed again. Variant: with
`Writes <- WebWrites`, a front end that writes one file pushes back the old
content of another, which it had not synchronised. Left out are the purge of uploads, which a later push
brings back, and the removal of a job's rows.

## Model of the questions

| Code (`ask_meetings/`) | In `Questions` |
|---|---|
| `store.create_request`, the page | `Submit`, `PageReads` + `PageExpires` (`expire_if_stale`) |
| `fail_stale`, `claim_next`, `release` | `ReadStale` + `Expire`, `Select` + `Claim`, `Release` |
| `worker._process` | `Prepare`, `Call`, `Answered`, `Filter`, `GiveUp` |
| `worker._record`, `store.complete` | `Record`, `Unexpected` |
| deletion of a meeting (`JobStore.delete_job`, `_forget_turns_citing_job`, foreign keys) | `ForgetTurns`, `ForgetRequests`, `DeleteMeeting` |
| stop of a process, its thread going on | `HandOver`, `Crash` |

The texts and the levels are left out: an answer is what it cites. PostgreSQL is
assumed, whose foreign key refuses a citation of a meeting that is gone (SQLite
does not enforce it by default, and leaves a window for a ghost).

A deletion is one transaction of three steps (`forget`): the listener selects and
deletes the turns that cite the meeting; it deletes the requests that do; then the
row of the meeting goes, with the cascade on the citations that are left, and all is
committed. Only the last takes the lock the foreign key asks for, so that an answer
may be recorded before it. A request it has deleted is locked (`Locked`): who
expires it waits for the end of the deletion. A turn that is deleted is written by
nobody else.

| Run | Instance | Shows |
|---|---|---|
| `Questions` | 2 questions of which 1 includes confidential meetings, 1 normal and 1 confidential meeting, 2 processes, 1 restart or handover, 1 deletion at a time, fair (0.56 million states) | `TypeOK`, `HandledOnce`, `AllOrNothing`, `NoGhostMeeting`, `OnlyAllowed`, `QuestionsEnd` |

Two questions let the second replay the first; two processes and one handover
let two threads meet. Both meetings may be deleted, one after the other (`AtOnce`):
two deletions meet in the requests that cite both, which the first to delete them
takes; the theorems put no bound on how many run at once. Fairness: a thread never stops for good (the dispatcher
polls, a call has a timeout), delays pass, a deletion ends; the page has none. Deadlock is checked:
an idle thread always polls.

What the model brings out: an answer recorded while a meeting it cites is being
deleted outlives the deletion in part. Before the turns are selected it goes with the
rest; after, its turn stays and loses its citation to the cascade, against the
docstring of the citations (`ask_meetings/models.py:136-138`, the event « retire le
TOUR entier »), and is replayed like an answer that cites nothing; after the requests
are deleted too, the request stays `done`, with the identifier and the text of a
meeting that is gone, which its page still shows. `NoGhostMeeting` and `AllOrNothing` name exactly
these (`raced`): no turn ever cites a ghost, and no request but one recorded in that
window. An answer that is being recorded overturns an expiry
committed meanwhile, against the docstring of `complete` (`AllOrNothing` says
what remains true: only a question whose delay has passed); a page that read a
stale row may write `failed` over a `done`; an answer whose meetings were all
deleted during the call is kept without citations and replayed; two processes may
answer two questions at once during a handover.

## Model of the single scheduler

`lock` is the process whose connection has the advisory lock; `procs` the life of
each process with its dispatcher and its reconciliation; `runs` its pool.
`Starts` is `try_acquire`, then the dispatcher, then the reconciliation
(`Reconcile`, job by job); `Take`, `Claim`, `Launch`, `RunStarts`, `RunEnds` are
the dispatch; `StopAsked`, `DispatcherEnds`, `Releases`, `Exits` the stop, which
waits ten seconds for the dispatcher and not for the runs; `Crash` and
`LosesConnection` are the faults.

| Run | Instance | Shows |
|---|---|---|
| `SingleScheduler` | 1 job, 3 processes of which 1 serves pages too, 2 faults, fair | `TypeOK`, `SingleDrain`, `RunsStand`, `QueueServed` |

One job: the properties speak of one. Three processes: an owner, its successor
and one that is refused. Two faults: a fault and another in its aftermath.
Fairness: an ended process is restarted, threads go on, and an entry comes to the
head of the queue again and again (strong on `Take`). `CHECK_DEADLOCK FALSE`: a
crash between claim and start leaves an active entry nobody gives back.

What the model brings out: an owner that loses its connection goes on, and two
processes drain; a run that a stopping process finishes is failed by the next
start; a claim by a dispatcher that outlasted the stop leaves its entry running;
a process of role `all` that was refused never tries again. The two properties
name exactly these exceptions (`Deprived`, `Overrun`, `Leaving`).

## Proofs

TLAPS checks them for any values of the constants under the assumptions the
modules name (finite sets, distinct names, positive sizes).

* `JobExecution_proofs`, without an assumption, overlapping `update_state`s and
  deferrals included: `TypeCorrect`, `NeverTwoThreads` (`NoSecondThread`),
  `CancellationKept` (`CancelIsKept`), `SlotsOwned` (`SlotsAreOwned`, until the process
  is restarted: then the reconciliation owns the entries). The types alone are not inductive: the
  dispatcher's budget would go below zero if it could submit without one, so
  `TypeInv` adds `BudgetLeft`. `NoSecondThread` is carried by `ThreadInv`: a job with
  a live thread is tracked, and a job the dispatcher has chosen is not. Only the
  dispatcher adds to `_running`, and `_on_done` removes a job with its thread; so
  `claim` is not what excludes a second thread, `_running` is. `SlotInv` names the
  steps at which a thread, or the dispatcher, still has a slot to give back.
  `CancelIsKept` is about steps; what it needs of the states is `OutcomeInv`, that a
  thread which is about to publish has an outcome, so that the block it marks has
  ended, waits, or is deferred.
* The other theorems of `JobExecution_proofs` name what they leave out, and TLC has
  a counterexample for each thing left out. All but the first leave out commits inside
  an `update_state` (`~Overlaps`; see Variants):
  - `NoRunIsLeft` (`NoGhostRun`) if nobody cancels, for any number of restarts and
    with commits inside an `update_state`: `RunsHeld` says that an execution that runs
    has its thread, or is one the reconciliation has still to judge, or was revived;
    `NeverCancelled` includes that no block read holds a cancellation. A cancelled job refuses the transition that
    the reconciliation wants; the refusal ends its whole loop, which leaves the
    other job running (the counterexample needs two jobs and a restart).
  - `NoZombieIsLeft` (`NoZombie`) under `Quiet`, one request at a time, whose two
    writes a claim does not part, no cancellation, no restart, and no loss of audio;
    pauses and resumptions are allowed. `QueueInv` follows a job through its
    submission, its slot and its outcome. Two requests at once, a claim between the
    two writes, a restart between them and an audio that is lost while the job waits
    each leave an execution `queued` that no entry will ever start.
  - `ImplementsLifecycle` (`FollowsLifecycle`) under `Quiet` and submissions only: the
    refinement of `JobLifecycle`, one lemma per actor. `OneRunInv` makes the running
    entries exactly the slots; `RoomLeft` keeps the running entries and the budget of
    the iteration within a limit it has read, although outcomes and requests change
    the entries meanwhile. A paused or cancelled entry frees its slot under its
    thread, whence the condition.
  - `OutcomesAreAgreed` (`OutcomesAgree`) in the same setting, without reprocessing or
    loss of audio. `AgreeInv` says how the three columns differ in turn while a run
    ends. A reprocessing may set the state back to ready over a completed run.

  These are the settings of the runs `JobSubmit` and `JobRestart`, for
  any number of jobs, workers, windows, outcomes and (`NoRunIsLeft`) requests.
* `QueueOrder_proofs`: `TypeCorrect` and `FirstComeFirstServed` (`NoOvertaking`).
  `OrderInv` says of every pair of `before` that both have the same base, the
  first the smaller position, and a greater bonus or the same with at least the
  age. Aging then gives the first no later than the second; a move of others
  keeps the two in order, since what is ahead has fewer ahead of it; and what is
  ahead of a candidate and startable is a candidate. The maximum of a finite set
  of positions is found by the well-foundedness of strict subsets.
* `GpuSharing_proofs`: `TypeCorrect`, `LockKept` (`LockIsHeld`), `OwnerKept`
  (`OwnerIsHolder`, a part of its invariant), `LlmKeptUp` (`LlmNotPulled`),
  `ServerImplemented` (`LlmServed`), `AdmittedFits` (`AdmittedFit`). `LockIsHeld` is
  not inductive: a late release could free the lock of a holder with a wrong name.
  `LockInv` adds `OwnerIsHolder`, under which a
  named release by a thread that is not the holder finds another name, or none,
  and does nothing. `LlmNotPulled` is then inductive with it: `StopLlm`, a
  failing `Use` and a launch all happen at steps of the holder, and a phase in
  `use` is the holder. The refinement adds `LoadInv`, that a server that loads is
  loaded by the holder, and maps each action to a step of `LlmServer` or to a
  stutter.
  `AdmittedFit` needs `BookingInv`: a booking has the size of its phase; a speech phase
  has one, from its admission to its end, and its model is loaded where it is booked;
  who launches the LLM has the share of each of its cards, so that `loading` to `up`
  only turns a booking into memory. An admission then finds free of all that is
  admitted what it books (`RoomFound`). The sum of `_gpu_reservations` is a fold of the
  library over a set in any order: the lemmas `FoldExists`, `FoldsAgree` and
  `SumByPhase` show, by the well-foundedness of strict subsets, that the fold exists,
  is unique and is a multiple per phase. The theorem assumes that an LLM that is up
  at the start fits its cards.
* `SingleScheduler_proofs`: `TypeCorrect`, `OneDrains` (`SingleDrain`),
  `OthersStand` (`RunsStand`). `OwnerInv` says of each process that it has the lock
  or has lost its connection if it believes itself the owner, that only an owner
  reconciles, only an owner or an overrun process dispatches, and only an owner
  or a leaving process has runs.
* `Questions_proofs`: `TypeCorrect`, `OneHandler` (`HandledOnce`), `WrittenTogether`
  (`AllOrNothing`), `GhostsNeverCited` (`NoGhostMeeting`), `SentIsAllowed`
  (`OnlyAllowed`), for any number of deletions at once. `Forgets` follows a deletion:
  once it has selected the turns, any other turn or request that cites its meeting
  was recorded since and is `raced`. The rest is from one invariant `AnswerInv`: a question under way is running
  or has expired; one that is about to expire is late, so that it cannot be
  prepared again; what the LLM cites is among the candidates, and they among the
  allowed.
* `ArtifactStore_proofs`: `TypeCorrect`, `SyncedShared` (`SyncedIsShared`), `Kept`
  (`UnpushedKept`), `Durable` (`SavedIsDurable`). `SyncedIsShared` speaks of the
  saved manifests and breaks as soon as a transfer saves one it loaded earlier:
  `StoreInv` asks the same of every manifest in memory (`Synced`), that a content
  which is not shared is on one disk only (`Alone`), and that a sum read in the
  database names a content it has held, or one that is nowhere any more
  (`Settled`, which covers the torn blob). What a pull is about to replace is
  shared or raced (`Pulls`); what a push has passed over is shared (`Pushes`).
* `Pipeline_proofs`: `TypeCorrect`, `NoStaleSuccess` (`NothingStale`),
  `NoNeedlessRework` (`NoRework`). `PipeInv` says what a marker promises: contents
  only grow; what was recorded at the end of a phase is what it had read, or was
  changed while it worked (`Printed`); an invitation changed since has withdrawn
  the marker (`Invited`); what the dispatch has left behind is fresh (`Behind`).
  The step that ends a phase rests on a fact of the tables, `LateWrites`: no phase
  writes what an earlier one reads.
* `MeetingSessions_proofs`: `TypeCorrect`, `VerdictsKept` (`VerdictsStand`),
  `OneBotAtATime` (`OneBot`), `CancellationReaches` (`CancelReaches`). For the
  verdicts, `RowInv` says that a transaction writes a step of the table from the
  state it has read (`Shape`), and that this is the state of the row unless commits
  may be stale (`Fresh`). `OneBot` is not inductive: a lease gives a session back on
  the word of its row. `Followed` says of each bot that it is the last of its
  session, that the row, the runner and the process are its own, and that once
  its runner has relayed `in_meeting` the row says so or a transaction is about
  to; so a lease that runs out finds no bot. Both are proved under
  `~SlowAdmission`, the condition under which the run checks them: a bot waits two
  minutes at the door, its lease is five.

Every invariant and action property that a run checks is stated by a theorem. Only
model-checked: liveness (`CancelsEnd`, `RunsEnd`, `JobsServed`, `SessionsSettle`,
`QuestionsEnd`, `QueueServed`, `EntriesServed`), which rests on fairness and is out of
the prover's reach, and the properties of the jobs outside the settings their
theorems name.

## Not modelled

* Of the pipeline: the manual quality and export routes, which check no active
  run; the content of the phases. The admission counts the memory of a phase by
  its marker only (`queue/scheduler.py:406`): a review still marked hides the need
  of a correction that was unmarked, which then waits once it runs.
* Served speech engines (`inference_service/`, `docs/SERVICE_RESSOURCES_GPU.md`):
  `last_used` is set when an engine is made ready and not by its use, so that an
  idle reap can stop one in the middle of a transcription; two engines planned at
  once can overcommit a card; a launch that times out leaves its process loading.
* The calendar: `get_active_window` takes the highest id among equals and
  `next_change` the lowest (`queue/calendar.py:118`); `JobExecution` only takes the
  set of limits it may impose. Wake-ups by NOTIFY only shorten a poll.
* Summary, speaker and refinement entries; remote slots; live captions; purges;
  deletion of jobs; accounts and permissions (every request is authorised).
* LLM clients, speech recognition, diarization, exports, quality reports,
  installer, configuration, diagnostics: processing of files and data with no
  protocol state.

## Plan

Done: `JobExecution` with `JobLifecycle`, `QueueOrder`, `GpuSharing` with
`LlmServer`, `MeetingSessions`, `ArtifactStore`, `Questions`, `SingleScheduler`, `Pipeline`.

Next to be proved: what is left of `NoZombie` and `OutcomesAgree` where a job may be
cancelled or the process restarted; the bound of the tries of a session.

Next to be modelled: the prelaunch and a server that answers its port but not its
API in `GpuSharing`; the active window of the calendar against a reference definition.
