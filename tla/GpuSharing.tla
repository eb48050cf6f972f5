----------------------------- MODULE GpuSharing -----------------------------
(***************************************************************************)
(* The GPUs of the machine, shared by the jobs' phases, the arbitration    *)
(* LLM and the speech model of the live facade.                            *)
(*                                                                         *)
(* Memory is admitted on paper: an admission compares what is really free, *)
(* minus what others have booked, with the need (GPUAllocator).  The LLM is *)
(* one server for everybody, used, launched and stopped only under a lock   *)
(* whose owner is recorded beside it.  A job runs its speech phase, then    *)
(* its LLM phase, then the end of its pipeline; what finds no room goes     *)
(* back to the queue.  Memory is counted in abstract units.                *)
(***************************************************************************)
EXTENDS Integers, FiniteSets, FiniteSetsExt

CONSTANTS
  Jobs, Sched,    \* the worker threads, one per job, and the dispatcher thread
  Gpus, NoGpu,
  LlmGpus,        \* gpu.llm_gpu_indices: the cards the LLM's launch script uses
  DefaultGpu,     \* where a model with no device chosen for it is loaded
  Capacity,       \* memory of a card
  SttMb, LlmMb, FacadeMb, \* need of a speech phase, of the LLM per card, of the facade
  MinFree,        \* gpu.min_free_vram_mb
  MaxRequests,    \* live requests the facade serves, at most
  IdleUnload      \* is live.facade.idle_unload_s positive?

ASSUME ThreadsAssumption == IsFiniteSet(Jobs) /\ Sched \notin Jobs
ASSUME GpusAssumption ==
  /\ IsFiniteSet(Gpus) /\ NoGpu \notin Gpus
  /\ LlmGpus \subseteq Gpus /\ LlmGpus # {} /\ DefaultGpu \in Gpus
ASSUME SizesAssumption ==
  /\ {Capacity, MinFree, MaxRequests} \subseteq Nat
  /\ {SttMb, LlmMb, FacadeMb} \subseteq Nat \ {0}
ASSUME IdleUnloadAssumption == IdleUnload \in BOOLEAN

Threads == Jobs \cup {Sched}
Free == "free"
NoOwner == "none"
Facade == "facade-live"
PipelineStop == "__pipeline_stop__"

ASSUME NamesAssumption == Threads \cap {Free, NoOwner, Facade, PipelineStop} = {}

VARIABLES
  pc,         \* where each thread is
  had,        \* job -> llm_was_already_running, as its LLM phase saw it
  out,        \* job -> what becomes of it once its pipeline is over
  stt,        \* job -> the checkpoint of its speech phase exists
  resident,   \* job -> the card its speech model is loaded on
  booked,     \* GPUAllocator._gpu_reservations
  lock,       \* the holder of _llm_lock
  owner,      \* _llm_owner
  llm,        \* the arbitration LLM server
  inst,       \* the facade's cached transcriber: its card, and whether it is loaded
  req,        \* the live request being served, and the instance it works with
  unload,     \* the idle timer's thread
  requests    \* live requests so far, at most MaxRequests

job == <<had, out, stt, resident>>
facade == <<inst, req, unload, requests>>
vars == <<pc, job, booked, lock, owner, llm, facade>>

\* The steps at which a thread holds the LLM lock.
UsesLlm == {"own", "probe", "book", "press", "yield", "rebook", "ready", "preflight",
            "preyield", "launch", "load", "use", "out", "free"}
Reclaims == {"reclaim_own", "reclaim_stop", "reclaim_free"}
Ends == {"end_own", "end_stop", "end_free"}
Critical == UsesLlm \cup Reclaims \cup Ends
Steps == Critical \cup {"queued", "asked", "reserve", "reclaim", "again", "stt_load", "stt",
                        "wait", "export", "export_llm", "end", "done", "idle"}

Booking == [by: Jobs \cup {Facade}, phase: {"stt", "llm", "live"}, gpu: Gpus, mb: Nat]
NoRequest == [pc |-> "idle", gpu |-> NoGpu, own |-> FALSE]
NoInstance == [gpu |-> NoGpu, loaded |-> FALSE]

TypeOK ==
  /\ pc \in [Threads -> Steps]
  /\ pc[Sched] \in Reclaims \cup {"idle", "again"}
  /\ had \in [Jobs -> BOOLEAN]
  /\ out \in [Jobs -> {"queued", "done"}]
  /\ stt \in [Jobs -> BOOLEAN]
  /\ resident \in [Jobs -> Gpus \cup {NoGpu}]
  /\ booked \in SUBSET Booking
  /\ lock \in Threads \cup {Free}
  /\ owner \in Jobs \cup {NoOwner, PipelineStop}
  /\ llm \in {"off", "loading", "up"}
  /\ inst \in [gpu: Gpus \cup {NoGpu}, loaded: BOOLEAN]
  /\ req \in [pc: {"idle", "load", "run"}, gpu: Gpus \cup {NoGpu}, own: BOOLEAN]
  /\ unload \in {"idle", "yield"}
  /\ requests \in 0..MaxRequests

Init ==
  /\ pc = [t \in Threads |-> IF t = Sched THEN "idle" ELSE "queued"]
  /\ had = [j \in Jobs |-> FALSE]
  /\ out = [j \in Jobs |-> "queued"]
  /\ stt = [j \in Jobs |-> FALSE]
  /\ resident = [j \in Jobs |-> NoGpu]
  /\ booked = {}
  /\ lock = Free /\ owner = NoOwner
  /\ llm \in {"off", "up"}
  /\ inst = NoInstance
  /\ req = NoRequest
  /\ unload = "idle"
  /\ requests = 0

-----------------------------------------------------------------------------
(* Memory.                                                                  *)

\* The facade models on a card: the cached one, and one that a request still works
\* with although the cache has dropped it.
FacadeModels(g) ==
  {i \in {"cached", "dropped"} :
     IF i = "cached" THEN inst.loaded /\ inst.gpu = g
                     ELSE req.pc = "run" /\ ~req.own /\ req.gpu = g}

LlmOn(g) == IF llm = "up" /\ g \in LlmGpus THEN LlmMb ELSE 0
JobsOn(g) == SttMb * Cardinality({j \in Jobs : resident[j] = g})

\* What nvidia-smi reports.  A server that is loading may still show nothing.
RealFree(g) == Capacity - LlmOn(g) - JobsOn(g) - FacadeMb * Cardinality(FacadeModels(g))
BookedOn(g) == MapThenSumSet(LAMBDA b : b.mb, {b \in booked : b.gpu = g})
Available(g) == Max({0, RealFree(g) - BookedOn(g)})

\* _select_gpu_locked: off the LLM's cards if it can be, then the freest.
Fitting(mb) == {g \in Gpus : Available(g) >= mb + MinFree}
Selected(mb) ==
  LET spared == Fitting(mb) \ LlmGpus
      best == IF spared # {} THEN spared ELSE Fitting(mb)
  IN {g \in best : \A h \in best : Available(h) <= Available(g)}

\* Mutant: one card with room for its share is enough.
HostsLlmSomewhere == \E g \in LlmGpus : Available(g) >= LlmMb + MinFree

\* can_host_llm, and the check of try_reserve_llm: every card has its share.
HostsLlm == \A g \in LlmGpus : Available(g) >= LlmMb + MinFree

Shares(j) == [by: {j}, phase: {"llm"}, gpu: LlmGpus, mb: {LlmMb}]
Released(who, phase) == {b \in booked : b.by # who \/ b.phase # phase}
ReleasedAll(who) == {b \in booked : b.by # who}

\* is_arbitrage_llm_running: a server that is loading may or may not answer yet.
Running == IF llm = "loading" THEN BOOLEAN ELSE {llm = "up"}

-----------------------------------------------------------------------------
(* The LLM lock.                                                            *)

\* Mutant: the reclaim gives the name of its thread.
NameOfAll(t) == IF pc[t] \in Ends THEN PipelineStop ELSE t

\* The name a thread gives when it takes the lock: the reclaim gives none.
NameOf(t) ==
  IF pc[t] \in Reclaims THEN NoOwner ELSE IF pc[t] \in Ends THEN PipelineStop ELSE t

To(t, step) == pc' = [pc EXCEPT ![t] = step]

\* try_acquire_llm, first half: the lock is taken, its owner not yet recorded.
Take(t, from, to) ==
  /\ pc[t] = from
  /\ lock = Free
  /\ lock' = t
  /\ To(t, to)
  /\ UNCHANGED <<owner, booked, llm, facade>>

\* try_acquire_llm, second half.
Name(t) ==
  /\ pc[t] \in {"own", "reclaim_own", "end_own"}
  /\ owner' = NameOf(t)
  /\ To(t, IF pc[t] = "own" THEN "probe"
           ELSE IF pc[t] = "end_own" THEN "end_stop" ELSE "reclaim_stop")
  /\ UNCHANGED <<job, booked, lock, llm, facade>>

\* Mutant: a late release frees the lock while its owner is not recorded.
ReleaseLlmLax(name) ==
  IF name # NoOwner /\ owner \notin {name, NoOwner} THEN UNCHANGED <<lock, owner>>
  ELSE lock' = Free /\ owner' = NoOwner

\* release_llm: a named release is for its owner only, an unnamed one for anybody.
ReleaseLlm(name) ==
  IF name # NoOwner /\ owner # name THEN UNCHANGED <<lock, owner>>
  ELSE lock' = Free /\ owner' = NoOwner


-----------------------------------------------------------------------------
(* A job.                                                                   *)

\* Admission by the dispatcher, one thread: the LLM runs or could be launched, and the
\* speech phase, unless its checkpoint exists, would find a card.
LlmAdmissible(running) == running \/ HostsLlm
Admit(j) ==
  /\ pc[j] = "queued" /\ pc[Sched] = "idle"
  /\ \E running \in Running : LlmAdmissible(running)
  /\ stt[j] \/ Fitting(SttMb) # {}
  /\ To(j, IF stt[j] THEN "wait" ELSE "reserve")
  /\ UNCHANGED <<job, booked, lock, owner, llm, facade>>

\* try_reserve for the speech phase; refused, the idle LLM is stopped and it is
\* tried once more, and the job then waits for memory.
Reserve(j) ==
  /\ pc[j] \in {"reserve", "again"}
  /\ IF Fitting(SttMb) # {}
     THEN /\ \E g \in Selected(SttMb) :
               booked' = booked \cup {[by |-> j, phase |-> "stt", gpu |-> g, mb |-> SttMb]}
          /\ To(j, "stt_load")
     ELSE /\ To(j, IF pc[j] = "reserve" THEN "reclaim" ELSE "end")
          /\ UNCHANGED booked
  /\ out' = [out EXCEPT ![j] = "queued"]
  /\ UNCHANGED <<had, stt, resident, lock, owner, llm, facade>>

Load(j) ==
  /\ pc[j] = "stt_load"
  /\ \E b \in booked : b.by = j /\ b.phase = "stt" /\ resident' = [resident EXCEPT ![j] = b.gpu]
  /\ To(j, "stt")
  /\ UNCHANGED <<had, out, stt, booked, lock, owner, llm, facade>>

\* The phase ends, well or not; its model goes, and then its booking.
Transcribe(j) ==
  /\ pc[j] = "stt"
  /\ resident' = [resident EXCEPT ![j] = NoGpu]
  /\ booked' = Released(j, "stt")
  /\ \/ stt' = [stt EXCEPT ![j] = TRUE] /\ To(j, "wait") /\ UNCHANGED out
     \/ out' = [out EXCEPT ![j] = "done"] /\ To(j, "end") /\ UNCHANGED stt
  /\ UNCHANGED <<had, lock, owner, llm, facade>>

\* The LLM phase waits 300 s for the lock at most: the job then fails.
TakeLlm(j) == Take(j, "wait", "own") /\ UNCHANGED job
LlmBusy(j) ==
  /\ pc[j] = "wait"
  /\ lock # Free
  /\ out' = [out EXCEPT ![j] = "done"]
  /\ To(j, "end")
  /\ UNCHANGED <<had, stt, resident, booked, lock, owner, llm, facade>>

Probe(j) ==
  /\ pc[j] = "probe"
  /\ had' = [had EXCEPT ![j] = llm = "up"]
  /\ To(j, IF llm = "up" THEN "ready" ELSE "book")
  /\ UNCHANGED <<out, stt, resident, booked, lock, owner, llm, facade>>

\* try_reserve_llm: all the shares or none; refused, the idle models are asked to
\* leave and it is tried once more, and the job then waits for memory.
Book(j) ==
  /\ pc[j] \in {"book", "rebook"}
  /\ IF HostsLlm
     THEN booked' = booked \cup Shares(j) /\ To(j, "ready") /\ UNCHANGED out
     ELSE /\ UNCHANGED booked
          /\ IF pc[j] = "book" THEN To(j, "press") /\ UNCHANGED out
             ELSE To(j, "out") /\ out' = [out EXCEPT ![j] = "queued"]
  /\ UNCHANGED <<had, stt, resident, lock, owner, llm, facade>>

\* ensure_arbitrage_llm_ready and the preflight of a launch, on the real memory.
Ready(j) ==
  LET room == \A g \in LlmGpus : RealFree(g) >= LlmMb + MinFree IN
  /\ pc[j] \in {"ready", "launch"}
  /\ IF llm = "up" THEN To(j, "use") /\ UNCHANGED <<llm, out>>
     ELSE IF room THEN To(j, "load") /\ llm' = "loading" /\ UNCHANGED out
     ELSE IF pc[j] = "ready" THEN To(j, "preflight") /\ UNCHANGED <<llm, out>>
     ELSE To(j, "out") /\ out' = [out EXCEPT ![j] = "done"] /\ UNCHANGED llm
  /\ UNCHANGED <<had, stt, resident, booked, lock, owner, facade>>

Loaded(j) ==
  /\ pc[j] = "load"
  /\ \/ llm' = "up" /\ To(j, "use") /\ UNCHANGED out
     \/ llm' = "off" /\ To(j, "out") /\ out' = [out EXCEPT ![j] = "done"]
  /\ UNCHANGED <<had, stt, resident, booked, lock, owner, facade>>

\* The LLM answers, or the phase raises and stops the server it launched itself.
Use(j) ==
  /\ pc[j] = "use"
  /\ out' = [out EXCEPT ![j] = "done"]
  /\ llm' \in {llm, IF had[j] THEN llm ELSE "off"}
  /\ To(j, "out")
  /\ UNCHANGED <<had, stt, resident, booked, lock, owner, facade>>

LeavePhase(j) ==
  /\ pc[j] = "out"
  /\ booked' = Released(j, "llm")
  /\ To(j, "free")
  /\ UNCHANGED <<job, lock, owner, llm, facade>>

LeaveLlm(j) ==
  /\ pc[j] = "free"
  /\ ReleaseLlm(j)
  /\ To(j, IF out[j] = "done" THEN "export" ELSE "end")
  /\ UNCHANGED <<job, booked, llm, facade>>

\* The export phase calls GPUAllocator.release: bookings, then a release of a lock
\* it no longer holds.
Export(j) ==
  /\ \/ pc[j] = "export" /\ booked' = ReleasedAll(j) /\ To(j, "export_llm")
        /\ UNCHANGED <<lock, owner>>
     \/ pc[j] = "export_llm" /\ ReleaseLlm(j) /\ To(j, "end") /\ UNCHANGED booked
  /\ UNCHANGED <<job, llm, facade>>

\* _on_done: the net under the bookings; a job that waits is queued again.
OnDone(j, pcs) ==
  /\ booked' = ReleasedAll(j)
  /\ pc' = [pcs EXCEPT ![j] = out[j]]

\* _release_arbitrage_llm at the end of every pipeline: if it takes the lock.
EndPipeline(j) ==
  \/ Take(j, "end", "end_own") /\ UNCHANGED job
  \/ /\ pc[j] = "end" /\ lock # Free
     /\ OnDone(j, pc)
     /\ UNCHANGED <<job, lock, owner, llm, facade>>
  \/ /\ pc[j] = "end_free"
     /\ ReleaseLlm(PipelineStop)
     /\ OnDone(j, pc)
     /\ UNCHANGED <<job, llm, facade>>

-----------------------------------------------------------------------------
(* Stopping the idle LLM: by the reclaim of a worker or of the dispatcher,  *)
(* and by the end of a pipeline, which may keep it warm.                    *)

\* A worker whose speech phase found no card.
TakeToReclaim(j) ==
  /\ llm = "up"
  /\ Take(j, "reclaim", "reclaim_own")
  /\ UNCHANGED job
NothingToReclaim(j) ==
  /\ pc[j] = "reclaim"
  /\ FALSE \in Running \/ lock # Free
  /\ To(j, "end")
  /\ UNCHANGED <<job, booked, lock, owner, llm, facade>>

\* The dispatcher, for a queued job whose speech phase would find no card.
SchedReclaim(j) ==
  /\ pc[j] = "queued" /\ ~stt[j]
  /\ Fitting(SttMb) = {}
  /\ TRUE \in Running
  /\ pc[Sched] = "idle" /\ lock = Free
  /\ lock' = Sched
  /\ pc' = [pc EXCEPT ![j] = "asked", ![Sched] = "reclaim_own"]
  /\ UNCHANGED <<job, owner, booked, llm, facade>>

\* The dispatcher tests the card once more, and not the LLM it has just stopped.
Retest(j) ==
  /\ pc[j] = "asked" /\ pc[Sched] = "again"
  /\ pc' = [pc EXCEPT ![j] = IF Fitting(SttMb) # {} THEN "reserve" ELSE "queued",
                     ![Sched] = "idle"]
  /\ UNCHANGED <<job, booked, lock, owner, llm, facade>>

\* Mutant: the reclaim leaves the server alone.
StopLlmNever(t) ==
  /\ pc[t] \in {"reclaim_stop", "end_stop"}
  /\ To(t, IF pc[t] = "end_stop" THEN "end_free" ELSE "reclaim_free")
  /\ UNCHANGED <<job, booked, lock, owner, llm, facade>>

StopLlm(t) ==
  /\ pc[t] \in {"reclaim_stop", "end_stop"}
  /\ llm' \in IF pc[t] = "end_stop" THEN {llm, "off"} ELSE {"off"}
  /\ To(t, IF pc[t] = "end_stop" THEN "end_free" ELSE "reclaim_free")
  /\ UNCHANGED <<job, booked, lock, owner, facade>>

LeaveReclaim(t) ==
  /\ pc[t] = "reclaim_free"
  /\ ReleaseLlm(NoOwner)
  /\ To(t, "again")
  /\ UNCHANGED <<job, booked, llm, facade>>

-----------------------------------------------------------------------------
(* The live facade: requests of one thread at a time, the idle timer, and   *)
(* the releases that LLM phases ask for under pressure.                     *)

\* _get_facade_transcriber: the cached instance, or a new one on the card the
\* allocator chooses; refused, the instance is made all the same.
LiveRequest ==
  LET counted == {b \in booked : b.by = Facade}
      places == IF counted # {} THEN {b.gpu : b \in counted} ELSE Selected(FacadeMb)
  IN
  /\ req.pc = "idle"
  /\ requests < MaxRequests
  /\ requests' = requests + 1
  /\ IF inst.gpu # NoGpu
     THEN /\ req' = [pc |-> IF inst.loaded THEN "run" ELSE "load", gpu |-> inst.gpu, own |-> TRUE]
          /\ UNCHANGED <<inst, booked>>
     ELSE \E g \in IF places = {} THEN {DefaultGpu} ELSE places :
            /\ booked' = IF places = {} THEN booked
                         ELSE {b \in booked : b.by # Facade} \cup
                              {[by |-> Facade, phase |-> "live", gpu |-> g, mb |-> FacadeMb]}
            /\ inst' = [gpu |-> g, loaded |-> FALSE]
            /\ req' = [pc |-> "load", gpu |-> g, own |-> TRUE]
  /\ UNCHANGED <<pc, job, lock, owner, llm, unload>>

\* The model is loaded by the first transcription, outside the facade's lock; it
\* fails where the card has no memory left.
LiveLoad ==
  /\ req.pc = "load"
  /\ IF RealFree(req.gpu) >= FacadeMb
     THEN /\ req' = [pc |-> "run", gpu |-> req.gpu, own |-> req.own]
          /\ inst' = IF req.own THEN [gpu |-> inst.gpu, loaded |-> TRUE] ELSE inst
     ELSE req' = NoRequest /\ UNCHANGED inst
  /\ UNCHANGED <<pc, job, booked, lock, owner, llm, unload, requests>>

LiveAnswer ==
  /\ req.pc = "run"
  /\ req' = NoRequest
  /\ UNCHANGED <<pc, job, booked, lock, owner, llm, inst, unload, requests>>

\* _unload_facade_transcribers, first half, under the facade's lock: the cache is
\* emptied, whether a request works with the instance or not.
Drop ==
  /\ inst' = NoInstance
  /\ req' = [pc |-> req.pc, gpu |-> req.gpu, own |-> FALSE]
\* Second half, outside the lock: the booking is released.
Unbook == booked' = ReleasedAll(Facade)

Timer ==
  /\ \/ IdleUnload /\ unload = "idle" /\ inst.gpu # NoGpu /\ Drop
        /\ unload' = "yield" /\ UNCHANGED booked
     \/ unload = "yield" /\ Unbook /\ unload' = "idle" /\ UNCHANGED <<inst, req>>
  /\ UNCHANGED <<pc, job, lock, owner, llm, requests>>

\* release_idle_vram, called by try_reserve_llm and by the preflight of a launch.
Press(j) ==
  /\ pc[j] \in {"press", "preflight"}
  /\ IF inst.gpu # NoGpu
     THEN Drop /\ To(j, IF pc[j] = "press" THEN "yield" ELSE "preyield")
     ELSE UNCHANGED <<inst, req>> /\ To(j, IF pc[j] = "press" THEN "rebook" ELSE "launch")
  /\ UNCHANGED <<job, booked, lock, owner, llm, unload, requests>>
Yield(j) ==
  /\ pc[j] \in {"yield", "preyield"}
  /\ Unbook
  /\ To(j, IF pc[j] = "yield" THEN "rebook" ELSE "launch")
  /\ UNCHANGED <<job, lock, owner, llm, facade>>

-----------------------------------------------------------------------------
Work(j) ==
  \/ Reserve(j) \/ Load(j) \/ Transcribe(j)
  \/ TakeLlm(j) \/ LlmBusy(j) \/ Name(j) \/ Probe(j) \/ Book(j) \/ Press(j) \/ Yield(j)
  \/ Ready(j) \/ Loaded(j) \/ Use(j) \/ LeavePhase(j) \/ LeaveLlm(j) \/ Export(j)
  \/ EndPipeline(j) \/ TakeToReclaim(j) \/ NothingToReclaim(j)
  \/ StopLlm(j) \/ LeaveReclaim(j)

SchedWork ==
  Name(Sched) \/ StopLlm(Sched) \/ LeaveReclaim(Sched) \/ \E j \in Jobs : Retest(j)
LiveWork == LiveLoad \/ LiveAnswer

Next ==
  \/ \E j \in Jobs : Admit(j) \/ SchedReclaim(j) \/ Work(j)
  \/ SchedWork
  \/ LiveRequest \/ LiveWork \/ Timer

Spec == Init /\ [][Next]_vars

(***************************************************************************)
(* Fairness: threads that run take their next step, the dispatcher comes   *)
(* back to every queued job whenever it may be admitted again and again,    *)
(* its reclaim included, and an armed timer fires.  Live requests are not   *)
(* fair: there may be none.                                                 *)
(***************************************************************************)
Fairness ==
  /\ \A j \in Jobs : WF_vars(Work(j)) /\ SF_vars(Admit(j)) /\ SF_vars(SchedReclaim(j))
  /\ WF_vars(SchedWork)
  /\ WF_vars(LiveWork) /\ WF_vars(Timer)

FairSpec == Spec /\ Fairness

-----------------------------------------------------------------------------
(* Correctness.                                                             *)

\* The lock is held by the thread that is between its acquisition and its release,
\* and by nobody else: no late or foreign release (the export's, the net of a
\* finished pipeline, the unnamed one of a reclaim) takes it from its holder.
LockIsHeld == \A t \in Threads : pc[t] \in Critical <=> lock = t

\* The recorded owner is the name of the holder once it is recorded, and no name
\* survives the holder: what makes the strict release of LockIsHeld possible.
Naming == {"own", "reclaim_own", "end_own"}
OwnerIsHolder ==
  /\ lock = Free => owner = NoOwner
  /\ \A t \in Threads : lock = t => owner = IF pc[t] \in Naming THEN NoOwner ELSE NameOf(t)

\* Nobody stops or restarts the LLM under a phase that uses it.
LlmNotPulled == \A j \in Jobs : pc[j] = "use" => llm = "up"

\* The lock makes of the LLM a server that one thread at a time launches, works with
\* or stops: nobody enters before the holder leaves, nobody leaves while somebody
\* works with the server or loads it, whoever releases (try_acquire_llm, release_llm).
Server == INSTANCE LlmServer WITH
  Nobody <- Free, holder <- lock, users <- {j \in Jobs : pc[j] = "use"}, server <- llm
LlmServed == Server!Spec

\* What the allocator has admitted fits, loaded or not yet: speech models, shares of
\* an LLM that is not up, and the facade's model as long as it is booked.
FacadeCounted(g) == \E b \in booked : b.by = Facade /\ b.gpu = g
Admitted(g) ==
  LlmOn(g) + JobsOn(g)
  + SttMb * Cardinality({b \in booked : b.gpu = g /\ b.phase = "stt" /\ resident[b.by] = NoGpu})
  + (IF llm # "up" /\ \E b \in booked : b.gpu = g /\ b.phase = "llm" THEN LlmMb ELSE 0)
  + (IF FacadeCounted(g) THEN FacadeMb ELSE 0)
AdmittedFit == \A g \in Gpus : Admitted(g) <= Capacity

\* Every facade model that is on a card, or about to be, is counted by the allocator.
NoSquatter ==
  \A g \in Gpus :
    FacadeModels(g) # {} \/ (req.pc = "load" /\ req.gpu = g) => FacadeCounted(g)

\* Every queued job is eventually served, whatever the idle models hold.
JobsServed == \A j \in Jobs : pc[j] = "queued" ~> pc[j] = "done"
=============================================================================
