-------------------------- MODULE GpuSharing_proofs --------------------------
(***************************************************************************)
(* The LLM lock and the memory of the cards, for any number of jobs, cards *)
(* and live requests.                                                      *)
(*   TypeOK       the types                                                *)
(*   LockInv      the lock is held by the thread that is between its two   *)
(*                halves, and the recorded owner is the name it gave       *)
(*   LlmNotPulled the server a phase uses stays up, because whoever stops  *)
(*                or launches one holds the lock                           *)
(*   LoadInv      a server that loads is loaded by the holder; with it,    *)
(*                each step is a step of LlmServer or a stutter            *)
(*   BookingInv   what is booked is what is running or is about to: what   *)
(*                an admission finds free is then free of all of it        *)
(***************************************************************************)
EXTENDS GpuSharing, FiniteSetTheorems, WellFoundedInduction, TLAPS

LockInv == LockIsHeld /\ OwnerIsHolder
Sizes == {SttMb, LlmMb, FacadeMb}

USE NamesAssumption, ThreadsAssumption DEF Threads, Free, NoOwner, Facade, PipelineStop

\* Initially nobody holds the lock and no phase has begun.
LEMMA InitHolds == Init => TypeOK /\ LockInv /\ LlmNotPulled
  BY GpusAssumption, SizesAssumption
  DEF Init, TypeOK, LockInv, LockIsHeld, OwnerIsHolder, LlmNotPulled, Steps, Critical,
      UsesLlm, Reclaims, Ends, NoInstance, NoRequest

\* What the facade holds once its cache is emptied is still typed.
LEMMA DropTyped ==
  TypeOK /\ Drop =>
    /\ inst' \in [gpu: Gpus \cup {NoGpu}, loaded: BOOLEAN]
    /\ req' \in [pc: {"idle", "load", "run"}, gpu: Gpus \cup {NoGpu}, own: BOOLEAN]
<1> SUFFICES ASSUME TypeOK, Drop
             PROVE  /\ inst' \in [gpu: Gpus \cup {NoGpu}, loaded: BOOLEAN]
                    /\ req' \in [pc: {"idle", "load", "run"}, gpu: Gpus \cup {NoGpu}, own: BOOLEAN]
  OBVIOUS
<1>1. inst' = [gpu |-> NoGpu, loaded |-> FALSE]
  BY DEF Drop, NoInstance
<1>2. req' = [pc |-> req.pc, gpu |-> req.gpu, own |-> FALSE]
  BY DEF Drop
<1>3. req.pc \in {"idle", "load", "run"} /\ req.gpu \in Gpus \cup {NoGpu}
  BY DEF TypeOK
<1>4. QED
  BY <1>1, <1>2, <1>3

\* Every step keeps the types.
LEMMA TypeStep == TypeOK /\ [Next]_vars => TypeOK'
<1> SUFFICES ASSUME TypeOK, [Next]_vars PROVE TypeOK'
  OBVIOUS
<1> USE GpusAssumption, SizesAssumption
<1>1. ASSUME NEW j \in Jobs, Admit(j) PROVE TypeOK'
  BY <1>1 DEF Admit, To, TypeOK, Booking, Steps, Critical, UsesLlm, Reclaims, Ends, job, facade
<1>2. ASSUME NEW j \in Jobs, Reserve(j) PROVE TypeOK'
  BY <1>2 DEF Reserve, Selected, Fitting, To, TypeOK, Booking, Steps, Critical, UsesLlm,
     Reclaims, Ends, job, facade
<1>3. ASSUME NEW j \in Jobs, Load(j) PROVE TypeOK'
  BY <1>3 DEF Load, To, TypeOK, Booking, Steps, Critical, UsesLlm, Reclaims, Ends, job, facade
<1>4. ASSUME NEW j \in Jobs, Transcribe(j) PROVE TypeOK'
  <2>1. booked' \subseteq booked
    BY <1>4 DEF Transcribe, Released
  <2>2. UNCHANGED <<had, lock, owner, llm, inst, req, unload, requests>>
    BY <1>4 DEF Transcribe, facade
  <2>3. pc' \in [Threads -> Steps] /\ pc'[Sched] = pc[Sched]
    BY <1>4 DEF Transcribe, To, TypeOK, Steps
  <2>4. out' \in [Jobs -> {"queued", "done"}] /\ stt' \in [Jobs -> BOOLEAN]
    BY <1>4 DEF Transcribe, TypeOK
  <2>5. resident' \in [Jobs -> Gpus \cup {NoGpu}]
    BY <1>4 DEF Transcribe, TypeOK
  <2>6. QED
    BY <2>1, <2>2, <2>3, <2>4, <2>5 DEF TypeOK
<1>5. ASSUME NEW j \in Jobs, TakeLlm(j) PROVE TypeOK'
  BY <1>5 DEF TakeLlm, Take, To, TypeOK, Booking, Steps, Critical, UsesLlm, Reclaims, Ends,
     job, facade
<1>6. ASSUME NEW j \in Jobs, LlmBusy(j) PROVE TypeOK'
  BY <1>6 DEF LlmBusy, To, TypeOK, Booking, Steps, Critical, UsesLlm, Reclaims, Ends, job,
     facade
<1>7. ASSUME NEW j \in Jobs, Name(j) PROVE TypeOK'
  BY <1>7 DEF Name, To, NameOf, Reclaims, Ends, TypeOK, Booking, Steps, Critical, UsesLlm,
     Reclaims, Ends, job, facade
<1>8. ASSUME NEW j \in Jobs, Probe(j) PROVE TypeOK'
  BY <1>8 DEF Probe, To, TypeOK, Booking, Steps, Critical, UsesLlm, Reclaims, Ends, job, facade
<1>9. ASSUME NEW j \in Jobs, Book(j) PROVE TypeOK'
  BY <1>9 DEF Book, To, Shares, TypeOK, Booking, Steps, Critical, UsesLlm, Reclaims, Ends,
     job, facade
<1>10. ASSUME NEW j \in Jobs, Press(j) PROVE TypeOK'
  <2>1. UNCHANGED <<had, out, stt, resident, booked, lock, owner, llm, unload, requests>>
    BY <1>10 DEF Press, job
  <2>2. pc' \in [Threads -> Steps] /\ pc'[Sched] = pc[Sched]
    BY <1>10 DEF Press, To, TypeOK, Steps, Critical, UsesLlm
  <2>3. Drop \/ UNCHANGED <<inst, req>>
    BY <1>10 DEF Press
  <2>4. /\ inst' \in [gpu: Gpus \cup {NoGpu}, loaded: BOOLEAN]
        /\ req' \in [pc: {"idle", "load", "run"}, gpu: Gpus \cup {NoGpu}, own: BOOLEAN]
    BY <2>3, DropTyped DEF TypeOK
  <2>5. QED
    BY <2>1, <2>2, <2>4 DEF TypeOK
<1>11. ASSUME NEW j \in Jobs, Yield(j) PROVE TypeOK'
  BY <1>11 DEF Yield, To, Unbook, ReleasedAll, TypeOK, Booking, Steps, Critical, UsesLlm,
     Reclaims, Ends, job, facade
<1>12. ASSUME NEW j \in Jobs, Ready(j) PROVE TypeOK'
  BY <1>12 DEF Ready, To, TypeOK, Booking, Steps, Critical, UsesLlm, Reclaims, Ends, job,
     facade
<1>13. ASSUME NEW j \in Jobs, Loaded(j) PROVE TypeOK'
  BY <1>13 DEF Loaded, To, TypeOK, Booking, Steps, Critical, UsesLlm, Reclaims, Ends, job,
     facade
<1>14. ASSUME NEW j \in Jobs, Use(j) PROVE TypeOK'
  BY <1>14 DEF Use, To, TypeOK, Booking, Steps, Critical, UsesLlm, Reclaims, Ends, job, facade
<1>15. ASSUME NEW j \in Jobs, LeavePhase(j) PROVE TypeOK'
  BY <1>15 DEF LeavePhase, To, Released, TypeOK, Booking, Steps, Critical, UsesLlm,
     Reclaims, Ends, job, facade
<1>16. ASSUME NEW j \in Jobs, LeaveLlm(j) PROVE TypeOK'
  BY <1>16 DEF LeaveLlm, To, ReleaseLlm, TypeOK, Booking, Steps, Critical, UsesLlm,
     Reclaims, Ends, job, facade
<1>17. ASSUME NEW j \in Jobs, Export(j) PROVE TypeOK'
  BY <1>17 DEF Export, To, ReleaseLlm, ReleasedAll, TypeOK, Booking, Steps, Critical,
     UsesLlm, Reclaims, Ends, job, facade
<1>18. ASSUME NEW j \in Jobs, EndPipeline(j) PROVE TypeOK'
  BY <1>18 DEF EndPipeline, Take, To, OnDone, ReleaseLlm, ReleasedAll, TypeOK, Booking,
     Steps, Critical, UsesLlm, Reclaims, Ends, job, facade
<1>19. ASSUME NEW j \in Jobs, TakeToReclaim(j) PROVE TypeOK'
  BY <1>19 DEF TakeToReclaim, Take, To, TypeOK, Booking, Steps, Critical, UsesLlm, Reclaims,
     Ends, job, facade
<1>20. ASSUME NEW j \in Jobs, NothingToReclaim(j) PROVE TypeOK'
  BY <1>20 DEF NothingToReclaim, To, TypeOK, Booking, Steps, Critical, UsesLlm, Reclaims,
     Ends, job, facade
<1>21. ASSUME NEW j \in Jobs, StopLlm(j) PROVE TypeOK'
  BY <1>21 DEF StopLlm, To, TypeOK, Booking, Steps, Critical, UsesLlm, Reclaims, Ends, job,
     facade
<1>22. ASSUME NEW j \in Jobs, LeaveReclaim(j) PROVE TypeOK'
  BY <1>22 DEF LeaveReclaim, To, ReleaseLlm, TypeOK, Booking, Steps, Critical, UsesLlm,
     Reclaims, Ends, job, facade
<1>23. ASSUME NEW j \in Jobs, SchedReclaim(j) PROVE TypeOK'
  BY <1>23 DEF SchedReclaim, TypeOK, Booking, Steps, Critical, UsesLlm, Reclaims, Ends, job,
     facade
<1>24. CASE Name(Sched)
  BY <1>24 DEF Name, To, NameOf, Reclaims, Ends, TypeOK, Booking, Steps, Critical, UsesLlm,
     Reclaims, Ends, job, facade
<1>25. CASE StopLlm(Sched)
  BY <1>25 DEF StopLlm, To, TypeOK, Booking, Steps, Critical, UsesLlm, Reclaims, Ends, job,
     facade
<1>26. CASE LeaveReclaim(Sched)
  BY <1>26 DEF LeaveReclaim, To, ReleaseLlm, TypeOK, Booking, Steps, Critical, UsesLlm,
     Reclaims, Ends, job, facade
<1>27. CASE LiveRequest
  <2> DEFINE counted == {b \in booked : b.by = Facade}
             places == IF counted # {} THEN {b.gpu : b \in counted} ELSE Selected(FacadeMb)
  <2>1. places \subseteq Gpus
    BY DEF TypeOK, Booking, Selected, Fitting
  <2> HIDE DEF places
  <2>2. UNCHANGED <<pc, job, lock, owner, llm, unload>> /\ requests' \in 0..MaxRequests
    BY <1>27 DEF LiveRequest, TypeOK
  <2>3. CASE inst.gpu # NoGpu
    <3>1. /\ req' = [pc |-> IF inst.loaded THEN "run" ELSE "load", gpu |-> inst.gpu, own |-> TRUE]
          /\ UNCHANGED <<inst, booked>>
      BY <1>27, <2>3 DEF LiveRequest
    <3>2. QED
      BY <2>2, <3>1 DEF TypeOK, job
  <2>4. CASE inst.gpu = NoGpu
    <3>1. PICK g \in IF places = {} THEN {DefaultGpu} ELSE places :
            /\ booked' = IF places = {} THEN booked
                         ELSE {b \in booked : b.by # Facade} \cup
                              {[by |-> Facade, phase |-> "live", gpu |-> g, mb |-> FacadeMb]}
            /\ inst' = [gpu |-> g, loaded |-> FALSE]
            /\ req' = [pc |-> "load", gpu |-> g, own |-> TRUE]
      BY <1>27, <2>4 DEF LiveRequest, places
    <3>2. g \in Gpus
      BY <2>1, <3>1
    <3>3. booked' \in SUBSET Booking
      BY <3>1, <3>2 DEF TypeOK, Booking
    <3>4. QED
      BY <2>2, <3>1, <3>2, <3>3 DEF TypeOK, job
  <2>5. QED
    BY <2>3, <2>4
<1>28. CASE LiveLoad
  <2>1. UNCHANGED <<pc, had, out, stt, resident, booked, lock, owner, llm, unload, requests>>
    BY <1>28 DEF LiveLoad, job
  <2>2. req.gpu \in Gpus \cup {NoGpu} /\ req.own \in BOOLEAN /\ inst.gpu \in Gpus \cup {NoGpu}
    BY DEF TypeOK
  <2>3. \/ req' = [pc |-> "run", gpu |-> req.gpu, own |-> req.own]
        \/ req' = [pc |-> "idle", gpu |-> NoGpu, own |-> FALSE]
    BY <1>28 DEF LiveLoad, NoRequest
  <2>4. req' \in [pc: {"idle", "load", "run"}, gpu: Gpus \cup {NoGpu}, own: BOOLEAN]
    <3>1. [pc |-> "run", gpu |-> req.gpu, own |-> req.own]
            \in [pc: {"idle", "load", "run"}, gpu: Gpus \cup {NoGpu}, own: BOOLEAN]
      <4>1. "run" \in {"idle", "load", "run"}
        OBVIOUS
      <4>2. QED
        BY <2>2, <4>1, Zenon
    <3>2. [pc |-> "idle", gpu |-> NoGpu, own |-> FALSE]
            \in [pc: {"idle", "load", "run"}, gpu: Gpus \cup {NoGpu}, own: BOOLEAN]
      OBVIOUS
    <3>3. QED
      BY <2>3, <3>1, <3>2, Zenon
  <2>5. inst' = [gpu |-> inst.gpu, loaded |-> TRUE] \/ inst' = inst
    BY <1>28 DEF LiveLoad
  <2>6. inst' \in [gpu: Gpus \cup {NoGpu}, loaded: BOOLEAN]
    <3>1. [gpu |-> inst.gpu, loaded |-> TRUE] \in [gpu: Gpus \cup {NoGpu}, loaded: BOOLEAN]
      BY <2>2
    <3>2. inst \in [gpu: Gpus \cup {NoGpu}, loaded: BOOLEAN]
      BY DEF TypeOK
    <3>3. QED
      BY <2>5, <3>1, <3>2, Zenon
  <2>7. QED
    BY <2>1, <2>4, <2>6 DEF TypeOK
<1>29. CASE LiveAnswer
  BY <1>29 DEF LiveAnswer, NoRequest, TypeOK, Booking, Steps, Critical, UsesLlm, Reclaims,
     Ends, job, facade
<1>30. CASE Timer
  <2>1. UNCHANGED <<pc, had, out, stt, resident, lock, owner, llm, requests>>
    BY <1>30 DEF Timer, job
  <2>2. booked' \subseteq booked /\ unload' \in {"idle", "yield"}
    BY <1>30 DEF Timer, Unbook, ReleasedAll
  <2>3. Drop \/ UNCHANGED <<inst, req>>
    BY <1>30 DEF Timer
  <2>4. /\ inst' \in [gpu: Gpus \cup {NoGpu}, loaded: BOOLEAN]
        /\ req' \in [pc: {"idle", "load", "run"}, gpu: Gpus \cup {NoGpu}, own: BOOLEAN]
    BY <2>3, DropTyped DEF TypeOK
  <2>5. QED
    BY <2>1, <2>2, <2>4 DEF TypeOK
<1>31. ASSUME NEW j \in Jobs, Retest(j) PROVE TypeOK'
  BY <1>31 DEF Retest, TypeOK, Steps, Critical, UsesLlm, Reclaims, Ends, job, facade
<1>32. CASE UNCHANGED vars
  BY <1>32 DEF vars, TypeOK, Booking, Steps, Critical, UsesLlm, Reclaims, Ends, job, facade
<1>33. QED
  BY <1>1, <1>2, <1>3, <1>4, <1>5, <1>6, <1>7, <1>8, <1>9, <1>10, <1>11, <1>12, <1>13,
     <1>14, <1>15, <1>16, <1>17, <1>18, <1>19, <1>20, <1>21, <1>22, <1>23, <1>24, <1>25,
     <1>26, <1>27, <1>28, <1>29, <1>30, <1>31, <1>32 DEF Next, Work, SchedWork, LiveWork

\* Every step keeps the lock with its holder and the name with the lock.
LEMMA LockStep == TypeOK /\ LockInv /\ [Next]_vars => LockInv'
<1> SUFFICES ASSUME TypeOK, LockInv, [Next]_vars PROVE LockInv'
  OBVIOUS
<1> USE DEF TypeOK, LockInv, LockIsHeld, OwnerIsHolder, Naming, NameOf, Critical, UsesLlm, Reclaims, Ends, Steps
<1>1. ASSUME NEW j \in Jobs, Admit(j) PROVE LockInv'
  BY <1>1 DEF Admit, To, job, facade
<1>2. ASSUME NEW j \in Jobs, Reserve(j) PROVE LockInv'
  BY <1>2 DEF Reserve, Selected, Fitting, To, job, facade
<1>3. ASSUME NEW j \in Jobs, Load(j) PROVE LockInv'
  BY <1>3 DEF Load, To, job, facade
<1>4. ASSUME NEW j \in Jobs, Transcribe(j) PROVE LockInv'
  BY <1>4 DEF Transcribe, To, Released, job, facade
<1>5. ASSUME NEW j \in Jobs, TakeLlm(j) PROVE LockInv'
  BY <1>5 DEF TakeLlm, Take, To, job, facade
<1>6. ASSUME NEW j \in Jobs, LlmBusy(j) PROVE LockInv'
  BY <1>6 DEF LlmBusy, To, job, facade
<1>7. ASSUME NEW j \in Jobs, Name(j) PROVE LockInv'
  BY <1>7 DEF Name, To, NameOf, Reclaims, Ends, job, facade
<1>8. ASSUME NEW j \in Jobs, Probe(j) PROVE LockInv'
  BY <1>8 DEF Probe, To, job, facade
<1>9. ASSUME NEW j \in Jobs, Book(j) PROVE LockInv'
  BY <1>9 DEF Book, To, Shares, job, facade
<1>10. ASSUME NEW j \in Jobs, Press(j) PROVE LockInv'
  BY <1>10 DEF Press, To, Drop, NoInstance, job, facade
<1>11. ASSUME NEW j \in Jobs, Yield(j) PROVE LockInv'
  BY <1>11 DEF Yield, To, Unbook, ReleasedAll, job, facade
<1>12. ASSUME NEW j \in Jobs, Ready(j) PROVE LockInv'
  BY <1>12 DEF Ready, To, job, facade
<1>13. ASSUME NEW j \in Jobs, Loaded(j) PROVE LockInv'
  BY <1>13 DEF Loaded, To, job, facade
<1>14. ASSUME NEW j \in Jobs, Use(j) PROVE LockInv'
  BY <1>14 DEF Use, To, job, facade
<1>15. ASSUME NEW j \in Jobs, LeavePhase(j) PROVE LockInv'
  BY <1>15 DEF LeavePhase, To, Released, job, facade
<1>16. ASSUME NEW j \in Jobs, LeaveLlm(j) PROVE LockInv'
  BY <1>16 DEF LeaveLlm, To, ReleaseLlm, job, facade
<1>17. ASSUME NEW j \in Jobs, Export(j) PROVE LockInv'
  BY <1>17 DEF Export, To, ReleaseLlm, ReleasedAll, job, facade
<1>18. ASSUME NEW j \in Jobs, EndPipeline(j) PROVE LockInv'
  BY <1>18 DEF EndPipeline, Take, To, OnDone, ReleaseLlm, ReleasedAll, job, facade
<1>19. ASSUME NEW j \in Jobs, TakeToReclaim(j) PROVE LockInv'
  BY <1>19 DEF TakeToReclaim, Take, To, job, facade
<1>20. ASSUME NEW j \in Jobs, NothingToReclaim(j) PROVE LockInv'
  BY <1>20 DEF NothingToReclaim, To, job, facade
<1>21. ASSUME NEW j \in Jobs, StopLlm(j) PROVE LockInv'
  BY <1>21 DEF StopLlm, To, job, facade
<1>22. ASSUME NEW j \in Jobs, LeaveReclaim(j) PROVE LockInv'
  BY <1>22 DEF LeaveReclaim, To, ReleaseLlm, job, facade
<1>23. ASSUME NEW j \in Jobs, SchedReclaim(j) PROVE LockInv'
  BY <1>23 DEF SchedReclaim, job, facade
<1>24. CASE Name(Sched)
  BY <1>24 DEF Name, To, NameOf, Reclaims, Ends, job, facade
<1>25. CASE StopLlm(Sched)
  BY <1>25 DEF StopLlm, To, job, facade
<1>26. CASE LeaveReclaim(Sched)
  BY <1>26 DEF LeaveReclaim, To, ReleaseLlm, job, facade
<1>27. CASE LiveRequest
  BY <1>27 DEF LiveRequest, Selected, Fitting, job, facade
<1>28. CASE LiveLoad
  BY <1>28 DEF LiveLoad, NoRequest, job, facade
<1>29. CASE LiveAnswer
  BY <1>29 DEF LiveAnswer, NoRequest, job, facade
<1>30. CASE Timer
  BY <1>30 DEF Timer, Drop, NoInstance, Unbook, ReleasedAll, job, facade
<1>31. ASSUME NEW j \in Jobs, Retest(j) PROVE LockInv'
  BY <1>31 DEF Retest, job, facade
<1>32. CASE UNCHANGED vars
  BY <1>32 DEF vars, job, facade
<1>33. QED
  BY <1>1, <1>2, <1>3, <1>4, <1>5, <1>6, <1>7, <1>8, <1>9, <1>10, <1>11, <1>12, <1>13,
     <1>14, <1>15, <1>16, <1>17, <1>18, <1>19, <1>20, <1>21, <1>22, <1>23, <1>24, <1>25,
     <1>26, <1>27, <1>28, <1>29, <1>30, <1>31, <1>32 DEF Next, Work, SchedWork, LiveWork

\* A phase that uses the LLM keeps it up: whoever changes the server holds the lock.
LEMMA LlmStep == TypeOK /\ LockInv /\ LlmNotPulled /\ [Next]_vars => LlmNotPulled'
<1> SUFFICES ASSUME TypeOK, LockIsHeld, LlmNotPulled, [Next]_vars PROVE LlmNotPulled'
  BY DEF LockInv
<1> USE DEF TypeOK, LockIsHeld, LlmNotPulled, Critical, UsesLlm, Reclaims, Ends, Steps
<1>1. ASSUME NEW j \in Jobs, Admit(j) PROVE LlmNotPulled'
  BY <1>1 DEF Admit, To, job, facade
<1>2. ASSUME NEW j \in Jobs, Reserve(j) PROVE LlmNotPulled'
  BY <1>2 DEF Reserve, Selected, Fitting, To, job, facade
<1>3. ASSUME NEW j \in Jobs, Load(j) PROVE LlmNotPulled'
  BY <1>3 DEF Load, To, job, facade
<1>4. ASSUME NEW j \in Jobs, Transcribe(j) PROVE LlmNotPulled'
  BY <1>4 DEF Transcribe, To, Released, job, facade
<1>5. ASSUME NEW j \in Jobs, TakeLlm(j) PROVE LlmNotPulled'
  BY <1>5 DEF TakeLlm, Take, To, job, facade
<1>6. ASSUME NEW j \in Jobs, LlmBusy(j) PROVE LlmNotPulled'
  BY <1>6 DEF LlmBusy, To, job, facade
<1>7. ASSUME NEW j \in Jobs, Name(j) PROVE LlmNotPulled'
  BY <1>7 DEF Name, To, NameOf, Reclaims, Ends, job, facade
<1>8. ASSUME NEW j \in Jobs, Probe(j) PROVE LlmNotPulled'
  BY <1>8 DEF Probe, To, job, facade
<1>9. ASSUME NEW j \in Jobs, Book(j) PROVE LlmNotPulled'
  BY <1>9 DEF Book, To, Shares, job, facade
<1>10. ASSUME NEW j \in Jobs, Press(j) PROVE LlmNotPulled'
  BY <1>10 DEF Press, To, Drop, NoInstance, job, facade
<1>11. ASSUME NEW j \in Jobs, Yield(j) PROVE LlmNotPulled'
  BY <1>11 DEF Yield, To, Unbook, ReleasedAll, job, facade
<1>12. ASSUME NEW j \in Jobs, Ready(j) PROVE LlmNotPulled'
  BY <1>12 DEF Ready, To, job, facade
<1>13. ASSUME NEW j \in Jobs, Loaded(j) PROVE LlmNotPulled'
  BY <1>13 DEF Loaded, To, job, facade
<1>14. ASSUME NEW j \in Jobs, Use(j) PROVE LlmNotPulled'
  BY <1>14 DEF Use, To, job, facade
<1>15. ASSUME NEW j \in Jobs, LeavePhase(j) PROVE LlmNotPulled'
  BY <1>15 DEF LeavePhase, To, Released, job, facade
<1>16. ASSUME NEW j \in Jobs, LeaveLlm(j) PROVE LlmNotPulled'
  BY <1>16 DEF LeaveLlm, To, ReleaseLlm, job, facade
<1>17. ASSUME NEW j \in Jobs, Export(j) PROVE LlmNotPulled'
  BY <1>17 DEF Export, To, ReleaseLlm, ReleasedAll, job, facade
<1>18. ASSUME NEW j \in Jobs, EndPipeline(j) PROVE LlmNotPulled'
  BY <1>18 DEF EndPipeline, Take, To, OnDone, ReleaseLlm, ReleasedAll, job, facade
<1>19. ASSUME NEW j \in Jobs, TakeToReclaim(j) PROVE LlmNotPulled'
  BY <1>19 DEF TakeToReclaim, Take, To, job, facade
<1>20. ASSUME NEW j \in Jobs, NothingToReclaim(j) PROVE LlmNotPulled'
  BY <1>20 DEF NothingToReclaim, To, job, facade
<1>21. ASSUME NEW j \in Jobs, StopLlm(j) PROVE LlmNotPulled'
  BY <1>21 DEF StopLlm, To, job, facade
<1>22. ASSUME NEW j \in Jobs, LeaveReclaim(j) PROVE LlmNotPulled'
  BY <1>22 DEF LeaveReclaim, To, ReleaseLlm, job, facade
<1>23. ASSUME NEW j \in Jobs, SchedReclaim(j) PROVE LlmNotPulled'
  BY <1>23 DEF SchedReclaim, job, facade
<1>24. CASE Name(Sched)
  BY <1>24 DEF Name, To, NameOf, Reclaims, Ends, job, facade
<1>25. CASE StopLlm(Sched)
  BY <1>25 DEF StopLlm, To, job, facade
<1>26. CASE LeaveReclaim(Sched)
  BY <1>26 DEF LeaveReclaim, To, ReleaseLlm, job, facade
<1>27. CASE LiveRequest
  BY <1>27 DEF LiveRequest, Selected, Fitting, job, facade
<1>28. CASE LiveLoad
  BY <1>28 DEF LiveLoad, NoRequest, job, facade
<1>29. CASE LiveAnswer
  BY <1>29 DEF LiveAnswer, NoRequest, job, facade
<1>30. CASE Timer
  BY <1>30 DEF Timer, Drop, NoInstance, Unbook, ReleasedAll, job, facade
<1>31. ASSUME NEW j \in Jobs, Retest(j) PROVE LlmNotPulled'
  BY <1>31 DEF Retest, job, facade
<1>32. CASE UNCHANGED vars
  BY <1>32 DEF vars, job, facade
<1>33. QED
  BY <1>1, <1>2, <1>3, <1>4, <1>5, <1>6, <1>7, <1>8, <1>9, <1>10, <1>11, <1>12, <1>13,
     <1>14, <1>15, <1>16, <1>17, <1>18, <1>19, <1>20, <1>21, <1>22, <1>23, <1>24, <1>25,
     <1>26, <1>27, <1>28, <1>29, <1>30, <1>31, <1>32 DEF Next, Work, SchedWork, LiveWork

\* The types of all the variables hold throughout, whatever the instance.
THEOREM TypeCorrect == Spec => []TypeOK
<1>1. Init => TypeOK
  BY InitHolds
<1>2. TypeOK /\ [Next]_vars => TypeOK'
  BY TypeStep
<1>3. QED
  BY <1>1, <1>2, PTL DEF Spec

\* The LLM lock always belongs to the thread between its two halves: no late,
\* foreign or unnamed release takes it away (release_llm).
THEOREM LockKept == Spec => []LockIsHeld
<1>1. Init => TypeOK /\ LockInv
  BY InitHolds
<1>2. TypeOK /\ LockInv /\ [Next]_vars => (TypeOK /\ LockInv)'
  BY TypeStep, LockStep
<1>3. LockInv => LockIsHeld
  BY DEF LockInv
<1>4. QED
  BY <1>1, <1>2, <1>3, PTL DEF Spec

\* The recorded owner is always the name its holder gave, and no name survives a
\* holder: a late release finds another name, or none.
THEOREM OwnerKept == Spec => []OwnerIsHolder
<1>1. Init => TypeOK /\ LockInv
  BY InitHolds
<1>2. TypeOK /\ LockInv /\ [Next]_vars => (TypeOK /\ LockInv)'
  BY TypeStep, LockStep
<1>3. LockInv => OwnerIsHolder
  BY DEF LockInv
<1>4. QED
  BY <1>1, <1>2, <1>3, PTL DEF Spec

\* No reclaim, pipeline end or failing phase stops the LLM under another job.
THEOREM LlmKeptUp == Spec => []LlmNotPulled
<1>1. Init => TypeOK /\ LockInv /\ LlmNotPulled
  BY InitHolds
<1>2. TypeOK /\ LockInv /\ LlmNotPulled /\ [Next]_vars => (TypeOK /\ LockInv /\ LlmNotPulled)'
  BY TypeStep, LockStep, LlmStep
<1>3. QED
  BY <1>1, <1>2, PTL DEF Spec

-----------------------------------------------------------------------------
(* GpuSharing implements LlmServer.                                         *)

\* A server is loading exactly while a phase waits for it.
LoadInv ==
  /\ \A j \in Jobs : pc[j] = "load" => llm = "loading"
  /\ llm = "loading" => \E j \in Jobs : pc[j] = "load"

ServerInv == TypeOK /\ LockInv /\ LlmNotPulled /\ LoadInv

\* The step touches nothing of the abstract server.
Still ==
  /\ lock' = lock /\ llm' = llm
  /\ \A j \in Jobs : /\ pc'[j] = "use" <=> pc[j] = "use"
                     /\ pc'[j] = "load" <=> pc[j] = "load"

\* Such a step is a stutter of the abstract server.
LEMMA StillStutters == Still => UNCHANGED Server!vars
<1> SUFFICES ASSUME Still PROVE UNCHANGED Server!vars
  OBVIOUS
<1>1. {j \in Jobs : pc[j] = "use"}' = {j \in Jobs : pc[j] = "use"}
  BY DEF Still
<1>2. QED
  BY <1>1 DEF Still, Server!vars

\* Such a step keeps a launch in the hands of the thread that loads.
LEMMA StillLoads == LoadInv /\ Still => LoadInv'
  BY DEF LoadInv, Still

\* The steps that leave the lock, the server and its users alone.
LEMMA QuietSteps ==
  ASSUME TypeOK, LockInv,
         \/ \E j \in Jobs : \/ Admit(j) \/ Reserve(j) \/ Load(j) \/ Transcribe(j) \/ LlmBusy(j)
                            \/ Name(j) \/ Probe(j) \/ Book(j) \/ Press(j) \/ Yield(j)
                            \/ LeavePhase(j) \/ Export(j) \/ NothingToReclaim(j) \/ Retest(j)
         \/ Name(Sched) \/ LiveRequest \/ LiveLoad \/ LiveAnswer \/ Timer \/ UNCHANGED vars
  PROVE  Still
<1> USE DEF TypeOK, Still, job, facade
<1>1. ASSUME NEW j \in Jobs, Admit(j) PROVE Still
  BY <1>1 DEF Admit, To
<1>2. ASSUME NEW j \in Jobs, Reserve(j) PROVE Still
  BY <1>2 DEF Reserve, To
<1>3. ASSUME NEW j \in Jobs, Load(j) PROVE Still
  BY <1>3 DEF Load, To
<1>4. ASSUME NEW j \in Jobs, Transcribe(j) PROVE Still
  BY <1>4 DEF Transcribe, To
<1>5. ASSUME NEW j \in Jobs, LlmBusy(j) PROVE Still
  BY <1>5 DEF LlmBusy, To
<1>6. ASSUME NEW j \in Jobs, Name(j) PROVE Still
  BY <1>6 DEF Name, To
<1>7. ASSUME NEW j \in Jobs, Probe(j) PROVE Still
  BY <1>7 DEF Probe, To
<1>8. ASSUME NEW j \in Jobs, Book(j) PROVE Still
  BY <1>8 DEF Book, To
<1>9. ASSUME NEW j \in Jobs, Press(j) PROVE Still
  BY <1>9 DEF Press, To
<1>10. ASSUME NEW j \in Jobs, Yield(j) PROVE Still
  BY <1>10 DEF Yield, To
<1>11. ASSUME NEW j \in Jobs, LeavePhase(j) PROVE Still
  BY <1>11 DEF LeavePhase, To
<1>12. ASSUME NEW j \in Jobs, Export(j) PROVE Still
  BY <1>12 DEF Export, To, ReleaseLlm, LockInv, LockIsHeld, OwnerIsHolder, Naming, NameOf, Critical, UsesLlm, Reclaims, Ends
<1>13. ASSUME NEW j \in Jobs, NothingToReclaim(j) PROVE Still
  BY <1>13 DEF NothingToReclaim, To
<1>14. ASSUME NEW j \in Jobs, Retest(j) PROVE Still
  BY <1>14 DEF Retest
<1>15. CASE Name(Sched)
  BY <1>15 DEF Name, To
<1>16. CASE LiveRequest
  BY <1>16 DEF LiveRequest
<1>17. CASE LiveLoad
  BY <1>17 DEF LiveLoad
<1>18. CASE LiveAnswer
  BY <1>18 DEF LiveAnswer
<1>19. CASE Timer
  BY <1>19 DEF Timer
<1>20. CASE UNCHANGED vars
  BY <1>20 DEF vars
<1>21. QED
  BY <1>1, <1>2, <1>3, <1>4, <1>5, <1>6, <1>7, <1>8, <1>9, <1>10, <1>11, <1>12, <1>13, <1>14, <1>15, <1>16, <1>17, <1>18, <1>19, <1>20

\* Every other step is one of the abstract server, taken by its holder.
LEMMA ServerStep == ServerInv /\ [Next]_vars => [Server!Next]_(Server!vars) /\ LoadInv'
<1> SUFFICES ASSUME ServerInv, [Next]_vars PROVE [Server!Next]_(Server!vars) /\ LoadInv'
  OBVIOUS
<1> DEFINE Users == {j \in Jobs : pc[j] = "use"}
<1> USE DEF ServerInv
<1>b. ASSUME \A j \in Jobs : pc'[j] = "use" <=> pc[j] = "use" PROVE Users' = Users
  <2>1. Users' = {j \in Jobs : pc'[j] = "use"}
    OBVIOUS
  <2>2. QED
    BY <2>1, <1>b
<1>a. \A t \in Threads : lock = t /\ pc[t] # "use" => Users = {}
  BY DEF LockInv, LockIsHeld, Critical, UsesLlm
<1>1. CASE Still
  BY <1>1, StillStutters, StillLoads
<1>2. ASSUME NEW t \in Threads, lock = Free, lock' = t, llm' = llm,
             \A j \in Jobs : /\ pc'[j] = "use" <=> pc[j] = "use"
                             /\ pc'[j] = "load" <=> pc[j] = "load"
      PROVE  Server!Enter(t) /\ LoadInv'
  <2>1. Users' = Users
    BY <1>b, <1>2
  <2>2. QED
    BY <1>2, <2>1 DEF Server!Enter, LoadInv
<1>3. ASSUME NEW t \in Threads, lock = t, pc[t] \notin {"use", "load"}, lock' = Free, llm' = llm,
             \A j \in Jobs : /\ pc'[j] = "use" <=> pc[j] = "use"
                             /\ pc'[j] = "load" <=> pc[j] = "load"
      PROVE  Server!Leave(t) /\ LoadInv'
  <2>1. Users = {} /\ Users' = Users
    <3>1. Users' = Users
      BY <1>b, <1>3
    <3>2. QED
      BY <3>1, <1>a, <1>3
  <2>2. llm # "loading"
    BY <1>3 DEF LoadInv, LockInv, LockIsHeld, Critical, UsesLlm
  <2>3. QED
    BY <1>3, <2>1, <2>2 DEF Server!Leave, LoadInv
<1>4. ASSUME NEW t \in Threads, StopLlm(t) PROVE [Server!Next]_(Server!vars) /\ LoadInv'
  <2>1. lock = t /\ lock' = t /\ Users = {}
    BY <1>a, <1>4 DEF StopLlm, LockInv, LockIsHeld, Critical, Reclaims, Ends
  <2>2. \A j \in Jobs : /\ pc'[j] = "use" <=> pc[j] = "use"
                        /\ pc'[j] = "load" <=> pc[j] = "load"
    BY <1>4 DEF StopLlm, To, TypeOK
  <2>3. Users' = Users
    BY <1>b, <2>2
  <2>4. \A j \in Jobs : pc[j] # "load"
    BY <1>4, <2>1 DEF StopLlm, LockInv, LockIsHeld, Critical, UsesLlm
  <2>5. llm' = "off" \/ llm' = llm
    BY <1>4 DEF StopLlm
  <2>6. CASE llm' = "off"
    <3>1. Server!Stop(t)
      BY <2>1, <2>3, <2>6 DEF Server!Stop
    <3>2. LoadInv'
      BY <2>2, <2>4, <2>6 DEF LoadInv
    <3>3. QED
      BY <3>1, <3>2 DEF Server!Next
  <2>7. CASE llm' = llm
    BY <2>1, <2>2, <2>7, <1>1 DEF Still
  <2>8. QED
    BY <2>5, <2>6, <2>7
<1>5. ASSUME NEW j \in Jobs, Ready(j) PROVE [Server!Next]_(Server!vars) /\ LoadInv'
  <2>1. lock = j /\ lock' = j /\ Users = {} /\ \A i \in Jobs : pc[i] # "load"
    BY <1>a, <1>5 DEF Ready, LockInv, LockIsHeld, Critical, UsesLlm
  <2>2. \A i \in Jobs \ {j} : pc'[i] = pc[i]
    BY <1>5 DEF Ready, To, TypeOK
  <2>3. CASE llm = "up"
    <3>1. pc'[j] = "use" /\ llm' = llm
      BY <1>5, <2>3 DEF Ready, To, TypeOK
    <3>2. Users' = {j}
      BY <2>1, <2>2, <3>1
    <3>3. QED
      BY <2>1, <2>2, <2>3, <3>1, <3>2 DEF Server!Next, Server!Work, LoadInv
  <2>4. CASE llm # "up" /\ pc'[j] = "load"
    <3>1. llm = "off"
      BY <2>1, <2>4 DEF LoadInv, TypeOK
    <3>2. llm' = "loading"
      BY <1>5, <2>4 DEF Ready, To, TypeOK
    <3>3. Users' = {}
      BY <2>1, <2>2, <2>4
    <3>4. QED
      BY <2>1, <2>2, <2>4, <3>1, <3>2, <3>3 DEF Server!Next, Server!Launch, LoadInv
  <2>5. CASE llm # "up" /\ pc'[j] # "load"
    <3>1. llm' = llm /\ pc'[j] # "use"
      BY <1>5, <2>5 DEF Ready, To, TypeOK
    <3>2. Still
      BY <2>1, <2>2, <2>5, <3>1 DEF Still
    <3>3. QED
      BY <3>2, <1>1
  <2>6. QED
    BY <2>3, <2>4, <2>5
<1>6. ASSUME NEW j \in Jobs, Loaded(j) PROVE [Server!Next]_(Server!vars) /\ LoadInv'
  <2>1. lock = j /\ lock' = j /\ llm = "loading" /\ \A i \in Jobs \ {j} : pc[i] \notin {"load", "use"}
    BY <1>6 DEF Loaded, LockInv, LockIsHeld, Critical, UsesLlm, LoadInv
  <2>2. \A i \in Jobs \ {j} : pc'[i] = pc[i]
    BY <1>6 DEF Loaded, To, TypeOK
  <2>3. \/ llm' = "up" /\ pc'[j] = "use"
        \/ llm' = "off" /\ pc'[j] = "out"
    BY <1>6 DEF Loaded, To, TypeOK
  <2>4. Users = {} /\ Users' = IF llm' = "up" THEN {j} ELSE {}
    BY <1>6, <2>1, <2>2, <2>3 DEF Loaded
  <2>5. QED
    BY <2>1, <2>2, <2>3, <2>4 DEF Server!Next, Server!Answer, LoadInv
<1>7. ASSUME NEW j \in Jobs, Use(j) PROVE [Server!Next]_(Server!vars) /\ LoadInv'
  <2>1. lock = j /\ lock' = j /\ \A i \in Jobs \ {j} : pc[i] \notin {"load", "use"}
    BY <1>7 DEF Use, LockInv, LockIsHeld, Critical, UsesLlm
  <2>2. pc[j] = "use" /\ pc'[j] = "out" /\ \A i \in Jobs \ {j} : pc'[i] = pc[i]
    BY <1>7 DEF Use, To, TypeOK
  <2>3. Users = {j} /\ Users' = {}
    BY <2>1, <2>2
  <2>4. llm = "up" /\ llm' \in {llm, "off"}
    BY <1>7 DEF Use, LlmNotPulled
  <2>5. QED
    BY <2>1, <2>2, <2>3, <2>4 DEF Server!Next, Server!Finish, LoadInv
<1>8. ASSUME NEW j \in Jobs, TakeLlm(j) \/ TakeToReclaim(j) PROVE Server!Enter(j) /\ LoadInv'
  BY <1>8, <1>2 DEF TakeLlm, TakeToReclaim, Take, To, TypeOK
<1>9. ASSUME NEW j \in Jobs, SchedReclaim(j) PROVE Server!Enter(Sched) /\ LoadInv'
  BY <1>9, <1>2 DEF SchedReclaim, TypeOK
<1>10. ASSUME NEW j \in Jobs, LeaveLlm(j) PROVE Server!Leave(j) /\ LoadInv'
  <2>1. lock = j /\ lock' = Free
    BY <1>10 DEF LeaveLlm, ReleaseLlm, LockInv, LockIsHeld, OwnerIsHolder, Naming, NameOf,
       Critical, UsesLlm, Reclaims, Ends
  <2>2. QED
    BY <1>3, <1>10, <2>1 DEF LeaveLlm, To, TypeOK
<1>11. ASSUME NEW t \in Threads, LeaveReclaim(t) PROVE Server!Leave(t) /\ LoadInv'
  <2>1. lock = t /\ lock' = Free
    BY <1>11 DEF LeaveReclaim, ReleaseLlm, LockInv, LockIsHeld, Critical, Reclaims
  <2>2. QED
    BY <1>3, <1>11, <2>1 DEF LeaveReclaim, To, TypeOK
<1>12. ASSUME NEW j \in Jobs, EndPipeline(j) PROVE [Server!Next]_(Server!vars) /\ LoadInv'
  <2>1. CASE Take(j, "end", "end_own")
    <3>1. Server!Enter(j) /\ LoadInv'
      BY <2>1, <1>2 DEF Take, To, TypeOK
    <3>2. QED
      BY <3>1 DEF Server!Next
  <2>2. CASE pc[j] = "end" /\ lock # Free
    <3>1. lock # j
      BY <2>2 DEF LockInv, LockIsHeld, Critical, UsesLlm, Reclaims, Ends
    <3>2. Still \/ Take(j, "end", "end_own")
      BY <1>12, <2>2 DEF EndPipeline, OnDone, Still, TypeOK
    <3>3. QED
      BY <3>2, <1>1, <2>1
  <2>3. CASE pc[j] = "end_free"
    <3>1. lock = j /\ lock' = Free
      BY <1>12, <2>3 DEF EndPipeline, Take, ReleaseLlm, LockInv, LockIsHeld, OwnerIsHolder,
         Naming, NameOf, Critical, UsesLlm, Reclaims, Ends
    <3>2. llm' = llm /\ \A i \in Jobs : /\ pc'[i] = "use" <=> pc[i] = "use"
                                        /\ pc'[i] = "load" <=> pc[i] = "load"
      BY <1>12, <2>3 DEF EndPipeline, Take, OnDone, TypeOK
    <3>3. Server!Leave(j) /\ LoadInv'
      BY <1>3, <2>3, <3>1, <3>2
    <3>4. QED
      BY <3>3 DEF Server!Next
  <2>4. QED
    BY <1>12, <2>1, <2>2, <2>3 DEF EndPipeline
<1>13. QED
  BY <1>1, <1>4, <1>5, <1>6, <1>7, <1>8, <1>9, <1>10, <1>11, <1>12, QuietSteps
  DEF Next, Work, SchedWork, LiveWork, Server!Next

\* The GPUs implement the server one thread at a time works with: the lock, its recorded
\* owner and the releases of release_llm give exactly what LlmServer promises.
THEOREM ServerImplemented == Spec => LlmServed
<1>1. Init => ServerInv
  BY InitHolds, GpusAssumption DEF Init, ServerInv, LoadInv
<1>2. ServerInv /\ [Next]_vars => ServerInv'
  BY TypeStep, LockStep, LlmStep, ServerStep DEF ServerInv
<1>3. Init => Server!Init
  BY DEF Init, Server!Init
<1>4. ServerInv /\ [Next]_vars => [Server!Next]_(Server!vars)
  BY ServerStep
<1>5. QED
  BY <1>1, <1>2, <1>3, <1>4, PTL DEF Spec, LlmServed, Server!Spec

-----------------------------------------------------------------------------
(* Sums.  BookedOn folds a set of bookings; the fold exists, is unique, and *)
(* of bookings whose size depends on their phase it is a sum of multiples.  *)

\* A set of subsets of a finite set has an element with no other below it.
LEMMA SmallestExists ==
  ASSUME NEW S, IsFiniteSet(S), NEW T, T \subseteq SUBSET S, T # {}
  PROVE  \E m \in T : \A u \in T : ~ (u \subseteq m /\ u # m)
  <1>1. T \subseteq FiniteSubsetsOf(S)
    BY FS_Subset DEF FiniteSubsetsOf
  <1>2. PICK m \in T : \A u \in T : ~ (<<u, m>> \in StrictSubsetOrdering(S))
    BY <1>1, FS_StrictSubsetOrderingWellFounded, WFMin
  <1> QED BY <1>2 DEF StrictSubsetOrdering

\* What MapThenSumSet makes of a set of bookings: it takes one, then another.
Sum(S) == MapThenSumSet(LAMBDA b : b.mb, S)
One(s) == CHOOSE x \in s : TRUE
Folds(f, S) ==
  f = [s \in SUBSET S |-> IF s = {} THEN 0 ELSE One(s).mb + f[s \ {One(s)}]]
Folded(S) == CHOOSE f : Folds(f, S)

\* The sum is what the fold of the set says of it.
LEMMA SumIsFolded ==
  ASSUME NEW S
  PROVE  Sum(S) = Folded(S)[S]
  BY DEF Sum, Folded, Folds, One, MapThenSumSet, MapThenFoldSet

\* What is taken from a set is in it.
LEMMA OneTaken == \A s : s # {} => One(s) \in s
  BY DEF One

\* A fold at a subset.
LEMMA FoldsAt ==
  ASSUME NEW S, NEW f, Folds(f, S), NEW s \in SUBSET S
  PROVE  f[s] = IF s = {} THEN 0 ELSE One(s).mb + f[s \ {One(s)}]
  <1> DEFINE F(t) == IF t = {} THEN 0 ELSE One(t).mb + f[t \ {One(t)}]
  <1> HIDE DEF F
  <1>1. f = [t \in SUBSET S |-> F(t)]
    BY DEF Folds, F
  <1>2. f[s] = F(s)
    BY <1>1
  <1> QED BY <1>2 DEF F

\* A finite set has one fold at most.
LEMMA FoldsAgree ==
  ASSUME NEW S, IsFiniteSet(S), NEW f, NEW h, Folds(f, S), Folds(h, S)
  PROVE  f = h
  <1> DEFINE T == {s \in SUBSET S : f[s] # h[s]}
  <1>1. T = {}
    <2> SUFFICES ASSUME T # {} PROVE FALSE
      OBVIOUS
    <2>0. T \subseteq SUBSET S
      OBVIOUS
    <2>1. PICK m \in T : \A u \in T : ~ (u \subseteq m /\ u # m)
      <3> HIDE DEF T
      <3> QED BY <2>0, SmallestExists
    <2>2. m # {}
      BY FoldsAt
    <2>3. m \ {One(m)} \notin T
      BY <2>1, <2>2, OneTaken
    <2> m \in SUBSET S
      OBVIOUS
    <2>4. f[m] = One(m).mb + f[m \ {One(m)}]
      <3> HIDE DEF T
      <3>1. f[m] = IF m = {} THEN 0 ELSE One(m).mb + f[m \ {One(m)}]
        BY FoldsAt
      <3> QED BY <2>2, <3>1
    <2>5. h[m] = One(m).mb + h[m \ {One(m)}]
      <3> HIDE DEF T
      <3> QED BY <2>2, FoldsAt
    <2> QED BY <2>3, <2>4, <2>5
  <1>2. \A s \in SUBSET S : f[s] = h[s]
    BY <1>1
  <1>3. f = [s \in SUBSET S |-> f[s]] /\ h = [s \in SUBSET S |-> h[s]]
    BY DEF Folds
  <1> HIDE DEF T
  <1> QED BY <1>2, <1>3

\* A fold restricted to the subsets of a part is the fold of the part.
LEMMA FoldsBelow ==
  ASSUME NEW S, NEW f, Folds(f, S), NEW U \in SUBSET S
  PROVE  Folds([s \in SUBSET U |-> f[s]], U)
  <1> DEFINE h == [s \in SUBSET U |-> f[s]]
             F(s) == IF s = {} THEN 0 ELSE One(s).mb + h[s \ {One(s)}]
  <1>1. \A s \in SUBSET U : s \ {One(s)} \in SUBSET U /\ s \in SUBSET S
    OBVIOUS
  <1>2. ASSUME NEW s \in SUBSET U PROVE f[s] = F(s)
    <2>1. f[s] = IF s = {} THEN 0 ELSE One(s).mb + f[s \ {One(s)}]
      BY FoldsAt
    <2> QED BY <2>1
  <1> HIDE DEF F
  <1>3. h = [s \in SUBSET U |-> F(s)]
    BY <1>2
  <1> QED BY <1>3 DEF Folds, F

\* A finite set has a fold.
LEMMA FoldExists ==
  ASSUME NEW S, IsFiniteSet(S)
  PROVE  Folds(Folded(S), S)
  <1> DEFINE T == {s \in SUBSET S : ~ \E f : Folds(f, s)}
  <1>1. T = {}
    <2> SUFFICES ASSUME T # {} PROVE FALSE
      OBVIOUS
    <2>0. T \subseteq SUBSET S
      OBVIOUS
    <2>1. PICK m \in T : \A u \in T : ~ (u \subseteq m /\ u # m)
      <3> HIDE DEF T
      <3> QED BY <2>0, SmallestExists
    <2>2. ASSUME NEW u \in SUBSET m, u # m PROVE Folds(Folded(u), u) /\ IsFiniteSet(u)
      <3>1. \E f : Folds(f, u)
        BY <2>1, <2>2
      <3>2. Folds(Folded(u), u)
        BY <3>1 DEF Folded
      <3> QED BY <2>2, <3>2, FS_Subset
    <2> DEFINE F(s) == IF s = {} THEN 0 ELSE One(s).mb + Folded(s \ {One(s)})[s \ {One(s)}]
               h == [s \in SUBSET m |-> F(s)]
    <2>3. ASSUME NEW u \in SUBSET m, u # m PROVE Folded(u)[u] = F(u)
      <3>1. Folded(u)[u] = IF u = {} THEN 0 ELSE One(u).mb + Folded(u)[u \ {One(u)}]
        BY <2>2, <2>3, FoldsAt
      <3>2. CASE u = {}
        BY <3>1, <3>2
      <3>3. CASE u # {}
        <4> DEFINE w == u \ {One(u)}
        <4>1. w \in SUBSET u /\ w \in SUBSET m /\ w # m
          BY <2>3
        <4>2. Folds([s \in SUBSET w |-> Folded(u)[s]], w)
          <5> HIDE DEF w
          <5>1. Folds(Folded(u), u) /\ w \in SUBSET u
            BY <2>2, <2>3, <4>1
          <5> QED BY <5>1, FoldsBelow
        <4>3. Folded(w) = [s \in SUBSET w |-> Folded(u)[s]]
          BY <2>2, <4>1, <4>2, FoldsAgree
        <4>4. Folded(w)[w] = Folded(u)[w]
          BY <4>3
        <4> QED BY <3>1, <3>3, <4>4
      <3> QED BY <3>2, <3>3
    <2>4. ASSUME NEW s \in SUBSET m, s # {}
          PROVE  h[s] = One(s).mb + h[s \ {One(s)}]
      <3>1. s \ {One(s)} \in SUBSET m /\ s \ {One(s)} # m
        BY <2>4, OneTaken
      <3>2. h[s \ {One(s)}] = F(s \ {One(s)})
        BY <3>1
      <3>3. Folded(s \ {One(s)})[s \ {One(s)}] = F(s \ {One(s)})
        BY <2>3, <3>1
      <3>4. h[s] = One(s).mb + Folded(s \ {One(s)})[s \ {One(s)}]
        BY <2>4
      <3> HIDE DEF F, h
      <3> QED BY <3>2, <3>3, <3>4
    <2>5. h[{}] = 0
      OBVIOUS
    <2>6. h = [s \in SUBSET m |-> h[s]]
      OBVIOUS
    <2> HIDE DEF h, F
    <2>7. Folds(h, m)
      <3> DEFINE G(s) == IF s = {} THEN 0 ELSE One(s).mb + h[s \ {One(s)}]
      <3>1. \A s \in SUBSET m : h[s] = G(s)
        BY <2>4, <2>5
      <3> HIDE DEF G
      <3>2. h = [s \in SUBSET m |-> G(s)]
        BY <2>6, <3>1
      <3> QED BY <3>2 DEF Folds, G
    <2> QED BY <2>1, <2>7
  <1>2. \E f : Folds(f, S)
    BY <1>1
  <1> QED BY <1>2 DEF Folded

\* The sum of no booking, and of one more.
LEMMA SumOneByOne ==
  ASSUME NEW S, IsFiniteSet(S)
  PROVE  IF S = {} THEN Sum(S) = 0 ELSE Sum(S) = One(S).mb + Sum(S \ {One(S)})
  <1>1. Folds(Folded(S), S)
    BY FoldExists
  <1>2. Folded(S)[S] = IF S = {} THEN 0 ELSE One(S).mb + Folded(S)[S \ {One(S)}]
    BY <1>1, FoldsAt
  <1> DEFINE U == S \ {One(S)}
  <1>3. U \in SUBSET S /\ IsFiniteSet(U)
    BY FS_Subset
  <1> HIDE DEF U
  <1>4. Folds([s \in SUBSET U |-> Folded(S)[s]], U)
    BY <1>1, <1>3, FoldsBelow
  <1>5. Folded(U) = [s \in SUBSET U |-> Folded(S)[s]]
    BY <1>3, <1>4, FoldExists, FoldsAgree
  <1>6. Folded(U)[U] = Folded(S)[U]
    BY <1>5
  <1> QED BY <1>2, <1>6, SumIsFolded DEF U

\* The multiples of a size.
LEMMA Multiples ==
  ASSUME NEW a \in Nat
  PROVE  /\ \A n \in Nat : a * n \in Nat /\ a * (n + 1) = a * n + a
         /\ \A m, n \in Nat : m <= n => a * m <= a * n
  <1>1. \A n \in Nat : a * n \in Nat /\ a * (n + 1) = a * n + a
    OBVIOUS
  <1>2. ASSUME NEW m \in Nat, NEW n \in Nat, m <= n PROVE a * m <= a * n
    <2>1. PICK k \in Nat : n = m + k
      <3>1. n - m \in Nat /\ n = m + (n - m)
        BY <1>2
      <3> QED BY <3>1
    <2>2. a * n = a * m + a * k
      BY <2>1
    <2>3. a * m \in Nat /\ a * k \in Nat
      OBVIOUS
    <2> QED BY <2>2, <2>3
  <1> QED BY <1>1, <1>2

\* The bookings of a phase, the size of each, and the size of all.
Of(S, phase) == {b \in S : b.phase = phase}
MbOf(phase) == IF phase = "stt" THEN SttMb ELSE IF phase = "llm" THEN LlmMb ELSE FacadeMb
Weight(S) ==
  SttMb * Cardinality(Of(S, "stt")) + LlmMb * Cardinality(Of(S, "llm"))
  + FacadeMb * Cardinality(Of(S, "live"))

\* A phase has one more booking, or as many.
LEMMA OneMoreBooking ==
  ASSUME NEW S, IsFiniteSet(S), NEW x \in S, NEW phase
  PROVE  /\ Cardinality(Of(S \ {x}, phase)) \in Nat
         /\ Cardinality(Of(S, phase)) = IF x.phase = phase
                                        THEN Cardinality(Of(S \ {x}, phase)) + 1
                                        ELSE Cardinality(Of(S \ {x}, phase))
  <1>1. IsFiniteSet(Of(S \ {x}, phase)) /\ Of(S \ {x}, phase) \in SUBSET S
    <2>1. Of(S \ {x}, phase) \in SUBSET S
      BY DEF Of
    <2> QED BY <2>1, FS_Subset
  <1>2. CASE x.phase = phase
    <2>1. Of(S, phase) = Of(S \ {x}, phase) \cup {x} /\ x \notin Of(S \ {x}, phase)
      BY <1>2 DEF Of
    <2> QED BY <1>1, <1>2, <2>1, FS_AddElement, FS_CardinalityType
  <1>3. CASE x.phase # phase
    <2>1. Of(S, phase) = Of(S \ {x}, phase)
      BY <1>3 DEF Of
    <2> QED BY <1>1, <1>3, <2>1, FS_CardinalityType
  <1> QED BY <1>2, <1>3

\* The sum of a set of bookings, phase by phase.
LEMMA SumByPhase ==
  ASSUME NEW S, IsFiniteSet(S),
         \A b \in S : b.phase \in {"stt", "llm", "live"} /\ b.mb = MbOf(b.phase)
  PROVE  Sum(S) = Weight(S)
  <1> DEFINE T == {s \in SUBSET S : Sum(s) # Weight(s)}
  <1>1. T = {}
    <2> SUFFICES ASSUME T # {} PROVE FALSE
      OBVIOUS
    <2>0. T \subseteq SUBSET S
      OBVIOUS
    <2>1. PICK m \in T : \A u \in T : ~ (u \subseteq m /\ u # m)
      <3> HIDE DEF T
      <3> QED BY <2>0, SmallestExists
    <2>2. m \in SUBSET S /\ IsFiniteSet(m) /\ Sum(m) # Weight(m)
      BY FS_Subset
    <2>3. m # {}
      <3>1. Of({}, "stt") = {} /\ Of({}, "llm") = {} /\ Of({}, "live") = {}
        BY DEF Of
      <3>2. Weight({}) = 0
        <4>1. Weight({}) = SttMb * 0 + LlmMb * 0 + FacadeMb * 0
          BY <3>1, FS_EmptySet DEF Weight
        <4>2. SttMb \in Nat /\ LlmMb \in Nat /\ FacadeMb \in Nat
          BY SizesAssumption
        <4> QED BY <4>1, <4>2
      <3>3. Sum({}) = 0
        BY FS_EmptySet, SumOneByOne
      <3> QED BY <2>2, <3>2, <3>3
    <2> DEFINE x == One(m)
               u == m \ {x}
    <2>4. x \in m /\ u \in SUBSET m /\ u # m
      BY <2>3, OneTaken
    <2>5. Sum(m) = x.mb + Sum(u)
      BY <2>2, <2>3, SumOneByOne
    <2>6. Sum(u) = Weight(u)
      BY <2>1, <2>2, <2>4
    <2>7. x.phase \in {"stt", "llm", "live"} /\ x.mb = MbOf(x.phase)
      BY <2>2, <2>4
    <2> HIDE DEF u, x, T
    <2>8. \A p \in {"stt", "llm", "live"} :
            /\ Cardinality(Of(u, p)) \in Nat
            /\ Cardinality(Of(m, p)) = IF x.phase = p THEN Cardinality(Of(u, p)) + 1
                                       ELSE Cardinality(Of(u, p))
      BY <2>2, <2>4, OneMoreBooking DEF u
    <2>9. Weight(m) = MbOf(x.phase) + Weight(u)
      <3> DEFINE s == Cardinality(Of(u, "stt"))
                 l == Cardinality(Of(u, "llm"))
                 v == Cardinality(Of(u, "live"))
      <3>1. s \in Nat /\ l \in Nat /\ v \in Nat
        BY <2>8
      <3>2. /\ SttMb * (s + 1) = SttMb * s + SttMb /\ SttMb * s \in Nat /\ SttMb \in Nat
            /\ LlmMb * (l + 1) = LlmMb * l + LlmMb /\ LlmMb * l \in Nat /\ LlmMb \in Nat
            /\ FacadeMb * (v + 1) = FacadeMb * v + FacadeMb /\ FacadeMb * v \in Nat
            /\ FacadeMb \in Nat
        BY <3>1, Multiples, SizesAssumption
      <3>3. CASE x.phase = "stt"
        <4>1. Weight(m) = SttMb * (s + 1) + LlmMb * l + FacadeMb * v
          BY <2>8, <3>3 DEF Weight
        <4> HIDE DEF s, l, v
        <4>2. Weight(u) = SttMb * s + LlmMb * l + FacadeMb * v
          BY DEF Weight, s, l, v
        <4> QED BY <3>2, <3>3, <4>1, <4>2 DEF MbOf
      <3>4. CASE x.phase = "llm"
        <4>1. Weight(m) = SttMb * s + LlmMb * (l + 1) + FacadeMb * v
          BY <2>8, <3>4 DEF Weight
        <4> HIDE DEF s, l, v
        <4>2. Weight(u) = SttMb * s + LlmMb * l + FacadeMb * v
          BY DEF Weight, s, l, v
        <4> QED BY <3>2, <3>4, <4>1, <4>2 DEF MbOf
      <3>5. CASE x.phase = "live"
        <4>1. Weight(m) = SttMb * s + LlmMb * l + FacadeMb * (v + 1)
          BY <2>8, <3>5 DEF Weight
        <4> HIDE DEF s, l, v
        <4>2. Weight(u) = SttMb * s + LlmMb * l + FacadeMb * v
          BY DEF Weight, s, l, v
        <4> QED BY <3>2, <3>5, <4>1, <4>2 DEF MbOf
      <3> QED BY <2>7, <3>3, <3>4, <3>5
    <2> QED BY <2>2, <2>5, <2>6, <2>7, <2>9
  <1> QED BY <1>1

-----------------------------------------------------------------------------
(* What is booked is what is running or is about to.  BookingInv says of a  *)
(* booking that it has the size of its phase, that a speech phase has one   *)
(* booking and only while it works, and that a launch of the LLM has the    *)
(* share of each of its cards.                                              *)

SttSteps == {"stt_load", "stt"}
Launching == {"ready", "preflight", "preyield", "launch", "load"}
Booked(b) ==
  IF b.by = Facade THEN b.phase = "live" /\ b.mb = FacadeMb
  ELSE \/ b.phase = "stt" /\ b.mb = SttMb /\ pc[b.by] \in SttSteps
       \/ b.phase = "llm" /\ b.mb = LlmMb /\ b.gpu \in LlmGpus
AllBooked == \A b \in booked : Booked(b)
OneCard ==
  \A b, c \in booked : b.phase = "stt" /\ c.phase = "stt" /\ b.by = c.by => b = c
Placed(j) ==
  /\ pc[j] = "stt_load" => \E b \in booked : b.by = j /\ b.phase = "stt"
  /\ resident[j] # NoGpu => pc[j] = "stt"
SharesHeld(j) ==
  pc[j] \in Launching /\ llm # "up" =>
    \A g \in LlmGpus : \E b \in booked : b.by = j /\ b.phase = "llm" /\ b.gpu = g
BookingInv ==
  /\ IsFiniteSet(booked) /\ AllBooked /\ OneCard
  /\ \A j \in Jobs : Placed(j) /\ SharesHeld(j)

\* The shares of an LLM are finitely many.
LEMMA SharesAreFinite ==
  ASSUME NEW j
  PROVE  IsFiniteSet(Shares(j))
  <1> DEFINE f == [g \in LlmGpus |-> [by |-> j, phase |-> "llm", gpu |-> g, mb |-> LlmMb]]
  <1>1. f \in Surjection(LlmGpus, Shares(j))
    BY DEF Shares, Surjection
  <1>2. IsFiniteSet(LlmGpus)
    BY GpusAssumption, FS_Subset
  <1> HIDE DEF f
  <1> QED BY <1>1, <1>2, FS_Surjection

\* A step that books nothing, and takes no booking from a job that works with it.
LEMMA BookingFrame ==
  ASSUME TypeOK, BookingInv, booked' \subseteq booked,
         \A j \in Jobs :
           \/ /\ pc'[j] = pc[j] /\ resident'[j] = resident[j]
              /\ \A b \in booked : b.by = j => b \in booked'
              /\ llm' = llm \/ pc[j] \notin Launching
           \/ /\ pc'[j] \notin {"stt_load"} \cup Launching
              /\ \A b \in booked' : b.by = j /\ b.phase = "stt" => pc'[j] \in SttSteps
              /\ resident'[j] # NoGpu => pc'[j] = "stt"
  PROVE  BookingInv'
  <1>1. IsFiniteSet(booked') /\ OneCard'
    <2>1. OneCard'
      BY DEF BookingInv, OneCard
    <2> QED BY <2>1, FS_Subset DEF BookingInv
  <1>2. AllBooked'
    <2> SUFFICES ASSUME NEW b \in booked' PROVE Booked(b)'
      BY DEF AllBooked
    <2>1. b \in booked /\ Booked(b)
      BY DEF BookingInv, AllBooked
    <2>2. b.by = Facade \/ b.by \in Jobs
      BY <2>1 DEF TypeOK, Booking
    <2> QED BY <2>1, <2>2 DEF Booked
  <1>3. ASSUME NEW j \in Jobs PROVE Placed(j)' /\ SharesHeld(j)'
    <2>1. Placed(j) /\ SharesHeld(j)
      BY DEF BookingInv
    <2> QED BY <2>1 DEF Placed, SharesHeld
  <1> QED BY <1>1, <1>2, <1>3 DEF BookingInv

\* Every step keeps BookingInv.
LEMMA BookingStep == TypeOK /\ LockIsHeld /\ BookingInv /\ [Next]_vars => BookingInv'
  <1> SUFFICES ASSUME TypeOK, LockIsHeld, BookingInv, [Next]_vars PROVE BookingInv'
    OBVIOUS
  <1> USE DEF SttSteps, Launching
  <1>f. ASSUME booked' \subseteq booked,
               \A j \in Jobs :
                 \/ /\ pc'[j] = pc[j] /\ resident'[j] = resident[j]
                    /\ \A b \in booked : b.by = j => b \in booked'
                    /\ llm' = llm \/ pc[j] \notin Launching
                 \/ /\ pc'[j] \notin {"stt_load"} \cup Launching
                    /\ \A b \in booked' : b.by = j /\ b.phase = "stt" => pc'[j] \in SttSteps
                    /\ resident'[j] # NoGpu => pc'[j] = "stt"
        PROVE  BookingInv'
    BY <1>f, BookingFrame
  <1>n. ASSUME NEW j \in Jobs, pc[j] \notin SttSteps
        PROVE  (\A b \in booked : b.by = j => b.phase # "stt") /\ resident[j] = NoGpu
    <2>1. \A b \in booked : b.by = j => b.phase # "stt"
      BY <1>n DEF BookingInv, AllBooked, Booked
    <2>2. resident[j] = NoGpu
      BY <1>n DEF BookingInv, Placed
    <2> QED BY <2>1, <2>2
  <1>e. ASSUME NEW t \in Threads, NEW to, pc' = [pc EXCEPT ![t] = to],
               UNCHANGED <<resident, booked>>, pc[t] \notin SttSteps, to \notin {"stt_load"} \cup Launching,
               llm' = llm \/ pc[t] \in Critical
        PROVE  BookingInv'
    <2>1. ASSUME NEW j \in Jobs, j # t
          PROVE  /\ pc'[j] = pc[j] /\ resident'[j] = resident[j]
                 /\ \A b \in booked : b.by = j => b \in booked'
                 /\ llm' = llm \/ pc[j] \notin Launching
      <3>1. pc'[j] = pc[j]
        BY <1>e, <2>1 DEF TypeOK
      <3>2. pc[t] \in Critical => pc[j] \notin Launching
        BY <2>1 DEF LockIsHeld, Critical, UsesLlm
      <3> QED BY <1>e, <3>1, <3>2
    <2>2. ASSUME t \in Jobs
          PROVE  /\ pc'[t] \notin {"stt_load"} \cup Launching
                 /\ \A b \in booked' : b.by = t /\ b.phase = "stt" => pc'[t] \in SttSteps
                 /\ resident'[t] # NoGpu => pc'[t] = "stt"
      <3>1. pc'[t] = to
        BY <1>e DEF TypeOK
      <3> QED BY <1>e, <1>n, <2>2, <3>1
    <2> QED BY <1>e, <1>f, <2>1, <2>2
  <1>1. ASSUME NEW j \in Jobs, Admit(j) PROVE BookingInv'
    BY <1>1, <1>e DEF Admit, To, job
  <1>5. ASSUME NEW j \in Jobs, TakeLlm(j) \/ TakeToReclaim(j) PROVE BookingInv'
    BY <1>5, <1>e DEF TakeLlm, TakeToReclaim, Take, To, job
  <1>6. ASSUME NEW j \in Jobs, LlmBusy(j) \/ NothingToReclaim(j) PROVE BookingInv'
    BY <1>6, <1>e DEF LlmBusy, NothingToReclaim, To, job
  <1>7. ASSUME NEW t \in Threads, Name(t) PROVE BookingInv'
    BY <1>7, <1>e DEF Name, To, job
  <1>14. ASSUME NEW j \in Jobs, Use(j) PROVE BookingInv'
    BY <1>14, <1>e DEF Use, To, Critical, UsesLlm
  <1>16. ASSUME NEW j \in Jobs, LeaveLlm(j) PROVE BookingInv'
    BY <1>16, <1>e DEF LeaveLlm, To, job
  <1>21. ASSUME NEW t \in Threads, StopLlm(t) PROVE BookingInv'
    BY <1>21, <1>e DEF StopLlm, To, job, Critical, Reclaims, Ends
  <1>22. ASSUME NEW t \in Threads, LeaveReclaim(t) PROVE BookingInv'
    BY <1>22, <1>e DEF LeaveReclaim, To, job
  <1>2. ASSUME NEW j \in Jobs, Reserve(j) PROVE BookingInv'
    <2>1. CASE Fitting(SttMb) = {}
      <3>1. pc' = [pc EXCEPT ![j] = IF pc[j] = "reserve" THEN "reclaim" ELSE "end"]
        BY <1>2, <2>1 DEF Reserve, To
      <3> QED BY <1>2, <1>e, <2>1, <3>1 DEF Reserve
    <2>2. CASE Fitting(SttMb) # {}
      <3>1. /\ pc' = [pc EXCEPT ![j] = "stt_load"] /\ pc[j] \in {"reserve", "again"}
            /\ UNCHANGED <<resident, llm>>
        BY <1>2, <2>2 DEF Reserve, To
      <3>2. PICK g \in Selected(SttMb) :
              booked' = booked \cup {[by |-> j, phase |-> "stt", gpu |-> g, mb |-> SttMb]}
        BY <1>2, <2>2 DEF Reserve
      <3> DEFINE new == [by |-> j, phase |-> "stt", gpu |-> g, mb |-> SttMb]
      <3>3. new.by = j /\ new.phase = "stt" /\ new.mb = SttMb /\ booked' = booked \cup {new}
        BY <3>2
      <3> HIDE DEF new
      <3>4. (\A b \in booked : b.by = j => b.phase # "stt") /\ resident[j] = NoGpu
        BY <1>n, <3>1
      <3>5. pc'[j] = "stt_load" /\ \A i \in Jobs \ {j} : pc'[i] = pc[i]
        BY <3>1 DEF TypeOK
      <3>6. IsFiniteSet(booked')
        BY <3>3, FS_AddElement DEF BookingInv
      <3>7. AllBooked'
        <4> SUFFICES ASSUME NEW b \in booked' PROVE Booked(b)'
          BY DEF AllBooked
        <4>1. CASE b = new
          BY <3>3, <3>5, <4>1 DEF Booked
        <4>2. CASE b \in booked
          <5>1. Booked(b) /\ (b.by = Facade \/ b.by \in Jobs)
            BY <4>2 DEF BookingInv, AllBooked, TypeOK, Booking
          <5> QED BY <3>5, <5>1 DEF Booked
        <4> QED BY <3>3, <4>1, <4>2
      <3>8. OneCard'
        BY <3>3, <3>4 DEF BookingInv, OneCard
      <3>9. ASSUME NEW i \in Jobs PROVE Placed(i)' /\ SharesHeld(i)'
        <4>1. Placed(i) /\ SharesHeld(i)
          BY DEF BookingInv
        <4> QED BY <3>1, <3>3, <3>4, <3>5, <4>1 DEF Placed, SharesHeld
      <3> QED BY <3>6, <3>7, <3>8, <3>9 DEF BookingInv
    <2> QED BY <2>1, <2>2
  <1>3. ASSUME NEW j \in Jobs, Load(j) PROVE BookingInv'
    <2>1. /\ UNCHANGED <<booked, llm>>
          /\ pc[j] = "stt_load" /\ pc'[j] = "stt" /\ \A i \in Jobs \ {j} : pc'[i] = pc[i]
          /\ \A i \in Jobs \ {j} : resident'[i] = resident[i]
      BY <1>3 DEF Load, To, TypeOK
    <2> QED BY <1>f, <2>1
  <1>4. ASSUME NEW j \in Jobs, Transcribe(j) PROVE BookingInv'
    <2>1. /\ llm' = llm /\ booked' = Released(j, "stt")
          /\ pc'[j] \in {"wait", "end"} /\ \A i \in Jobs \ {j} : pc'[i] = pc[i]
          /\ resident'[j] = NoGpu /\ \A i \in Jobs \ {j} : resident'[i] = resident[i]
      BY <1>4 DEF Transcribe, To, TypeOK
    <2> QED BY <1>f, <2>1 DEF Released
  <1>8. ASSUME NEW j \in Jobs, Probe(j) PROVE BookingInv'
    <2>1. /\ UNCHANGED <<booked, resident, llm>> /\ pc[j] = "probe"
          /\ pc'[j] = (IF llm = "up" THEN "ready" ELSE "book")
          /\ \A i \in Jobs \ {j} : pc'[i] = pc[i]
      BY <1>8 DEF Probe, To, TypeOK
    <2>2. CASE llm = "up"
      <3>1. ASSUME NEW i \in Jobs PROVE Placed(i)' /\ SharesHeld(i)'
        <4>1. Placed(i) /\ SharesHeld(i)
          BY DEF BookingInv
        <4> QED BY <2>1, <2>2, <4>1 DEF Placed, SharesHeld
      <3>2. AllBooked'
        <4> SUFFICES ASSUME NEW b \in booked PROVE Booked(b)'
          BY <2>1 DEF AllBooked
        <4>1. Booked(b) /\ (b.by = Facade \/ b.by \in Jobs)
          BY DEF BookingInv, AllBooked, TypeOK, Booking
        <4> QED BY <2>1, <4>1 DEF Booked
      <3> QED BY <2>1, <3>1, <3>2 DEF BookingInv, OneCard
    <2>3. CASE llm # "up"
      BY <1>e, <1>8, <2>3 DEF Probe, To
    <2> QED BY <2>2, <2>3
  <1>9. ASSUME NEW j \in Jobs, Book(j) PROVE BookingInv'
    <2>1. CASE ~HostsLlm
      <3>1. pc' = [pc EXCEPT ![j] = IF pc[j] = "book" THEN "press" ELSE "out"]
        BY <1>9, <2>1 DEF Book, To
      <3> QED BY <1>9, <1>e, <2>1, <3>1 DEF Book
    <2>2. CASE HostsLlm
      <3>1. /\ booked' = booked \cup Shares(j) /\ UNCHANGED <<resident, llm>>
            /\ pc[j] \in {"book", "rebook"} /\ pc'[j] = "ready"
            /\ \A i \in Jobs \ {j} : pc'[i] = pc[i]
        BY <1>9, <2>2 DEF Book, To, TypeOK
      <3>2. \A b \in Shares(j) : /\ b.by = j /\ b.phase = "llm" /\ b.mb = LlmMb
                                 /\ b.gpu \in LlmGpus
        BY DEF Shares
      <3>3. \A g \in LlmGpus : \E b \in Shares(j) : b.gpu = g
        <4> SUFFICES ASSUME NEW g \in LlmGpus PROVE \E b \in Shares(j) : b.gpu = g
          OBVIOUS
        <4>1. [by |-> j, phase |-> "llm", gpu |-> g, mb |-> LlmMb] \in Shares(j)
          BY DEF Shares
        <4> QED BY <4>1
      <3>4. IsFiniteSet(booked')
        BY <3>1, SharesAreFinite, FS_Union DEF BookingInv
      <3>5. AllBooked'
        <4> SUFFICES ASSUME NEW b \in booked' PROVE Booked(b)'
          BY DEF AllBooked
        <4>1. CASE b \in Shares(j)
          BY <3>2, <4>1 DEF Booked
        <4>2. CASE b \in booked
          <5>1. Booked(b) /\ (b.by = Facade \/ b.by \in Jobs)
            BY <4>2 DEF BookingInv, AllBooked, TypeOK, Booking
          <5> QED BY <3>1, <5>1 DEF Booked
        <4> QED BY <3>1, <4>1, <4>2
      <3>6. OneCard'
        BY <3>1, <3>2 DEF BookingInv, OneCard
      <3>7. ASSUME NEW i \in Jobs PROVE Placed(i)' /\ SharesHeld(i)'
        <4>1. Placed(i) /\ SharesHeld(i)
          BY DEF BookingInv
        <4>2. CASE i = j
          <5>1. resident[j] = NoGpu
            BY <1>n, <3>1
          <5> QED BY <3>1, <3>2, <3>3, <4>2, <5>1 DEF Placed, SharesHeld
        <4>3. CASE i # j
          BY <3>1, <4>1, <4>3 DEF Placed, SharesHeld
        <4> QED BY <4>2, <4>3
      <3> QED BY <3>4, <3>5, <3>6, <3>7 DEF BookingInv
    <2> QED BY <2>1, <2>2
  <1>10. ASSUME NEW j \in Jobs, Press(j) PROVE BookingInv'
    <2>1. /\ UNCHANGED <<booked, resident, llm>> /\ pc[j] \in {"press", "preflight"}
          /\ pc'[j] \in IF pc[j] = "press" THEN {"yield", "rebook"} ELSE {"preyield", "launch"}
          /\ \A i \in Jobs \ {j} : pc'[i] = pc[i]
      BY <1>10 DEF Press, To, TypeOK, job
    <2>2. ASSUME NEW i \in Jobs PROVE Placed(i)' /\ SharesHeld(i)'
      <3>1. Placed(i) /\ SharesHeld(i)
        BY DEF BookingInv
      <3> QED BY <2>1, <3>1 DEF Placed, SharesHeld
    <2>3. AllBooked'
      <3> SUFFICES ASSUME NEW b \in booked PROVE Booked(b)'
        BY <2>1 DEF AllBooked
      <3>1. Booked(b) /\ (b.by = Facade \/ b.by \in Jobs)
        BY DEF BookingInv, AllBooked, TypeOK, Booking
      <3> QED BY <2>1, <3>1 DEF Booked
    <2> QED BY <2>1, <2>2, <2>3 DEF BookingInv, OneCard
  <1>11. ASSUME NEW j \in Jobs, Yield(j) PROVE BookingInv'
    <2>1. /\ UNCHANGED <<resident, llm>> /\ booked' = ReleasedAll(Facade)
          /\ pc[j] \in {"yield", "preyield"}
          /\ pc'[j] = (IF pc[j] = "yield" THEN "rebook" ELSE "launch")
          /\ \A i \in Jobs \ {j} : pc'[i] = pc[i]
      BY <1>11 DEF Yield, Unbook, To, TypeOK, job
    <2>2. booked' \subseteq booked /\ \A b \in booked : b.by \in Jobs => b \in booked'
      BY <2>1 DEF ReleasedAll
    <2>3. ASSUME NEW i \in Jobs PROVE Placed(i)' /\ SharesHeld(i)'
      <3>1. Placed(i) /\ SharesHeld(i)
        BY DEF BookingInv
      <3> QED BY <2>1, <2>2, <3>1 DEF Placed, SharesHeld
    <2>4. AllBooked'
      <3> SUFFICES ASSUME NEW b \in booked' PROVE Booked(b)'
        BY DEF AllBooked
      <3>1. Booked(b) /\ (b.by = Facade \/ b.by \in Jobs)
        BY <2>2 DEF BookingInv, AllBooked, TypeOK, Booking
      <3> QED BY <2>1, <3>1 DEF Booked
    <2>5. IsFiniteSet(booked') /\ OneCard'
      <3>1. OneCard'
        BY <2>2 DEF BookingInv, OneCard
      <3> QED BY <2>2, <3>1, FS_Subset DEF BookingInv
    <2> QED BY <2>3, <2>4, <2>5 DEF BookingInv
  <1>12. ASSUME NEW j \in Jobs, Ready(j) PROVE BookingInv'
    <2>1. /\ UNCHANGED <<booked, resident>> /\ pc[j] \in {"ready", "launch"}
          /\ \A i \in Jobs \ {j} : pc'[i] = pc[i]
          /\ \/ pc'[j] \in {"use", "out"} /\ llm' = llm
             \/ llm # "up" /\ pc'[j] = "load" /\ llm' = "loading"
             \/ llm # "up" /\ pc'[j] = "preflight" /\ llm' = llm
      BY <1>12 DEF Ready, To, TypeOK
    <2>2. ASSUME NEW i \in Jobs PROVE Placed(i)' /\ SharesHeld(i)'
      <3>1. Placed(i) /\ SharesHeld(i)
        BY DEF BookingInv
      <3>2. CASE i = j
        BY <2>1, <3>1, <3>2 DEF Placed, SharesHeld
      <3>3. CASE i # j
        <4>1. pc[i] \notin Launching
          BY <2>1, <3>3 DEF LockIsHeld, Critical, UsesLlm
        <4> QED BY <2>1, <3>1, <3>3, <4>1 DEF Placed, SharesHeld
      <3> QED BY <3>2, <3>3
    <2>3. AllBooked'
      <3> SUFFICES ASSUME NEW b \in booked PROVE Booked(b)'
        BY <2>1 DEF AllBooked
      <3>1. Booked(b) /\ (b.by = Facade \/ b.by \in Jobs)
        BY DEF BookingInv, AllBooked, TypeOK, Booking
      <3> QED BY <2>1, <3>1 DEF Booked
    <2> QED BY <2>1, <2>2, <2>3 DEF BookingInv, OneCard
  <1>13. ASSUME NEW j \in Jobs, Loaded(j) PROVE BookingInv'
    <2>1. /\ UNCHANGED <<booked, resident>> /\ pc[j] = "load"
          /\ \E to \in {"use", "out"} : pc' = [pc EXCEPT ![j] = to]
      BY <1>13 DEF Loaded, To
    <2> QED BY <1>e, <2>1 DEF Critical, UsesLlm
  <1>15. ASSUME NEW j \in Jobs, LeavePhase(j) PROVE BookingInv'
    <2>1. /\ UNCHANGED <<resident, llm>> /\ booked' = Released(j, "llm")
          /\ pc[j] = "out" /\ pc'[j] = "free" /\ \A i \in Jobs \ {j} : pc'[i] = pc[i]
      BY <1>15 DEF LeavePhase, To, TypeOK, job
    <2> QED BY <1>f, <1>n, <2>1 DEF Released
  <1>17. ASSUME NEW j \in Jobs, Export(j) PROVE BookingInv'
    <2>1. CASE pc[j] = "export"
      <3>1. /\ UNCHANGED <<resident, llm>> /\ booked' = ReleasedAll(j)
            /\ pc'[j] = "export_llm" /\ \A i \in Jobs \ {j} : pc'[i] = pc[i]
        BY <1>17, <2>1 DEF Export, To, TypeOK, job
      <3> QED BY <1>f, <1>n, <2>1, <3>1 DEF ReleasedAll
    <2>2. CASE pc[j] # "export"
      BY <1>17, <1>e, <2>2 DEF Export, To, job
    <2> QED BY <2>1, <2>2
  <1>18. ASSUME NEW j \in Jobs, EndPipeline(j) PROVE BookingInv'
    <2>1. CASE Take(j, "end", "end_own")
      BY <1>18, <1>e, <2>1 DEF EndPipeline, Take, To, job, ReleaseLlm
    <2>2. CASE ~Take(j, "end", "end_own")
      <3>1. /\ UNCHANGED <<resident, llm, out>> /\ booked' = ReleasedAll(j)
            /\ pc[j] \in {"end", "end_free"} /\ pc' = [pc EXCEPT ![j] = out[j]]
        BY <1>18, <2>2 DEF EndPipeline, OnDone, job
      <3>2. pc'[j] \in {"queued", "done"} /\ \A i \in Jobs \ {j} : pc'[i] = pc[i]
        BY <3>1 DEF TypeOK
      <3> QED BY <1>f, <1>n, <3>1, <3>2 DEF ReleasedAll
    <2> QED BY <2>1, <2>2
  <1>23. ASSUME NEW j \in Jobs, SchedReclaim(j) \/ Retest(j) PROVE BookingInv'
    <2>1. /\ UNCHANGED <<resident, llm, booked>> /\ pc[j] \in {"queued", "asked"}
          /\ pc'[j] \in {"asked", "reserve", "queued"}
          /\ \A i \in Jobs \ {j} : pc'[i] = pc[i]
      BY <1>23 DEF SchedReclaim, Retest, TypeOK, job
    <2> QED BY <1>f, <1>n, <2>1
  <1>27. CASE LiveRequest
    <2>1. UNCHANGED <<pc, resident, llm>>
      BY <1>27 DEF LiveRequest, job
    <2>2. CASE booked' = booked
      BY <1>f, <2>1, <2>2
    <2>3. CASE booked' # booked
      <3>1. PICK g \in Gpus \cup {DefaultGpu, NoGpu} \cup {b.gpu : b \in booked} \cup Selected(FacadeMb) :
              booked' = {b \in booked : b.by # Facade} \cup
                          {[by |-> Facade, phase |-> "live", gpu |-> g, mb |-> FacadeMb]}
        BY <1>27, <2>3 DEF LiveRequest
      <3> DEFINE new == [by |-> Facade, phase |-> "live", gpu |-> g, mb |-> FacadeMb]
                 kept == {b \in booked : b.by # Facade}
      <3>2. new.by = Facade /\ new.phase = "live" /\ new.mb = FacadeMb
        OBVIOUS
      <3>3. booked' = kept \cup {new}
        BY <3>1
      <3>4. kept \subseteq booked /\ \A b \in booked : b.by \in Jobs => b \in kept
        OBVIOUS
      <3> HIDE DEF new, kept
      <3>5. IsFiniteSet(booked')
        BY <3>3, <3>4, FS_AddElement, FS_Subset DEF BookingInv
      <3>6. AllBooked'
        <4> SUFFICES ASSUME NEW b \in booked' PROVE Booked(b)'
          BY DEF AllBooked
        <4>1. CASE b = new
          BY <3>2, <4>1 DEF Booked
        <4>2. CASE b \in booked
          BY <2>1, <4>2 DEF BookingInv, AllBooked, Booked
        <4> QED BY <3>3, <3>4, <4>1, <4>2
      <3>7. OneCard'
        BY <3>2, <3>3, <3>4 DEF BookingInv, OneCard
      <3>8. ASSUME NEW i \in Jobs PROVE Placed(i)' /\ SharesHeld(i)'
        <4>1. Placed(i) /\ SharesHeld(i)
          BY DEF BookingInv
        <4> QED BY <2>1, <3>3, <3>4, <4>1 DEF Placed, SharesHeld
      <3> QED BY <3>5, <3>6, <3>7, <3>8 DEF BookingInv
    <2> QED BY <2>2, <2>3
  <1>28. CASE LiveLoad \/ LiveAnswer \/ UNCHANGED vars
    <2>1. UNCHANGED <<pc, resident, llm, booked>>
      BY <1>28 DEF LiveLoad, LiveAnswer, vars, job
    <2> QED BY <1>f, <2>1
  <1>30. CASE Timer
    <2>1. UNCHANGED <<pc, resident, llm>> /\ (booked' = booked \/ booked' = ReleasedAll(Facade))
      BY <1>30 DEF Timer, Unbook, job
    <2> QED BY <1>f, <2>1 DEF ReleasedAll
  <1> QED
    BY <1>1, <1>2, <1>3, <1>4, <1>5, <1>6, <1>7, <1>8, <1>9, <1>10, <1>11, <1>12, <1>13,
       <1>14, <1>15, <1>16, <1>17, <1>18, <1>21, <1>22, <1>23, <1>27, <1>28, <1>30
       DEF Next, Work, SchedWork, LiveWork

-----------------------------------------------------------------------------
(* What is admitted on a card, part by part.                                *)

OnCard(g) == {b \in booked : b.gpu = g}
Residents(g) == {j \in Jobs : resident[j] = g}
Unloaded(g) == {b \in booked : b.gpu = g /\ b.phase = "stt" /\ resident[b.by] = NoGpu}
Speech(g) == Cardinality(Residents(g)) + Cardinality(Unloaded(g))
LlmCounted(g) ==
  g \in LlmGpus /\ (llm = "up" \/ \E b \in booked : b.gpu = g /\ b.phase = "llm")
Counted(speech, llmOn, facadeOn) ==
  SttMb * speech + (IF llmOn THEN LlmMb ELSE 0) + (IF facadeOn THEN FacadeMb ELSE 0)

\* The models and bookings of a card are finitely many.
LEMMA CardIsFinite ==
  ASSUME NEW g
  PROVE  /\ IsFiniteSet(booked) => IsFiniteSet(Unloaded(g)) /\ IsFiniteSet(OnCard(g))
         /\ IsFiniteSet(booked') => IsFiniteSet(Unloaded(g)')
         /\ IsFiniteSet(Residents(g)) /\ IsFiniteSet(Residents(g)')
         /\ IsFiniteSet(FacadeModels(g))
  <1>1. Unloaded(g) \in SUBSET booked /\ OnCard(g) \in SUBSET booked
        /\ Unloaded(g)' \in SUBSET booked'
    BY DEF Unloaded, OnCard
  <1>2. Residents(g) \in SUBSET Jobs /\ Residents(g)' \in SUBSET Jobs
    BY DEF Residents
  <1>3. FacadeModels(g) \in SUBSET {"cached", "dropped"}
    BY DEF FacadeModels
  <1>4. IsFiniteSet({"cached", "dropped"})
    <2>1. {"cached", "dropped"} = {"cached"} \cup {"dropped"}
      OBVIOUS
    <2>2. IsFiniteSet({"cached"})
      BY FS_Singleton
    <2>3. IsFiniteSet({"cached"} \cup {"dropped"})
      BY <2>2, FS_AddElement
    <2> QED BY <2>1, <2>3
  <1> QED BY <1>1, <1>2, <1>3, <1>4, FS_Subset

\* Speech models, loaded or not, the LLM once, the facade's model once.
LEMMA AdmittedIs ==
  ASSUME TypeOK, BookingInv, NEW g \in Gpus
  PROVE  /\ Speech(g) \in Nat
         /\ Admitted(g) = Counted(Speech(g), LlmCounted(g), FacadeCounted(g))
  <1>1. LlmOn(g) + (IF llm # "up" /\ \E b \in booked : b.gpu = g /\ b.phase = "llm"
                    THEN LlmMb ELSE 0)
          = IF LlmCounted(g) THEN LlmMb ELSE 0
    <2>1. \A b \in booked : b.gpu = g /\ b.phase = "llm" => g \in LlmGpus
      BY DEF BookingInv, AllBooked, Booked
    <2> QED BY <2>1, SizesAssumption DEF LlmOn, LlmCounted
  <1> DEFINE r == Cardinality(Residents(g))
             u == Cardinality(Unloaded(g))
             a == LlmOn(g)
             c == IF llm # "up" /\ \E b \in booked : b.gpu = g /\ b.phase = "llm"
                  THEN LlmMb ELSE 0
             d == IF FacadeCounted(g) THEN FacadeMb ELSE 0
  <1>2. r \in Nat /\ u \in Nat
    BY CardIsFinite, FS_CardinalityType DEF BookingInv
  <1>3. a \in Nat /\ c \in Nat /\ d \in Nat /\ SttMb \in Nat
    BY SizesAssumption DEF LlmOn
  <1>4. Admitted(g) = a + SttMb * r + SttMb * u + c + d
    BY DEF Admitted, JobsOn, Residents, Unloaded
  <1>5. Counted(Speech(g), LlmCounted(g), FacadeCounted(g)) = SttMb * (r + u) + (a + c) + d
    BY <1>1 DEF Counted, Speech
  <1>6. Speech(g) = r + u
    BY DEF Speech
  <1> HIDE DEF r, u, a, c, d
  <1>7. SttMb * (r + u) = SttMb * r + SttMb * u /\ SttMb * r \in Nat /\ SttMb * u \in Nat
    BY <1>2, <1>3
  <1> QED BY <1>2, <1>3, <1>4, <1>5, <1>6, <1>7

\* The same after a step.
LEMMA AdmittedIsNext ==
  ASSUME TypeOK', BookingInv', NEW g \in Gpus
  PROVE  /\ Speech(g)' \in Nat
         /\ Admitted(g)' = Counted(Speech(g)', LlmCounted(g)', FacadeCounted(g)')
  <1>1. LlmOn(g)' + (IF llm' # "up" /\ \E b \in booked' : b.gpu = g /\ b.phase = "llm"
                     THEN LlmMb ELSE 0)
          = IF LlmCounted(g)' THEN LlmMb ELSE 0
    <2>1. \A b \in booked' : b.gpu = g /\ b.phase = "llm" => g \in LlmGpus
      BY DEF BookingInv, AllBooked, Booked
    <2> QED BY <2>1, SizesAssumption DEF LlmOn, LlmCounted
  <1> DEFINE r == Cardinality(Residents(g)')
             u == Cardinality(Unloaded(g)')
             a == LlmOn(g)'
             c == IF llm' # "up" /\ \E b \in booked' : b.gpu = g /\ b.phase = "llm"
                  THEN LlmMb ELSE 0
             d == IF FacadeCounted(g)' THEN FacadeMb ELSE 0
  <1>2. r \in Nat /\ u \in Nat
    BY CardIsFinite, FS_CardinalityType DEF BookingInv
  <1>3. a \in Nat /\ c \in Nat /\ d \in Nat /\ SttMb \in Nat
    BY SizesAssumption DEF LlmOn
  <1>4. Admitted(g)' = a + SttMb * r + SttMb * u + c + d
    BY DEF Admitted, JobsOn, Residents, Unloaded
  <1>5. Counted(Speech(g)', LlmCounted(g)', FacadeCounted(g)') = SttMb * (r + u) + (a + c) + d
    BY <1>1 DEF Counted, Speech
  <1>6. Speech(g)' = r + u
    BY DEF Speech
  <1> HIDE DEF r, u, a, c, d
  <1>7. SttMb * (r + u) = SttMb * r + SttMb * u /\ SttMb * r \in Nat /\ SttMb * u \in Nat
    BY <1>2, <1>3
  <1> QED BY <1>2, <1>3, <1>4, <1>5, <1>6, <1>7

\* A step after which no more speech models, no LLM and no facade model are counted
\* on a card than before.
LEMMA NoMoreAdmitted ==
  ASSUME TypeOK, TypeOK', BookingInv, BookingInv', NEW g \in Gpus,
         Speech(g)' <= Speech(g), LlmCounted(g)' => LlmCounted(g),
         FacadeCounted(g)' => FacadeCounted(g)
  PROVE  Admitted(g)' <= Admitted(g)
  <1>1. Speech(g) \in Nat /\ Speech(g)' \in Nat
    BY AdmittedIs, AdmittedIsNext
  <1>2. SttMb * Speech(g)' <= SttMb * Speech(g)
        /\ SttMb * Speech(g)' \in Nat /\ SttMb * Speech(g) \in Nat
    BY <1>1, Multiples, SizesAssumption
  <1>3. LlmMb \in Nat /\ FacadeMb \in Nat
    BY SizesAssumption
  <1>4. Admitted(g) = Counted(Speech(g), LlmCounted(g), FacadeCounted(g))
        /\ Admitted(g)' = Counted(Speech(g)', LlmCounted(g)', FacadeCounted(g)')
    BY AdmittedIs, AdmittedIsNext
  <1> QED BY <1>2, <1>3, <1>4 DEF Counted

\* An admission finds room beside all that is admitted already.
LEMMA RoomFound ==
  ASSUME TypeOK, BookingInv, NEW g \in Gpus, NEW need \in Nat \ {0},
         Available(g) >= need + MinFree
  PROVE  Admitted(g) + need <= Capacity
  <1> DEFINE x == RealFree(g) - BookedOn(g)
             r == Cardinality(Residents(g))
             u == Cardinality(Unloaded(g))
             f == Cardinality(FacadeModels(g))
             s == Cardinality(Of(OnCard(g), "stt"))
             l == Cardinality(Of(OnCard(g), "llm"))
             v == Cardinality(Of(OnCard(g), "live"))
  <1>1. IsFiniteSet(OnCard(g)) /\ IsFiniteSet(Unloaded(g))
    BY CardIsFinite DEF BookingInv
  <1>2. r \in Nat /\ u \in Nat /\ f \in Nat
    BY <1>1, CardIsFinite, FS_CardinalityType
  <1>3. \A p : IsFiniteSet(Of(OnCard(g), p)) /\ Cardinality(Of(OnCard(g), p)) \in Nat
    <2>1. \A p : Of(OnCard(g), p) \in SUBSET OnCard(g)
      BY DEF Of
    <2> QED BY <1>1, <2>1, FS_Subset, FS_CardinalityType
  <1>4. s \in Nat /\ l \in Nat /\ v \in Nat
    BY <1>3
  <1>5. u <= s
    <2>1. Unloaded(g) \in SUBSET Of(OnCard(g), "stt")
      BY DEF Unloaded, Of, OnCard
    <2> QED BY <1>3, <2>1, FS_Subset
  <1>6. LlmCounted(g) /\ llm # "up" => l >= 1
    <2> SUFFICES ASSUME LlmCounted(g), llm # "up" PROVE l >= 1
      OBVIOUS
    <2>1. Of(OnCard(g), "llm") # {}
      BY DEF LlmCounted, Of, OnCard
    <2>2. l # 0
      BY <1>3, <2>1, FS_EmptySet
    <2> QED BY <1>4, <2>2
  <1>7. FacadeCounted(g) => v >= 1
    <2> SUFFICES ASSUME FacadeCounted(g) PROVE v >= 1
      OBVIOUS
    <2>1. Of(OnCard(g), "live") # {}
      BY DEF FacadeCounted, Of, OnCard, BookingInv, AllBooked, Booked
    <2>2. v # 0
      BY <1>3, <2>1, FS_EmptySet
    <2> QED BY <1>4, <2>2
  <1>8. BookedOn(g) = SttMb * s + LlmMb * l + FacadeMb * v
    <2>1. \A b \in OnCard(g) : b.phase \in {"stt", "llm", "live"} /\ b.mb = MbOf(b.phase)
      BY DEF OnCard, BookingInv, AllBooked, Booked, MbOf
    <2>2. BookedOn(g) = Sum(OnCard(g))
      BY DEF BookedOn, Sum, OnCard
    <2> QED BY <1>1, <2>1, <2>2, SumByPhase DEF Weight
  <1>9. RealFree(g) = Capacity - LlmOn(g) - SttMb * r - FacadeMb * f
    BY DEF RealFree, JobsOn, Residents
  <1>10. /\ Admitted(g) = Counted(Speech(g), LlmCounted(g), FacadeCounted(g))
         /\ Speech(g) = r + u
    BY AdmittedIs DEF Speech
  <1>11. LlmOn(g) = IF LlmCounted(g) /\ llm = "up" THEN LlmMb ELSE 0
    BY DEF LlmOn, LlmCounted
  <1>12. Available(g) = Max({0, x})
    BY DEF Available
  <1> HIDE DEF x, r, u, f, s, l, v
  <1>13. /\ SttMb \in Nat /\ LlmMb \in Nat /\ FacadeMb \in Nat
         /\ Capacity \in Nat /\ MinFree \in Nat
    BY SizesAssumption
  <1>14. /\ SttMb * r \in Nat /\ SttMb * u \in Nat /\ SttMb * s \in Nat /\ SttMb * u <= SttMb * s
         /\ LlmMb * l \in Nat /\ FacadeMb * v \in Nat /\ FacadeMb * f \in Nat
    BY <1>2, <1>4, <1>5, <1>13, Multiples
  <1>15. (l >= 1 => LlmMb <= LlmMb * l) /\ (v >= 1 => FacadeMb <= FacadeMb * v)
    <2>1. LlmMb * 1 = LlmMb /\ FacadeMb * 1 = FacadeMb
      BY <1>13
    <2> QED BY <1>4, <1>13, <2>1, Multiples
  <1>16. SttMb * Speech(g) = SttMb * r + SttMb * u
    BY <1>2, <1>10, <1>13
  <1>17. LlmOn(g) \in Nat
    BY <1>11, <1>13
  <1>18. RealFree(g) \in Int /\ BookedOn(g) \in Nat
    BY <1>8, <1>9, <1>13, <1>14, <1>17
  <1>19. x \in Int /\ x = RealFree(g) - BookedOn(g)
    BY <1>18 DEF x
  <1>20. x >= need + MinFree
    <2>1. Max({0, x}) \in {0, x}
      <3>1. \E y \in {0, x} : \A z \in {0, x} : y >= z
        BY <1>19
      <3> QED BY <3>1 DEF Max
    <2> QED BY <1>12, <1>13, <1>19, <2>1
  <1>21. Capacity >= LlmOn(g) + SttMb * r + SttMb * s + LlmMb * l + FacadeMb * v + need
    BY <1>8, <1>9, <1>13, <1>14, <1>17, <1>18, <1>19, <1>20
  <1>22. (IF LlmCounted(g) THEN LlmMb ELSE 0) <= LlmOn(g) + LlmMb * l
    BY <1>6, <1>11, <1>13, <1>14, <1>15
  <1>23. (IF FacadeCounted(g) THEN FacadeMb ELSE 0) <= FacadeMb * v
    BY <1>7, <1>13, <1>14, <1>15
  <1>24. Admitted(g) = SttMb * r + SttMb * u + (IF LlmCounted(g) THEN LlmMb ELSE 0)
                         + (IF FacadeCounted(g) THEN FacadeMb ELSE 0)
    BY <1>10, <1>16 DEF Counted
  <1> DEFINE p == IF LlmCounted(g) THEN LlmMb ELSE 0
             q == IF FacadeCounted(g) THEN FacadeMb ELSE 0
  <1>25. p \in Nat /\ q \in Nat
    BY <1>13
  <1>26. p <= LlmOn(g) + LlmMb * l /\ q <= FacadeMb * v /\ Admitted(g) = SttMb * r + SttMb * u + p + q
    BY <1>22, <1>23, <1>24
  <1> HIDE DEF p, q
  <1> QED BY <1>13, <1>14, <1>17, <1>21, <1>25, <1>26

\* Every step keeps what is admitted within the cards.
LEMMA FitStep ==
  TypeOK /\ TypeOK' /\ LockIsHeld /\ BookingInv /\ BookingInv' /\ AdmittedFit /\ [Next]_vars
    => AdmittedFit'
  <1> SUFFICES ASSUME TypeOK, TypeOK', LockIsHeld, BookingInv, BookingInv', AdmittedFit,
                      [Next]_vars
               PROVE  AdmittedFit'
    OBVIOUS
  <1>n. ASSUME NEW g \in Gpus, Speech(g)' <= Speech(g), LlmCounted(g)' => LlmCounted(g),
               FacadeCounted(g)' => FacadeCounted(g)
        PROVE  Admitted(g)' <= Capacity
    <2>1. Admitted(g)' <= Admitted(g) /\ Admitted(g) <= Capacity
      BY <1>n, NoMoreAdmitted DEF AdmittedFit
    <2>2. Admitted(g) \in Nat /\ Admitted(g)' \in Nat /\ Capacity \in Nat
      BY AdmittedIs, AdmittedIsNext, SizesAssumption, Multiples DEF Counted
    <2> QED BY <2>1, <2>2
  <1>s. ASSUME NEW g \in Gpus, resident' = resident,
               \A b \in booked' : b.phase = "stt" => b \in booked
        PROVE  Speech(g)' <= Speech(g)
    <2>1. Unloaded(g)' \in SUBSET Unloaded(g) /\ Residents(g)' = Residents(g)
      BY <1>s DEF Unloaded, Residents
    <2>2. IsFiniteSet(Unloaded(g)) /\ IsFiniteSet(Unloaded(g)') /\ IsFiniteSet(Residents(g))
      BY CardIsFinite DEF BookingInv
    <2>3. /\ Cardinality(Unloaded(g)') <= Cardinality(Unloaded(g))
          /\ Cardinality(Unloaded(g)) \in Nat /\ Cardinality(Unloaded(g)') \in Nat
          /\ Cardinality(Residents(g)) \in Nat
      BY <2>1, <2>2, FS_Subset, FS_CardinalityType
    <2> QED BY <2>1, <2>3 DEF Speech
  <1>f. ASSUME booked' \subseteq booked, resident' = resident, llm' = "up" => llm = "up"
        PROVE  AdmittedFit'
    <2> SUFFICES ASSUME NEW g \in Gpus PROVE Admitted(g)' <= Capacity
      BY DEF AdmittedFit
    <2>1. Speech(g)' <= Speech(g)
      BY <1>f, <1>s
    <2> QED BY <1>f, <1>n, <2>1 DEF LlmCounted, FacadeCounted
  <1>1. ASSUME NEW j \in Jobs, Reserve(j) PROVE AdmittedFit'
    <2>1. CASE Fitting(SttMb) = {}
      BY <1>1, <1>f, <2>1 DEF Reserve
    <2>2. CASE Fitting(SttMb) # {}
      <3>1. UNCHANGED <<resident, llm>> /\ pc[j] \in {"reserve", "again"}
        BY <1>1 DEF Reserve
      <3>2. PICK g \in Selected(SttMb) :
              booked' = booked \cup {[by |-> j, phase |-> "stt", gpu |-> g, mb |-> SttMb]}
        BY <1>1, <2>2 DEF Reserve
      <3> DEFINE new == [by |-> j, phase |-> "stt", gpu |-> g, mb |-> SttMb]
      <3>3. new.by = j /\ new.phase = "stt" /\ new.gpu = g /\ booked' = booked \cup {new}
        BY <3>2
      <3>4. g \in Gpus /\ Available(g) >= SttMb + MinFree
        BY DEF Selected, Fitting
      <3> HIDE DEF new
      <3>5. ASSUME NEW h \in Gpus
            PROVE  /\ LlmCounted(h)' <=> LlmCounted(h)
                   /\ FacadeCounted(h)' <=> FacadeCounted(h)
                   /\ Residents(h)' = Residents(h)
                   /\ Unloaded(h)' \subseteq IF h = g THEN Unloaded(g) \cup {new} ELSE Unloaded(h)
        BY <3>1, <3>3 DEF LlmCounted, FacadeCounted, Residents, Unloaded
      <3>6. ASSUME NEW h \in Gpus, h # g PROVE Admitted(h)' <= Capacity
        <4>1. Unloaded(h)' \in SUBSET Unloaded(h) /\ IsFiniteSet(Unloaded(h))
              /\ IsFiniteSet(Residents(h))
          BY <3>5, <3>6, CardIsFinite DEF BookingInv
        <4>2. /\ Cardinality(Unloaded(h)') <= Cardinality(Unloaded(h))
              /\ Cardinality(Unloaded(h)) \in Nat /\ Cardinality(Unloaded(h)') \in Nat
              /\ Cardinality(Residents(h)) \in Nat
          BY <4>1, FS_Subset, FS_CardinalityType
        <4>3. Speech(h)' <= Speech(h)
          BY <3>5, <4>2 DEF Speech
        <4> QED BY <1>n, <3>5, <4>3
      <3>7. Admitted(g)' <= Capacity
        <4>1. IsFiniteSet(Unloaded(g)) /\ IsFiniteSet(Unloaded(g)') /\ IsFiniteSet(Residents(g))
          BY CardIsFinite DEF BookingInv
        <4>2. /\ IsFiniteSet(Unloaded(g) \cup {new}) /\ Cardinality(Unloaded(g)) \in Nat
              /\ Cardinality(Unloaded(g) \cup {new})
                   \in {Cardinality(Unloaded(g)), Cardinality(Unloaded(g)) + 1}
          BY <4>1, FS_AddElement, FS_CardinalityType
        <4>3. /\ Cardinality(Unloaded(g)') <= Cardinality(Unloaded(g) \cup {new})
              /\ Cardinality(Unloaded(g)') \in Nat /\ Cardinality(Residents(g)) \in Nat
          BY <3>4, <3>5, <4>1, <4>2, FS_Subset, FS_CardinalityType
        <4>4. Speech(g)' <= Speech(g) + 1 /\ Speech(g) \in Nat /\ Speech(g)' \in Nat
          BY <3>4, <3>5, <4>2, <4>3 DEF Speech
        <4>5. Admitted(g) + SttMb <= Capacity
          BY <3>4, RoomFound, SizesAssumption
        <4>6. /\ SttMb * Speech(g)' <= SttMb * (Speech(g) + 1) /\ SttMb * Speech(g)' \in Nat
              /\ SttMb * (Speech(g) + 1) = SttMb * Speech(g) + SttMb /\ SttMb * Speech(g) \in Nat
          BY <4>4, Multiples, SizesAssumption
        <4>7. /\ Admitted(g) = Counted(Speech(g), LlmCounted(g), FacadeCounted(g))
              /\ Admitted(g)' = Counted(Speech(g)', LlmCounted(g), FacadeCounted(g))
          BY <3>4, <3>5, AdmittedIs, AdmittedIsNext DEF Counted
        <4>8. {SttMb, LlmMb, FacadeMb, Capacity} \subseteq Nat
          BY SizesAssumption
        <4> QED BY <4>5, <4>6, <4>7, <4>8 DEF Counted
      <3> QED BY <3>6, <3>7 DEF AdmittedFit
    <2> QED BY <2>1, <2>2
  <1>2. ASSUME NEW j \in Jobs, Load(j) PROVE AdmittedFit'
    <2>1. UNCHANGED <<booked, llm>> /\ pc[j] = "stt_load"
      BY <1>2 DEF Load
    <2>2. PICK b \in booked : /\ b.by = j /\ b.phase = "stt"
                              /\ resident' = [resident EXCEPT ![j] = b.gpu]
      BY <1>2 DEF Load
    <2>3. b.gpu \in Gpus /\ NoGpu \notin Gpus
      BY GpusAssumption DEF TypeOK, Booking
    <2>4. resident[j] = NoGpu
      BY <2>1 DEF BookingInv, Placed
    <2>5. resident'[j] = b.gpu /\ \A i \in Jobs \ {j} : resident'[i] = resident[i]
      BY <2>2 DEF TypeOK
    <2>6. ASSUME NEW c \in booked, c.phase = "stt", c.by = j PROVE c = b
      BY <2>2, <2>6 DEF BookingInv, OneCard
    <2>7. ASSUME NEW c \in booked, c.phase = "stt" PROVE c.by \in Jobs
      BY <2>7 DEF BookingInv, AllBooked, Booked, TypeOK, Booking
    <2>8. ASSUME NEW g \in Gpus PROVE Admitted(g)' <= Capacity
      <3>1. (LlmCounted(g)' <=> LlmCounted(g)) /\ (FacadeCounted(g)' <=> FacadeCounted(g))
        BY <2>1 DEF LlmCounted, FacadeCounted
      <3>2. IsFiniteSet(Unloaded(g)) /\ IsFiniteSet(Residents(g))
        BY CardIsFinite DEF BookingInv
      <3>3. CASE g = b.gpu
        <4>1. Residents(g)' = Residents(g) \cup {j} /\ j \notin Residents(g)
          BY <2>3, <2>4, <2>5, <3>3 DEF Residents
        <4>2. Unloaded(g)' = Unloaded(g) \ {b} /\ b \in Unloaded(g)
          <5>1. ASSUME NEW c \in booked, c.phase = "stt"
                PROVE  resident'[c.by] = NoGpu <=> resident[c.by] = NoGpu /\ c # b
            BY <2>2, <2>3, <2>5, <2>6, <2>7, <5>1
          <5> QED BY <2>1, <2>2, <2>4, <3>3, <5>1 DEF Unloaded
        <4>3. /\ Cardinality(Residents(g)') = Cardinality(Residents(g)) + 1
              /\ Cardinality(Unloaded(g)') = Cardinality(Unloaded(g)) - 1
              /\ Cardinality(Residents(g)) \in Nat /\ Cardinality(Unloaded(g)) \in Nat
          <5>1. Cardinality(Residents(g)') = Cardinality(Residents(g)) + 1
            BY <3>2, <4>1, FS_AddElement
          <5>2. Cardinality(Unloaded(g)') = Cardinality(Unloaded(g)) - 1
            BY <3>2, <4>2, FS_RemoveElement
          <5> QED BY <3>2, <5>1, <5>2, FS_CardinalityType
        <4>4. Speech(g)' <= Speech(g)
          BY <4>3 DEF Speech
        <4> QED BY <1>n, <3>1, <4>4
      <3>4. CASE g # b.gpu
        <4>1. Residents(g)' = Residents(g)
          BY <2>3, <2>4, <2>5, <3>4 DEF Residents
        <4>2. Unloaded(g)' = Unloaded(g)
          <5>1. ASSUME NEW c \in booked, c.phase = "stt", c.gpu = g
                PROVE  resident'[c.by] = resident[c.by]
            BY <2>5, <2>6, <2>7, <3>4, <5>1
          <5> QED BY <2>1, <5>1 DEF Unloaded
        <4>3. Speech(g)' = Speech(g) /\ Speech(g) \in Nat
          BY <4>1, <4>2, AdmittedIs DEF Speech
        <4> QED BY <1>n, <3>1, <4>3
      <3> QED BY <3>3, <3>4
    <2> QED BY <2>8 DEF AdmittedFit
  <1>3. ASSUME NEW j \in Jobs, Transcribe(j) PROVE AdmittedFit'
    <2>1. llm' = llm /\ booked' = Released(j, "stt") /\ resident' = [resident EXCEPT ![j] = NoGpu]
      BY <1>3 DEF Transcribe
    <2>2. resident'[j] = NoGpu /\ \A i \in Jobs \ {j} : resident'[i] = resident[i]
      BY <2>1 DEF TypeOK
    <2>3. ASSUME NEW g \in Gpus PROVE Admitted(g)' <= Capacity
      <3>1. (LlmCounted(g)' => LlmCounted(g)) /\ (FacadeCounted(g)' => FacadeCounted(g))
        BY <2>1 DEF LlmCounted, FacadeCounted, Released
      <3>2. IsFiniteSet(Unloaded(g)) /\ IsFiniteSet(Residents(g))
        BY CardIsFinite DEF BookingInv
      <3>3. Residents(g)' \in SUBSET Residents(g)
        BY <2>2, GpusAssumption DEF Residents
      <3>4. Unloaded(g)' \in SUBSET Unloaded(g)
        <4>1. ASSUME NEW c \in booked', c.phase = "stt"
              PROVE  c \in booked /\ resident'[c.by] = resident[c.by]
          <5>1. c \in booked /\ c.by # j
            BY <2>1, <4>1 DEF Released
          <5>2. c.by \in Jobs
            BY <4>1, <5>1 DEF BookingInv, AllBooked, Booked, TypeOK, Booking
          <5> QED BY <2>2, <5>1, <5>2
        <4> QED BY <4>1 DEF Unloaded
      <3>5. /\ Cardinality(Unloaded(g)') <= Cardinality(Unloaded(g))
            /\ Cardinality(Residents(g)') <= Cardinality(Residents(g))
            /\ Cardinality(Unloaded(g)') \in Nat /\ Cardinality(Residents(g)') \in Nat
            /\ Cardinality(Unloaded(g)) \in Nat /\ Cardinality(Residents(g)) \in Nat
        BY <3>2, <3>3, <3>4, FS_Subset, FS_CardinalityType
      <3>6. Speech(g)' <= Speech(g)
        BY <3>5 DEF Speech
      <3> QED BY <1>n, <3>1, <3>6
    <2> QED BY <2>3 DEF AdmittedFit
  <1>4. ASSUME NEW j \in Jobs, Book(j) PROVE AdmittedFit'
    <2>1. CASE ~HostsLlm
      BY <1>4, <1>f, <2>1 DEF Book
    <2>2. CASE HostsLlm
      <3>1. booked' = booked \cup Shares(j) /\ UNCHANGED <<resident, llm>>
        BY <1>4, <2>2 DEF Book
      <3>2. \A b \in Shares(j) : b.by = j /\ b.phase = "llm" /\ b.gpu \in LlmGpus
        BY DEF Shares
      <3>3. ASSUME NEW g \in Gpus PROVE Admitted(g)' <= Capacity
        <4>1. Speech(g)' <= Speech(g)
          BY <1>s, <3>1, <3>2
        <4>2. FacadeCounted(g)' => FacadeCounted(g)
          BY <3>1, <3>2 DEF FacadeCounted
        <4>3. CASE g \notin LlmGpus \/ LlmCounted(g)
          BY <1>n, <4>1, <4>2, <4>3 DEF LlmCounted
        <4>4. CASE g \in LlmGpus /\ ~LlmCounted(g)
          <5>1. Admitted(g) + LlmMb <= Capacity
            BY <2>2, <4>4, RoomFound, SizesAssumption DEF HostsLlm
          <5>2. Speech(g) \in Nat /\ Speech(g)' \in Nat
            BY AdmittedIs, AdmittedIsNext
          <5>3. SttMb * Speech(g)' <= SttMb * Speech(g) /\ SttMb * Speech(g)' \in Nat
                /\ SttMb * Speech(g) \in Nat
            BY <4>1, <5>2, Multiples, SizesAssumption
          <5>4. /\ Admitted(g) = Counted(Speech(g), LlmCounted(g), FacadeCounted(g))
                /\ Admitted(g)' = Counted(Speech(g)', LlmCounted(g)', FacadeCounted(g)')
            BY AdmittedIs, AdmittedIsNext
          <5>5. {SttMb, LlmMb, FacadeMb, Capacity} \subseteq Nat
            BY SizesAssumption
          <5> QED BY <4>2, <4>4, <5>1, <5>3, <5>4, <5>5 DEF Counted
        <4> QED BY <4>3, <4>4
      <3> QED BY <3>3 DEF AdmittedFit
    <2> QED BY <2>1, <2>2
  <1>5. ASSUME NEW j \in Jobs, Loaded(j) PROVE AdmittedFit'
    <2>1. UNCHANGED <<booked, resident>> /\ pc[j] = "load"
      BY <1>5 DEF Loaded
    <2>2. ASSUME NEW g \in Gpus PROVE Admitted(g)' <= Capacity
      <3>1. g \in LlmGpus => LlmCounted(g)
        BY <2>1 DEF BookingInv, SharesHeld, Launching, LlmCounted
      <3>2. Speech(g)' <= Speech(g)
        BY <1>s, <2>1
      <3>3. (LlmCounted(g)' => LlmCounted(g)) /\ (FacadeCounted(g)' => FacadeCounted(g))
        BY <2>1, <3>1 DEF LlmCounted, FacadeCounted
      <3> QED BY <1>n, <3>2, <3>3
    <2> QED BY <2>2 DEF AdmittedFit
  <1>6. CASE LiveRequest
    <2>1. UNCHANGED <<resident, llm>>
      BY <1>6 DEF LiveRequest, job
    <2>2. CASE booked' = booked
      BY <1>f, <2>1, <2>2
    <2>3. CASE booked' # booked
      <3> DEFINE counted == {b \in booked : b.by = Facade}
                 places == IF counted # {} THEN {b.gpu : b \in counted} ELSE Selected(FacadeMb)
      <3>1. PICK g \in places :
              booked' = {b \in booked : b.by # Facade} \cup
                          {[by |-> Facade, phase |-> "live", gpu |-> g, mb |-> FacadeMb]}
        BY <1>6, <2>3 DEF LiveRequest
      <3>2. \/ g \in Gpus /\ FacadeCounted(g)
            \/ counted = {} /\ g \in Gpus /\ Available(g) >= FacadeMb + MinFree
        <4>1. CASE counted # {}
          <5>1. PICK b \in counted : g = b.gpu
            BY <3>1, <4>1
          <5> QED BY <5>1 DEF FacadeCounted, TypeOK, Booking
        <4>2. CASE counted = {}
          BY <3>1, <4>2 DEF Selected, Fitting
        <4> QED BY <4>1, <4>2
      <3> DEFINE new == [by |-> Facade, phase |-> "live", gpu |-> g, mb |-> FacadeMb]
      <3>3. new.by = Facade /\ new.phase = "live" /\ new.gpu = g
        OBVIOUS
      <3>4. \A b : b \in booked' <=> (b \in booked /\ b.by # Facade) \/ b = new
        BY <3>1
      <3>5. counted = {} => \A h \in Gpus : ~FacadeCounted(h)
        BY DEF FacadeCounted
      <3> HIDE DEF new, counted, places
      <3>6. ASSUME NEW h \in Gpus PROVE Admitted(h)' <= Capacity
        <4>1. Speech(h)' <= Speech(h)
          BY <1>s, <2>1, <3>3, <3>4
        <4>2. LlmCounted(h)' => LlmCounted(h)
          BY <2>1, <3>3, <3>4 DEF LlmCounted
        <4>3. FacadeCounted(h)' => h = g
          BY <3>3, <3>4 DEF FacadeCounted
        <4>4. CASE h # g \/ FacadeCounted(h)
          BY <1>n, <4>1, <4>2, <4>3, <4>4
        <4>5. CASE h = g /\ ~FacadeCounted(h)
          <5>1. Admitted(g) + FacadeMb <= Capacity
            BY <3>2, <4>5, RoomFound, SizesAssumption
          <5>2. Speech(g) \in Nat /\ Speech(g)' \in Nat
            BY <4>5, AdmittedIs, AdmittedIsNext
          <5>3. SttMb * Speech(g)' <= SttMb * Speech(g) /\ SttMb * Speech(g)' \in Nat
                /\ SttMb * Speech(g) \in Nat
            BY <4>1, <4>5, <5>2, Multiples, SizesAssumption
          <5>4. /\ Admitted(g) = Counted(Speech(g), LlmCounted(g), FacadeCounted(g))
                /\ Admitted(g)' = Counted(Speech(g)', LlmCounted(g)', FacadeCounted(g)')
            BY <4>5, AdmittedIs, AdmittedIsNext
          <5>5. {SttMb, LlmMb, FacadeMb, Capacity} \subseteq Nat
            BY SizesAssumption
          <5> QED BY <4>2, <4>5, <5>1, <5>3, <5>4, <5>5 DEF Counted
        <4> QED BY <4>4, <4>5
      <3> QED BY <3>6 DEF AdmittedFit
    <2> QED BY <2>2, <2>3
  <1>7. ASSUME NEW j \in Jobs,
               \/ Admit(j) \/ SchedReclaim(j) \/ Retest(j)
               \/ TakeLlm(j) \/ LlmBusy(j) \/ Probe(j) \/ Press(j) \/ TakeToReclaim(j)
               \/ NothingToReclaim(j) \/ LeaveLlm(j)
        PROVE  AdmittedFit'
    <2>1. UNCHANGED <<booked, resident, llm>>
      BY <1>7 DEF Admit, SchedReclaim, Retest, TakeLlm, Take, LlmBusy, Probe, Press,
         TakeToReclaim, NothingToReclaim, LeaveLlm, job
    <2> QED BY <1>f, <2>1
  <1>8. ASSUME NEW t \in Threads, Name(t) \/ StopLlm(t) \/ LeaveReclaim(t) PROVE AdmittedFit'
    <2>1. UNCHANGED <<booked, resident>> /\ llm' \in {llm, "off"}
      BY <1>8 DEF Name, StopLlm, LeaveReclaim, job
    <2> QED BY <1>f, <2>1
  <1>9. ASSUME NEW j \in Jobs, Ready(j) \/ Use(j) PROVE AdmittedFit'
    <2>1. UNCHANGED <<booked, resident>> /\ llm' \in {llm, "loading", "off"}
      BY <1>9 DEF Ready, Use
    <2> QED BY <1>f, <2>1
  <1>10. ASSUME NEW j \in Jobs, Yield(j) \/ LeavePhase(j) \/ Export(j) \/ EndPipeline(j)
         PROVE  AdmittedFit'
    <2>1. UNCHANGED <<resident, llm>> /\ booked' \subseteq booked
      BY <1>10 DEF Yield, Unbook, LeavePhase, Export, EndPipeline, OnDone, Take, Released,
         ReleasedAll, job
    <2> QED BY <1>f, <2>1
  <1>11. CASE LiveLoad \/ LiveAnswer \/ Timer \/ UNCHANGED vars
    <2>1. UNCHANGED <<resident, llm>> /\ booked' \subseteq booked
      BY <1>11 DEF LiveLoad, LiveAnswer, Timer, Unbook, ReleasedAll, vars, job
    <2> QED BY <1>f, <2>1
  <1> QED
    BY <1>1, <1>2, <1>3, <1>4, <1>5, <1>6, <1>7, <1>8, <1>9, <1>10, <1>11
       DEF Next, Work, SchedWork, LiveWork

\* What the allocator has admitted always fits its card: the speech models, loaded or
\* only booked, the shares of an LLM that is not up yet, and the facade's model as long
\* as it is booked; for any jobs, cards and sizes, if a server that is up when the
\* machine starts fits (try_reserve, try_reserve_llm, release).
THEOREM AdmittedFits ==
  ASSUME LlmMb <= Capacity
  PROVE  Spec => []AdmittedFit
<1>1. Init => BookingInv /\ AdmittedFit
  <2> SUFFICES ASSUME Init PROVE BookingInv /\ AdmittedFit
    OBVIOUS
  <2>1. BookingInv
    BY FS_EmptySet DEF Init, BookingInv, AllBooked, OneCard, Placed, SharesHeld, Launching
  <2>2. TypeOK
    BY InitHolds
  <2>3. ASSUME NEW g \in Gpus PROVE Admitted(g) <= Capacity
    <3>1. Unloaded(g) = {} /\ Residents(g) = {} /\ ~FacadeCounted(g)
      BY GpusAssumption DEF Init, Unloaded, Residents, FacadeCounted
    <3>2. Speech(g) = 0
      BY <3>1, FS_EmptySet DEF Speech
    <3>3. Admitted(g) = Counted(0, LlmCounted(g), FacadeCounted(g))
      BY <2>1, <2>2, <3>2, AdmittedIs
    <3>4. {SttMb, LlmMb, FacadeMb, Capacity} \subseteq Nat
      BY SizesAssumption
    <3> QED BY <3>1, <3>3, <3>4 DEF Counted
  <2> QED BY <2>1, <2>3 DEF AdmittedFit
<1>2. TypeOK /\ TypeOK' /\ LockIsHeld /\ BookingInv /\ AdmittedFit /\ [Next]_vars
        => BookingInv' /\ AdmittedFit'
  BY BookingStep, FitStep
<1>3. QED
  BY <1>1, <1>2, TypeCorrect, LockKept, PTL DEF Spec
=============================================================================
