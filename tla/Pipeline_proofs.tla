--------------------------- MODULE Pipeline_proofs ---------------------------
(***************************************************************************)
(* What holds of Pipeline for every set of profiles and every number of    *)
(* launches, dispatches and edits.                                         *)
(*                                                                         *)
(* PipeInv relates what a marker promises to what the files are.  Contents *)
(* only grow, so a phase never read more than there is (Grows); what was   *)
(* recorded when a phase ended is what it had read, or was changed while   *)
(* it worked (Printed); the invitation, which no fingerprint covers, has   *)
(* withdrawn the marker if it changed since (Invited); and no phase writes *)
(* what an earlier one reads (LateWrites), so that what the dispatch has   *)
(* left behind stays fresh (Behind).                                       *)
(***************************************************************************)
EXTENDS Pipeline, TLAPS

-----------------------------------------------------------------------------
(* The order of the phases and the tables of the files.                     *)

\* The nine phases, in their order.
LEMMA OrderIs ==
  /\ Len(Order) = 9 /\ DOMAIN Order = 1..9 /\ Last = 10
  /\ Order[1] = "preprocess" /\ Order[2] = "transcription" /\ Order[3] = "multi_stt_review"
  /\ Order[4] = "diarization" /\ Order[5] = "correction" /\ Order[6] = "final_review"
  /\ Order[7] = "type_fields" /\ Order[8] = "quality" /\ Order[9] = "export"
  BY DEF Order, Last

\* They are all different.
LEMMA OrderOnce == \A i, j \in 1..9 : Order[i] = Order[j] => i = j
  BY OrderIs

\* Phases is the set of these nine.
LEMMA PhasesAre ==
  /\ Phases = {"preprocess", "transcription", "multi_stt_review", "diarization", "correction",
               "final_review", "type_fields", "quality", "export"}
  /\ \A i \in 1..9 : Order[i] \in Phases
  /\ \A p \in Phases : \E i \in 1..9 : Order[i] = p
  <1>1. \A p : p \in Phases <=> \E i \in 1..9 : p = Order[i]
    BY OrderIs DEF Phases
  <1>2. \A i \in 1..9 : i = 1 \/ i = 2 \/ i = 3 \/ i = 4 \/ i = 5 \/ i = 6 \/ i = 7 \/ i = 8 \/ i = 9
    OBVIOUS
  <1> QED BY <1>1, <1>2, OrderIs

\* The rows of the tables.
LEMMA InputsAre ==
  /\ Inputs["preprocess"] = {} /\ Inputs["transcription"] = {} /\ Inputs["multi_stt_review"] = {}
  /\ Inputs["diarization"] = {} /\ Inputs["type_fields"] = {}
  /\ Inputs["correction"] = {"raw", "context"}
  /\ Inputs["final_review"] = {"corrected", "lexicon"}
  /\ Inputs["quality"] = {"raw", "corrected", "segments", "lexicon"}
  /\ Inputs["export"] = {"raw", "corrected", "report", "meeting", "summary"}
  BY PhasesAre DEF Inputs

LEMMA ArtifactsAre ==
  /\ Artifact["transcription"] = {"raw"} /\ Artifact["correction"] = {"corrected"}
  /\ Artifact["quality"] = {"report"}
  /\ \A p \in Phases : p \notin {"transcription", "correction", "quality"} => Artifact[p] = {}
  BY PhasesAre DEF Artifact

LEMMA WritesAre ==
  /\ Writes["preprocess"] = {} /\ Writes["diarization"] = {} /\ Writes["export"] = {}
  /\ Writes["transcription"] = {"raw", "segments"} /\ Writes["multi_stt_review"] = {"raw", "segments"}
  /\ Writes["correction"] = {"corrected", "segments", "meeting"}
  /\ Writes["final_review"] = {"corrected", "meeting"} /\ Writes["type_fields"] = {"meeting"}
  /\ Writes["quality"] = {"report"}
  /\ Prepares["correction"] = {"context"}
  /\ \A p \in Phases : p # "correction" => Prepares[p] = {}
  BY PhasesAre DEF Writes, Prepares

LEMMA VitalIs ==
  \A p \in Phases : Vital[p] = IF p = "correction" THEN {"raw", "context", "invite"} ELSE Inputs[p]
  BY InputsAre DEF Vital

\* What the tables name are files; a phase's artefacts are among what it writes; no
\* phase writes the invitation, which is all that the fingerprints leave out.
LEMMA Tables ==
  \A p \in Phases :
    /\ Inputs[p] \subseteq Vital[p] /\ Vital[p] \subseteq Files
    /\ Artifact[p] \subseteq Writes[p] /\ Writes[p] \subseteq Files /\ Prepares[p] \subseteq Files
    /\ "invite" \notin Writes[p] \cup Prepares[p]
    /\ Vital[p] \ Inputs[p] \subseteq {"invite"}
    /\ p # "correction" => Vital[p] = Inputs[p]
  BY PhasesAre, InputsAre, ArtifactsAre, WritesAre, VitalIs DEF Files

\* No phase writes what an earlier one reads.
LEMMA LateWrites ==
  \A i, j \in 1..9 : i < j => (Writes[Order[j]] \cup Prepares[Order[j]]) \cap Vital[Order[i]] = {}
  <1> SUFFICES ASSUME NEW i \in 1..9, NEW j \in 1..9, i < j
               PROVE  (Writes[Order[j]] \cup Prepares[Order[j]]) \cap Vital[Order[i]] = {}
    OBVIOUS
  <1>1. CASE i \in {1, 2, 3, 4, 7}
    BY <1>1, OrderIs, PhasesAre, InputsAre, VitalIs
  <1>2. CASE i = 5
    <2>1. Vital[Order[i]] = {"raw", "context", "invite"}
      BY <1>2, OrderIs, PhasesAre, VitalIs
    <2>2. j \in {6, 7, 8, 9}
      BY <1>2
    <2> QED BY <2>1, <2>2, OrderIs, PhasesAre, WritesAre
  <1>3. CASE i = 6
    <2>1. Vital[Order[i]] = {"corrected", "lexicon"}
      BY <1>3, OrderIs, PhasesAre, VitalIs, InputsAre
    <2>2. j \in {7, 8, 9}
      BY <1>3
    <2> QED BY <2>1, <2>2, OrderIs, PhasesAre, WritesAre
  <1>4. CASE i = 8
    <2>1. j = 9
      BY <1>4
    <2> QED BY <2>1, OrderIs, PhasesAre, WritesAre
  <1>5. i # 9
    OBVIOUS
  <1> QED BY <1>1, <1>2, <1>3, <1>4, <1>5

-----------------------------------------------------------------------------
(* The inductive invariant.                                                 *)

AtWork == pc \in {"work", "wrote"}
\* The phases whose marker counts: in the row of the job, or in the dispatch's memory.
Believed(p) == p \in marked \/ (status = "running" /\ p \in known)

\* The dispatch is at a phase of the profile, or past the last; a success is past it.
Placed ==
  /\ at < Last => (pc # "idle" => Here \in profile)
  /\ AtWork => at < Last
  /\ status = "success" => at = Last
\* The dispatch believes at least what is marked.
Loaded == status = "running" => marked \subseteq known
\* A phase at work has lost its marker, but for a preprocessed audio that is gone.
Withdrawn == AtWork => Here \notin ended /\ (Here \in known => Here = "preprocess")

Grows == \A p \in Phases : \A f \in Vital[p] : seen[p][f] <= file[f]
Reading == AtWork => \A f \in Vital[Here] \ during[Here] : seen[Here][f] = file[f]
Printed ==
  \A p \in Phases : Believed(p) =>
    \A f \in Inputs[p] :
      /\ seen[p][f] <= recorded[p][f] /\ recorded[p][f] <= file[f]
      /\ f \notin during[p] => seen[p][f] = recorded[p][f]
Invited ==
  \A p \in Phases : \A f \in Vital[p] \ Inputs[p] :
    /\ p \in marked => f \in during[p] \/ seen[p][f] = file[f]
    /\ Believed(p) => f \in during[p] \cup since[p] \/ seen[p][f] = file[f]
Behind == status \in {"running", "success"} => \A p \in Phases : Left(p) /\ p \notin skipped => Fresh(p)
There ==
  /\ \A p \in ended : \A f \in Artifact[p] : file[f] > 0
  /\ pc = "wrote" => \A f \in Artifact[Here] : file[f] > 0
\* A phase that ended lost its marker for a reason.
Kept == \A p \in ended : p \in marked \/ \E f \in Vital[p] : seen[p][f] # file[f]

Control == TypeOK /\ Placed /\ Loaded /\ Withdrawn
Content == Grows /\ Reading /\ Printed /\ Invited /\ Behind /\ There /\ Kept
PipeInv == Control /\ Content

\* The initial states satisfy the invariant.
LEMMA InitPipe == Init => PipeInv
  <1> SUFFICES ASSUME Init PROVE PipeInv
    OBVIOUS
  <1>1. TypeOK
    <2>1. /\ DOMAIN recorded = Phases /\ \A p \in Phases : recorded[p] \in [Inputs[p] -> Nat]
          /\ DOMAIN seen = Phases /\ \A p \in Phases : seen[p] \in [Vital[p] -> Nat]
      BY DEF Init, NoPrints, Nothing
    <2>2. /\ file \in [Files -> Nat] /\ budget \in [launches : Nat, dispatches : Nat, edits : Nat]
          /\ during \in [Phases -> SUBSET Files] /\ since \in [Phases -> SUBSET Files]
      BY PipelineAssumption DEF Init, NoEdit
    <2>3. at \in 1..Last
      BY OrderIs DEF Init
    <2> QED BY <2>1, <2>2, <2>3 DEF Init, TypeOK
  <1>2. Placed /\ Loaded /\ Withdrawn
    BY DEF Init, Placed, Loaded, Withdrawn, AtWork
  <1>3. Grows
    BY <1>1, Tables DEF Init, TypeOK, Grows, Nothing
  <1>4. Reading /\ Printed /\ Behind /\ There /\ Kept
    BY DEF Init, Reading, Printed, Behind, There, Kept, AtWork, Believed
  <1>5. Invited
    BY DEF Init, Invited, Believed
  <1> QED BY <1>1, <1>2, <1>3, <1>4, <1>5 DEF PipeInv, Control, Content

\* A new step comes after the present one, and passes over no phase of the profile.
LEMMA Advances ==
  ASSUME TypeOK, at < Last, Advance
  PROVE  /\ at' \in 2..Last /\ at < at'
         /\ at' < Last => Order[at'] \in profile
         /\ \A p \in profile, i \in 1..9 : Order[i] = p /\ i < at' => i < at \/ p = Here
  <1>1. at \in 1..9 /\ Last = 10
    BY OrderIs DEF TypeOK
  <1>2. at' \in (at + 1)..Last /\ at' \in Nat
    BY <1>1 DEF Advance
  <1>3. ASSUME NEW p \in profile, NEW i \in 1..9, Order[i] = p, i < at', ~(i < at) PROVE p = Here
    <2>1. CASE i = at
      BY <1>3, <2>1 DEF Here
    <2>2. CASE i > at
      <3>1. i \in (at + 1)..Len(Order)
        BY <1>1, <2>2, OrderIs
      <3> QED BY <1>3, <3>1 DEF Advance
    <2> QED BY <1>1, <1>3, <2>1, <2>2
  <1> QED BY <1>1, <1>2, <1>3 DEF Advance

\* What a step of the pipeline leaves alone: the files, and what was read of them.
LEMMA RestKeeps ==
  ASSUME PipeInv,
         \/ Revive \/ LoseAudio \/ Wait \/ Fail \/ Restart
  PROVE  PipeInv'
  <1>1. TypeOK'
    <2>1. UNCHANGED <<profile, marked, skipped, file, recorded, seen, budget, during, ended>>
      BY DEF Revive, LoseAudio, Wait, Fail, Restart, run, history
    <2>2. /\ closed' \in BOOLEAN /\ audio' \in BOOLEAN
      BY DEF PipeInv, Control, TypeOK, Revive, LoseAudio, Wait, Fail, Restart, run
    <2>3. /\ status' \in {"new", "queued", "running", "success", "stopped", "recovered"}
          /\ pc' \in {"idle", "decide", "work", "wrote"} /\ (pc' # "idle" <=> status' = "running")
      BY DEF PipeInv, Control, TypeOK, Revive, LoseAudio, Wait, Fail, Restart, run, memory, Gone
    <2>4. /\ known' \subseteq Phases /\ at' \in 1..Last /\ since' \in [Phases -> SUBSET Files]
      BY OrderIs DEF PipeInv, Control, TypeOK, Revive, LoseAudio, Wait, Fail, Restart, memory, history, Gone, NoEdit
    <2> QED BY <2>1, <2>2, <2>3, <2>4 DEF PipeInv, Control, TypeOK
  <1>2. Placed' /\ Loaded' /\ Withdrawn'
    BY DEF PipeInv, Control, TypeOK, Placed, Loaded, Withdrawn, AtWork,
           Revive, LoseAudio, Wait, Fail, Restart, Gone, NoEdit, run, memory, history, Working
  <1>3. Grows' /\ Reading' /\ There' /\ Kept'
    BY DEF PipeInv, Control, Content, TypeOK, Grows, Reading, There, Kept, AtWork,
           Revive, LoseAudio, Wait, Fail, Restart, Gone, NoEdit, run, memory, history, Working
  <1>4. Printed' /\ Invited'
    BY DEF PipeInv, Control, Content, TypeOK, Printed, Invited, Believed,
           Revive, LoseAudio, Wait, Fail, Restart, Gone, NoEdit, run, memory, history, Working
  <1>5. Behind'
    BY DEF PipeInv, Control, Content, TypeOK, Behind,
           Revive, LoseAudio, Wait, Fail, Restart, Gone, NoEdit, run, memory, history, Working
  <1> QED BY <1>1, <1>2, <1>3, <1>4, <1>5 DEF PipeInv, Control, Content

\* A launch: nothing is marked, nothing was read.
LEMMA LaunchKeeps ==
  ASSUME PipeInv, NEW chosen \in Profiles, NEW open \in BOOLEAN, Launch(chosen, open)
  PROVE  PipeInv'
  <1> USE DEF PipeInv, Control, TypeOK, Launch, memory
  <1>1. /\ status' = "queued" /\ pc' = "idle" /\ marked' = {} /\ ended' = {} /\ profile' \in Profiles
        /\ UNCHANGED <<memory, file, audio>>
    BY DEF Active
  <1>2. TypeOK'
    <2>1. /\ DOMAIN recorded' = Phases /\ \A p \in Phases : recorded'[p] \in [Inputs[p] -> Nat]
          /\ DOMAIN seen' = Phases /\ \A p \in Phases : seen'[p] \in [Vital[p] -> Nat]
          /\ during' \in [Phases -> SUBSET Files] /\ since' \in [Phases -> SUBSET Files]
      BY DEF NoPrints, Nothing, NoEdit
    <2>2. budget' \in [launches : Nat, dispatches : Nat, edits : Nat]
      OBVIOUS
    <2>3. closed' \in BOOLEAN
      OBVIOUS
    <2> QED BY <1>1, <2>1, <2>2, <2>3
  <1>3. Placed' /\ Loaded' /\ Withdrawn'
    BY <1>1 DEF Placed, Loaded, Withdrawn, AtWork
  <1>4. Grows'
    <2>1. \A p \in Phases : \A f \in Vital[p] : seen'[p][f] = 0 /\ file'[f] \in Nat
      BY Tables DEF Nothing
    <2> QED BY <2>1 DEF Grows
  <1>5. Reading' /\ Printed' /\ Behind' /\ There' /\ Kept'
    BY <1>1 DEF Reading, Printed, Behind, There, Kept, AtWork, Believed
  <1>6. Invited'
    BY <1>1 DEF Invited, Believed
  <1> QED BY <1>2, <1>3, <1>4, <1>5, <1>6 DEF Content

\* A dispatch begins: it believes what is marked, and has left nothing behind.
LEMMA DispatchKeeps == ASSUME PipeInv, Dispatch PROVE PipeInv'
  <1> USE DEF PipeInv, Control, TypeOK, Dispatch
  <1>1. "preprocess" \in profile /\ profile \subseteq Phases
    BY PipelineAssumption
  <1>2. TypeOK'
    <2>1. known' \subseteq Phases /\ at' \in 1..Last
      BY <1>1, OrderIs
    <2>2. since' \in [Phases -> SUBSET Files]
      BY DEF NoEdit
    <2>3. budget' \in [launches : Nat, dispatches : Nat, edits : Nat]
      OBVIOUS
    <2> QED BY <2>1, <2>2, <2>3
  <1>3. Placed' /\ Loaded' /\ Withdrawn'
    BY <1>1, OrderIs DEF Placed, Loaded, Withdrawn, AtWork, Here
  <1>4. Grows' /\ Reading' /\ There' /\ Kept'
    BY DEF Content, Grows, Reading, There, Kept, AtWork
  <1>5. Printed' /\ Invited'
    BY DEF Content, Printed, Invited, Believed
  <1>6. Behind'
    BY OrderIs DEF Content, Behind, Left
  <1> QED BY <1>2, <1>3, <1>4, <1>5, <1>6 DEF Content

\* The job is completed: the dispatch has left every phase behind.
LEMMA FinishKeeps == ASSUME PipeInv, Finish PROVE PipeInv'
  <1> USE DEF PipeInv, Control, TypeOK, Finish, history
  <1>1. TypeOK'
    OBVIOUS
  <1>2. Placed' /\ Loaded' /\ Withdrawn'
    BY DEF Placed, Loaded, Withdrawn, AtWork
  <1>3. Grows' /\ Reading' /\ There' /\ Kept'
    BY DEF Content, Grows, Reading, There, Kept, AtWork
  <1>4. Printed' /\ Invited'
    BY DEF Content, Printed, Invited, Believed
  <1>5. Behind'
    BY DEF Content, Behind, Left, Fresh
  <1> QED BY <1>1, <1>2, <1>3, <1>4, <1>5 DEF Content

\* What a marker promises of a phase whose inputs match the fingerprints.
LEMMA ValidIsFresh ==
  ASSUME PipeInv, status = "running", NEW p \in known, PhaseStateValid(p) PROVE Fresh(p)
  <1>1. p \in Phases
    BY DEF PipeInv, Control, TypeOK
  <1>2. ASSUME NEW f \in Inputs[p], f \notin during[p] PROVE seen[p][f] = file[f]
    BY <1>1, <1>2 DEF PipeInv, Content, Printed, Believed, PhaseStateValid
  <1>3. ASSUME NEW f \in Vital[p] \ Inputs[p], f \notin during[p] \cup since[p] PROVE seen[p][f] = file[f]
    BY <1>1, <1>3 DEF PipeInv, Content, Invited, Believed
  <1> QED BY <1>2, <1>3 DEF Fresh

\* A marker that is not believed any more has a reason.
LEMMA InvalidIsChanged ==
  ASSUME PipeInv, status = "running", NEW p \in known, ~PhaseStateValid(p), p \in ended
  PROVE  \E f \in Vital[p] : seen[p][f] # file[f]
  <1>1. p \in Phases
    BY DEF PipeInv, Control, TypeOK
  <1>2. PICK f \in Inputs[p] : recorded[p][f] # file[f]
    BY DEF PhaseStateValid, PipeInv, Content, There
  <1>3. f \in Vital[p] /\ f \in Files
    BY <1>1, <1>2, Tables
  <1>4. recorded[p][f] \in Nat /\ file[f] \in Nat /\ seen[p][f] \in Nat
    BY <1>1, <1>2, <1>3 DEF PipeInv, Control, TypeOK
  <1>5. seen[p][f] <= recorded[p][f] /\ recorded[p][f] <= file[f]
    BY <1>1, <1>2 DEF PipeInv, Content, Printed, Believed
  <1> QED BY <1>2, <1>3, <1>4, <1>5

\* A phase is passed over when its marker can be believed.
LEMMA SkipKeeps == ASSUME PipeInv, Skip PROVE PipeInv'
  <1> USE DEF PipeInv, Control, TypeOK, Skip
  <1>1. /\ status = "running" /\ pc = "decide" /\ at < Last /\ Here \in profile
        /\ Advance /\ UNCHANGED <<run, marked, recorded, skipped, known, pc, file, audio, budget, history>>
        /\ Here \in known /\ PhaseStateValid(Here)
    BY DEF Deciding, Placed, Done
  <1>2. /\ at' \in 2..Last /\ at < at' /\ (at' < Last => Order[at'] \in profile)
        /\ \A p \in profile, i \in 1..9 : Order[i] = p /\ i < at' => i < at \/ p = Here
    BY <1>1, Advances
  <1> USE DEF run, history
  <1>3. TypeOK'
    BY <1>1, <1>2, OrderIs
  <1>4. Placed' /\ Loaded' /\ Withdrawn'
    BY <1>1, <1>2 DEF Placed, Loaded, Withdrawn, AtWork, Here
  <1>5. Grows' /\ Reading' /\ There' /\ Kept'
    BY <1>1 DEF Content, Grows, Reading, There, Kept, AtWork
  <1>6. Printed' /\ Invited'
    BY <1>1 DEF Content, Printed, Invited, Believed
  <1>7. Behind'
    <2>1. ASSUME NEW p \in Phases, Left(p)' PROVE Left(p) \/ p = Here
      BY <1>1, <1>2, <2>1, OrderIs DEF Left
    <2>2. Fresh(Here)
      BY <1>1, ValidIsFresh
    <2> QED BY <1>1, <2>1, <2>2 DEF Content, Behind, Fresh
  <1> QED BY <1>3, <1>4, <1>5, <1>6, <1>7 DEF Content

\* The phase at hand is not one the dispatch has left.
LEMMA HereNotLeft == ASSUME TypeOK, at < Last PROVE Here \in Phases /\ ~Left(Here)
  BY OrderIs, PhasesAre, OrderOnce DEF TypeOK, Left, Here

\* A phase is marked as done and left behind, with the fingerprints of what it read.
LEMMA MarkedKeeps ==
  ASSUME PipeInv, status = "running", at < Last, Here \in profile,
         pc \in {"decide", "wrote"}, pc' = "decide", Marked(Here), Advance,
         ended' = ended \cup {Here},
         UNCHANGED <<run, file, audio, budget, seen, during, since>>,
         \A f \in Vital[Here] \ during[Here] : seen[Here][f] = file[f],
         \A f \in Artifact[Here] : file[f] > 0
  PROVE  PipeInv'
  <1> USE DEF PipeInv, Control, TypeOK, run
  <1>1. Here \in Phases /\ ~Left(Here)
    BY HereNotLeft
  <1>2. /\ at' \in 2..Last /\ at < at' /\ (at' < Last => Order[at'] \in profile)
        /\ \A p \in profile, i \in 1..9 : Order[i] = p /\ i < at' => i < at \/ p = Here
    BY Advances
  <1>3. /\ marked' = marked \cup {Here} /\ known' = known \cup {Here} /\ skipped' = skipped \ {Here}
        /\ DOMAIN recorded' = Phases /\ recorded'[Here] = [f \in Inputs[Here] |-> file[f]]
        /\ \A p \in Phases : p # Here => recorded'[p] = recorded[p]
    BY <1>1 DEF Marked
  <1>4. Inputs[Here] \subseteq Vital[Here] /\ Vital[Here] \subseteq Files
    BY <1>1, Tables
  <1>5. TypeOK'
    <2>1. \A p \in Phases : recorded'[p] \in [Inputs[p] -> Nat]
      BY <1>3, <1>4
    <2> QED BY <1>1, <1>2, <1>3, <2>1, OrderIs
  <1>6. Placed' /\ Loaded' /\ Withdrawn'
    BY <1>2, <1>3 DEF Placed, Loaded, Withdrawn, AtWork, Here
  <1>7. Grows' /\ Reading' /\ There' /\ Kept'
    BY <1>3 DEF Content, Grows, Reading, There, Kept, AtWork
  <1>8. Printed'
    <2> SUFFICES ASSUME NEW p \in Phases, Believed(p)', NEW f \in Inputs[p]
                 PROVE  /\ seen[p][f] <= recorded'[p][f] /\ recorded'[p][f] <= file[f]
                        /\ f \notin during[p] => seen[p][f] = recorded'[p][f]
      BY DEF Printed
    <2>1. CASE p = Here
      <3>1. recorded'[p][f] = file[f] /\ file[f] \in Nat /\ f \in Vital[p]
        BY <1>3, <1>4, <2>1
      <3> QED BY <1>1, <2>1, <3>1 DEF Content, Grows
    <2>2. CASE p # Here
      BY <1>3, <2>2 DEF Content, Printed, Believed
    <2> QED BY <2>1, <2>2
  <1>9. Invited'
    <2> SUFFICES ASSUME NEW p \in Phases, NEW f \in Vital[p] \ Inputs[p]
                 PROVE  /\ p \in marked' => f \in during[p] \/ seen[p][f] = file[f]
                        /\ Believed(p)' => f \in during[p] \cup since[p] \/ seen[p][f] = file[f]
      BY DEF Invited
    <2> QED BY <1>3 DEF Content, Invited, Believed
  <1>10. Behind'
    <2>1. ASSUME NEW p \in Phases, Left(p)' PROVE Left(p) \/ p = Here
      BY <1>2, <2>1, OrderIs DEF Left
    <2>2. Fresh(Here)
      BY DEF Fresh
    <2> QED BY <1>3, <2>1, <2>2 DEF Content, Behind, Fresh
  <1> QED BY <1>5, <1>6, <1>7, <1>8, <1>9, <1>10 DEF Content

\* A transcript without a marker.
LEMMA BackfillKeeps == ASSUME PipeInv, Backfill PROVE PipeInv'
  <1>1. /\ status = "running" /\ pc = "decide" /\ at < Last /\ Here \in profile
        /\ Here = "transcription" /\ file["raw"] > 0
    BY DEF PipeInv, Control, Placed, Backfill, Deciding
  <1>2. Vital[Here] = {} /\ Artifact[Here] = {"raw"}
    BY <1>1, PhasesAre, InputsAre, VitalIs, ArtifactsAre
  <1> QED BY <1>1, <1>2, MarkedKeeps DEF Backfill

\* The end of a phase.
LEMMA CheckpointKeeps == ASSUME PipeInv, Checkpoint PROVE PipeInv'
  <1>1. status = "running" /\ pc = "wrote" /\ at < Last /\ Here \in profile
    BY DEF PipeInv, Control, Placed, AtWork, Checkpoint
  <1>2. \A f \in Vital[Here] \ during[Here] : seen[Here][f] = file[f]
    BY <1>1 DEF PipeInv, Content, Reading, AtWork
  <1>3. \A f \in Artifact[Here] : file[f] > 0
    BY <1>1 DEF PipeInv, Content, There
  <1> QED BY <1>1, <1>2, <1>3, MarkedKeeps DEF Checkpoint

\* Files only grow: a phase that ended without a marker still has its reason, and
\* its artefacts.
LEMMA GrownKeeps ==
  ASSUME PipeInv, NEW fs \in SUBSET Files, file' = Rewritten(fs)
  PROVE  /\ file' \in [Files -> Nat] /\ \A f \in Files : file[f] <= file'[f]
         /\ \A f \in Files : file'[f] = IF f \in fs THEN file[f] + 1 ELSE file[f]
         /\ \A f \in Files : file[f] > 0 => file'[f] > 0
         /\ \A p \in Phases : \A f \in Vital[p] : seen[p][f] # file[f] => seen[p][f] # file'[f]
         /\ \A p \in Phases : \A f \in Vital[p] : seen[p][f] <= file'[f]
         /\ \A p \in Phases : \A f \in Vital[p] \cap fs : seen[p][f] # file'[f]
  <1>1. file' \in [Files -> Nat] /\ \A f \in Files : file[f] \in Nat
    BY DEF Rewritten, PipeInv, Control, TypeOK
  <1>2. \A f \in Files : file'[f] = IF f \in fs THEN file[f] + 1 ELSE file[f]
    BY DEF Rewritten
  <1>3. ASSUME NEW p \in Phases, NEW f \in Vital[p]
        PROVE f \in Files /\ seen[p][f] \in Nat /\ seen[p][f] <= file[f]
    BY Tables DEF PipeInv, Control, TypeOK, Content, Grows
  <1>4. \A f \in Files : file[f] <= file'[f] /\ (file[f] > 0 => file'[f] > 0)
    BY <1>1, <1>2
  <1>5. ASSUME NEW p \in Phases, NEW f \in Vital[p]
        PROVE  /\ seen[p][f] # file[f] => seen[p][f] # file'[f]
               /\ seen[p][f] <= file'[f]
               /\ f \in fs => seen[p][f] # file'[f]
    BY <1>1, <1>2, <1>3
  <1> QED BY <1>1, <1>2, <1>4, <1>5

\* A phase begins: whatever is believed of it, it has nothing to lose.
LEMMA StartKeeps == ASSUME PipeInv, Start PROVE PipeInv'
  <1> USE DEF PipeInv, Control, TypeOK, run
  <1>1. /\ status = "running" /\ pc = "decide" /\ at < Last /\ Here \in profile
        /\ pc' = "work" /\ marked' = Unmarked(Here) /\ known' = Forgotten(Here)
        /\ file' = Rewritten(Prepares[Here]) /\ ended' = ended \ {Here}
        /\ UNCHANGED <<run, skipped, at, audio, budget, since>>
    BY DEF Start, Deciding, Placed
  <1>2. Here \in Phases /\ ~Left(Here)
    BY <1>1, HereNotLeft
  <1>3. /\ marked' \subseteq marked /\ known' \subseteq known /\ marked' \subseteq known'
        /\ marked \subseteq marked' \cup {Here}
    BY <1>1 DEF Unmarked, Forgotten, Loaded
  <1>4. Here \in known' => Here = "preprocess"
    BY <1>1 DEF Start, Forgotten, ToDo, Done, Usable
  <1>5. Prepares[Here] \in SUBSET Files /\ "invite" \notin Prepares[Here]
    BY <1>2, Tables
  <1>6. /\ file' \in [Files -> Nat] /\ \A f \in Files : file[f] <= file'[f]
        /\ \A f \in Files : file'[f] = IF f \in Prepares[Here] THEN file[f] + 1 ELSE file[f]
        /\ \A f \in Files : file[f] > 0 => file'[f] > 0
        /\ \A p \in Phases : \A f \in Vital[p] : seen[p][f] # file[f] => seen[p][f] # file'[f]
        /\ \A p \in Phases : \A f \in Vital[p] : seen[p][f] <= file'[f]
    BY <1>1, <1>5, GrownKeeps
  <1>7. /\ DOMAIN seen' = Phases /\ seen'[Here] = [f \in Vital[Here] |-> file'[f]]
        /\ \A p \in Phases : p # Here => seen'[p] = seen[p] /\ during'[p] = during[p] /\ recorded'[p] = recorded[p]
        /\ during' \in [Phases -> SUBSET Files]
        /\ DOMAIN recorded' = Phases /\ recorded'[Here] = [f \in Inputs[Here] |-> 0]
    BY <1>2 DEF Start, NoPrints
  <1>8. \A p \in Phases : Inputs[p] \subseteq Vital[p] /\ Vital[p] \subseteq Files
    BY Tables
  <1>9. Vital["preprocess"] = {} /\ Inputs["preprocess"] = {}
    BY VitalIs, InputsAre, PhasesAre
  <1>10. TypeOK'
    <2>1. \A p \in Phases : recorded'[p] \in [Inputs[p] -> Nat]
      BY <1>7
    <2>2. \A p \in Phases : seen'[p] \in [Vital[p] -> Nat]
      BY <1>6, <1>7, <1>8
    <2> QED BY <1>1, <1>3, <1>6, <1>7, <2>1, <2>2
  <1>11. Placed' /\ Loaded' /\ Withdrawn'
    BY <1>1, <1>3, <1>4 DEF Placed, Loaded, Withdrawn, AtWork, Here
  <1>12. Grows' /\ Reading'
    <2>1. Grows'
      <3> SUFFICES ASSUME NEW p \in Phases, NEW f \in Vital[p] PROVE seen'[p][f] <= file'[f]
        BY DEF Grows
      <3> QED BY <1>6, <1>7, <1>8
    <2>2. Reading'
      BY <1>1, <1>7 DEF Reading, Here
    <2> QED BY <2>1, <2>2
  <1>13. There' /\ Kept'
    <2>1. There'
      <3>1. \A p \in ended' : \A f \in Artifact[p] : file'[f] > 0
        BY <1>1, <1>6, Tables DEF Content, There
      <3> QED BY <1>1, <3>1 DEF There
    <2>2. Kept'
      <3> SUFFICES ASSUME NEW p \in ended', p \notin marked' PROVE \E f \in Vital[p] : seen'[p][f] # file'[f]
        BY DEF Kept
      <3>1. p \in Phases /\ p # Here /\ p \in ended /\ p \notin marked
        BY <1>1, <1>3
      <3> QED BY <1>6, <1>7, <3>1 DEF Content, Kept
    <2> QED BY <2>1, <2>2
  <1>14. Printed'
    <2> SUFFICES ASSUME NEW p \in Phases, Believed(p)', NEW f \in Inputs[p]
                 PROVE  /\ seen'[p][f] <= recorded'[p][f] /\ recorded'[p][f] <= file'[f]
                        /\ f \notin during'[p] => seen'[p][f] = recorded'[p][f]
      BY DEF Printed
    <2>1. p # Here
      BY <1>1, <1>3, <1>4, <1>9 DEF Believed
    <2>2. /\ seen[p][f] <= recorded[p][f] /\ recorded[p][f] <= file[f]
          /\ f \notin during[p] => seen[p][f] = recorded[p][f]
      BY <1>1, <1>3 DEF Content, Printed, Believed
    <2>3. file[f] \in Nat /\ file'[f] \in Nat /\ recorded[p][f] \in Nat /\ file[f] <= file'[f]
      BY <1>6, <1>8
    <2> QED BY <1>7, <2>1, <2>2, <2>3
  <1>15. Invited'
    <2> SUFFICES ASSUME NEW p \in Phases, NEW f \in Vital[p] \ Inputs[p]
                 PROVE  /\ p \in marked' => f \in during'[p] \/ seen'[p][f] = file'[f]
                        /\ Believed(p)' => f \in during'[p] \cup since[p] \/ seen'[p][f] = file'[f]
      BY <1>1 DEF Invited
    <2>1. f = "invite" /\ f \in Files
      BY Tables
    <2>2. file'[f] = file[f]
      BY <1>5, <1>6, <2>1
    <2>3. CASE p = Here
      BY <1>7, <2>3
    <2>4. CASE p # Here
      BY <1>1, <1>3, <1>7, <2>2, <2>4 DEF Content, Invited, Believed
    <2> QED BY <2>3, <2>4
  <1>16. Behind'
    <2> SUFFICES ASSUME NEW p \in Phases, Left(p)', p \notin skipped' PROVE Fresh(p)'
      BY DEF Behind
    <2>1. Left(p) /\ p # Here /\ Fresh(p)
      BY <1>1, <1>2 DEF Left, Content, Behind
    <2>2. Prepares[Here] \cap Vital[p] = {}
      <3>1. PICK i \in 1..9 : Order[i] = p /\ i < at
        BY <2>1, OrderIs DEF Left
      <3> QED BY <1>1, <3>1, LateWrites, OrderIs DEF Here
    <2> QED BY <1>1, <1>6, <1>7, <1>8, <2>1, <2>2 DEF Fresh
  <1> QED BY <1>10, <1>11, <1>12, <1>13, <1>14, <1>15, <1>16 DEF Content

\* A phase writes: only what no phase behind it reads, and what it has read itself is
\* what it wrote.
LEMMA WorkKeeps == ASSUME PipeInv, Work PROVE PipeInv'
  <1> USE DEF PipeInv, Control, TypeOK, run
  <1>1. /\ status = "running" /\ pc = "work" /\ at < Last /\ Here \in profile
        /\ pc' = "wrote" /\ audio' \in BOOLEAN
        /\ UNCHANGED <<run, marked, recorded, skipped, known, at, budget, during, since, ended>>
    BY DEF Work, Working, Placed, AtWork
  <1>2. Here \in Phases /\ ~Left(Here)
    BY <1>1, HereNotLeft
  <1>3. PICK outputs \in {Writes[Here], {f \in Artifact[Here] : file[f] = 0}} :
          /\ file' = Rewritten(outputs)
          /\ seen' = [seen EXCEPT ![Here] = [f \in Vital[Here] |-> IF f \in outputs THEN file'[f] ELSE seen[Here][f]]]
    BY DEF Work
  <1>4. /\ outputs \in SUBSET Files /\ "invite" \notin outputs /\ outputs \subseteq Writes[Here]
        /\ Artifact[Here] \subseteq Files
        /\ \A f \in Artifact[Here] : f \in outputs \/ file[f] > 0
    <2>1. /\ Artifact[Here] \subseteq Writes[Here] /\ Writes[Here] \subseteq Files
          /\ "invite" \notin Writes[Here]
      BY <1>2, Tables
    <2>2. \A f \in Files : file[f] = 0 \/ file[f] > 0
      OBVIOUS
    <2>3. CASE outputs = Writes[Here]
      BY <2>1, <2>3
    <2>4. CASE outputs = {f \in Artifact[Here] : file[f] = 0}
      BY <2>1, <2>2, <2>4
    <2> QED BY <2>3, <2>4
  <1>5. /\ file' \in [Files -> Nat] /\ \A f \in Files : file[f] <= file'[f]
        /\ \A f \in Files : file'[f] = IF f \in outputs THEN file[f] + 1 ELSE file[f]
        /\ \A f \in Files : file[f] > 0 => file'[f] > 0
        /\ \A p \in Phases : \A f \in Vital[p] : seen[p][f] # file[f] => seen[p][f] # file'[f]
        /\ \A p \in Phases : \A f \in Vital[p] : seen[p][f] <= file'[f]
    BY <1>3, <1>4, GrownKeeps
  <1>6. /\ DOMAIN seen' = Phases
        /\ \A f \in Vital[Here] : seen'[Here][f] = IF f \in outputs THEN file'[f] ELSE seen[Here][f]
        /\ seen'[Here] = [f \in Vital[Here] |-> IF f \in outputs THEN file'[f] ELSE seen[Here][f]]
        /\ \A p \in Phases : p # Here => seen'[p] = seen[p]
    BY <1>2, <1>3
  <1>7. \A p \in Phases : Inputs[p] \subseteq Vital[p] /\ Vital[p] \subseteq Files
    BY Tables
  <1>8. Vital["preprocess"] = {} /\ Inputs["preprocess"] = {}
    BY VitalIs, InputsAre, PhasesAre
  <1>9. Believed(Here) => Here = "preprocess"
    BY <1>1 DEF Believed, Withdrawn, Loaded, AtWork
  <1>10. TypeOK'
    <2>1. \A p \in Phases : seen'[p] \in [Vital[p] -> Nat]
      BY <1>2, <1>5, <1>6, <1>7
    <2> QED BY <1>1, <1>5, <1>6, <2>1
  <1>11. Placed' /\ Loaded' /\ Withdrawn'
    BY <1>1 DEF Placed, Loaded, Withdrawn, AtWork, Here
  <1>12. Grows'
    <2> SUFFICES ASSUME NEW p \in Phases, NEW f \in Vital[p] PROVE seen'[p][f] <= file'[f]
      BY DEF Grows
    <2> QED BY <1>5, <1>6, <1>7
  <1>13. Reading'
    <2> SUFFICES ASSUME NEW f \in Vital[Here], f \notin during[Here] PROVE seen'[Here][f] = file'[f]
      BY <1>1 DEF Reading, Here
    <2>1. seen[Here][f] = file[f]
      BY <1>1 DEF Content, Reading, AtWork
    <2> QED BY <1>2, <1>5, <1>6, <1>7, <2>1
  <1>14. There'
    <2>1. \A p \in ended : \A f \in Artifact[p] : file'[f] > 0
      BY <1>5, Tables DEF Content, There
    <2>2. \A f \in Artifact[Here] : file'[f] > 0
      BY <1>4, <1>5
    <2> QED BY <1>1, <2>1, <2>2 DEF There, Here
  <1>15. Kept'
    <2> SUFFICES ASSUME NEW p \in ended, p \notin marked PROVE \E f \in Vital[p] : seen'[p][f] # file'[f]
      BY <1>1 DEF Kept
    <2>1. p \in Phases /\ p # Here
      BY <1>1 DEF Withdrawn, AtWork
    <2> QED BY <1>5, <1>6, <2>1 DEF Content, Kept
  <1>16. Printed'
    <2> SUFFICES ASSUME NEW p \in Phases, Believed(p), NEW f \in Inputs[p]
                 PROVE  /\ seen'[p][f] <= recorded[p][f] /\ recorded[p][f] <= file'[f]
                        /\ f \notin during[p] => seen'[p][f] = recorded[p][f]
      BY <1>1 DEF Printed, Believed
    <2>1. p # Here
      BY <1>8, <1>9
    <2>2. /\ seen[p][f] <= recorded[p][f] /\ recorded[p][f] <= file[f]
          /\ f \notin during[p] => seen[p][f] = recorded[p][f]
      BY DEF Content, Printed
    <2>3. file[f] \in Nat /\ file'[f] \in Nat /\ recorded[p][f] \in Nat /\ file[f] <= file'[f]
      BY <1>5, <1>7
    <2> QED BY <1>6, <2>1, <2>2, <2>3
  <1>17. Invited'
    <2> SUFFICES ASSUME NEW p \in Phases, NEW f \in Vital[p] \ Inputs[p]
                 PROVE  /\ p \in marked => f \in during[p] \/ seen'[p][f] = file'[f]
                        /\ Believed(p) => f \in during[p] \cup since[p] \/ seen'[p][f] = file'[f]
      BY <1>1 DEF Invited, Believed
    <2>1. f = "invite" /\ f \in Files
      BY Tables
    <2>2. file'[f] = file[f]
      BY <1>4, <1>5, <2>1
    <2>3. CASE p = Here
      BY <1>8, <1>9, <2>3 DEF Believed
    <2>4. CASE p # Here
      BY <1>6, <2>2, <2>4 DEF Content, Invited
    <2> QED BY <2>3, <2>4
  <1>18. Behind'
    <2> SUFFICES ASSUME NEW p \in Phases, Left(p)', p \notin skipped' PROVE Fresh(p)'
      BY DEF Behind
    <2>1. Left(p) /\ p # Here /\ Fresh(p)
      BY <1>1, <1>2 DEF Left, Content, Behind
    <2>2. Writes[Here] \cap Vital[p] = {}
      <3>1. PICK i \in 1..9 : Order[i] = p /\ i < at
        BY <2>1, OrderIs DEF Left
      <3> QED BY <1>1, <3>1, LateWrites, OrderIs DEF Here
    <2> QED BY <1>1, <1>4, <1>5, <1>6, <1>7, <2>1, <2>2 DEF Fresh
  <1> QED BY <1>10, <1>11, <1>12, <1>13, <1>14, <1>15, <1>16, <1>17, <1>18 DEF Content

\* The dispatch ends before a phase, whose marker may have been withdrawn.
LEMMA EndKeeps ==
  ASSUME PipeInv, status = "running", pc = "decide", at < Last,
         status' = "stopped", closed' \in BOOLEAN, Gone,
         marked' = marked \/ marked' = Unmarked(Here),
         UNCHANGED <<profile, recorded, skipped, file, audio, budget, seen, during, ended>>
  PROVE  PipeInv'
  <1> USE DEF PipeInv, Control, TypeOK, Gone
  <1>1. /\ marked' \subseteq marked
        /\ \A p \in marked \ marked' : p \in known /\ ~PhaseStateValid(p)
    BY DEF Unmarked
  <1>2. TypeOK'
    <2>1. since' \in [Phases -> SUBSET Files] /\ at' \in 1..Last
      BY OrderIs DEF NoEdit
    <2> QED BY <1>1, <2>1
  <1>3. Placed' /\ Loaded' /\ Withdrawn'
    BY DEF Placed, Loaded, Withdrawn, AtWork
  <1>4. Grows' /\ Reading' /\ There' /\ Behind'
    BY DEF Content, Grows, Reading, There, Behind, AtWork
  <1>5. Printed' /\ Invited'
    BY <1>1 DEF Content, Printed, Invited, Believed
  <1>6. Kept'
    <2> SUFFICES ASSUME NEW p \in ended, p \notin marked' PROVE \E f \in Vital[p] : seen[p][f] # file[f]
      BY DEF Kept
    <2>1. CASE p \in marked
      BY <1>1, <2>1, InvalidIsChanged
    <2>2. CASE p \notin marked
      BY <2>2 DEF Content, Kept
    <2> QED BY <2>1, <2>2
  <1> QED BY <1>2, <1>3, <1>4, <1>5, <1>6 DEF Content

LEMMA RefusedKeeps == ASSUME PipeInv, Refused PROVE PipeInv'
  BY EndKeeps DEF Refused, Deciding

LEMMA CancelledKeeps == ASSUME PipeInv, Cancelled PROVE PipeInv'
  BY EndKeeps DEF Cancelled, Deciding

\* A review that cannot be served is noted as passed over.
LEMMA SkipTransientKeeps == ASSUME PipeInv, SkipTransient PROVE PipeInv'
  <1> USE DEF PipeInv, Control, TypeOK, run, history
  <1>1. /\ status = "running" /\ pc = "work" /\ at < Last /\ Here \in profile /\ Here = "final_review"
        /\ pc' = "decide" /\ marked' = marked \ {Here} /\ skipped' = skipped \cup {Here} /\ Advance
        /\ UNCHANGED <<run, known, file, audio, budget, history>>
    BY DEF SkipTransient, Working, BestEffort, Placed, AtWork
  <1>2. Here \in Phases /\ Here \notin ended /\ ~Believed(Here)
    BY <1>1, HereNotLeft DEF Withdrawn, AtWork, Believed, Loaded
  <1>3. /\ at' \in 2..Last /\ at < at' /\ (at' < Last => Order[at'] \in profile)
        /\ \A p \in profile, i \in 1..9 : Order[i] = p /\ i < at' => i < at \/ p = Here
    BY <1>1, Advances
  <1>4. /\ DOMAIN recorded' = Phases /\ recorded'[Here] = [f \in Inputs[Here] |-> 0]
        /\ \A p \in Phases : p # Here => recorded'[p] = recorded[p]
    BY <1>2 DEF SkipTransient, NoPrints
  <1>5. TypeOK'
    <2>1. \A p \in Phases : recorded'[p] \in [Inputs[p] -> Nat]
      BY <1>4
    <2> QED BY <1>1, <1>3, <1>4, <2>1, OrderIs
  <1>6. Placed' /\ Loaded' /\ Withdrawn'
    BY <1>1, <1>3 DEF Placed, Loaded, Withdrawn, AtWork, Here
  <1>7. Grows' /\ Reading' /\ There' /\ Kept'
    BY <1>1, <1>2 DEF Content, Grows, Reading, There, Kept, AtWork
  <1>8. Printed' /\ Invited'
    BY <1>1, <1>2, <1>4 DEF Content, Printed, Invited, Believed
  <1>9. Behind'
    <2>1. ASSUME NEW p \in Phases, Left(p)' PROVE Left(p) \/ p = Here
      BY <1>1, <1>3, <2>1, OrderIs DEF Left
    <2> QED BY <1>1, <2>1 DEF Content, Behind, Fresh
  <1> QED BY <1>5, <1>6, <1>7, <1>8, <1>9 DEF Content

-----------------------------------------------------------------------------
\* An edit: whoever it escapes is told so by during or since, and the invitation
\* withdraws the marker that no fingerprint would.
LEMMA EditKeeps ==
  ASSUME PipeInv, NEW fs \in SUBSET Files, Edited(fs),
         marked' = IF "invite" \in fs THEN marked \ {"correction"} ELSE marked
  PROVE  PipeInv'
  <1> USE DEF PipeInv, Control, TypeOK, run, memory
  <1>1. /\ file' = Rewritten(fs) /\ marked' \subseteq marked
        /\ \A p \in marked \ marked' : p = "correction" /\ "invite" \in fs
        /\ UNCHANGED <<run, recorded, skipped, memory, audio, seen, ended>>
    BY DEF Edited
  <1>2. /\ file' \in [Files -> Nat] /\ \A f \in Files : file[f] <= file'[f]
        /\ \A f \in Files : file'[f] = IF f \in fs THEN file[f] + 1 ELSE file[f]
        /\ \A f \in Files : file[f] > 0 => file'[f] > 0
        /\ \A p \in Phases : \A f \in Vital[p] : seen[p][f] # file[f] => seen[p][f] # file'[f]
        /\ \A p \in Phases : \A f \in Vital[p] : seen[p][f] <= file'[f]
        /\ \A p \in Phases : \A f \in Vital[p] \cap fs : seen[p][f] # file'[f]
    BY <1>1, GrownKeeps
  <1>3. \A p \in Phases : Inputs[p] \subseteq Vital[p] /\ Vital[p] \subseteq Files
    BY Tables
  <1>4. /\ during' \in [Phases -> SUBSET Files] /\ since' \in [Phases -> SUBSET Files]
        /\ \A p \in Phases : during[p] \subseteq during'[p] /\ since[p] \subseteq since'[p]
    BY DEF Edited
  <1>5. \A p \in Phases, f \in Files : f \in fs /\ f \in Vital[p] =>
          /\ status = "running" /\ Busy(p) => f \in during'[p]
          /\ status \in {"running", "success"} /\ Missed(p, f) => f \in since'[p]
    BY DEF Edited
  <1>6. TypeOK'
    <2>1. budget' \in [launches : Nat, dispatches : Nat, edits : Nat]
      BY DEF Edited
    <2> QED BY <1>1, <1>2, <1>4, <2>1
  <1>7. Placed' /\ Loaded' /\ Withdrawn'
    BY <1>1 DEF Placed, Loaded, Withdrawn, AtWork, Here
  <1>8. Grows' /\ There'
    <2>1. Grows'
      BY <1>1, <1>2 DEF Grows
    <2>2. \A p \in Phases : Artifact[p] \subseteq Files
      BY Tables
    <2>3. \A p \in ended : \A f \in Artifact[p] : file'[f] > 0
      BY <1>2, <2>2 DEF Content, There
    <2>4. pc = "wrote" => \A f \in Artifact[Here] : file'[f] > 0
      BY <1>2, <2>2, HereNotLeft DEF Content, There, Placed, AtWork
    <2> QED BY <1>1, <2>1, <2>3, <2>4 DEF There, Here
  <1>9. Reading'
    <2> SUFFICES ASSUME AtWork, NEW f \in Vital[Here], f \notin during'[Here] PROVE seen[Here][f] = file'[f]
      BY <1>1 DEF Reading, Here, AtWork
    <2>1. Here \in Phases /\ status = "running" /\ Busy(Here)
      BY HereNotLeft DEF Placed, AtWork, Busy
    <2>2. f \notin fs /\ f \in Files /\ f \notin during[Here]
      BY <1>3, <1>4, <1>5, <2>1
    <2> QED BY <1>2, <2>2 DEF Content, Reading
  <1>10. Kept'
    <2> SUFFICES ASSUME NEW p \in ended, p \notin marked' PROVE \E f \in Vital[p] : seen[p][f] # file'[f]
      BY <1>1 DEF Kept
    <2>1. CASE p \in marked
      <3>1. p = "correction" /\ "invite" \in fs /\ "invite" \in Vital["correction"]
        BY <1>1, <2>1, VitalIs, PhasesAre
      <3> QED BY <1>2, <3>1
    <2>2. CASE p \notin marked
      BY <1>2, <2>2 DEF Content, Kept
    <2> QED BY <2>1, <2>2
  <1>11. Printed'
    <2> SUFFICES ASSUME NEW p \in Phases, Believed(p)', NEW f \in Inputs[p]
                 PROVE  /\ seen[p][f] <= recorded[p][f] /\ recorded[p][f] <= file'[f]
                        /\ f \notin during'[p] => seen[p][f] = recorded[p][f]
      BY <1>1 DEF Printed
    <2>1. /\ seen[p][f] <= recorded[p][f] /\ recorded[p][f] <= file[f]
          /\ f \notin during[p] => seen[p][f] = recorded[p][f]
      BY <1>1 DEF Content, Printed, Believed
    <2>2. file[f] \in Nat /\ file'[f] \in Nat /\ recorded[p][f] \in Nat /\ file[f] <= file'[f]
      BY <1>2, <1>3
    <2> QED BY <1>4, <2>1, <2>2
  <1>12. Invited'
    <2> SUFFICES ASSUME NEW p \in Phases, NEW f \in Vital[p] \ Inputs[p]
                 PROVE  /\ p \in marked' => f \in during'[p] \/ seen[p][f] = file'[f]
                        /\ Believed(p)' => f \in during'[p] \cup since'[p] \/ seen[p][f] = file'[f]
      BY <1>1 DEF Invited
    <2>1. f = "invite" /\ f \in Files /\ p = "correction"
      BY Tables
    <2>2. CASE f \notin fs
      BY <1>1, <1>2, <1>4, <2>1, <2>2 DEF Content, Invited, Believed
    <2>3. CASE f \in fs
      <3>1. p \notin marked'
        BY <2>1, <2>3
      <3>2. Believed(p)' => f \in since'[p]
        BY <1>1, <1>5, <2>1, <2>3, <3>1 DEF Believed, Missed
      <3> QED BY <3>1, <3>2
    <2> QED BY <2>2, <2>3
  <1>13. Behind'
    <2> SUFFICES ASSUME status \in {"running", "success"}, NEW p \in Phases, Left(p), p \notin skipped,
                        NEW f \in Vital[p], f \notin during'[p] \cup since'[p]
                 PROVE  seen[p][f] = file'[f]
      BY <1>1 DEF Behind, Left, Fresh
    <2>1. f \notin fs /\ f \in Files /\ f \notin during[p] \cup since[p]
      BY <1>3, <1>4, <1>5 DEF Missed
    <2> QED BY <1>2, <2>1 DEF Content, Behind, Fresh
  <1> QED BY <1>6, <1>7, <1>8, <1>9, <1>10, <1>11, <1>12, <1>13 DEF Content

LEMMA EditsKeep == ASSUME PipeInv, Edit \/ EditInvite \/ EditTranscript PROVE PipeInv'
  <1>1. ASSUME Edit PROVE PipeInv'
    <2>1. PICK kind \in {"lexicon", "speakers", "meeting", "summary"} : Edited(Saved[kind]) /\ UNCHANGED marked
      BY <1>1 DEF Edit, Saved
    <2>2. Saved[kind] \in SUBSET Files /\ "invite" \notin Saved[kind]
      BY DEF Saved, Files
    <2> QED BY <2>1, <2>2, EditKeeps
  <1>2. ASSUME EditInvite PROVE PipeInv'
    BY <1>2, EditKeeps DEF EditInvite, Files
  <1>3. ASSUME EditTranscript PROVE PipeInv'
    BY <1>3, EditKeeps DEF EditTranscript, Files
  <1> QED BY <1>1, <1>2, <1>3

-----------------------------------------------------------------------------
\* Every step keeps the invariant.
LEMMA StepKeeps == PipeInv /\ [Next]_vars => PipeInv'
  <1> SUFFICES ASSUME PipeInv, [Next]_vars PROVE PipeInv'
    OBVIOUS
  <1>1. ASSUME NEW chosen \in Profiles, NEW open \in BOOLEAN, Launch(chosen, open) PROVE PipeInv'
    BY <1>1, LaunchKeeps
  <1>2. CASE Dispatch \/ Skip \/ Finish
    BY <1>2, DispatchKeeps, SkipKeeps, FinishKeeps
  <1>3. CASE Backfill \/ Start \/ Work \/ Checkpoint \/ SkipTransient
    BY <1>3, BackfillKeeps, StartKeeps, WorkKeeps, CheckpointKeeps, SkipTransientKeeps
  <1>4. CASE Refused \/ Cancelled
    BY <1>4, RefusedKeeps, CancelledKeeps
  <1>5. CASE Revive \/ LoseAudio \/ Wait \/ Fail \/ Restart
    BY <1>5, RestKeeps
  <1>6. CASE Edit \/ EditInvite \/ EditTranscript
    BY <1>6, EditsKeep
  <1>7. CASE UNCHANGED vars
    <2> USE <1>7 DEF vars, run, memory, history
    <2>1. Control'
      BY DEF PipeInv, Control, TypeOK, Placed, Loaded, Withdrawn, AtWork, Here
    <2>2. Grows' /\ Reading' /\ There' /\ Kept'
      BY DEF PipeInv, Content, Grows, Reading, There, Kept, AtWork, Here
    <2>3. Printed' /\ Invited' /\ Behind'
      BY DEF PipeInv, Content, Printed, Invited, Behind, Believed, Left, Fresh
    <2> QED BY <2>1, <2>2, <2>3 DEF PipeInv, Content
  <1> QED BY <1>1, <1>2, <1>3, <1>4, <1>5, <1>6, <1>7 DEF Next

\* The invariant holds of every behaviour.
LEMMA PipeHolds == Spec => []PipeInv
  BY InitPipe, StepKeeps, PTL DEF Spec

\* The variables keep their types; in particular no phase is both done and passed
\* over (mark_phase_done, mark_phase_skipped).
THEOREM TypeCorrect == Spec => []TypeOK
  <1>1. PipeInv => TypeOK
    BY DEF PipeInv, Control
  <1> QED BY <1>1, PipeHolds, PTL

\* When a run succeeds, whatever dispatches it took, no phase of its profile rests on
\* an input that changed since it was read, except by a user behind its back.
THEOREM NoStaleSuccess == Spec => []NothingStale
  <1>1. PipeInv => NothingStale
    <2> SUFFICES ASSUME PipeInv, status = "success", NEW p \in profile \ skipped PROVE Fresh(p)
      BY DEF NothingStale
    <2>1. p \in Phases /\ at = 10
      BY PipelineAssumption, OrderIs DEF PipeInv, Control, TypeOK, Placed
    <2>2. Left(p)
      BY <2>1, PhasesAre, OrderIs DEF Left
    <2> QED BY <2>1, <2>2 DEF PipeInv, Content, Behind
  <1> QED BY <1>1, PipeHolds, PTL

\* Within a launch no phase that ended is executed again, unless one of its inputs
\* was changed by somebody else or the audio it left is gone.
THEOREM NoNeedlessRework == Spec => NoRework
  <1>1. ASSUME PipeInv, [Next]_vars PROVE [\A p \in ended : Begins(p) => Called(p)]_vars
    <2> SUFFICES ASSUME NEW p \in ended, Begins(p), ~(p = "preprocess" /\ ~audio)
                 PROVE  \E f \in Vital[p] : seen[p][f] # file[f]
      BY DEF Called
    <2>1. Start
      BY <1>1 DEF Begins, Next, vars, memory, Launch, Revive, Dispatch, Skip, Backfill, Refused, Cancelled, Work,
         Checkpoint, Wait, SkipTransient, Fail, Finish, Restart, Edit, EditInvite, EditTranscript, Edited,
         LoseAudio, Gone, Working
    <2>2. p = Here /\ status = "running" /\ p \in Phases /\ ToDo(p)
      BY <1>1, <2>1 DEF Begins, Start, Deciding, PipeInv, Control, TypeOK
    <2>3. CASE p \in known
      <3>1. ~PhaseStateValid(p)
        BY <2>2, <2>3 DEF ToDo, Done, Usable
      <3> QED BY <1>1, <2>2, <2>3, <3>1, InvalidIsChanged
    <2>4. CASE p \notin known
      BY <1>1, <2>2, <2>4 DEF PipeInv, Control, Loaded, Content, Kept
    <2> QED BY <2>3, <2>4
  <1> QED BY <1>1, PipeHolds, PTL DEF Spec, NoRework
=============================================================================
