------------------------------ MODULE Pipeline ------------------------------
(***************************************************************************)
(* The phases of one job and how a run is resumed                          *)
(* (services/pipeline_service.py, services/pipeline_sequence.py,           *)
(* workflow/checkpoints.py, workflow/resume.py, workflow/phases/).         *)
(*                                                                         *)
(* A run may be dispatched several times: a phase that waits for memory    *)
(* gives the job back to the queue, a manager may put an ended entry back  *)
(* in it, the service may restart.  Each dispatch walks through the phases *)
(* of the profile and skips those whose work still stands: they are marked *)
(* as done, their artefact is there, and the files they declare as inputs  *)
(* have the fingerprints recorded when they ended.  Meanwhile users edit   *)
(* those files: lexicon, speakers, meeting, invitation at any time, the    *)
(* transcript when nothing is active; the separate step that makes the     *)
(* summary counts as an edit too.                                          *)
(*                                                                         *)
(* A file is the number of the content it has, 0 when it is absent: two    *)
(* fingerprints are equal when the contents are.                           *)
(***************************************************************************)
EXTENDS Naturals, Sequences

CONSTANTS
  Profiles,       \* the sets of phases a launch may ask for
  Users,          \* the edits users make, among EditKinds
  MaxLaunches,    \* bounds of the model: launches,
  MaxDispatches,  \* dispatches,
  MaxEdits        \* edits

\* PIPELINE_PHASES, with the two steps the sequence inserts for some jobs.
Order == <<"preprocess", "transcription", "multi_stt_review", "diarization", "correction",
           "final_review", "type_fields", "quality", "export">>
Phases == {Order[i] : i \in DOMAIN Order}

\* The text files of a job; the invitation is kept in the row of the job.
Files == {"raw", "segments", "lexicon", "context", "corrected", "meeting", "summary", "report",
          "invite"}
EditKinds == {"lexicon", "speakers", "meeting", "summary", "invite", "transcript"}

ASSUME PipelineAssumption ==
  /\ \A chosen \in Profiles : {"preprocess", "transcription"} \subseteq chosen /\ chosen \subseteq Phases
  /\ Users \subseteq EditKinds
  /\ MaxLaunches \in Nat /\ MaxDispatches \in Nat /\ MaxEdits \in Nat

VARIABLES
  profile,   \* the phases of the current launch
  status,    \* what the queue and the execution block say of it
  closed,    \* jobs.state is terminal: only a relaunch or a failure leaves it
  marked,    \* completed_phases
  recorded,  \* phase_inputs: the fingerprints taken when a phase was marked
  skipped,   \* skipped_phases
  known,     \* the phases the current dispatch believes done
  at,        \* the phase it has come to
  pc,        \* what it does there
  file,      \* the files
  audio,     \* whether the preprocessed audio is on this disk
  budget,    \* what remains of the bounds of the model
  seen,      \* history: the inputs a phase answers for, as it read or wrote them
  during,    \* history: the inputs users changed while the phase worked
  since,     \* history: the inputs users changed after the dispatch left the phase
  ended      \* history: the phases that ended since the launch

run     == <<profile, status, closed>>
memory  == <<known, at, pc>>
history == <<seen, during, since, ended>>
vars    == <<run, marked, recorded, skipped, memory, file, audio, budget, history>>

----------------------------------------------------------------------------
\* What the phases read and write.

\* _PHASE_INPUTS: the inputs a phase declares, those whose fingerprints are kept.
Inputs == [p \in Phases |->
  CASE p = "correction"   -> {"raw", "context"}
    [] p = "final_review" -> {"corrected", "lexicon"}
    [] p = "quality"      -> {"raw", "corrected", "segments", "lexicon"}
    [] p = "export"       -> {"raw", "corrected", "report", "meeting", "summary"}
    [] OTHER              -> {}]

\* _PHASE_ARTIFACT: the files without which a phase is not done.
Artifact == [p \in Phases |->
  CASE p = "transcription" -> {"raw"}
    [] p = "correction"    -> {"corrected"}
    [] p = "quality"       -> {"report"}
    [] OTHER               -> {}]

\* The files a phase rewrites before it reads its inputs, and those it produces.
Prepares == [p \in Phases |-> IF p = "correction" THEN {"context"} ELSE {}]
Writes == [p \in Phases |->
  CASE p = "transcription"    -> {"raw", "segments"}
    [] p = "multi_stt_review" -> {"raw", "segments"}
    [] p = "correction"       -> {"corrected", "segments", "meeting"}
    [] p = "final_review"     -> {"corrected", "meeting"}
    [] p = "type_fields"      -> {"meeting"}
    [] p = "quality"          -> {"report"}
    [] OTHER                  -> {}]

\* The phases that give the job back to the queue when the memory lacks, the one
\* that does without, and those that set a state a terminal job refuses.
Waiting   == {"transcription", "diarization", "correction"}
BestEffort == {"final_review"}
SetState  == {"transcription", "diarization", "quality"}

\* The inputs whose changes a phase must not miss: the declared ones, and the
\* invitation, which the correction reads and whose edits unmark it.
Vital == [p \in Phases |-> Inputs[p] \cup (IF p = "correction" THEN {"invite"} ELSE {})]

Rewritten(fs) == [f \in Files |-> IF f \in fs THEN file[f] + 1 ELSE file[f]]
NoPrints == [p \in Phases |-> [f \in Inputs[p] |-> 0]]
Nothing  == [p \in Phases |-> [f \in Vital[p] |-> 0]]
NoEdit   == [p \in Phases |-> {}]

\* The dispatch ends, and what it held in memory with it.
Gone  == known' = {} /\ at' = 1 /\ pc' = "idle" /\ since' = NoEdit

Here == Order[at]
Last == Len(Order) + 1
\* The next step: the sequence has the phases of the profile, and no other.
Advance ==
  /\ at' \in (at + 1)..Last
  /\ at' < Last => Order[at'] \in profile
  /\ \A i \in (at + 1)..Len(Order) : i < at' => Order[i] \notin profile

Init ==
  /\ profile \in Profiles /\ status = "new" /\ closed = FALSE
  /\ marked = {} /\ recorded = NoPrints /\ skipped = {}
  /\ known = {} /\ at = 1 /\ pc = "idle"
  /\ file = [f \in Files |-> IF f \in {"lexicon", "context", "meeting", "invite"} THEN 1 ELSE 0]
  /\ audio = FALSE
  /\ budget = [launches |-> MaxLaunches, dispatches |-> MaxDispatches, edits |-> MaxEdits]
  /\ seen = Nothing /\ during = NoEdit /\ since = NoEdit /\ ended = {}

----------------------------------------------------------------------------
\* Launches and dispatches.

Active == status \in {"queued", "running"}

\* api_process and api_reprocess: the state of resumption is emptied, the files stay.
\* A relaunch reopens the job, except a terminal one relaunched by api_process.
Launch(chosen, open) ==
  /\ ~Active /\ budget.launches > 0
  /\ profile' = chosen /\ status' = "queued" /\ closed' = (closed /\ ~open)
  /\ marked' = {} /\ skipped' = {} /\ recorded' = NoPrints
  /\ budget' = [budget EXCEPT !.launches = @ - 1]
  /\ seen' = Nothing /\ during' = NoEdit /\ since' = NoEdit /\ ended' = {}
  /\ UNCHANGED <<memory, file, audio>>

\* A manager pauses an ended entry and resumes it: the markers are kept.
Revive ==
  /\ status \in {"success", "stopped", "recovered"}
  /\ status' = "queued"
  /\ UNCHANGED <<profile, closed, marked, recorded, skipped, memory, file, audio, budget, history>>

\* CheckpointManager.__init__: the markers are loaded once for the dispatch.
Dispatch ==
  /\ status = "queued" /\ budget.dispatches > 0
  /\ status' = "running"
  /\ known' = marked /\ at' = 1 /\ pc' = "decide"
  /\ since' = NoEdit
  /\ budget' = [budget EXCEPT !.dispatches = @ - 1]
  /\ UNCHANGED <<profile, closed, marked, recorded, skipped, file, audio, seen, during, ended>>

----------------------------------------------------------------------------
\* CheckpointManager.is_done, and what the pipeline does with its answer.

Deciding == status = "running" /\ pc = "decide" /\ at < Last
Working  == status = "running" /\ pc = "work"

\* Mutant: a marker whose artefact is there is believed.
PhaseStateValidByMarker(p) == \A f \in Artifact[p] : file[f] > 0

PhaseStateValid(p) ==
  /\ \A f \in Artifact[p] : file[f] > 0
  /\ \A f \in Inputs[p] : recorded[p][f] = file[f]

Done(p)   == p \in known /\ PhaseStateValid(p)
Usable(p) == p = "preprocess" => audio
Unmarked(p) == IF p \in known /\ ~PhaseStateValid(p) THEN marked \ {p} ELSE marked
Forgotten(p) == IF p \in known /\ ~PhaseStateValid(p) THEN known \ {p} ELSE known

Skip ==
  /\ Deciding /\ Done(Here) /\ Usable(Here)
  /\ Advance
  /\ UNCHANGED <<run, marked, recorded, skipped, known, pc, file, audio, budget, history>>

\* Mutant: a phase that finally succeeds is still said to have been passed over.
MarkedStillSkipped(p) ==
  /\ recorded' = [recorded EXCEPT ![p] = [f \in Inputs[p] |-> file[f]]]
  /\ marked' = marked \cup {p} /\ known' = known \cup {p} /\ UNCHANGED skipped

\* checkpoint: the fingerprints are those of the files at the end of the phase.
Marked(p) ==
  /\ recorded' = [recorded EXCEPT ![p] = [f \in Inputs[p] |-> file[f]]]
  /\ marked' = marked \cup {p} /\ known' = known \cup {p} /\ skipped' = skipped \ {p}

\* A transcript without a marker is taken for that of an interrupted run.
Backfill ==
  /\ Deciding /\ Here = "transcription" /\ Here \notin known /\ file["raw"] > 0
  /\ Marked(Here)
  /\ Advance /\ ended' = ended \cup {Here}
  /\ UNCHANGED <<run, pc, file, audio, budget, seen, during, since>>

ToDo(p) ==
  /\ ~(Done(p) /\ Usable(p))
  /\ (p = "transcription" /\ p \notin known) => file["raw"] = 0

\* The phase begins: its marker is withdrawn first if its inputs have changed.
Start ==
  /\ Deciding /\ ToDo(Here)
  /\ closed => Here \notin SetState
  /\ marked' = Unmarked(Here) /\ known' = Forgotten(Here)
  /\ recorded' = [recorded EXCEPT ![Here] = NoPrints[Here]]
  /\ pc' = "work"
  /\ file' = Rewritten(Prepares[Here])
  /\ seen' = [seen EXCEPT ![Here] = [f \in Vital[Here] |-> file'[f]]]
  /\ during' = [during EXCEPT ![Here] = {}]
  /\ ended' = ended \ {Here}
  /\ UNCHANGED <<run, skipped, at, audio, budget, since>>

\* update_state refuses what a phase of a closed job asks for.
Refused ==
  /\ Deciding /\ ToDo(Here) /\ closed /\ Here \in SetState
  /\ marked' = Unmarked(Here)
  /\ status' = "stopped" /\ closed' = FALSE /\ Gone
  /\ UNCHANGED <<profile, recorded, skipped, file, audio, budget, seen, during, ended>>

\* A cancellation is noticed at the beginning and before each step of the sequence.
Cancelled ==
  /\ Deciding
  /\ at = 1 \/ (Here \notin {"preprocess", "transcription"} /\ ToDo(Here))
  /\ marked' = IF at = 1 THEN marked ELSE Unmarked(Here)
  /\ status' = "stopped" /\ closed' = TRUE /\ Gone
  /\ UNCHANGED <<profile, recorded, skipped, file, audio, budget, seen, during, ended>>

----------------------------------------------------------------------------
\* The work of a phase.

\* The phase produces its files, or finds nothing to change in those that are there.
Work ==
  /\ Working
  /\ \E outputs \in {Writes[Here], {f \in Artifact[Here] : file[f] = 0}} :
       /\ file' = Rewritten(outputs)
       /\ seen' = [seen EXCEPT ![Here] = [f \in Vital[Here] |-> IF f \in outputs THEN file'[f] ELSE @[f]]]
  /\ audio' = (audio \/ Here = "preprocess")
  /\ pc' = "wrote"
  /\ UNCHANGED <<run, marked, recorded, skipped, known, at, budget, during, since, ended>>

\* The phase ends: export is the one that then asks for a state.
Checkpoint ==
  /\ status = "running" /\ pc = "wrote"
  /\ closed => Here # "export"
  /\ Marked(Here)
  /\ Advance /\ pc' = "decide"
  /\ ended' = ended \cup {Here}
  /\ UNCHANGED <<run, file, audio, budget, seen, during, since>>

\* Mutant: a wait drops the state of resumption.
WaitAfresh ==
  /\ Working /\ Here \in Waiting
  /\ status' = "queued" /\ Gone /\ marked' = {}
  /\ UNCHANGED <<profile, closed, recorded, skipped, file, audio, budget, seen, during, ended>>

\* No memory for the phase: the job goes back to the queue, with its markers.
Wait ==
  /\ Working /\ Here \in Waiting
  /\ status' = "queued" /\ Gone
  /\ UNCHANGED <<profile, closed, marked, recorded, skipped, file, audio, budget, seen, during, ended>>

\* mark_skipped: the review could not be served; the pipeline goes on without it.
SkipTransient ==
  /\ Working /\ Here \in BestEffort
  /\ marked' = marked \ {Here} /\ skipped' = skipped \cup {Here}
  /\ recorded' = [recorded EXCEPT ![Here] = NoPrints[Here]]
  /\ Advance /\ pc' = "decide"
  /\ UNCHANGED <<run, known, file, audio, budget, history>>

\* The phase, or the push of its files, fails.
Fail ==
  /\ status = "running" /\ pc \in {"work", "wrote"}
  /\ status' = "stopped" /\ closed' = FALSE /\ Gone
  /\ UNCHANGED <<profile, marked, recorded, skipped, file, audio, budget, seen, during, ended>>

\* Every phase was done or skipped: the job is completed.
Finish ==
  /\ status = "running" /\ pc = "decide" /\ at = Last
  /\ status' = "success" /\ closed' = TRUE /\ pc' = "idle"
  /\ UNCHANGED <<profile, marked, recorded, skipped, known, at, file, audio, budget, history>>

\* The service restarts: a corrected transcript, of any run, makes a completed job.
Restart ==
  /\ status = "running"
  /\ IF file["corrected"] > 0
       THEN status' = "recovered" /\ closed' = TRUE
       ELSE status' = "stopped" /\ closed' = FALSE
  /\ Gone
  /\ UNCHANGED <<profile, marked, recorded, skipped, file, audio, budget, seen, during, ended>>

----------------------------------------------------------------------------
\* Users.

\* The phases whose work on f an edit made now comes after, or falls in.
Left(p) == p \in profile /\ \E i \in DOMAIN Order : Order[i] = p /\ i < at
Busy(p) == pc \in {"work", "wrote"} /\ p = Here
\* The invitation has no fingerprint: a dispatch that believes the correction done keeps it.
Missed(p, f) == Left(p) \/ (f = "invite" /\ p \in known)

\* A user changes these files: whoever works on them, or has just left them, misses it.
Edited(fs) ==
  /\ budget.edits > 0
  /\ budget' = [budget EXCEPT !.edits = @ - 1]
  /\ file' = Rewritten(fs)
  /\ during' = [p \in Phases |-> IF status = "running" /\ Busy(p)
                                 THEN during[p] \cup (fs \cap Vital[p]) ELSE during[p]]
  /\ since' = [p \in Phases |-> IF status \in {"running", "success"}
                                THEN since[p] \cup {f \in fs \cap Vital[p] : Missed(p, f)}
                                ELSE since[p]]
  /\ UNCHANGED <<run, recorded, skipped, memory, audio, seen, ended>>

\* The routes that save the lexicon or the speakers rebuild the context of the job; a
\* summary made anew suggests the fields of the meeting, unless the job is completed.
Saved == [lexicon |-> {"lexicon", "context"}, speakers |-> {"context"}, meeting |-> {"meeting"},
          summary |-> {"summary", "meeting"}]
Edit ==
  \E kind \in Users \cap DOMAIN Saved :
    /\ kind = "summary" => ~closed
    /\ Edited(Saved[kind]) /\ UNCHANGED marked

\* _invalidate_correction_on_invite_change: the invitation withdraws the marker.
EditInvite == "invite" \in Users /\ Edited({"invite"}) /\ marked' = marked \ {"correction"}

\* The editor, and the refinement of a transcript, work on a job that is not active.
EditTranscript ==
  /\ "transcript" \in Users /\ ~Active
  /\ file["raw"] > 0 \/ file["corrected"] > 0
  /\ Edited({"corrected"}) /\ UNCHANGED marked

\* The next dispatch is another worker's, or the cache of this one was emptied.
LoseAudio ==
  /\ status = "queued" /\ audio
  /\ audio' = FALSE
  /\ UNCHANGED <<run, marked, recorded, skipped, memory, file, budget, history>>

----------------------------------------------------------------------------
Next ==
  \/ \E chosen \in Profiles, open \in BOOLEAN : Launch(chosen, open)
  \/ Revive \/ Dispatch
  \/ Skip \/ Backfill \/ Start \/ Refused \/ Cancelled
  \/ Work \/ Checkpoint \/ Wait \/ SkipTransient \/ Fail \/ Finish \/ Restart
  \/ Edit \/ EditInvite \/ EditTranscript \/ LoseAudio

Spec == Init /\ [][Next]_vars

----------------------------------------------------------------------------
(***************************************************************************)
(* The variables keep their types.                                         *)
(***************************************************************************)
TypeOK ==
  /\ profile \in Profiles /\ closed \in BOOLEAN
  /\ status \in {"new", "queued", "running", "success", "stopped", "recovered"}
  /\ marked \subseteq profile /\ skipped \subseteq profile /\ marked \cap skipped = {}
  /\ known \subseteq Phases /\ at \in 1..Last /\ pc \in {"idle", "decide", "work", "wrote"}
  /\ pc # "idle" <=> status = "running"
  /\ file \in [Files -> Nat] /\ audio \in BOOLEAN
  /\ DOMAIN recorded = Phases /\ \A p \in Phases : recorded[p] \in [Inputs[p] -> Nat]
  /\ DOMAIN seen = Phases /\ \A p \in Phases : seen[p] \in [Vital[p] -> Nat]
  /\ budget \in [launches : Nat, dispatches : Nat, edits : Nat]
  /\ during \in [Phases -> SUBSET Files] /\ since \in [Phases -> SUBSET Files]
  /\ ended \subseteq Phases

(***************************************************************************)
(* When a run succeeds, whatever dispatches it took, no phase of its       *)
(* profile rests on an input that has changed since that phase read it,    *)
(* except a change a user made while the phase was at work, or after the   *)
(* last dispatch had left it behind; a review that was passed over is      *)
(* noted as such (resume.py:29-32).                                        *)
(***************************************************************************)
Fresh(p) == \A f \in Vital[p] \ (during[p] \cup since[p]) : seen[p][f] = file[f]
NothingStale == status = "success" => \A p \in profile \ skipped : Fresh(p)

(***************************************************************************)
(* Within a launch no phase that ended is executed again, unless one of    *)
(* its inputs was changed by somebody else, or the audio it left is gone:  *)
(* neither waits nor restarts, nor what the phase itself writes, make it   *)
(* start over (docs/PIPELINE_REPRISE.md, resume.py:1-5).                   *)
(***************************************************************************)
Called(p) == (p = "preprocess" /\ ~audio) \/ (\E f \in Vital[p] : seen[p][f] # file[f])
Begins(p) == pc = "decide" /\ pc' = "work" /\ p = Here
NoRework == [][\A p \in ended : Begins(p) => Called(p)]_vars
=============================================================================
