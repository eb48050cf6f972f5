----------------------------- MODULE Questions -----------------------------
(***************************************************************************)
(* "Ask my meetings": a page writes a question in the database, the worker *)
(* of the process that runs the queue claims it, has the arbitration LLM   *)
(* answer it from the meetings the asker may see, and records the answer   *)
(* as turns of the conversation (ask_meetings/, docs/DISCUTER_REUNIONS.md).*)
(*                                                                         *)
(* A question that waits or runs for too long is expired, by the worker    *)
(* before it claims (fail_stale) and by the page that reads it             *)
(* (expire_if_stale); both read the row, then write it by its id.  A       *)
(* process that stops hands the queue over without waiting for the answer  *)
(* it is in the middle of.  Meetings may be deleted at any moment, by a    *)
(* transaction of several statements: the answers that cite them go with   *)
(* them, but for those recorded while it runs.                             *)
(*                                                                         *)
(* All the questions are of one user and one conversation, of which every  *)
(* turn is replayed; the questions' own turns, the levels and the texts    *)
(* are left out: an answer is what it cites, nothing for "not found".  The *)
(* lock, the memory and the start of the LLM are those of GpuSharing: here *)
(* it is had or not.                                                       *)
(***************************************************************************)
EXTENDS Naturals, FiniteSets

CONSTANTS
  MaxQuestions,  \* bound of the model: questions asked, numbered as they are created
  Meetings,
  Confidential,  \* the meetings whose card is confidential
  Open,          \* the questions that include the confidential meetings
  Workers,       \* the processes that may run the queue
  First,         \* the one that runs it at first
  MaxRestarts,   \* bound of the model: crashes and handovers of the queue
  AtOnce         \* bound of the model: meetings deleted at the same time

Questions == 1..MaxQuestions

ASSUME QuestionsAssumption ==
  /\ MaxQuestions \in Nat /\ MaxRestarts \in Nat /\ AtOnce \in Nat
  /\ Confidential \subseteq Meetings
  /\ Open \subseteq Questions
  /\ First \in Workers

VARIABLES
  rows,      \* ask_requests: status, what the answer cites, the delays that have passed
  turns,     \* ask_turns and their citations: the answers
  meetings,  \* the meetings that exist
  forget,    \* the transaction that deletes each: where it is, what it has deleted so far
  threads,   \* the ask thread of each process
  page,      \* the stale rows a page has read and is about to write
  active,    \* the process that runs the queue
  restarts

vars == <<rows, turns, meetings, forget, threads, page, active, restarts>>

NoQuestion == 0
Statuses   == {"none", "waiting", "running", "done", "failed", "gone"}
Pending    == {"waiting", "running"}
Row == [status : Statuses, cites : SUBSET Meetings,
        late : BOOLEAN,      \* timeout_s has passed since created_at
        overrun : BOOLEAN,   \* and since started_at
        raced : SUBSET Meetings]  \* history: cited while their deletion was under way
Turn == [q : Questions, cites : SUBSET Meetings,
         about : SUBSET Meetings]  \* history: what the LLM cited
Forgetting == [at : {"none", "turns", "rows"}, turns : SUBSET Questions, rows : SUBSET Questions]

Idle == [at |-> "idle", q |-> NoQuestion, stale |-> {}, cands |-> {}, sent |-> {},
         seen |-> "none", cites |-> {}, about |-> {}]
Kept == [at |-> "none", turns |-> {}, rows |-> {}]

Init ==
  /\ rows = [q \in Questions |->
               [status |-> "none", cites |-> {}, late |-> FALSE, overrun |-> FALSE,
                raced |-> {}]]
  /\ turns = {} /\ meetings = Meetings
  /\ forget = [m \in Meetings |-> Kept]
  /\ threads = [w \in Workers |-> Idle]
  /\ page = {} /\ restarts = 0
  /\ active = First

Deleting == {m \in Meetings : forget[m].at # "none"}
At(w, where) == threads[w].at = where
Has(q, statuses) == rows[q].status \in statuses
Stale(q) == (Has(q, {"waiting"}) /\ rows[q].late) \/ (Has(q, {"running"}) /\ rows[q].overrun)
With(q, status) == [rows EXCEPT ![q].status = status]
Failed(some) == [q \in Questions |->
                   IF q \in some THEN [rows[q] EXCEPT !.status = "failed"] ELSE rows[q]]
\* fail(): only a running question fails.
FailRunning(q) == Failed({p \in {q} : Has(p, {"running"})})

----------------------------------------------------------------------------
\* The page, the clock and the meetings.

Submit(q) ==
  /\ Has(q, {"none"}) /\ \A p \in Questions : p < q => ~Has(p, {"none"})
  /\ rows' = With(q, "waiting")
  /\ UNCHANGED <<turns, meetings, forget, threads, page, active, restarts>>

\* The delay of q passes, since its creation, then since its claim.
Age(q) ==
  /\ Has(q, Pending)
  /\ \/ ~rows[q].late /\ rows' = [rows EXCEPT ![q].late = TRUE]
     \/ /\ rows[q].late /\ ~rows[q].overrun /\ Has(q, {"running"})
        /\ rows' = [rows EXCEPT ![q].overrun = TRUE]
  /\ UNCHANGED <<turns, meetings, forget, threads, page, active, restarts>>

PageReads(q) ==
  /\ page = {} /\ Stale(q)
  /\ page' = {q}
  /\ UNCHANGED <<rows, turns, meetings, forget, threads, active, restarts>>

\* A meeting is deleted with the answers that cite it, and with their requests: the
\* listener of the deletion selects the turns that cite it,
ForgetTurns(m) ==
  /\ m \in meetings /\ forget[m].at = "none" /\ Cardinality(Deleting) < AtOnce
  /\ forget' = [forget EXCEPT ![m].at = "turns",
                              ![m].turns = {t.q : t \in {u \in turns : m \in u.cites}}]
  /\ UNCHANGED <<rows, turns, meetings, threads, page, active, restarts>>

\* deletes them, then the requests that cite it at that moment,
ForgetRequests(m) ==
  /\ forget[m].at = "turns"
  /\ forget' = [forget EXCEPT ![m].at = "rows",
                              ![m].rows = {q \in Questions : m \in rows[q].cites}]
  /\ UNCHANGED <<rows, turns, meetings, threads, page, active, restarts>>

\* and the row of the meeting goes, with the citations that are left of it: the
\* cascade of the foreign key keeps their turns.  All is committed here.
DeleteMeeting(m) ==
  /\ forget[m].at = "rows"
  /\ meetings' = meetings \ {m}
  /\ turns' = {[t EXCEPT !.cites = @ \ {m}] : t \in {u \in turns : u.q \notin forget[m].turns}}
  /\ rows' = [q \in Questions |->
                IF q \in forget[m].rows
                THEN [rows[q] EXCEPT !.status = "gone", !.cites = {},
                                     !.late = FALSE, !.overrun = FALSE]
                ELSE rows[q]]
  /\ forget' = [forget EXCEPT ![m] = Kept]
  /\ UNCHANGED <<threads, page, active, restarts>>

Deletes(m) == ForgetTurns(m) \/ ForgetRequests(m) \/ DeleteMeeting(m)
\* The rows that a deletion under way has deleted: another writer waits for its end.
Locked == UNION {forget[m].rows : m \in Meetings}

PageExpires ==
  /\ page # {} /\ page \cap Locked = {} /\ page' = {}
  /\ rows' = Failed({q \in page : ~Has(q, {"gone"})})
  /\ UNCHANGED <<turns, meetings, forget, threads, active, restarts>>

----------------------------------------------------------------------------
\* process_next: expire, claim, answer.

\* The next iteration of the process that runs the queue; where nothing is stale,
\* there is nothing to expire.
ReadStale(w) ==
  /\ At(w, "idle") /\ active = w
  /\ LET stale == {q \in Questions : Stale(q)}
     IN threads' = [threads EXCEPT ![w].at = IF stale = {} THEN "select" ELSE "expire",
                                   ![w].stale = stale]
  /\ UNCHANGED <<rows, turns, meetings, forget, page, active, restarts>>

\* Mutant: only the waiting questions expire.
ExpireWaiting(w) ==
  /\ At(w, "expire")
  /\ rows' = Failed({q \in threads[w].stale : Has(q, {"waiting"})})
  /\ threads' = [threads EXCEPT ![w] = [Idle EXCEPT !.at = "select"]]
  /\ UNCHANGED <<turns, meetings, forget, page, active, restarts>>

\* A row that is gone makes the whole commit fail, which ends the iteration.
Expire(w) ==
  /\ At(w, "expire") /\ threads[w].stale \cap Locked = {}
  /\ IF \E q \in threads[w].stale : Has(q, {"gone"})
     THEN threads' = [threads EXCEPT ![w] = Idle] /\ UNCHANGED rows
     ELSE /\ rows' = Failed(threads[w].stale)
          /\ threads' = [threads EXCEPT ![w] = [Idle EXCEPT !.at = "select"]]
  /\ UNCHANGED <<turns, meetings, forget, page, active, restarts>>

\* The oldest that waits, if any.
Select(w) ==
  /\ At(w, "select")
  /\ LET waiting == {q \in Questions : Has(q, {"waiting"})}
     IN IF waiting = {} THEN threads' = [threads EXCEPT ![w] = Idle]
        ELSE \E q \in waiting :
               /\ \A p \in waiting : q <= p
               /\ threads' = [threads EXCEPT ![w].at = "claim", ![w].q = q]
  /\ UNCHANGED <<rows, turns, meetings, forget, page, active, restarts>>

\* Mutant: the claim does not look at the status again.
ClaimUnchecked(w) ==
  /\ At(w, "claim")
  /\ rows' = [rows EXCEPT ![threads[w].q].status = "running", ![threads[w].q].overrun = FALSE]
  /\ threads' = [threads EXCEPT ![w].at = "prepare"]
  /\ UNCHANGED <<turns, meetings, forget, page, active, restarts>>

\* UPDATE .. WHERE status = 'waiting'; another process may have been faster.
Claim(w) ==
  /\ At(w, "claim")
  /\ LET q == threads[w].q
     IN IF Has(q, {"waiting"})
        THEN /\ rows' = [rows EXCEPT ![q].status = "running", ![q].overrun = FALSE]
             /\ threads' = [threads EXCEPT ![w].at = "prepare"]
        ELSE /\ threads' = [threads EXCEPT ![w].at = "select", ![w].q = NoQuestion]
             /\ UNCHANGED rows
  /\ UNCHANGED <<turns, meetings, forget, page, active, restarts>>

Allowed(q) == IF q \in Open THEN Meetings ELSE Meetings \ Confidential

\* The question ends here in a failure: too old, nothing to answer from, the LLM
\* does not start, or anything raises, until the answer is recorded.
GiveUp(w) ==
  /\ threads[w].at \in {"prepare", "ready", "call", "filter", "commit"}
  /\ rows' = FailRunning(threads[w].q)
  /\ threads' = [threads EXCEPT ![w] = Idle]
  /\ UNCHANGED <<turns, meetings, forget, page, active, restarts>>

\* The meetings the asker may see, before anything of the LLM.
Prepare(w) ==
  LET cands == meetings \cap Allowed(threads[w].q)
  IN /\ At(w, "prepare") /\ ~rows[threads[w].q].late /\ cands # {}
     /\ threads' = [threads EXCEPT ![w].at = "ready", ![w].cands = cands]
     /\ UNCHANGED <<rows, turns, meetings, forget, page, active, restarts>>

\* Mutant: the thread keeps the question it gave back.
ReleaseKept(w) ==
  /\ At(w, "ready")
  /\ rows' = IF Has(threads[w].q, {"running"})
             THEN [rows EXCEPT ![threads[w].q].status = "waiting",
                               ![threads[w].q].overrun = FALSE] ELSE rows
  /\ threads' = [threads EXCEPT ![w].at = "idle"]
  /\ UNCHANGED <<turns, meetings, forget, page, active, restarts>>

\* The lock is not had in time, or the memory is short: later.
Release(w) ==
  /\ At(w, "ready")
  /\ rows' = IF Has(threads[w].q, {"running"})
             THEN [rows EXCEPT ![threads[w].q].status = "waiting",
                               ![threads[w].q].overrun = FALSE] ELSE rows
  /\ threads' = [threads EXCEPT ![w] = Idle]
  /\ UNCHANGED <<turns, meetings, forget, page, active, restarts>>

\* Mutant: every answer of the conversation is replayed.
AllTurns(w) == turns

\* The answers of which every meeting cited is a candidate of this question.
Replayed(w) == {t \in turns : t.cites \subseteq threads[w].cands}

\* The messages are built from the cards and the history; the call starts.
Call(w) ==
  /\ At(w, "ready")
  /\ threads' = [threads EXCEPT ![w].at = "call",
       ![w].sent = threads[w].cands \cup UNION {t.about : t \in Replayed(w)}]
  /\ UNCHANGED <<rows, turns, meetings, forget, page, active, restarts>>

\* The LLM answers, at one level or the next; the row is read again.  What the thread
\* looks at no more is let go of.
Answered(w) ==
  /\ At(w, "call")
  /\ \E cited \in SUBSET threads[w].cands :
       threads' = [threads EXCEPT ![w].at = "filter", ![w].about = cited,
                                  ![w].seen = rows[threads[w].q].status,
                                  ![w].cands = {}, ![w].sent = {}]
  /\ UNCHANGED <<rows, turns, meetings, forget, page, active, restarts>>

\* The meetings cited that were deleted meanwhile are dropped.
Filter(w) ==
  /\ At(w, "filter")
  /\ threads' = [threads EXCEPT ![w].at = "commit", ![w].cites = threads[w].about \cap meetings]
  /\ UNCHANGED <<rows, turns, meetings, forget, page, active, restarts>>

\* q is answered; how long ago it was created matters no more.
Done(q, cited) ==
  [rows EXCEPT ![q].status = "done", ![q].cites = cited, ![q].late = FALSE,
               ![q].raced = cited \cap Deleting]

\* Mutant: the citations are not constrained by the meetings.
RecordUnconstrained(w) ==
  /\ At(w, "commit") /\ threads[w].seen = "running"
  /\ rows' = Done(threads[w].q, threads[w].cites)
  /\ turns' = turns \cup {[q |-> threads[w].q, cites |-> threads[w].cites, about |-> threads[w].about]}
  /\ threads' = [threads EXCEPT ![w] = Idle]
  /\ UNCHANGED <<meetings, forget, page, active, restarts>>

\* Mutant: the turns are written whatever complete() says.
RecordAnyway(w) ==
  /\ At(w, "commit") /\ threads[w].cites \subseteq meetings
  /\ rows' = IF threads[w].seen # "running" THEN rows
             ELSE Done(threads[w].q, threads[w].cites)
  /\ turns' = turns \cup {[q |-> threads[w].q, cites |-> threads[w].cites, about |-> threads[w].about]}
  /\ threads' = [threads EXCEPT ![w] = Idle]
  /\ UNCHANGED <<meetings, forget, page, active, restarts>>

\* The turns and the end of the request, in one transaction: the foreign key of
\* the citations refuses a deleted meeting, not one whose deletion is under way.
Record(w) ==
  /\ At(w, "commit") /\ threads[w].seen = "running" /\ threads[w].cites \subseteq meetings
  /\ rows' = Done(threads[w].q, threads[w].cites)
  /\ turns' = turns \cup {[q |-> threads[w].q, cites |-> threads[w].cites, about |-> threads[w].about]}
  /\ threads' = [threads EXCEPT ![w] = Idle]
  /\ UNCHANGED <<meetings, forget, page, active, restarts>>

\* complete() found the request already ended: the transaction is rolled back.
Unexpected(w) ==
  /\ At(w, "commit") /\ threads[w].seen # "running"
  /\ threads' = [threads EXCEPT ![w] = Idle]
  /\ UNCHANGED <<rows, turns, meetings, forget, page, active, restarts>>

----------------------------------------------------------------------------
\* A process stops and gives the queue up, its thread goes on with what it has.
HandOver ==
  /\ restarts < MaxRestarts /\ restarts' = restarts + 1
  /\ active' \in Workers \ {active}
  /\ UNCHANGED <<rows, turns, meetings, forget, threads, page>>

Crash(w) ==
  /\ restarts < MaxRestarts /\ restarts' = restarts + 1
  /\ threads' = [threads EXCEPT ![w] = Idle]
  /\ UNCHANGED <<rows, turns, meetings, forget, page, active>>

Works(w) ==
  \/ ReadStale(w) \/ Expire(w) \/ Select(w) \/ Claim(w) \/ Prepare(w) \/ GiveUp(w)
  \/ Release(w) \/ Call(w) \/ Answered(w) \/ Filter(w) \/ Record(w) \/ Unexpected(w)

Next ==
  \/ \E q \in Questions : Submit(q) \/ Age(q) \/ PageReads(q)
  \/ \E m \in Meetings : Deletes(m)
  \/ \E w \in Workers : Works(w) \/ Crash(w)
  \/ PageExpires \/ HandOver

Spec == Init /\ [][Next]_vars

(***************************************************************************)
(* The dispatcher starts an iteration whenever none is under way and a     *)
(* call of the LLM has a timeout: a thread never stops for good.  Delays   *)
(* pass, and a transaction that deletes a meeting ends.  Nothing is        *)
(* assumed of the page, which may be closed.                               *)
(***************************************************************************)
Fairness ==
  /\ \A w \in Workers : WF_vars(Works(w))
  /\ \A q \in Questions : WF_vars(Age(q))
  /\ WF_vars(\E m \in Meetings : ForgetRequests(m) \/ DeleteMeeting(m))

FairSpec == Spec /\ Fairness

----------------------------------------------------------------------------
Searching == {"idle", "expire", "select"}
Handles   == {"claim", "prepare", "ready", "call", "filter", "commit"}
Thread(steps, qs) ==
  [at : steps, q : qs, stale : SUBSET Questions, cands : SUBSET Meetings, sent : SUBSET Meetings,
   seen : Statuses, cites : SUBSET Meetings, about : SUBSET Meetings]

TypeOK ==
  /\ rows \in [Questions -> Row] /\ turns \subseteq Turn
  /\ meetings \subseteq Meetings /\ page \subseteq Questions
  /\ forget \in [Meetings -> Forgetting] /\ Deleting \subseteq meetings
  /\ threads \in [Workers -> Thread(Searching, {NoQuestion}) \cup Thread(Handles, Questions)]
  /\ active \in Workers /\ restarts \in Nat

Handling(w) == threads[w].at \in Handles \ {"claim"}

(* A question is handled by one thread at a time, even when the queue changes
   hands in the middle of an answer, and is answered at most once
   (store.claim_next, release, complete). *)
HandledOnce ==
  /\ \A v, w \in Workers : Handling(v) /\ Handling(w) /\ threads[v].q = threads[w].q => v = w
  /\ \A t, u \in turns : t.q = u.q => t = u

(* The turns and the end of the request are all or nothing: an answer is in the
   conversation if its question is done, and only if the request carries it too;
   a request that carries an answer is done, unless it was late enough to expire
   while the answer was being written.  They cite the same of the meetings that
   exist.  The one answer that outlives its request was recorded while a meeting
   it cites was being deleted (worker._record, store.append_turn,
   models._forget_turns_citing_job). *)
AllOrNothing ==
  /\ \A q \in Questions : Has(q, {"done"}) =>
       \E t \in turns : t.q = q /\ t.cites = rows[q].cites \cap meetings
  /\ \A t \in turns :
       \/ Has(t.q, {"gone"}) /\ rows[t.q].raced # {}
       \/ /\ t.cites = rows[t.q].cites \cap meetings
          /\ Has(t.q, {"done"}) \/ (Has(t.q, {"failed"}) /\ rows[t.q].overrun)

(* The conversation never cites a meeting that was deleted, even when it was deleted
   while it was being asked about; a request does only if its answer was recorded
   while the deletion was under way, in whose transaction neither lock nor foreign
   key holds it back (models._forget_turns_citing_job, worker._record). *)
NoGhostMeeting ==
  /\ \A t \in turns : t.cites \subseteq meetings
  /\ \A q \in Questions : rows[q].cites \subseteq meetings \cup rows[q].raced

(* Of the meetings that exist, what goes to the LLM rests only on those the
   question may be answered from, the answers replayed from earlier questions
   included (worker._history, candidates.visible_candidates). *)
OnlyAllowed ==
  \A w \in Workers : threads[w].sent \cap meetings \subseteq Allowed(threads[w].q)

(* Every question comes to an end, whatever crashes and whoever reads it: the page
   does not wait for ever (store.fail_stale, worker._process). *)
QuestionsEnd ==
  \A q \in Questions : Has(q, {"waiting"}) ~> Has(q, {"done", "failed", "gone"})
=============================================================================
