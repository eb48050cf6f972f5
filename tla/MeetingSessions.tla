-------------------------- MODULE MeetingSessions --------------------------
(***************************************************************************)
(* A planned meeting, from the portal to the recording.  The portal keeps  *)
(* one row per session (ingestion/session_store.py) and walks it through   *)
(* the transition table of session_states.py; runners on other machines    *)
(* claim the due sessions, launch one bot each, relay what the bot prints  *)
(* and report its exit code (connector_service/runner/daemon.py); the bot  *)
(* uploads the recording itself (bot/cli.py, web/facade_api.py).           *)
(*                                                                         *)
(* A request of the portal reads the row without locking it and commits    *)
(* later: it is a transaction in txns from the moment it has read the row  *)
(* to Commit, and others may come between.  A request that refuses, or has *)
(* nothing to write, ends where it reads; one that never arrives has no    *)
(* effect.  Claims lock the rows they take and are one step.               *)
(*                                                                         *)
(* The clock is left out.  A lease may run out at any moment its length    *)
(* allows: a claim (5 minutes) once no report is under way and the bot is  *)
(* not waiting for its admission (2 minutes), unless SlowAdmission says    *)
(* that it may wait longer; a meeting (8 hours) once no bot is left in it  *)
(* (a bot stays 4 hours at most).                                          *)
(***************************************************************************)
EXTENDS Integers, FiniteSets

CONSTANTS
  Sessions,       \* identifiers of sessions
  Runners,        \* names of the runners
  None,           \* no runner, no session
  Meeting,        \* Meeting[s]: the meeting session s is about
  Capacity,       \* bots a runner follows at once
  MaxAttempts,    \* DEFAULT_MAX_ATTEMPTS
  MaxClaims,      \* bound of the model: MaxClaims[s], the claims of session s
  SlowAdmission,  \* TRUE: a bot may wait for admission longer than a claim's lease
  Mishaps,        \* the kinds of mishaps a behaviour may meet, each at most once
  Booked,         \* bound of the model: Booked[kind], the sessions of a behaviour that
                  \* may meet kind
  Dated           \* bound of the model: the sessions that may be planned for an hour

\* A POST that never arrives; a runner that dies; a request that commits over
\* a row that has changed since it was read; none of them.
Kinds == {"lost", "crash", "stale", "none"}

ASSUME MeetingAssumption ==
  /\ IsFiniteSet(Sessions)
  /\ Capacity \in Nat \ {0} /\ MaxAttempts \in Nat \ {0} /\ MaxClaims \in [Sessions -> Nat]
  /\ SlowAdmission \in BOOLEAN
  /\ Mishaps \subseteq Kinds /\ Booked \in [Mishaps -> SUBSET Sessions]
  /\ Dated \subseteq Sessions
  /\ None \notin Runners \cup Sessions

VARIABLES
  sessions,   \* the rows of meeting_sessions
  bots,       \* bots[s][n]: the bot launched by the n-th claim of s
  active,     \* active[r][s]: the claim runner r follows under s, 0 if none
  procs,      \* procs[r][s]: the claim whose process r can stop, 0 if none
  txns,       \* the txns that have read a row and not committed
  imports,    \* imports[j]: the meeting_imports row of the recording of job j
  fate        \* the kind of mishap this behaviour may meet, and whether it has

vars == <<sessions, bots, active, procs, txns, imports, fate>>

Claims == UNION {1..MaxClaims[s] : s \in Sessions}
Tries  == {0} \cup Claims

----------------------------------------------------------------------------
\* The transition table of session_states.py.

Terminal    == {"done", "not_admitted", "failed_final", "cancelled"}
Cancellable == {"planned", "claimed", "joining", "waiting_admission", "in_meeting"}
Reschedulable == {"not_admitted", "failed_final"}
States      == Cancellable \cup Terminal \cup {"ingesting"}

Transitions ==
  [planned           |-> {"claimed", "cancelled", "failed_final"},
   claimed           |-> {"joining", "waiting_admission", "in_meeting", "ingesting", "planned"}
                            \cup Terminal \cup {"failed_retryable"},
   joining           |-> {"waiting_admission", "in_meeting", "ingesting", "failed_retryable"}
                            \cup Terminal,
   waiting_admission |-> {"in_meeting", "ingesting", "failed_retryable"} \cup Terminal,
   in_meeting        |-> {"ingesting", "done", "failed_retryable", "cancelled"},
   ingesting         |-> {"done", "failed_retryable"}]

CanTransition(from, to) == from \in DOMAIN Transitions /\ to \in Transitions[from]

\* A technical failure is retried while attempts are left.
StateForExitCode(code, tries) ==
  CASE code = 0 -> "done"
    [] code = 1 -> "not_admitted"
    [] code = 2 /\ tries < MaxAttempts -> "failed_retryable"
    [] OTHER -> "failed_final"

\* What the runner may relay, in the order a bot prints it.
Events == <<"joining", "waiting_admission", "in_meeting", "ingesting">>
RunnerEvents == {Events[i] : i \in 1..4}

----------------------------------------------------------------------------
\* Rows, bots and transactions.

Row == [state : States \cup {"none", "checked"},
        by    : Runners \cup {None},     \* claimed_by
        tries : Tries,                   \* attempt_count
        when  : {"asap", "dated", "late"},
        retry : BOOLEAN,                 \* next_retry_at lies ahead
        job   : Sessions \cup {None},    \* the job, named after the session that created it
        born  : 0..Cardinality(Sessions)]

\* waiting: from docker run to the admission.  reported: the runner has posted
\* the result and waits for the answer.
InMeeting == {"meeting", "uploading"}
Alive     == {"waiting"} \cup InMeeting
Phases    == Alive \cup {"none", "launching", "exited", "reported", "gone"}

Bot == [phase : Phases,
        by    : Runners \cup {None},     \* None: no runner follows it any more
        told  : 0..4,                    \* how many of Events the runner has posted
        code  : 0..3]                    \* exit code; 3 stands for every other code

NoRow == [state |-> "none", by |-> None, tries |-> 0, when |-> "asap", retry |-> FALSE,
          job |-> None, born |-> 0]
NoBot == [phase |-> "none", by |-> None, told |-> 0, code |-> 3]
Gone  == [NoBot EXCEPT !.phase = "gone"]

\* A transaction about bot n of session s, sent by runner r, that writes row; seen
\* is the state it has read there, to the state it will write.
Txn == [op : RunnerEvents \cup {"result", "cancel", "ingest"},
        s : Sessions, n : Tries, r : Runners \cup {None}, row : Sessions,
        seen : States, to : States \cup {"failed_retryable"}]

Init ==
  /\ sessions = [s \in Sessions |-> NoRow]
  /\ bots = [s \in Sessions |-> [n \in Claims |-> NoBot]]
  /\ active = [r \in Runners |-> [s \in Sessions |-> 0]]
  /\ procs = [r \in Runners |-> [s \in Sessions |-> 0]]
  /\ txns = {}
  /\ imports = [s \in Sessions |-> "none"]
  /\ fate \in [kind : Mishaps, met : {FALSE}]

Created(s) == sessions[s].state \notin {"none", "checked"}
Ongoing(s) == Created(s) /\ sessions[s].state \notin Terminal
Under(s, n, ops) == \E q \in txns : q.s = s /\ q.n = n /\ q.op \in ops

May(kind) == fate = [kind |-> kind, met |-> FALSE]
Met       == fate' = [fate EXCEPT !.met = TRUE]

\* Unless a stale commit is among the mishaps, one transaction at a time has a
\* row; otherwise two, a bound of the model.
Undisturbed(s) == Cardinality({q \in txns : q.row = s}) < IF May("stale") THEN 2 ELSE 1

----------------------------------------------------------------------------
\* The portal.

\* Mutant: the event that a bot is in the meeting is not recorded.
EventTargetDeaf(event, row, r) ==
  IF row.by = r /\ CanTransition(row.state, event) /\ event # "in_meeting"
  THEN event ELSE "none"

\* Mutant: an event is recorded whatever has become of the session.
EventTargetAny(event, row, r) == IF row.by = r THEN event ELSE "none"

\* The state each request writes on the row it reads, "none" if it refuses or has
\* nothing to write.  A verdict for a session that is over is accepted and dropped.
EventTarget(event, row, r) ==
  IF row.by = r /\ CanTransition(row.state, event) THEN event ELSE "none"

ResultTarget(code, row, r) ==
  LET to == StateForExitCode(code, row.tries)
  IN  IF row.by = r /\ CanTransition(row.state, to) THEN to ELSE "none"

CancelTarget(row) == IF row.state \in Cancellable THEN "cancelled" ELSE "none"

\* close_on_ingest walks to done where the table allows it.
IngestTarget(row) == IF CanTransition(row.state, "done") THEN "done" ELSE row.state

\* A request about bot n of session s arrives and reads row.
Read(op, s, n, r, row, to) ==
  /\ Undisturbed(row)
  /\ txns' = txns \cup {q \in [op : {op}, s : {s}, n : {n}, r : {r}, row : {row},
                               seen : {sessions[row].state}, to : {to}] : to # "none"}

\* The POST does not reach the portal, which the sender takes for an answer.
Lost == May("lost") /\ Met /\ UNCHANGED txns

\* Mutant: the technical failure is recorded and the session not planned again.
WrittenUnplanned(q, row) == [row EXCEPT !.state = IF q.to = q.seen THEN @ ELSE q.to]

\* Mutant: a cancellation takes the session from its runner.
WrittenDisowned(q, row) ==
  IF q.to \in {"failed_retryable", "cancelled"}
  THEN [row EXCEPT !.state = IF q.to = "cancelled" THEN q.to ELSE "planned", !.by = None]
  ELSE [row EXCEPT !.state = IF q.to = q.seen THEN @ ELSE q.to]

\* A technical failure puts the session back in the plan, after a delay.
Written(q, row) ==
  IF q.to = "failed_retryable"
  THEN [row EXCEPT !.state = "planned", !.by = None, !.retry = TRUE]
  ELSE [row EXCEPT !.state = IF q.to = q.seen THEN @ ELSE q.to]

\* A recording is attached when its analysis succeeds; its import stays as it is
\* when it fails.
Commit(q) ==
  /\ sessions' = [sessions EXCEPT ![q.row] = Written(q, @)]
  /\ IF q.seen # sessions[q.row].state /\ q.to # q.seen THEN Met ELSE UNCHANGED fate
  /\ txns' = txns \ {q}
  /\ \/ UNCHANGED imports
     \/ q.op = "ingest" /\ imports' = [imports EXCEPT ![sessions[q.s].job] = "attached"]
  /\ UNCHANGED <<bots, active, procs>>

----------------------------------------------------------------------------
\* The user.

\* The page refuses a meeting that already has a session in progress ...
CheckDuplicate(s) ==
  /\ s \in Booked[fate.kind] /\ sessions[s].state = "none"
  /\ ~\E t \in Sessions : Meeting[t] = Meeting[s] /\ Ongoing(t)
  /\ sessions' = [sessions EXCEPT ![s].state = "checked"]
  /\ UNCHANGED <<bots, active, procs, txns, imports, fate>>

Planned(job, when) ==
  [NoRow EXCEPT !.state = "planned", !.when = when, !.job = job,
                !.born = 1 + Cardinality({s \in Sessions : Created(s)})]

\* ... and creates the job and the session afterwards.
Create(s) ==
  /\ sessions[s].state = "checked"
  /\ \E when \in {"asap"} \cup {w \in {"dated"} : s \in Dated} : sessions' = [sessions EXCEPT ![s] = Planned(s, when)]
  /\ UNCHANGED <<bots, active, procs, txns, imports, fate>>

\* A new session of the same job, as soon as possible.
Reschedule(s, t) ==
  /\ s \in Booked[fate.kind] /\ sessions[s].state = "none"
  /\ sessions[t].state \in Reschedulable
  /\ Meeting[s] = Meeting[t]
  /\ sessions' = [sessions EXCEPT ![s] = Planned(sessions[t].job, "asap")]
  /\ UNCHANGED <<bots, active, procs, txns, imports, fate>>

Cancel(s) ==
  /\ Ongoing(s)
  /\ ~Under(s, 0, {"cancel"})
  /\ Read("cancel", s, 0, None, s, CancelTarget(sessions[s]))
  /\ UNCHANGED <<sessions, bots, active, procs, imports, fate>>

\* The hour of the meeting passes; the delay before a retry ends (a minute at
\* least: the runner has had the answer to its last report).
Elapse(s) ==
  /\ sessions[s].state = "planned"
  /\ \/ /\ sessions[s].retry
        /\ \A n \in Claims : bots[s][n].phase # "reported"
        /\ sessions' = [sessions EXCEPT ![s].retry = FALSE]
     \/ /\ sessions[s].when = "dated"
        /\ sessions' = [sessions EXCEPT ![s].when = "late"]
  /\ UNCHANGED <<bots, active, procs, txns, imports, fate>>

----------------------------------------------------------------------------
\* The runner.

LastBot(s) == bots[s][sessions[s].tries]

\* Mutant: the lease of the meeting is never looked at.
ExpiredClaims(s) ==
  /\ sessions[s].state \in {"claimed", "joining", "waiting_admission"}
  /\ \/ SlowAdmission
     \/ /\ LastBot(s).phase \in InMeeting \cup {"none", "gone"}
        /\ ~Under(s, sessions[s].tries, RunnerEvents)
        /\ LastBot(s).phase \in InMeeting /\ LastBot(s).by # None => LastBot(s).told >= 3

\* The lease of the claim, or the one of the meeting, has run out.
Expired(s) ==
  \/ /\ sessions[s].state \in {"claimed", "joining", "waiting_admission"}
     /\ \/ SlowAdmission
        \/ /\ LastBot(s).phase \in InMeeting \cup {"none", "gone"}
           /\ ~Under(s, sessions[s].tries, RunnerEvents)
           /\ LastBot(s).phase \in InMeeting /\ LastBot(s).by # None => LastBot(s).told >= 3
  \/ /\ sessions[s].state = "in_meeting"
     /\ \A n \in Claims : bots[s][n].phase \notin Alive

Released(row) ==
  IF row.state = "in_meeting"
  THEN [row EXCEPT !.state = "failed_final"]
  ELSE [row EXCEPT !.state = "planned", !.by = None]

\* Nobody joins a meeting that has begun too long ago.
Taken(r, row) ==
  IF row.when = "late"
  THEN [row EXCEPT !.state = "failed_final"]
  ELSE [row EXCEPT !.state = "claimed", !.by = r, !.tries = @ + 1]

Claimable(s, row) ==
  row.state = "planned" /\ ~row.retry /\ row.tries < MaxClaims[s]

\* A runner asks for as many sessions as it has room for.
Room(r) == Capacity - Cardinality({s \in Sessions : active[r][s] # 0})

\* A claim first gives back the sessions whose lease has run out (E), then takes
\* due sessions (D), as many as the runner has room for.  If the answer is lost
\* no bot starts.
Claim(r) ==
  \E E, D \in SUBSET Sessions :
    LET freed == [s \in Sessions |-> IF s \in E THEN Released(sessions[s]) ELSE sessions[s]]
        rows  == [s \in Sessions |-> IF s \in D THEN Taken(r, freed[s]) ELSE freed[s]]
        taken == {s \in D : rows[s].state = "claimed"}
    IN  /\ E \cup D # {}
        /\ \A s \in E : Expired(s)
        /\ \A s \in D : Claimable(s, freed[s])
        /\ \A s \in E \cup D : Undisturbed(s)
        /\ Room(r) > 0 /\ Cardinality(D) <= Room(r)
        /\ sessions' = rows
        /\ \/ /\ bots' = [s \in Sessions |-> IF s \in taken
                            THEN [bots[s] EXCEPT ![rows[s].tries] =
                                    [NoBot EXCEPT !.phase = "launching", !.by = r]]
                            ELSE bots[s]]
              /\ active' = [active EXCEPT ![r] =
                              [s \in Sessions |-> IF s \in taken THEN rows[s].tries ELSE @[s]]]
              /\ UNCHANGED <<txns, fate>>
           \/ taken # {} /\ Lost /\ UNCHANGED <<bots, active>>
        /\ UNCHANGED <<procs, imports>>

\* docker run starts, and the runner says so; or it does not start.
Launch(s, n) ==
  LET r == bots[s][n].by
  IN  /\ bots[s][n].phase = "launching"
      /\ \/ /\ bots' = [bots EXCEPT ![s][n].phase = "waiting", ![s][n].told = 1]
            /\ procs' = [procs EXCEPT ![r][s] = n]
            /\ \/ /\ Read("joining", s, n, r, s, EventTarget("joining", sessions[s], r))
                  /\ UNCHANGED fate
               \/ Lost
         \/ /\ bots' = [bots EXCEPT ![s][n].phase = "exited", ![s][n].code = 3]
            /\ UNCHANGED <<procs, txns, fate>>
      /\ UNCHANGED <<sessions, active, imports>>

\* How many of Events a bot has printed.
Printed(s, n) ==
  CASE bots[s][n].phase = "waiting"   -> 2
    [] bots[s][n].phase = "meeting"   -> 3
    [] bots[s][n].phase = "uploading" -> 4
    [] OTHER                          -> 0

\* The runner posts the events in the order they are printed, one at a time.
Relay(s, n) ==
  LET r == bots[s][n].by
      event == Events[bots[s][n].told + 1]
  IN  /\ r # None
      /\ bots[s][n].told < Printed(s, n)
      /\ ~Under(s, n, RunnerEvents)
      /\ bots' = [bots EXCEPT ![s][n].told = @ + 1]
      /\ \/ /\ Read(event, s, n, r, s, EventTarget(event, sessions[s], r))
            /\ UNCHANGED fate
         \/ Lost
      /\ UNCHANGED <<sessions, active, procs, imports>>

\* The bot has exited.  What it had printed and was not relayed is dropped; an
\* event the portal is handling may still commit after the result.
Report(s, n) ==
  LET r == bots[s][n].by
  IN  /\ bots[s][n].phase = "exited"
      /\ ~Under(s, n, {"joining"})
      /\ bots' = [bots EXCEPT ![s][n].phase = "reported"]
      /\ \/ /\ Read("result", s, n, r, s, ResultTarget(bots[s][n].code, sessions[s], r))
            /\ UNCHANGED fate
         \/ Lost
      /\ UNCHANGED <<sessions, active, procs, imports>>

\* The task ends and takes with it whatever is filed under the session.
TaskEnds(s, n) ==
  LET r == bots[s][n].by
  IN  /\ bots[s][n].phase = "reported"
      /\ ~Under(s, n, {"result"})
      /\ bots' = [bots EXCEPT ![s][n] = Gone]
      /\ active' = [active EXCEPT ![r][s] = 0]
      /\ procs' = [procs EXCEPT ![r][s] = 0]
      /\ UNCHANGED <<sessions, txns, imports, fate>>

\* The heartbeat brings back the cancelled sessions of the runner, which stops
\* the bots it knows of.
Heartbeat(r) ==
  LET stopped == {s \in Sessions : /\ sessions[s].state = "cancelled" /\ sessions[s].by = r
                                   /\ procs[r][s] # 0
                                   /\ bots[s][procs[r][s]].phase \in Alive}
  IN  /\ stopped # {}
      /\ bots' = [s \in Sessions |-> IF s \in stopped
                    THEN [bots[s] EXCEPT ![procs[r][s]].phase = "exited", ![procs[r][s]].code = 0]
                    ELSE bots[s]]
      /\ UNCHANGED <<sessions, active, procs, txns, imports, fate>>

\* The runner dies; its containers live on.
Crash(r) ==
  /\ May("crash")
  /\ \E s \in Sessions : active[r][s] # 0
  /\ active' = [active EXCEPT ![r] = [s \in Sessions |-> 0]]
  /\ procs' = [procs EXCEPT ![r] = [s \in Sessions |-> 0]]
  /\ bots' = [s \in Sessions |-> [n \in Claims |->
                CASE bots[s][n].by # r          -> bots[s][n]
                  [] bots[s][n].by = r /\ bots[s][n].phase \in Alive
                                                -> [bots[s][n] EXCEPT !.by = None]
                  [] OTHER                      -> Gone]]
  /\ Met
  /\ UNCHANGED <<sessions, txns, imports>>

----------------------------------------------------------------------------
\* The bot.

BotAdmitted(s, n) ==
  /\ bots[s][n].phase = "waiting"
  /\ bots' = [bots EXCEPT ![s][n].phase = "meeting"]
  /\ UNCHANGED <<sessions, active, procs, txns, imports, fate>>

\* The session a recording of job j closes: the last one created.
ForJob(j) == CHOOSE s \in Sessions :
               /\ sessions[s].job = j
               /\ \A t \in Sessions : sessions[t].job = j => sessions[t].born <= sessions[s].born

\* The bot was in the meeting and has recorded something: it uploads it.  The
\* portal keeps one import per recording of a job and answers a second upload
\* that the first exists; a refusal (cloud gate, permission) leaves the import it
\* has just inserted behind it.
BotUploads(s, n) ==
  LET j == sessions[s].job
      t == ForJob(j)
  IN  /\ bots[s][n].phase = "meeting"
      /\ bots' = [bots EXCEPT ![s][n].phase = "uploading"]
      /\ \/ Lost /\ UNCHANGED imports
         \/ imports[j] # "none" /\ UNCHANGED <<txns, imports, fate>>
         \/ /\ imports[j] = "none"
            /\ imports' = [imports EXCEPT ![j] = "received"]
            /\ UNCHANGED fate
            /\ \/ UNCHANGED txns
               \/ Read("ingest", s, n, None, t, IngestTarget(sessions[t]))
      /\ UNCHANGED <<sessions, active, procs>>

\* Before its admission a bot ends with 1 or 3; after it, with any code.  It
\* leaves without uploading if it has recorded nothing or was killed.
BotExits(s, n) ==
  /\ bots[s][n].phase \in Alive
  /\ ~Under(s, n, {"ingest"})
  /\ \E code \in IF bots[s][n].phase \in InMeeting THEN 0..3 ELSE {1, 3} :
       bots' = [bots EXCEPT ![s][n] = IF @.by = None THEN Gone
                                      ELSE [@ EXCEPT !.phase = "exited", !.code = code]]
  /\ UNCHANGED <<sessions, active, procs, txns, imports, fate>>

----------------------------------------------------------------------------
UserStep == \E s \in Sessions : \/ CheckDuplicate(s) \/ Create(s) \/ Cancel(s)
                                \/ \E t \in Sessions : Reschedule(s, t)
RunnerStep == \E r \in Runners : Claim(r) \/ Heartbeat(r) \/ Crash(r)
TaskStep(s, n) == Launch(s, n) \/ Relay(s, n) \/ Report(s, n) \/ TaskEnds(s, n)
BotStep(s, n)  == BotAdmitted(s, n) \/ BotUploads(s, n) \/ BotExits(s, n)

Next ==
  \/ UserStep
  \/ \E s \in Sessions : Elapse(s)
  \/ \E q \in txns : Commit(q)
  \/ RunnerStep
  \/ \E s \in Sessions, n \in Claims : TaskStep(s, n) \/ BotStep(s, n)

Spec == Init /\ [][Next]_vars

\* The portal commits, the runners poll, a meeting ends, the hour comes.  Nothing
\* says that a user cancels, that a bot is stopped or that a runner dies.
Fairness ==
  /\ WF_vars(\E q \in txns : Commit(q))
  /\ \A s \in Sessions : WF_vars(Elapse(s))
  /\ \A r \in Runners : WF_vars(Claim(r))
  /\ \A s \in Sessions, n \in Claims : WF_vars(TaskStep(s, n)) /\ WF_vars(BotStep(s, n))

FairSpec == Spec /\ Fairness

----------------------------------------------------------------------------
(* Properties.                                                             *)

\* The rows hold states of the table (a technical failure is a passage, never a
\* state a session is left in) and an attempt belongs to a claim.
TypeOK ==
  /\ sessions \in [Sessions -> Row]
  /\ bots \in [Sessions -> [Claims -> Bot]]
  /\ active \in [Runners -> [Sessions -> Tries]]
  /\ procs \in [Runners -> [Sessions -> Tries]]
  /\ txns \subseteq Txn
  /\ imports \in [Sessions -> {"none", "received", "attached"}]
  /\ fate \in [kind : Mishaps, met : BOOLEAN]

AliveBots(s) == {n \in Claims : bots[s][n].phase \in Alive}

\* One session, one bot: a session that a retry or a lease has put back in the plan,
\* for any runner to claim, has no bot alive (release_expired_leases, apply_result).
OneBot ==
  ~fate.met => \A s \in Sessions :
    /\ Cardinality(AliveBots(s)) <= 1
    /\ sessions[s].state = "planned" => AliveBots(s) = {}

\* A runner, even one that has just restarted, never follows more live bots than its
\* capacity: a claim asks only for the room left, claims being answered later.
WithinCapacity ==
  (fate.met => fate.kind = "crash") => \A r \in Runners :
    Cardinality({c \in Sessions \X Claims :
                   LET b == bots[c[1]][c[2]] IN b.by = r /\ b.phase \in Alive}) <= Capacity

\* The bot of a cancelled session can be stopped: the heartbeat of the runner that
\* follows it still brings the session back, and the runner knows its process.
CancelReaches ==
  ~fate.met => \A s \in Sessions, n \in Claims :
    /\ sessions[s].state = "cancelled"
    /\ bots[s][n].phase \in Alive /\ bots[s][n].by # None
    => sessions[s].by = bots[s][n].by /\ procs[bots[s][n].by][s] = n

\* A verdict is never overwritten: neither a later event nor a late report, a
\* recording that arrives, a lease that runs out or a claim changes a session that
\* is over.  (A request that has read the row before the verdict does; see README.)
VerdictsStand ==
  [][~(fate'.met /\ fate.kind = "stale") =>
       \A s \in Sessions : sessions[s].state \in Terminal
                             => sessions'[s].state = sessions[s].state]_vars

\* A planned session comes to an end or to the upload of its recording, whatever its
\* bots do and whether or not their reports arrive, unless the bound of the model
\* stops its claims.
SessionsSettle ==
  \A s \in Sessions : sessions[s].state = "planned" ~>
    \/ sessions[s].state \in Terminal \cup {"ingesting"}
    \/ sessions[s].tries = MaxClaims[s] /\ (fate.met \/ MaxClaims[s] < MaxAttempts)

\* A planned session comes to a verdict, as session_states.py promises: a refused
\* admission is terminal at once, a technical failure after its last attempt.
SessionsEnd ==
  \A s \in Sessions : sessions[s].state = "planned" ~> sessions[s].state \in Terminal
=============================================================================
