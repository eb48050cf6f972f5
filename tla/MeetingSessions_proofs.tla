----------------------- MODULE MeetingSessions_proofs -----------------------
(***************************************************************************)
(* What holds of MeetingSessions for every set of sessions and runners and *)
(* every number of attempts and claims.                                    *)
(*                                                                         *)
(* RowInv says what a transaction may write on the row it has read (Shape) *)
(* and, as long as no commit may be stale, that the row is still as it was *)
(* read (Fresh).  BotInv follows the bots of each session until the mishap *)
(* of the behaviour: only the last is there, the row, the runner and the   *)
(* process are its own, and the row says that it is in the meeting, or is  *)
(* about to, before the lease of the claim may run out (Followed).         *)
(***************************************************************************)
EXTENDS MeetingSessions, FiniteSetTheorems, WellFoundedInduction, TLAPS

\* A session has a job from its creation on.
Jobs == \A s \in Sessions : sessions[s].job # None <=> Created(s)

\* A bot has been launched for a session that exists.
Started == \A s \in Sessions, n \in Claims : bots[s][n] # NoBot => Created(s)

\* What a transaction may write: a step of the table, or the state it has read.
Shape(q) ==
  /\ \/ CanTransition(q.seen, q.to) /\ q.to # "planned"
     \/ q.op = "ingest" /\ q.to = q.seen
  /\ q.to = "failed_retryable" => q.op = "result"
  /\ q.op \in RunnerEvents \cup {"result"} => q.row = q.s
  /\ q.op = "in_meeting" => q.to = "in_meeting"

Requests == IsFiniteSet(txns) /\ \A q \in txns : Shape(q) /\ Created(q.row)

\* Unless commits may be stale, a transaction has its row to itself.
Fresh ==
  fate.kind # "stale" =>
    \A q \in txns : /\ q.seen = sessions[q.row].state
                    /\ \A p \in txns : p.row = q.row => p = q

RowInv == TypeOK /\ Jobs /\ Started /\ Requests /\ Fresh

-----------------------------------------------------------------------------
\* What the transition table says of the states before and after a step.
Past == {"in_meeting", "ingesting"} \cup Terminal

LEMMA Table ==
  ASSUME NEW from, NEW to, CanTransition(from, to)
  PROVE  /\ from \in States \ Terminal
         /\ to \in States \cup {"failed_retryable"}
         /\ to # from
         /\ from \in Past => to \in Past \cup {"failed_retryable"}
  <1>1. from \in {"planned", "claimed", "joining", "waiting_admission", "in_meeting", "ingesting"}
        /\ to \in Transitions[from]
    BY DEF CanTransition, Transitions
  <1>2. CASE from \in {"planned", "claimed"}
    BY <1>1, <1>2 DEF Transitions, States, Terminal, Cancellable, Past
  <1>3. CASE from \in {"joining", "waiting_admission"}
    BY <1>1, <1>3 DEF Transitions, States, Terminal, Cancellable, Past
  <1>4. CASE from \in {"in_meeting", "ingesting"}
    BY <1>1, <1>4 DEF Transitions, States, Terminal, Cancellable, Past
  <1> QED BY <1>1, <1>2, <1>3, <1>4

\* The table lets every request but an event under way have its way.
LEMMA Joins ==
  ASSUME NEW from \in {"claimed", "joining", "waiting_admission"}
  PROVE  CanTransition(from, "in_meeting")
  BY DEF CanTransition, Transitions

\* Attempts are counted from one.
LEMMA Counts == Claims \subseteq Nat \ {0} /\ Tries \subseteq Nat /\ Claims \subseteq Tries /\ 0 \in Tries
  BY MeetingAssumption DEF Claims, Tries

-----------------------------------------------------------------------------
(* Rows.                                                                   *)

\* A row written by a transaction keeps its job, its age and its attempts.
LEMMA WrittenRow ==
  ASSUME NEW q \in Txn, Shape(q), NEW row \in Row, row.state \in States
  PROVE  /\ Written(q, row) \in Row
         /\ Written(q, row).state \in States
         /\ Written(q, row).job = row.job /\ Written(q, row).tries = row.tries
         /\ q.to = q.seen => Written(q, row).state = row.state
         /\ q.to # q.seen /\ q.to # "failed_retryable" => Written(q, row).state = q.to
         /\ q.to = "failed_retryable" => /\ Written(q, row).state = "planned"
                                         /\ Written(q, row).retry
         /\ q.to # "failed_retryable" => /\ Written(q, row).by = row.by
                                         /\ Written(q, row).retry = row.retry
  <1>1. q.seen \in States /\ q.to \in States \cup {"failed_retryable"}
    BY DEF Txn
  <1>2. "failed_retryable" \notin States /\ "planned" \in States
    BY DEF States, Cancellable, Terminal
  <1>3. CASE q.to = "failed_retryable"
    <2>1. Written(q, row) = [row EXCEPT !.state = "planned", !.by = None, !.retry = TRUE]
      BY <1>3 DEF Written
    <2> QED BY <1>1, <1>2, <1>3, <2>1, ZenonT(30) DEF Row
  <1>4. CASE q.to # "failed_retryable"
    <2>1. Written(q, row) = [row EXCEPT !.state = IF q.to = q.seen THEN row.state ELSE q.to]
      BY <1>4 DEF Written
    <2> QED BY <1>1, <1>2, <1>4, <2>1 DEF Row
  <1> QED BY <1>3, <1>4

\* A lease that runs out ends the session or puts it back in the plan.
LEMMA ReleasedRow ==
  ASSUME NEW row \in Row
  PROVE  /\ Released(row) \in Row
         /\ Released(row).state = IF row.state = "in_meeting" THEN "failed_final" ELSE "planned"
         /\ Released(row).job = row.job /\ Released(row).tries = row.tries
         /\ Released(row).retry = row.retry /\ Released(row).when = row.when
         /\ row.state = "in_meeting" => Released(row).by = row.by
  BY DEF Released, Row, States, Terminal, Cancellable

\* A claim takes a row, or gives the session up when its hour is past.
LEMMA TakenRow ==
  ASSUME NEW s \in Sessions, NEW r \in Runners, NEW row \in Row, Claimable(s, row)
  PROVE  /\ Taken(r, row) \in Row
         /\ Taken(r, row).job = row.job
         /\ Taken(r, row).state \in {"claimed", "failed_final"}
         /\ Taken(r, row).state = "claimed" =>
              /\ Taken(r, row).by = r /\ Taken(r, row).tries = row.tries + 1
              /\ Taken(r, row).tries \in Claims
         /\ Taken(r, row).state = "failed_final" =>
              Taken(r, row).by = row.by /\ Taken(r, row).tries = row.tries
  <1>1. row.tries \in Nat /\ MaxClaims[s] \in Nat
    BY Counts, MeetingAssumption DEF Row
  <1>2. row.tries + 1 \in Claims
    BY <1>1 DEF Claimable, Claims
  <1>3. row.tries + 1 \in Tries
    BY <1>2, Counts
  <1>4. CASE row.when = "late"
    <2>1. Taken(r, row) = [row EXCEPT !.state = "failed_final"]
      BY <1>4 DEF Taken
    <2> QED BY <2>1 DEF Row, States, Terminal
  <1>5. CASE row.when # "late"
    <2>1. Taken(r, row) = [row EXCEPT !.state = "claimed", !.by = r, !.tries = row.tries + 1]
      BY <1>5 DEF Taken
    <2> QED BY <1>2, <1>3, <2>1 DEF Row, States, Cancellable
  <1> QED BY <1>4, <1>5

\* The row of a session that is created, and the age it has.
LEMMA PlannedRow ==
  ASSUME TypeOK, NEW x \in Sessions, ~Created(x),
         NEW job \in Sessions, NEW when \in {"asap", "dated"}
  PROVE  /\ Planned(job, when) \in Row
         /\ Planned(job, when).state = "planned" /\ Planned(job, when).job = job
         /\ Planned(job, when).tries = 0
  <1> DEFINE C == {s \in Sessions : Created(s)}
  <1>1. C \subseteq Sessions \ {x} /\ IsFiniteSet(Sessions)
    BY MeetingAssumption
  <1>2. Cardinality(Sessions) \in Nat /\ IsFiniteSet(Sessions \ {x})
        /\ Cardinality(Sessions \ {x}) = Cardinality(Sessions) - 1
    BY <1>1, FS_CardinalityType, FS_RemoveElement
  <1>3. IsFiniteSet(C) /\ Cardinality(C) <= Cardinality(Sessions \ {x})
    BY <1>1, <1>2, FS_Subset
  <1>4. Cardinality(C) \in Nat
    BY <1>3, FS_CardinalityType
  <1>5. 1 + Cardinality(C) \in 0..Cardinality(Sessions)
    BY <1>2, <1>3, <1>4
  <1> DEFINE age == 1 + Cardinality(C)
  <1>6. Planned(job, when) = [NoRow EXCEPT !.state = "planned", !.when = when, !.job = job,
                                           !.born = age]
    BY Zenon DEF Planned
  <1> HIDE DEF age
  <1>7. Planned(job, when) = [state |-> "planned", by |-> None, tries |-> 0, when |-> when,
                              retry |-> FALSE, job |-> job, born |-> age]
    BY <1>6 DEF NoRow
  <1> QED BY <1>5, <1>7, Counts DEF Row, States, Cancellable, age

\* The last session created of a job that has one is a session of that job.
LEMMA LastOfJob ==
  ASSUME TypeOK, NEW s \in Sessions
  PROVE  /\ ForJob(sessions[s].job) \in Sessions
         /\ sessions[ForJob(sessions[s].job)].job = sessions[s].job
  <1> DEFINE j == sessions[s].job
             T == {x \in Sessions : sessions[x].job = j}
             N == Cardinality(Sessions)
             D == {N - sessions[x].born : x \in T}
  <1>1. N \in Nat /\ \A x \in Sessions : sessions[x].born \in 0..N
    BY MeetingAssumption, FS_CardinalityType DEF TypeOK, Row
  <1>2. D \subseteq Nat /\ N - sessions[s].born \in D
    BY <1>1
  <1>3. PICK d \in D : \A e \in D : ~ (<<e, d>> \in OpToRel(<, Nat))
    BY <1>2, NatLessThanWellFounded, WFMin
  <1>4. PICK x \in T : d = N - sessions[x].born
    BY <1>3
  <1>5. \A t \in T : sessions[t].born <= sessions[x].born
    <2> SUFFICES ASSUME NEW t \in T PROVE sessions[t].born <= sessions[x].born
      OBVIOUS
    <2>1. ~ (N - sessions[t].born < d)
      BY <1>2, <1>3 DEF OpToRel
    <2> QED BY <1>1, <1>4, <2>1
  <1>6. \E y \in Sessions : /\ sessions[y].job = j
                            /\ \A t \in Sessions : sessions[t].job = j
                                                     => sessions[t].born <= sessions[y].born
    BY <1>4, <1>5
  <1> QED BY <1>6 DEF ForJob

-----------------------------------------------------------------------------
(* Transactions.                                                           *)

Asked ==
  /\ txns \subseteq Txn /\ Requests /\ Fresh
  /\ fate \in [kind : Mishaps, met : BOOLEAN]

\* The transaction Read adds.
Request(op, s, n, r, row, to) ==
  [op |-> op, s |-> s, n |-> n, r |-> r, row |-> row, seen |-> sessions[row].state, to |-> to]

LEMMA ReadAdds ==
  ASSUME NEW op, NEW s, NEW n, NEW r, NEW row, NEW to, Read(op, s, n, r, row, to)
  PROVE  /\ to = "none" => txns' = txns
         /\ to # "none" => txns' = txns \cup {Request(op, s, n, r, row, to)}
  <1> DEFINE new == [op : {op}, s : {s}, n : {n}, r : {r}, row : {row},
                     seen : {sessions[row].state}, to : {to}]
  <1>1. txns' = txns \cup {q \in new : to # "none"}
    BY DEF Read
  <1>2. \A q : q \in new <=> q = Request(op, s, n, r, row, to)
    BY DEF Request
  <1> HIDE DEF new
  <1> QED BY <1>1, <1>2

\* Unless commits may be stale, nothing is asked of an undisturbed row.
LEMMA UndisturbedRow ==
  ASSUME RowInv, NEW row, Undisturbed(row), fate.kind # "stale"
  PROVE  \A q \in txns : q.row # row
  <1> DEFINE Q == {q \in txns : q.row = row}
  <1>1. ~ May("stale")
    BY DEF May, RowInv, TypeOK
  <1>2. Cardinality(Q) < 1
    BY <1>1 DEF Undisturbed
  <1>3. IsFiniteSet(Q)
    BY FS_Subset DEF RowInv, Requests
  <1>4. Cardinality(Q) \in Nat
    BY <1>3, FS_CardinalityType
  <1> QED BY <1>2, <1>3, <1>4, FS_EmptySet

\* A request that arrives on a row and writes what its shape allows.
LEMMA ReadKeeps ==
  ASSUME RowInv, NEW op, NEW s, NEW n, NEW r, NEW row \in Sessions, NEW to,
         Read(op, s, n, r, row, to), UNCHANGED <<sessions, fate>>,
         to # "none" => /\ Request(op, s, n, r, row, to) \in Txn
                        /\ Shape(Request(op, s, n, r, row, to))
  PROVE  Asked'
  <1> DEFINE q0 == Request(op, s, n, r, row, to)
  <1>1. IsFiniteSet(txns) /\ txns \subseteq Txn /\ fate \in [kind : Mishaps, met : BOOLEAN]
    BY DEF RowInv, TypeOK, Requests
  <1>2. CASE to = "none"
    <2>1. txns' = txns
      BY <1>2, ReadAdds
    <2>2. Requests' /\ Fresh'
      BY <2>1 DEF RowInv, Requests, Fresh, Shape, Created
    <2> QED BY <1>1, <2>1, <2>2 DEF Asked
  <1>3. CASE to # "none"
    <2>1. txns' = txns \cup {q0}
      BY <1>3, ReadAdds
    <2>2. IsFiniteSet(txns')
      BY <1>1, <2>1, FS_AddElement
    <2>4. q0.row = row /\ q0.seen = sessions[row].state
      BY DEF Request
    <2>0. Created(row)
      BY <1>3, <2>4 DEF Txn, States, Cancellable, Terminal, Created
    <2>3. \A q \in txns' : Shape(q) /\ Created(q.row)
      BY <1>3, <2>0, <2>1, <2>4 DEF RowInv, Requests
    <2>5. fate.kind # "stale" => \A q \in txns : q.row # row
      BY UndisturbedRow DEF Read
    <2> HIDE DEF q0
    <2>6. Fresh'
      BY <2>1, <2>4, <2>5 DEF RowInv, Fresh
    <2>7. Requests'
      BY <2>2, <2>3 DEF Requests, Shape, Created
    <2> QED BY <1>1, <1>3, <2>1, <2>6, <2>7 DEF Asked, q0
  <1> QED BY <1>2, <1>3

\* A POST that is lost.
LEMMA LostKeeps == ASSUME RowInv, Lost, UNCHANGED sessions PROVE Asked'
  <1>1. txns' = txns /\ fate' = [fate EXCEPT !.met = TRUE]
    BY DEF Lost, Met
  <1>2. fate \in [kind : Mishaps, met : BOOLEAN]
    BY DEF RowInv, TypeOK
  <1>3. fate' \in [kind : Mishaps, met : BOOLEAN] /\ fate'.kind = fate.kind
    BY <1>1, <1>2
  <1>4. Requests' /\ Fresh'
    BY <1>1, <1>3 DEF RowInv, Requests, Fresh, Shape, Created
  <1> QED BY <1>1, <1>3, <1>4 DEF Asked, RowInv, TypeOK

\* Nothing is asked.
LEMMA QuietKeeps ==
  ASSUME RowInv, UNCHANGED txns,
         fate' \in [kind : Mishaps, met : BOOLEAN], fate'.kind = fate.kind,
         \A s \in Sessions : Created(s) => Created(s)',
         fate.kind # "stale" => \A q \in txns : sessions'[q.row].state = sessions[q.row].state
  PROVE  Asked'
  <1>1. \A q \in txns : q.row \in Sessions
    BY DEF RowInv, TypeOK, Txn
  <1> QED BY <1>1 DEF Asked, RowInv, Requests, Fresh, Shape, TypeOK

\* The targets of the requests have the shape of transactions.
LEMMA EventAsked ==
  ASSUME RowInv, NEW event \in RunnerEvents, NEW s \in Sessions, NEW n \in Claims,
         NEW r \in Runners \cup {None}, NEW to, to = EventTarget(event, sessions[s], r),
         to # "none"
  PROVE  /\ to = event /\ sessions[s].by = r
         /\ Request(event, s, n, r, s, to) \in Txn
         /\ Shape(Request(event, s, n, r, s, to))
  <1>1. to = event /\ sessions[s].by = r /\ CanTransition(sessions[s].state, event)
    BY DEF EventTarget
  <1>2. event \in {"joining", "waiting_admission", "in_meeting", "ingesting"}
    BY DEF RunnerEvents, Events
  <1>3. sessions[s].state \in States
    BY <1>1, Table
  <1>4. Request(event, s, n, r, s, to) \in Txn
    BY <1>1, <1>2, <1>3, Counts DEF Request, Txn, States, Cancellable
  <1>5. Shape(Request(event, s, n, r, s, to))
    BY <1>1, <1>2 DEF Request, Shape
  <1> QED BY <1>1, <1>4, <1>5

LEMMA ResultAsked ==
  ASSUME RowInv, NEW code, NEW s \in Sessions, NEW n \in Claims,
         NEW r \in Runners \cup {None}, NEW to, to = ResultTarget(code, sessions[s], r),
         to # "none"
  PROVE  /\ Request("result", s, n, r, s, to) \in Txn
         /\ Shape(Request("result", s, n, r, s, to))
  <1> DEFINE v == StateForExitCode(code, sessions[s].tries)
  <1>1. v \in {"done", "not_admitted", "failed_retryable", "failed_final"}
    BY DEF StateForExitCode
  <1>2. to = v /\ CanTransition(sessions[s].state, to)
    BY DEF ResultTarget
  <1>3. sessions[s].state \in States
    BY <1>2, Table
  <1> HIDE DEF v
  <1>4. Request("result", s, n, r, s, to) \in Txn
    BY <1>1, <1>2, <1>3, Counts DEF Request, Txn, States, Terminal
  <1>5. Shape(Request("result", s, n, r, s, to))
    BY <1>1, <1>2 DEF Request, Shape, RunnerEvents, Events
  <1> QED BY <1>4, <1>5

LEMMA CancelAsked ==
  ASSUME RowInv, NEW s \in Sessions, NEW to, to = CancelTarget(sessions[s]), to # "none"
  PROVE  /\ Request("cancel", s, 0, None, s, to) \in Txn
         /\ Shape(Request("cancel", s, 0, None, s, to))
  <1>1. to = "cancelled" /\ sessions[s].state \in Cancellable
    BY DEF CancelTarget
  <1>2. CanTransition(sessions[s].state, "cancelled")
    BY <1>1 DEF Cancellable, CanTransition, Transitions, Terminal
  <1>3. Request("cancel", s, 0, None, s, to) \in Txn
    BY <1>1, Counts DEF Request, Txn, States, Terminal
  <1>4. Shape(Request("cancel", s, 0, None, s, to))
    BY <1>1, <1>2 DEF Request, Shape, RunnerEvents, Events
  <1> QED BY <1>3, <1>4

LEMMA IngestAsked ==
  ASSUME RowInv, NEW s \in Sessions, NEW n \in Claims, NEW t \in Sessions, Created(t),
         NEW to, to = IngestTarget(sessions[t])
  PROVE  /\ Request("ingest", s, n, None, t, to) \in Txn
         /\ Shape(Request("ingest", s, n, None, t, to))
  <1>1. sessions[t].state \in States
    BY DEF RowInv, TypeOK, Row, Created
  <1>2. \/ to = "done" /\ CanTransition(sessions[t].state, to)
        \/ to = sessions[t].state
    BY DEF IngestTarget
  <1>3. "failed_retryable" \notin States /\ "done" \in States
    BY DEF States, Terminal, Cancellable
  <1>4. Request("ingest", s, n, None, t, to) \in Txn
    BY <1>1, <1>2, <1>3, Counts DEF Request, Txn
  <1>5. Shape(Request("ingest", s, n, None, t, to))
    BY <1>1, <1>2, <1>3 DEF Request, Shape, RunnerEvents, Events
  <1> QED BY <1>4, <1>5

-----------------------------------------------------------------------------
(* The invariant of the rows: the portal.                                  *)

LEMMA InitRows == Init => RowInv
  <1> SUFFICES ASSUME Init PROVE RowInv
    OBVIOUS
  <1>1. NoRow \in Row /\ NoRow.job = None /\ NoRow.state = "none"
    <2>1. Cardinality(Sessions) \in Nat
      BY MeetingAssumption, FS_CardinalityType
    <2> QED BY <2>1, Counts DEF NoRow, Row
  <1>2. NoBot \in Bot
    BY DEF NoBot, Bot, Phases
  <1>3. TypeOK
    BY <1>1, <1>2, Counts DEF Init, TypeOK
  <1>4. Jobs /\ Started
    BY <1>1 DEF Init, Jobs, Started, Created
  <1>5. Requests /\ Fresh
    BY FS_EmptySet DEF Init, Requests, Fresh
  <1> QED BY <1>3, <1>4, <1>5 DEF RowInv

\* A step that writes one row, and asks nothing, keeps the invariant if it keeps the
\* states that are read.
LEMMA OneRow ==
  ASSUME RowInv, NEW s \in Sessions, NEW row \in Row,
         sessions' = [sessions EXCEPT ![s] = row],
         row.job # None <=> row.state \notin {"none", "checked"},
         Created(s) => row.state = sessions[s].state,
         UNCHANGED <<bots, active, procs, txns, imports, fate>>
  PROVE  RowInv'
  <1>1. TypeOK'
    BY DEF RowInv, TypeOK
  <1>2. \A x \in Sessions : sessions'[x] = IF x = s THEN row ELSE sessions[x]
    BY DEF RowInv, TypeOK
  <1>3. Jobs'
    BY <1>2 DEF RowInv, Jobs, Created
  <1>4. Started'
    BY <1>2 DEF RowInv, Started, Created
  <1>5. \A q \in txns : q.row \in Sessions /\ q.seen \in States
    BY DEF RowInv, TypeOK, Txn
  <1>6. "none" \notin States /\ "checked" \notin States
    BY DEF States, Cancellable, Terminal
  <1>7. Fresh'
    BY <1>2, <1>5, <1>6 DEF RowInv, Fresh, Created
  <1>8. Requests'
    BY <1>2, <1>5 DEF RowInv, Requests, Shape, Created
  <1> QED BY <1>1, <1>3, <1>4, <1>7, <1>8 DEF RowInv

LEMMA RowFields ==
  ASSUME RowInv, NEW s \in Sessions
  PROVE  /\ sessions[s] \in Row
         /\ sessions[s].state \in States \cup {"none", "checked"}
         /\ Created(s) => sessions[s].state \in States /\ sessions[s].job \in Sessions
         /\ sessions[s].tries \in Tries
  BY DEF RowInv, TypeOK, Row, Created, Jobs

LEMMA ChecksRows == ASSUME RowInv, NEW s \in Sessions, CheckDuplicate(s) PROVE RowInv'
  <1> DEFINE row == [sessions[s] EXCEPT !.state = "checked"]
  <1>1. row \in Row /\ row.state = "checked" /\ row.job = sessions[s].job
    BY RowFields DEF Row
  <1>2. sessions' = [sessions EXCEPT ![s] = row] /\ ~Created(s) /\ sessions[s].job = None
    BY DEF CheckDuplicate, Created, RowInv, Jobs
  <1> HIDE DEF row
  <1> QED BY <1>1, <1>2, OneRow DEF CheckDuplicate

LEMMA CreatesRows == ASSUME RowInv, NEW s \in Sessions, Create(s) PROVE RowInv'
  <1>1. PICK when \in {"asap", "dated"} : sessions' = [sessions EXCEPT ![s] = Planned(s, when)]
    BY DEF Create
  <1>2. ~Created(s) /\ TypeOK
    BY DEF Create, Created, RowInv
  <1>3. /\ Planned(s, when) \in Row
        /\ Planned(s, when).state = "planned" /\ Planned(s, when).job = s
    BY <1>2, PlannedRow
  <1> QED BY <1>1, <1>2, <1>3, OneRow, MeetingAssumption DEF Create

LEMMA ReschedulesRows ==
  ASSUME RowInv, NEW s \in Sessions, NEW t \in Sessions, Reschedule(s, t) PROVE RowInv'
  <1> DEFINE j == sessions[t].job
  <1>1. sessions' = [sessions EXCEPT ![s] = Planned(j, "asap")] /\ ~Created(s) /\ TypeOK
    BY DEF Reschedule, Created, RowInv
  <1>2. Created(t)
    BY DEF Reschedule, Reschedulable, Created
  <1>3. j \in Sessions
    BY <1>2, RowFields
  <1> HIDE DEF j
  <1>4. /\ Planned(j, "asap") \in Row
        /\ Planned(j, "asap").state = "planned" /\ Planned(j, "asap").job = j
    BY <1>1, <1>3, PlannedRow
  <1> QED BY <1>1, <1>3, <1>4, OneRow, MeetingAssumption DEF Reschedule

LEMMA ElapsesRows == ASSUME RowInv, NEW s \in Sessions, Elapse(s) PROVE RowInv'
  <1>1. PICK row : /\ row \in {[sessions[s] EXCEPT !.retry = FALSE], [sessions[s] EXCEPT !.when = "late"]}
                   /\ sessions' = [sessions EXCEPT ![s] = row]
    BY DEF Elapse
  <1>2. row \in Row /\ row.state = sessions[s].state /\ row.job = sessions[s].job
    BY <1>1, RowFields DEF Row
  <1>3. Created(s) /\ sessions[s].job # None
    BY DEF Elapse, Created, RowInv, Jobs
  <1> QED BY <1>1, <1>2, <1>3, OneRow DEF Elapse, Created

LEMMA CancelsRows == ASSUME RowInv, NEW s \in Sessions, Cancel(s) PROVE RowInv'
  <1>1. Asked'
    BY CancelAsked, ReadKeeps DEF Cancel
  <1> QED BY <1>1 DEF Cancel, RowInv, TypeOK, Jobs, Started, Created, Asked

LEMMA TxnFields ==
  ASSUME RowInv, NEW q \in txns
  PROVE  /\ q \in Txn /\ Shape(q) /\ q.row \in Sessions /\ q.s \in Sessions
         /\ Created(q.row) /\ sessions[q.row] \in Row /\ sessions[q.row].state \in States
  <1>1. q \in Txn /\ Shape(q) /\ Created(q.row)
    BY DEF RowInv, TypeOK, Requests
  <1>2. q.row \in Sessions /\ q.s \in Sessions
    BY <1>1 DEF Txn
  <1> QED BY <1>1, <1>2, RowFields

\* A row after a commit.
LEMMA CommittedRows ==
  ASSUME RowInv, NEW q \in txns, Commit(q)
  PROVE  /\ sessions' \in [Sessions -> Row]
         /\ \A s \in Sessions : sessions'[s] = IF s = q.row THEN Written(q, sessions[s])
                                               ELSE sessions[s]
         /\ fate' = fate \/ (q.seen # sessions[q.row].state /\ q.to # q.seen /\ Met)
         /\ q.seen = sessions[q.row].state \/ q.to = q.seen \/ Met
  <1>1. sessions' = [sessions EXCEPT ![q.row] = Written(q, sessions[q.row])]
    BY DEF Commit
  <1>2. Written(q, sessions[q.row]) \in Row
    BY TxnFields, WrittenRow
  <1>3. \/ q.seen # sessions[q.row].state /\ q.to # q.seen /\ Met
        \/ ~(q.seen # sessions[q.row].state /\ q.to # q.seen) /\ fate' = fate
    BY Zenon DEF Commit
  <1>4. q.row \in Sessions /\ sessions \in [Sessions -> Row]
    BY TxnFields DEF RowInv, TypeOK
  <1> QED BY <1>1, <1>2, <1>3, <1>4

LEMMA CommitsRows == ASSUME RowInv, NEW q \in txns, Commit(q) PROVE RowInv'
  <1>1. \A s \in Sessions : /\ sessions'[s].job = sessions[s].job
                            /\ Created(s) => sessions'[s].state \in States
                            /\ s # q.row => sessions'[s] = sessions[s]
    BY CommittedRows, TxnFields, WrittenRow, RowFields
  <1>2. "none" \notin States /\ "checked" \notin States
    BY DEF States, Cancellable, Terminal
  <1>3. \A s \in Sessions : Created(s) <=> Created(s)'
    BY <1>1, <1>2, TxnFields DEF Created
  <1>4. Jobs' /\ Started'
    BY <1>1, <1>3 DEF RowInv, Jobs, Started, Commit
  <1>5. txns' = txns \ {q} /\ fate' \in [kind : Mishaps, met : BOOLEAN] /\ fate'.kind = fate.kind
    BY CommittedRows DEF Commit, Met, RowInv, TypeOK
  <1>6. imports' \in [Sessions -> {"none", "received", "attached"}]
    BY DEF Commit, RowInv, TypeOK
  <1>7. TypeOK'
    BY <1>5, <1>6, CommittedRows DEF Commit, RowInv, TypeOK
  <1>8. Requests'
    <2>1. IsFiniteSet(txns')
      BY <1>5, FS_RemoveElement DEF RowInv, Requests
    <2>2. \A p \in txns' : Shape(p) /\ p.row \in Sessions /\ Created(p.row)
      BY <1>5, TxnFields
    <2> QED BY <1>3, <2>1, <2>2 DEF Requests, Shape
  <1>9. Fresh'
    <2>1. fate.kind # "stale" => \A p \in txns' : p.row # q.row
      BY <1>5 DEF RowInv, Fresh
    <2> QED BY <1>1, <1>5, <2>1, TxnFields DEF RowInv, Fresh
  <1> QED BY <1>4, <1>7, <1>8, <1>9 DEF RowInv

-----------------------------------------------------------------------------
(* Claims.                                                                 *)

\* What a claim of runner r does with session s, the sessions of E being given back
\* and those of D taken.
Freed(E, s)       == IF s \in E THEN Released(sessions[s]) ELSE sessions[s]
After(r, E, D, s) == IF s \in D THEN Taken(r, Freed(E, s)) ELSE Freed(E, s)
Follows(r, E, D, s) == s \in D /\ After(r, E, D, s).state = "claimed"
NewBot(r) == [NoBot EXCEPT !.phase = "launching", !.by = r]

Claiming(r, E, D) ==
  /\ \A s \in E : Expired(s)
  /\ \A s \in D : Claimable(s, Freed(E, s))
  /\ \A s \in E \cup D : Undisturbed(s)
  /\ sessions' = [s \in Sessions |-> After(r, E, D, s)]
  /\ \/ /\ bots' = [s \in Sessions |->
                      IF Follows(r, E, D, s)
                      THEN [bots[s] EXCEPT ![After(r, E, D, s).tries] = NewBot(r)] ELSE bots[s]]
        /\ active' = [active EXCEPT ![r] =
                        [s \in Sessions |-> IF Follows(r, E, D, s) THEN After(r, E, D, s).tries
                                            ELSE active[r][s]]]
        /\ UNCHANGED <<txns, fate>>
     \/ Lost /\ UNCHANGED <<bots, active>>
  /\ UNCHANGED <<procs, imports>>

LEMMA ClaimIs ==
  ASSUME NEW r \in Runners, Claim(r)
  PROVE  \E E, D \in SUBSET Sessions : Claiming(r, E, D)
  <1>1. PICK E, D \in SUBSET Sessions :
          LET freed == [s \in Sessions |-> IF s \in E THEN Released(sessions[s]) ELSE sessions[s]]
              rows  == [s \in Sessions |-> IF s \in D THEN Taken(r, freed[s]) ELSE freed[s]]
              taken == {s \in D : rows[s].state = "claimed"}
          IN  /\ \A s \in E : Expired(s)
              /\ \A s \in D : Claimable(s, freed[s])
              /\ \A s \in E \cup D : Undisturbed(s)
              /\ sessions' = rows
              /\ \/ /\ bots' = [s \in Sessions |-> IF s \in taken
                                  THEN [bots[s] EXCEPT ![rows[s].tries] =
                                          [NoBot EXCEPT !.phase = "launching", !.by = r]]
                                  ELSE bots[s]]
                    /\ active' = [active EXCEPT ![r] =
                                    [s \in Sessions |-> IF s \in taken THEN rows[s].tries
                                                        ELSE active[r][s]]]
                    /\ UNCHANGED <<txns, fate>>
                 \/ Lost /\ UNCHANGED <<bots, active>>
              /\ UNCHANGED <<procs, imports>>
    BY DEF Claim
  <1> DEFINE freed == [s \in Sessions |-> IF s \in E THEN Released(sessions[s]) ELSE sessions[s]]
             rows  == [s \in Sessions |-> IF s \in D THEN Taken(r, freed[s]) ELSE freed[s]]
             taken == {s \in D : rows[s].state = "claimed"}
  <1>2. \A s \in Sessions : freed[s] = Freed(E, s)
    BY DEF Freed
  <1>3. \A s \in Sessions : rows[s] = After(r, E, D, s)
    BY <1>2 DEF After
  <1>4. rows = [s \in Sessions |-> After(r, E, D, s)]
    BY <1>3
  <1>5. \A s \in Sessions : s \in taken <=> Follows(r, E, D, s)
    BY <1>3 DEF Follows
  <1> HIDE DEF freed, rows, taken
  <1>6. \A s \in E \cup D : s \in Sessions
    OBVIOUS
  <1>7. [s \in Sessions |-> IF s \in taken
           THEN [bots[s] EXCEPT ![rows[s].tries] = NewBot(r)] ELSE bots[s]]
        = [s \in Sessions |-> IF Follows(r, E, D, s)
           THEN [bots[s] EXCEPT ![After(r, E, D, s).tries] = NewBot(r)] ELSE bots[s]]
    BY <1>3, <1>5
  <1>8. [s \in Sessions |-> IF s \in taken THEN rows[s].tries ELSE active[r][s]]
        = [s \in Sessions |-> IF Follows(r, E, D, s) THEN After(r, E, D, s).tries
                              ELSE active[r][s]]
    BY <1>3, <1>5
  <1>9. \A s \in D : Claimable(s, Freed(E, s))
    BY <1>1, <1>2, <1>6 DEF freed
  <1> QED
    BY <1>1, <1>4, <1>7, <1>8, <1>9 DEF Claiming, freed, rows, taken, NewBot

\* A row a claim has given back or taken.
LEMMA FreedRow ==
  ASSUME RowInv, NEW E \in SUBSET Sessions, \A x \in E : Expired(x), NEW s \in Sessions
  PROVE  /\ Freed(E, s) \in Row
         /\ Freed(E, s).job = sessions[s].job /\ Freed(E, s).tries = sessions[s].tries
         /\ s \notin E => Freed(E, s) = sessions[s]
         /\ s \in E /\ sessions[s].state = "in_meeting" => Freed(E, s).state = "failed_final"
         /\ s \in E /\ sessions[s].state # "in_meeting" =>
              /\ sessions[s].state \in {"claimed", "joining", "waiting_admission"}
              /\ Freed(E, s).state = "planned"
  <1>1. CASE s \notin E
    BY <1>1, RowFields DEF Freed
  <1>2. CASE s \in E
    <2>1. sessions[s].state \in {"claimed", "joining", "waiting_admission", "in_meeting"}
      BY <1>2 DEF Expired
    <2>2. Freed(E, s) = Released(sessions[s])
      BY <1>2 DEF Freed
    <2> QED BY <1>2, <2>1, <2>2, RowFields, ReleasedRow
  <1> QED BY <1>1, <1>2

LEMMA ClaimedRow ==
  ASSUME RowInv, NEW r \in Runners, NEW E \in SUBSET Sessions, NEW D \in SUBSET Sessions,
         Claiming(r, E, D), NEW s \in Sessions
  PROVE  /\ sessions'[s] = After(r, E, D, s)
         /\ After(r, E, D, s) \in Row /\ After(r, E, D, s).job = sessions[s].job
         /\ s \notin E \cup D => After(r, E, D, s) = sessions[s]
         /\ s \in E \cup D => /\ sessions[s].state \in States \ Terminal
                              /\ After(r, E, D, s).state \in States
         /\ s \in D => /\ Claimable(s, Freed(E, s))
                       /\ After(r, E, D, s) = Taken(r, Freed(E, s))
         /\ Follows(r, E, D, s) => After(r, E, D, s).tries \in Claims
  <1>1. sessions'[s] = After(r, E, D, s) /\ (s \in D => Claimable(s, Freed(E, s)))
        /\ \A x \in E : Expired(x)
    BY DEF Claiming
  <1>2. s \in E => sessions[s].state \in {"claimed", "joining", "waiting_admission", "in_meeting"}
    BY <1>1, FreedRow
  <1>3. CASE s \in D
    <2>1. After(r, E, D, s) = Taken(r, Freed(E, s))
      BY <1>3 DEF After
    <2>2. Freed(E, s) \in Row
      BY <1>1, FreedRow
    <2>3. s \in E => sessions[s].state \in States \ Terminal
      BY <1>2 DEF States, Cancellable, Terminal
    <2>4. s \notin E => sessions[s].state = "planned"
      BY <1>1, <1>3, FreedRow DEF Claimable
    <2>5. sessions[s].state \in States \ Terminal
      BY <2>3, <2>4 DEF States, Cancellable, Terminal
    <2>6. /\ Taken(r, Freed(E, s)) \in Row
          /\ Taken(r, Freed(E, s)).job = Freed(E, s).job
          /\ Taken(r, Freed(E, s)).state \in {"claimed", "failed_final"}
          /\ Taken(r, Freed(E, s)).state = "claimed" => Taken(r, Freed(E, s)).tries \in Claims
      BY <1>1, <1>3, <2>2, TakenRow
    <2>7. {"claimed", "failed_final"} \subseteq States
      BY DEF States, Cancellable, Terminal
    <2>8. Freed(E, s).job = sessions[s].job
      BY <1>1, FreedRow
    <2> QED BY <1>1, <1>3, <2>1, <2>5, <2>6, <2>7, <2>8 DEF Follows
  <1>4. CASE s \notin D
    <2>1. After(r, E, D, s) = Freed(E, s)
      BY <1>4 DEF After
    <2>2. {"planned", "failed_final"} \subseteq States
      BY DEF States, Cancellable, Terminal
    <2>3. s \in E => sessions[s].state \in States \ Terminal
      BY <1>2 DEF States, Cancellable, Terminal
    <2>4. s \in E => Freed(E, s).state \in States
      BY <1>1, <2>2, FreedRow
    <2> QED BY <1>1, <1>4, <2>1, <2>3, <2>4, FreedRow DEF Follows
  <1> QED BY <1>3, <1>4

LEMMA NewBotIs ==
  ASSUME NEW r
  PROVE  NewBot(r) = [phase |-> "launching", by |-> r, told |-> 0, code |-> 3]
  <1>1. NewBot(r) = [NoBot EXCEPT !.phase = "launching", !.by = r]
    BY Zenon DEF NewBot
  <1> QED BY <1>1 DEF NoBot

LEMMA ClaimsRows ==
  ASSUME RowInv, NEW r \in Runners, Claim(r)
  PROVE  RowInv'
  <1>1. PICK E, D \in SUBSET Sessions : Claiming(r, E, D)
    BY ClaimIs
  <1>2. sessions' \in [Sessions -> Row]
    BY <1>1, ClaimedRow DEF Claiming
  <1>3. "none" \notin States /\ "checked" \notin States
    BY DEF States, Cancellable, Terminal
  <1>4. \A s \in Sessions : /\ sessions'[s].job = sessions[s].job
                            /\ Created(s) <=> Created(s)'
                            /\ s \notin E \cup D => sessions'[s] = sessions[s]
                            /\ Follows(r, E, D, s) => Created(s)
    BY <1>1, <1>3, ClaimedRow DEF Created, Follows
  <1>5. Jobs'
    BY <1>4 DEF RowInv, Jobs
  <1>6. fate.kind # "stale" => \A q \in txns : q.row \notin E \cup D
    BY <1>1, UndisturbedRow DEF Claiming
  <1>7. \A q \in txns : q.row \in Sessions
    BY TxnFields
  <1>8. CASE Lost /\ UNCHANGED <<bots, active>>
    <2>1. /\ UNCHANGED <<txns, procs, imports, bots, active>>
          /\ fate' = [fate EXCEPT !.met = TRUE]
      BY <1>1, <1>8 DEF Claiming, Lost, Met
    <2>2. fate' \in [kind : Mishaps, met : BOOLEAN] /\ fate'.kind = fate.kind
      BY <2>1 DEF RowInv, TypeOK
    <2>3. Asked'
      BY <1>4, <1>6, <1>7, <2>1, <2>2, QuietKeeps
    <2>4. Started'
      BY <1>4, <2>1 DEF RowInv, Started
    <2> QED BY <1>2, <1>5, <2>1, <2>3, <2>4 DEF RowInv, TypeOK, Asked
  <1>9. CASE ~(Lost /\ UNCHANGED <<bots, active>>)
    <2>1. /\ bots' = [s \in Sessions |->
                      IF Follows(r, E, D, s)
                      THEN [bots[s] EXCEPT ![After(r, E, D, s).tries] = NewBot(r)] ELSE bots[s]]
          /\ active' = [active EXCEPT ![r] =
                         [s \in Sessions |-> IF Follows(r, E, D, s) THEN After(r, E, D, s).tries
                                             ELSE active[r][s]]]
          /\ UNCHANGED <<txns, fate, procs, imports>>
      BY <1>1, <1>9 DEF Claiming
    <2>2. Asked'
      BY <1>4, <1>6, <1>7, <2>1, QuietKeeps DEF RowInv, TypeOK
    <2>3. NewBot(r) \in Bot
      BY NewBotIs DEF Bot, Phases
    <2>4. bots' \in [Sessions -> [Claims -> Bot]]
      BY <2>1, <2>3 DEF RowInv, TypeOK
    <2>5. \A s \in Sessions : Follows(r, E, D, s) => After(r, E, D, s).tries \in Tries
      BY <1>1, ClaimedRow, Counts
    <2>6. active' \in [Runners -> [Sessions -> Tries]]
      BY <2>1, <2>5 DEF RowInv, TypeOK
    <2>7. Started'
      BY <1>4, <2>1 DEF RowInv, TypeOK, Started
    <2> QED BY <1>2, <1>5, <2>1, <2>2, <2>4, <2>6, <2>7 DEF RowInv, TypeOK, Asked
  <1> QED BY <1>8, <1>9

-----------------------------------------------------------------------------
(* Runners and bots: the rows stay.                                        *)

\* Only bot n of session s changes.
Moves(s, n) ==
  /\ bots' \in [Sessions -> [Claims -> Bot]]
  /\ \A x \in Sessions, m \in Claims : x # s \/ m # n => bots'[x][m] = bots[x][m]

LEMMA BotFields ==
  ASSUME RowInv, NEW s \in Sessions, NEW n \in Claims
  PROVE  /\ bots[s][n] \in Bot
         /\ bots[s][n].phase \in Phases /\ bots[s][n].by \in Runners \cup {None}
         /\ bots[s][n].told \in 0..4 /\ bots[s][n].code \in 0..3
         /\ bots[s][n].phase # "none" => Created(s)
  <1>1. bots[s][n] \in Bot
    BY DEF RowInv, TypeOK
  <1>2. NoBot.phase = "none"
    BY DEF NoBot
  <1>3. bots[s][n].phase # "none" => Created(s)
    BY <1>2 DEF RowInv, Started
  <1> QED BY <1>1, <1>3 DEF Bot

\* A step of a bot, or of the task that follows it, that writes no row.
LEMMA WorkKeeps ==
  ASSUME RowInv, NEW s \in Sessions, NEW n \in Claims, Moves(s, n),
         bots[s][n].phase # "none", UNCHANGED sessions, Asked',
         active' \in [Runners -> [Sessions -> Tries]],
         procs' \in [Runners -> [Sessions -> Tries]],
         imports' \in [Sessions -> {"none", "received", "attached"}]
  PROVE  RowInv'
  <1>1. Created(s)
    BY BotFields
  <1>2. Started'
    BY <1>1 DEF RowInv, Started, Created, Moves
  <1>3. Jobs'
    BY DEF RowInv, Jobs, Created
  <1>4. TypeOK'
    BY DEF RowInv, TypeOK, Asked, Moves
  <1> QED BY <1>2, <1>3, <1>4 DEF RowInv, Asked

\* The record of a bot that is changed.
LEMMA BotWith ==
  ASSUME RowInv, NEW s \in Sessions, NEW n \in Claims, NEW b \in Bot,
         bots' = [bots EXCEPT ![s][n] = b]
  PROVE  Moves(s, n) /\ bots'[s][n] = b
  BY DEF RowInv, TypeOK, Moves

\* The steps of tasks and bots, as changes of one bot.
LEMMA LaunchIs ==
  ASSUME RowInv, NEW s \in Sessions, NEW n \in Claims, Launch(s, n)
  PROVE  /\ Moves(s, n) /\ bots'[s][n].by = bots[s][n].by
         /\ \/ bots'[s][n].phase = "waiting" /\ bots'[s][n].told = 1
            \/ bots'[s][n].phase = "exited" /\ UNCHANGED <<procs, txns, fate>>
  <1>0. "waiting" \in Phases /\ "exited" \in Phases /\ bots[s][n] \in Bot
    BY BotFields DEF Phases, Alive
  <1> DEFINE one == 1
             other == 3
  <1>9. one \in 0..4 /\ other \in 0..3
    OBVIOUS
  <1> HIDE DEF one, other
  <1>1. CASE bots' = [bots EXCEPT ![s][n].phase = "waiting", ![s][n].told = 1]
    <2> DEFINE b == [bots[s][n] EXCEPT !.phase = "waiting", !.told = one]
    <2>1. b \in Bot /\ b.phase = "waiting" /\ b.told = one /\ b.by = bots[s][n].by
      BY ONLY <1>0, <1>9 DEF Bot
    <2>2. bots' = [bots EXCEPT ![s][n] = b]
      BY <1>1 DEF RowInv, TypeOK, one
    <2> HIDE DEF b
    <2>3. Moves(s, n) /\ bots'[s][n] = b
      BY <2>1, <2>2, BotWith
    <2> QED BY <2>1, <2>3 DEF one
  <1>2. CASE /\ bots' = [bots EXCEPT ![s][n].phase = "exited", ![s][n].code = 3]
             /\ UNCHANGED <<procs, txns, fate>>
    <2> DEFINE b == [bots[s][n] EXCEPT !.phase = "exited", !.code = other]
    <2>1. b \in Bot /\ b.phase = "exited" /\ b.by = bots[s][n].by
      BY ONLY <1>0, <1>9 DEF Bot
    <2>2. bots' = [bots EXCEPT ![s][n] = b]
      BY <1>2 DEF RowInv, TypeOK, other
    <2> HIDE DEF b
    <2>3. Moves(s, n) /\ bots'[s][n] = b
      BY <2>1, <2>2, BotWith
    <2> QED BY <1>2, <2>1, <2>3
  <1> QED BY <1>1, <1>2 DEF Launch

LEMMA RelayIs ==
  ASSUME RowInv, NEW s \in Sessions, NEW n \in Claims, Relay(s, n)
  PROVE  /\ Moves(s, n) /\ bots'[s][n].by = bots[s][n].by
         /\ bots'[s][n].phase = bots[s][n].phase
         /\ bots'[s][n].told = bots[s][n].told + 1
         /\ bots[s][n].phase \in Alive
  <1> DEFINE b == [bots[s][n] EXCEPT !.told = bots[s][n].told + 1]
  <1>1. bots' = [bots EXCEPT ![s][n].told = bots[s][n].told + 1]
    BY DEF Relay
  <1>2. bots[s][n].told < Printed(s, n)
    BY DEF Relay
  <1>3. bots[s][n].phase \in Alive /\ bots[s][n].told + 1 \in 0..4
    BY <1>2, BotFields DEF Printed, Alive, InMeeting
  <1>4. /\ b \in Bot /\ b.phase = bots[s][n].phase /\ b.by = bots[s][n].by
        /\ b.told = bots[s][n].told + 1
    BY <1>3, BotFields DEF Bot
  <1>5. bots' = [bots EXCEPT ![s][n] = b]
    BY <1>1 DEF RowInv, TypeOK
  <1> HIDE DEF b
  <1> QED BY <1>3, <1>4, <1>5, BotWith

LEMMA PhaseIs ==
  ASSUME RowInv, NEW s \in Sessions, NEW n \in Claims, NEW phase \in Phases,
         bots' = [bots EXCEPT ![s][n].phase = phase]
  PROVE  /\ Moves(s, n) /\ bots'[s][n].by = bots[s][n].by
         /\ bots'[s][n].phase = phase
         /\ bots'[s][n].told = bots[s][n].told
  <1> DEFINE b == [bots[s][n] EXCEPT !.phase = phase]
  <1>1. b \in Bot /\ b.phase = phase /\ b.by = bots[s][n].by /\ b.told = bots[s][n].told
    BY BotFields DEF Bot
  <1>2. bots' = [bots EXCEPT ![s][n] = b]
    BY DEF RowInv, TypeOK
  <1> HIDE DEF b
  <1>3. Moves(s, n) /\ bots'[s][n] = b
    BY ONLY RowInv, <1>1, <1>2 DEF RowInv, TypeOK, Moves
  <1> QED BY <1>1, <1>3

LEMMA GoneIs == Gone \in Bot /\ Gone.phase = "gone" /\ Gone.by = None
  <1>1. NoBot \in Bot /\ NoBot.by = None
    BY DEF NoBot, Bot, Phases
  <1>2. Gone = [NoBot EXCEPT !.phase = "gone"]
    BY DEF Gone
  <1> QED BY <1>1, <1>2 DEF Bot, Phases

LEMMA ExitIs ==
  ASSUME RowInv, NEW s \in Sessions, NEW n \in Claims, BotExits(s, n)
  PROVE  Moves(s, n) /\ bots'[s][n].phase \in {"gone", "exited"} /\ bots[s][n].phase \in Alive
  <1>1. PICK code \in 0..3 :
          bots' = [bots EXCEPT ![s][n] =
                     IF bots[s][n].by = None THEN Gone
                     ELSE [bots[s][n] EXCEPT !.phase = "exited", !.code = code]]
    <2>1. (IF bots[s][n].phase \in InMeeting THEN 0..3 ELSE {1, 3}) \subseteq 0..3
      OBVIOUS
    <2> QED BY <2>1 DEF BotExits
  <1>2. CASE bots[s][n].by = None
    <2>1. bots' = [bots EXCEPT ![s][n] = Gone]
      BY <1>1, <1>2
    <2>2. Moves(s, n) /\ bots'[s][n] = Gone
      BY <2>1, GoneIs, BotWith
    <2> QED BY <2>2, GoneIs DEF BotExits
  <1>3. CASE bots[s][n].by # None
    <2> DEFINE b == [bots[s][n] EXCEPT !.phase = "exited", !.code = code]
    <2>1. b \in Bot /\ b.phase = "exited"
      BY BotFields DEF Bot, Phases
    <2>2. bots' = [bots EXCEPT ![s][n] = b]
      BY <1>1, <1>3
    <2> HIDE DEF b
    <2>3. Moves(s, n) /\ bots'[s][n] = b
      BY <2>1, <2>2, BotWith
    <2> QED BY <2>1, <2>3 DEF BotExits
  <1> QED BY <1>2, <1>3

\* A step that asks nothing and meets nothing.
LEMMA StillAsked == ASSUME RowInv, UNCHANGED <<sessions, txns, fate>> PROVE Asked'
  BY QuietKeeps DEF RowInv, TypeOK, Created

LEMMA LaunchesRows ==
  ASSUME RowInv, NEW s \in Sessions, NEW n \in Claims, Launch(s, n) PROVE RowInv'
  <1> DEFINE r == bots[s][n].by
             to == EventTarget("joining", sessions[s], r)
  <1>1. r \in Runners \cup {None} /\ bots[s][n].phase # "none" /\ Moves(s, n)
    BY BotFields, LaunchIs DEF Launch
  <1>2. UNCHANGED <<sessions, active, imports>>
    BY DEF Launch
  <1>3. procs' \in [Runners -> [Sessions -> Tries]]
    <2>1. procs' = [procs EXCEPT ![r][s] = n] \/ procs' = procs
      BY DEF Launch
    <2>2. n \in Tries /\ procs \in [Runners -> [Sessions -> Tries]]
      BY Counts DEF RowInv, TypeOK
    <2> QED BY <2>1, <2>2
  <1>4. "joining" \in RunnerEvents
    BY DEF RunnerEvents, Events
  <1>5. Asked'
    <2>1. CASE Read("joining", s, n, r, s, to) /\ UNCHANGED fate
      <3>1. to # "none" => /\ Request("joining", s, n, r, s, to) \in Txn
                           /\ Shape(Request("joining", s, n, r, s, to))
        BY <1>1, <1>4, EventAsked
      <3> QED BY <1>2, <2>1, <3>1, ReadKeeps
    <2>2. CASE Lost
      BY <1>2, <2>2, LostKeeps
    <2>3. CASE UNCHANGED <<procs, txns, fate>>
      BY <1>2, <2>3, StillAsked
    <2> QED BY <2>1, <2>2, <2>3 DEF Launch
  <1> QED BY <1>1, <1>2, <1>3, <1>5, WorkKeeps DEF RowInv, TypeOK

\* A runner relays what is next among Events.
LEMMA NextEvent ==
  ASSUME RowInv, NEW s \in Sessions, NEW n \in Claims, Relay(s, n)
  PROVE  Events[bots[s][n].told + 1] \in RunnerEvents
  <1>1. bots[s][n].told < Printed(s, n) /\ bots[s][n].told \in 0..4
    BY BotFields DEF Relay
  <1>2. bots[s][n].told + 1 \in 1..4
    BY <1>1 DEF Printed
  <1> QED BY <1>2 DEF RunnerEvents

LEMMA RelaysRows ==
  ASSUME RowInv, NEW s \in Sessions, NEW n \in Claims, Relay(s, n) PROVE RowInv'
  <1> DEFINE r == bots[s][n].by
             event == Events[bots[s][n].told + 1]
             to == EventTarget(event, sessions[s], r)
  <1>1. r \in Runners \cup {None} /\ bots[s][n].phase # "none" /\ Moves(s, n)
    BY BotFields, RelayIs DEF Alive, InMeeting
  <1>2. UNCHANGED <<sessions, active, procs, imports>>
    BY DEF Relay
  <1>3. event \in RunnerEvents
    BY NextEvent
  <1>4. (Read(event, s, n, r, s, to) /\ UNCHANGED fate) \/ Lost
    BY DEF Relay
  <1> HIDE DEF event
  <1>5. Asked'
    <2>1. CASE Read(event, s, n, r, s, to) /\ UNCHANGED fate
      <3>1. to # "none" => /\ Request(event, s, n, r, s, to) \in Txn
                           /\ Shape(Request(event, s, n, r, s, to))
        BY <1>1, <1>3, EventAsked
      <3> QED BY <1>2, <2>1, <3>1, ReadKeeps
    <2>2. CASE Lost
      BY <1>2, <2>2, LostKeeps
    <2> QED BY <1>4, <2>1, <2>2
  <1> QED BY <1>1, <1>2, <1>5, WorkKeeps DEF RowInv, TypeOK

LEMMA ReportsRows ==
  ASSUME RowInv, NEW s \in Sessions, NEW n \in Claims, Report(s, n) PROVE RowInv'
  <1> DEFINE r == bots[s][n].by
             to == ResultTarget(bots[s][n].code, sessions[s], r)
  <1>1. r \in Runners \cup {None} /\ bots[s][n].phase # "none"
    BY BotFields DEF Report
  <1>2. UNCHANGED <<sessions, active, procs, imports>>
    BY DEF Report
  <1>3. "reported" \in Phases /\ bots' = [bots EXCEPT ![s][n].phase = "reported"]
    BY DEF Report, Phases
  <1>4. Moves(s, n)
    BY <1>3, PhaseIs
  <1>5. Asked'
    <2>1. CASE Read("result", s, n, r, s, to) /\ UNCHANGED fate
      <3>1. to # "none" => /\ Request("result", s, n, r, s, to) \in Txn
                           /\ Shape(Request("result", s, n, r, s, to))
        BY <1>1, ResultAsked
      <3> QED BY <1>2, <2>1, <3>1, ReadKeeps
    <2>2. CASE Lost
      BY <1>2, <2>2, LostKeeps
    <2> QED BY <2>1, <2>2 DEF Report
  <1> QED BY <1>1, <1>2, <1>4, <1>5, WorkKeeps DEF RowInv, TypeOK

LEMMA TasksEndRows ==
  ASSUME RowInv, NEW s \in Sessions, NEW n \in Claims, TaskEnds(s, n) PROVE RowInv'
  <1>1. Moves(s, n) /\ bots[s][n].phase # "none"
    BY BotWith, GoneIs DEF TaskEnds
  <1>2. Asked' /\ UNCHANGED <<sessions, imports>>
    BY StillAsked DEF TaskEnds
  <1>3. /\ active' \in [Runners -> [Sessions -> Tries]]
        /\ procs' \in [Runners -> [Sessions -> Tries]]
    BY Counts DEF TaskEnds, RowInv, TypeOK
  <1> QED BY <1>1, <1>2, <1>3, WorkKeeps DEF RowInv, TypeOK

LEMMA AdmitsRows ==
  ASSUME RowInv, NEW s \in Sessions, NEW n \in Claims, BotAdmitted(s, n) PROVE RowInv'
  <1>1. "meeting" \in Phases /\ bots' = [bots EXCEPT ![s][n].phase = "meeting"]
    BY DEF BotAdmitted, Phases, Alive, InMeeting
  <1>2. Moves(s, n) /\ bots[s][n].phase # "none"
    BY <1>1, PhaseIs DEF BotAdmitted
  <1>3. Asked' /\ UNCHANGED <<sessions, active, procs, imports>>
    BY StillAsked DEF BotAdmitted
  <1> QED BY <1>2, <1>3, WorkKeeps DEF RowInv, TypeOK

LEMMA UploadsRows ==
  ASSUME RowInv, NEW s \in Sessions, NEW n \in Claims, BotUploads(s, n) PROVE RowInv'
  <1> DEFINE j == sessions[s].job
             t == ForJob(j)
             to == IngestTarget(sessions[t])
  <1>1. "uploading" \in Phases /\ bots' = [bots EXCEPT ![s][n].phase = "uploading"]
    BY DEF BotUploads, Phases, Alive, InMeeting
  <1>2. Moves(s, n) /\ bots[s][n].phase # "none"
    BY <1>1, PhaseIs DEF BotUploads
  <1>3. UNCHANGED <<sessions, active, procs>>
    BY DEF BotUploads
  <1>4. imports' \in [Sessions -> {"none", "received", "attached"}]
    BY DEF BotUploads, RowInv, TypeOK
  <1>5. t \in Sessions /\ Created(t)
    <2>1. Created(s) /\ TypeOK
      BY <1>2, BotFields DEF RowInv
    <2>2. t \in Sessions /\ sessions[t].job = sessions[s].job
      BY <2>1, LastOfJob
    <2> QED BY <2>1, <2>2 DEF RowInv, Jobs
  <1>6. \/ Lost
        \/ UNCHANGED <<txns, fate>>
        \/ UNCHANGED fate /\ Read("ingest", s, n, None, t, to)
    BY DEF BotUploads
  <1> HIDE DEF t
  <1>7. Asked'
    <2>1. CASE UNCHANGED fate /\ Read("ingest", s, n, None, t, to)
      BY <1>3, <1>5, <2>1, IngestAsked, ReadKeeps
    <2>2. CASE Lost
      BY <1>3, <2>2, LostKeeps
    <2>3. CASE UNCHANGED <<txns, fate>>
      BY <1>3, <2>3, StillAsked
    <2> QED BY <1>6, <2>1, <2>2, <2>3
  <1> QED BY <1>2, <1>3, <1>4, <1>7, WorkKeeps DEF RowInv, TypeOK

LEMMA ExitsRows ==
  ASSUME RowInv, NEW s \in Sessions, NEW n \in Claims, BotExits(s, n) PROVE RowInv'
  <1>1. Moves(s, n) /\ bots[s][n].phase # "none"
    BY ExitIs DEF Alive, InMeeting
  <1>2. Asked' /\ UNCHANGED <<sessions, active, procs, imports>>
    BY StillAsked DEF BotExits
  <1> QED BY <1>1, <1>2, WorkKeeps DEF RowInv, TypeOK

LEMMA HeartbeatsRows == ASSUME RowInv, NEW r \in Runners, Heartbeat(r) PROVE RowInv'
  <1> DEFINE stopped == {s \in Sessions : /\ sessions[s].state = "cancelled" /\ sessions[s].by = r
                                          /\ procs[r][s] # 0
                                          /\ bots[s][procs[r][s]].phase \in Alive}
  <1>1. bots' = [s \in Sessions |-> IF s \in stopped
                   THEN [bots[s] EXCEPT ![procs[r][s]].phase = "exited", ![procs[r][s]].code = 0]
                   ELSE bots[s]]
    BY DEF Heartbeat
  <1>2. Asked' /\ UNCHANGED <<sessions, active, procs, imports>>
    BY StillAsked DEF Heartbeat
  <1>3. \A s \in stopped : procs[r][s] \in Claims /\ Created(s)
    BY DEF RowInv, TypeOK, Tries, Created
  <1>4. "exited" \in Phases /\ bots \in [Sessions -> [Claims -> Bot]]
    BY DEF Phases, RowInv, TypeOK
  <1> DEFINE zero == 0
  <1>5. zero \in 0..3
    OBVIOUS
  <1> HIDE DEF zero, stopped
  <1>6. \A s \in Sessions, n \in Claims :
          [bots[s][n] EXCEPT !.phase = "exited", !.code = zero] \in Bot
    <2> SUFFICES ASSUME NEW s \in Sessions, NEW n \in Claims
                 PROVE  [bots[s][n] EXCEPT !.phase = "exited", !.code = zero] \in Bot
      OBVIOUS
    <2>1. bots[s][n] \in Bot
      BY <1>4
    <2> QED BY ONLY <1>4, <1>5, <2>1 DEF Bot
  <1>7. \A s \in Sessions : [bots[s] EXCEPT ![procs[r][s]].phase = "exited",
                                            ![procs[r][s]].code = zero] \in [Claims -> Bot]
    BY <1>4, <1>6
  <1>8. bots' \in [Sessions -> [Claims -> Bot]]
    BY <1>1, <1>4, <1>7 DEF zero
  <1>9. Started'
    BY <1>1, <1>2, <1>3 DEF RowInv, Started, Created
  <1> QED BY <1>2, <1>8, <1>9 DEF RowInv, TypeOK, Asked, Jobs, Created

LEMMA CrashesRows == ASSUME RowInv, NEW r \in Runners, Crash(r) PROVE RowInv'
  <1> DEFINE B(s, n) == CASE bots[s][n].by # r          -> bots[s][n]
                          [] bots[s][n].by = r /\ bots[s][n].phase \in Alive
                                                        -> [bots[s][n] EXCEPT !.by = None]
                          [] OTHER                      -> Gone
  <1>1. bots' = [s \in Sessions |-> [n \in Claims |-> B(s, n)]]
    BY DEF Crash
  <1>2. \A s \in Sessions, n \in Claims : B(s, n) \in Bot
    <2> SUFFICES ASSUME NEW s \in Sessions, NEW n \in Claims PROVE B(s, n) \in Bot
      OBVIOUS
    <2>1. bots[s][n] \in Bot
      BY BotFields
    <2>2. [bots[s][n] EXCEPT !.by = None] \in Bot
      BY ONLY <2>1 DEF Bot
    <2> QED BY <2>1, <2>2, GoneIs
  <1>3. NoBot.by # r
    BY MeetingAssumption DEF NoBot
  <1>4. \A s \in Sessions, n \in Claims : bots[s][n] = NoBot => B(s, n) = NoBot
    BY <1>3
  <1> HIDE DEF B
  <1>5. /\ active' \in [Runners -> [Sessions -> Tries]]
        /\ procs' \in [Runners -> [Sessions -> Tries]]
    BY Counts DEF Crash, RowInv, TypeOK
  <1>6. UNCHANGED <<sessions, txns, imports>> /\ fate' = [fate EXCEPT !.met = TRUE]
    BY DEF Crash, Met
  <1>7. fate' \in [kind : Mishaps, met : BOOLEAN] /\ fate'.kind = fate.kind
    BY <1>6 DEF RowInv, TypeOK
  <1>8. Asked'
    BY <1>6, <1>7, QuietKeeps DEF Created
  <1>9. Started'
    BY <1>1, <1>4, <1>6 DEF RowInv, Started, Created
  <1>10. bots' \in [Sessions -> [Claims -> Bot]]
    BY <1>1, <1>2
  <1> QED BY <1>5, <1>6, <1>8, <1>9, <1>10 DEF RowInv, TypeOK, Asked, Jobs, Created

-----------------------------------------------------------------------------
(* The rows and their verdicts.                                            *)

LEMMA NextRows == RowInv /\ [Next]_vars => RowInv'
  <1> SUFFICES ASSUME RowInv, [Next]_vars PROVE RowInv'
    OBVIOUS
  <1>1. CASE UserStep
    BY <1>1, ChecksRows, CreatesRows, CancelsRows, ReschedulesRows DEF UserStep
  <1>2. CASE \E s \in Sessions : Elapse(s)
    BY <1>2, ElapsesRows
  <1>3. CASE \E q \in txns : Commit(q)
    BY <1>3, CommitsRows
  <1>4. CASE RunnerStep
    BY <1>4, ClaimsRows, HeartbeatsRows, CrashesRows DEF RunnerStep
  <1>5. CASE \E s \in Sessions, n \in Claims : TaskStep(s, n)
    BY <1>5, LaunchesRows, RelaysRows, ReportsRows, TasksEndRows DEF TaskStep
  <1>6. CASE \E s \in Sessions, n \in Claims : BotStep(s, n)
    BY <1>6, AdmitsRows, UploadsRows, ExitsRows DEF BotStep
  <1>7. CASE UNCHANGED vars
    BY <1>7 DEF vars, RowInv, TypeOK, Jobs, Started, Requests, Fresh, Shape, Created
  <1> QED BY <1>1, <1>2, <1>3, <1>4, <1>5, <1>6, <1>7 DEF Next

\* The rows hold states of the transition table, an attempt belongs to a claim, and a
\* session has a job: what session_store.py writes, whatever comes between its reads
\* and its commits (session_states.py).
THEOREM TypeCorrect == Spec => []TypeOK
  <1>1. RowInv => TypeOK
    BY DEF RowInv
  <1> QED BY <1>1, InitRows, NextRows, PTL DEF Spec

\* Tasks and bots write no row themselves.
LEMMA WorkLeaves ==
  ASSUME NEW s \in Sessions, NEW n \in Claims, TaskStep(s, n) \/ BotStep(s, n)
  PROVE  UNCHANGED sessions
  <1>1. Launch(s, n) => UNCHANGED sessions
    BY DEF Launch
  <1>2. Relay(s, n) => UNCHANGED sessions
    BY DEF Relay
  <1>3. Report(s, n) => UNCHANGED sessions
    BY DEF Report
  <1>4. TaskEnds(s, n) \/ BotAdmitted(s, n) \/ BotExits(s, n) => UNCHANGED sessions
    BY DEF TaskEnds, BotAdmitted, BotExits
  <1>5. BotUploads(s, n) => UNCHANGED sessions
    BY DEF BotUploads
  <1> QED BY <1>1, <1>2, <1>3, <1>4, <1>5 DEF TaskStep, BotStep

\* A step leaves a verdict as it is, unless a request commits what it has decided on
\* a row that has changed since.
LEMMA VerdictKept ==
  ASSUME RowInv, [Next]_vars, ~(fate'.met /\ fate.kind = "stale"),
         NEW s \in Sessions, sessions[s].state \in Terminal
  PROVE  sessions'[s].state = sessions[s].state
  <1>1. sessions[s].state \notin {"none", "checked", "planned"} \cup Cancellable
    BY DEF Terminal, Cancellable
  <1>2. sessions \in [Sessions -> Row]
    BY DEF RowInv, TypeOK
  <1>3. ASSUME NEW q \in txns, Commit(q) PROVE sessions'[s].state = sessions[s].state
    <2>1. CASE s # q.row
      BY <1>3, <2>1, CommittedRows
    <2>2. CASE s = q.row
      <3>1. sessions'[s] = Written(q, sessions[s])
        BY <1>3, <2>2, CommittedRows
      <3>2. q.to = q.seen => Written(q, sessions[s]).state = sessions[s].state
        BY <2>2, TxnFields, WrittenRow
      <3>3. SUFFICES ASSUME q.to # q.seen PROVE FALSE
        BY <3>1, <3>2
      <3>4. CanTransition(q.seen, q.to)
        BY <3>3, TxnFields DEF Shape
      <3>5. q.seen \notin Terminal
        BY <3>4, Table
      <3>6. q.seen # sessions[q.row].state
        BY <2>2, <3>5
      <3>7. Met
        BY <1>3, <3>3, <3>6, CommittedRows
      <3>8. fate'.met /\ fate.kind # "stale"
        BY <3>7 DEF Met, RowInv, TypeOK
      <3> QED BY <3>6, <3>8 DEF RowInv, Fresh
    <2> QED BY <2>1, <2>2
  <1>4. ASSUME NEW r \in Runners, Claim(r) PROVE sessions'[s].state = sessions[s].state
    <2>1. PICK E, D \in SUBSET Sessions : Claiming(r, E, D)
      BY <1>4, ClaimIs
    <2> QED BY <2>1, ClaimedRow
  <1>5. CASE UserStep
    <2>1. PICK x \in Sessions : \/ CheckDuplicate(x) \/ Create(x) \/ Cancel(x)
                                \/ \E t \in Sessions : Reschedule(x, t)
      BY <1>5 DEF UserStep
    <2>2. UNCHANGED sessions \/ \E row : /\ sessions[x].state \in {"none", "checked"}
                                         /\ sessions' = [sessions EXCEPT ![x] = row]
      BY <2>1 DEF CheckDuplicate, Create, Cancel, Reschedule
    <2> QED BY <1>1, <1>2, <2>2
  <1>6. CASE \E x \in Sessions : Elapse(x)
    <2>1. PICK x \in Sessions : Elapse(x)
      BY <1>6
    <2>2. sessions[x].state = "planned" /\ \E row : sessions' = [sessions EXCEPT ![x] = row]
      BY <2>1 DEF Elapse
    <2> QED BY <1>1, <1>2, <2>2
  <1>7. CASE \E r \in Runners : Heartbeat(r) \/ Crash(r)
    BY <1>7 DEF Heartbeat, Crash
  <1>8. CASE \E x \in Sessions, n \in Claims : TaskStep(x, n) \/ BotStep(x, n)
    BY <1>8, WorkLeaves
  <1>9. CASE UNCHANGED vars
    BY <1>9 DEF vars
  <1> QED BY <1>3, <1>4, <1>5, <1>6, <1>7, <1>8, <1>9 DEF Next, RunnerStep

\* A session that is over stays as it ended, whatever events, reports, recordings,
\* leases and claims come late (apply_event, apply_result, close_on_ingest,
\* release_expired_leases), unless a request commits over a row that has changed.
THEOREM VerdictsKept == Spec => VerdictsStand
  <1>1. RowInv /\ [Next]_vars =>
          [~(fate'.met /\ fate.kind = "stale") =>
             \A s \in Sessions : sessions[s].state \in Terminal
                                   => sessions'[s].state = sessions[s].state]_vars
    BY VerdictKept
  <1> QED BY <1>1, InitRows, NextRows, PTL DEF Spec, VerdictsStand

-----------------------------------------------------------------------------
(* The bots, until the mishap.                                             *)

\* What holds of bot n of session s: only the last one is there; it has exited, and its
\* runner waits for an answer, if the session is in the plan again; until it exits the
\* row, the runner and the process are its own; and once the runner has relayed that it
\* is in the meeting, the row says so or is about to.
Followed(s, n) ==
  LET b == bots[s][n]
      row == sessions[s]
  IN  /\ b.phase \notin {"none", "gone"} => n = row.tries
      /\ row.state = "planned" => \/ b.phase \in {"none", "gone"}
                                  \/ row.retry /\ b.phase = "reported"
      /\ b.phase \in Alive \cup {"launching"} => b.by \in Runners /\ row.by = b.by
      /\ b.phase \in Alive => procs[b.by][s] = n
      /\ b.phase \in Alive /\ b.told >= 3 => row.state \in Past \/ Under(s, n, {"in_meeting"})

\* A runner whose report is under way waits for its answer.
Results == \A q \in txns : q.op = "result" => q.n \in Claims /\ bots[q.s][q.n].phase = "reported"

Clean == Results /\ \A s \in Sessions, n \in Claims : Followed(s, n)

BotInv == RowInv /\ (~fate.met => Clean)

LEMMA ReadOps ==
  ASSUME NEW op, NEW s, NEW n, NEW r, NEW row, NEW to, Read(op, s, n, r, row, to)
  PROVE  /\ txns \subseteq txns'
         /\ \A q \in txns' : q \in txns \/ (q.op = op /\ q.s = s /\ q.n = n)
         /\ to # "none" => \E q \in txns' : q.op = op /\ q.s = s /\ q.n = n
  <1> DEFINE q0 == Request(op, s, n, r, row, to)
  <1>1. q0.op = op /\ q0.s = s /\ q0.n = n
    BY DEF Request
  <1>2. txns' = txns \/ (to # "none" /\ txns' = txns \cup {q0})
    BY ReadAdds
  <1>3. to # "none" => txns' = txns \cup {q0}
    BY ReadAdds
  <1> HIDE DEF q0
  <1> QED BY <1>1, <1>2, <1>3

\* A bot that is not there, or no more, needs nothing.
LEMMA RestsFollowed ==
  ASSUME NEW s, NEW n, bots[s][n].phase \in {"none", "gone"}
  PROVE  Followed(s, n)
  BY DEF Followed, Alive, InMeeting

\* Nor does one that has exited, while its session is not planned.
LEMMA ExitedFollowed ==
  ASSUME NEW s, NEW n, bots[s][n].phase \in {"exited", "reported"},
         n = sessions[s].tries, sessions[s].state # "planned"
  PROVE  Followed(s, n)
  BY DEF Followed, Alive, InMeeting

LEMMA NotCreated ==
  ASSUME RowInv, NEW s \in Sessions, ~Created(s), NEW n \in Claims
  PROVE  bots[s][n].phase = "none"
  BY DEF RowInv, Started, NoBot

LEMMA InitBots == Init => BotInv
  <1> SUFFICES ASSUME Init PROVE BotInv
    OBVIOUS
  <1>1. \A s \in Sessions, n \in Claims : bots[s][n].phase = "none"
    BY DEF Init, NoBot
  <1>2. Results
    BY DEF Init, Results
  <1> QED BY <1>1, <1>2, InitRows, RestsFollowed DEF BotInv, Clean

\* The steps that write one row and leave the bots and the requests alone.
LEMMA RowClean ==
  ASSUME RowInv, RowInv', Clean, UNCHANGED <<bots, procs, txns>>, NEW s \in Sessions,
         \A x \in Sessions : x # s => sessions'[x] = sessions[x],
         \A n \in Claims : bots[s][n].phase \in {"none", "gone"} \/ Followed(s, n)'
  PROVE  Clean'
  <1>1. Results'
    BY DEF Clean, Results
  <1>2. ASSUME NEW x \in Sessions, NEW n \in Claims PROVE Followed(x, n)'
    <2>1. CASE x # s
      BY <2>1 DEF Clean, Followed, Under
    <2>2. CASE x = s
      BY <2>2 DEF Followed, Alive, InMeeting
    <2> QED BY <2>1, <2>2
  <1> QED BY <1>1, <1>2 DEF Clean

LEMMA ElsewhereSame ==
  ASSUME RowInv, NEW s \in Sessions, NEW row, sessions' = [sessions EXCEPT ![s] = row]
  PROVE  sessions'[s] = row /\ \A x \in Sessions : x # s => sessions'[x] = sessions[x]
  BY DEF RowInv, TypeOK

LEMMA UsersClean ==
  ASSUME RowInv, RowInv', Clean, NEW s \in Sessions,
         CheckDuplicate(s) \/ Create(s) \/ \E t \in Sessions : Reschedule(s, t)
  PROVE  Clean'
  <1>1. ~Created(s) /\ UNCHANGED <<bots, procs, txns>>
        /\ \E row : sessions' = [sessions EXCEPT ![s] = row]
    BY DEF CheckDuplicate, Create, Reschedule, Created
  <1> QED BY <1>1, ElsewhereSame, NotCreated, RowClean

LEMMA CancelsClean ==
  ASSUME RowInv, Clean, NEW s \in Sessions, Cancel(s)
  PROVE  Clean'
  <1>1. /\ txns \subseteq txns'
        /\ \A q \in txns' : q \in txns \/ q.op = "cancel"
    BY ReadOps DEF Cancel
  <1>2. UNCHANGED <<sessions, bots, procs>>
    BY DEF Cancel
  <1>3. Results'
    BY <1>1, <1>2 DEF Clean, Results
  <1> QED BY <1>1, <1>2, <1>3 DEF Clean, Followed, Under

LEMMA ElapsesClean ==
  ASSUME RowInv, RowInv', Clean, NEW s \in Sessions, Elapse(s)
  PROVE  Clean'
  <1>1. UNCHANGED <<bots, procs, txns>> /\ sessions[s].state = "planned"
        /\ \A x \in Sessions : x # s => sessions'[x] = sessions[x]
    BY ElsewhereSame DEF Elapse
  <1>2. \A n \in Claims : Followed(s, n)
    BY DEF Clean
  <1>3. CASE /\ \A n \in Claims : bots[s][n].phase # "reported"
             /\ sessions' = [sessions EXCEPT ![s].retry = FALSE]
    <2>1. \A n \in Claims : bots[s][n].phase \in {"none", "gone"}
      BY <1>1, <1>2, <1>3 DEF Followed
    <2> QED BY <1>1, <2>1, RowClean
  <1>4. CASE sessions' = [sessions EXCEPT ![s].when = "late"]
    <2> DEFINE row == [sessions[s] EXCEPT !.when = "late"]
    <2>1. row.state = sessions[s].state /\ row.retry = sessions[s].retry
          /\ row.tries = sessions[s].tries /\ row.by = sessions[s].by
      BY RowFields DEF Row
    <2>2. sessions'[s] = row
      BY <1>4, ElsewhereSame
    <2> HIDE DEF row
    <2>3. \A n \in Claims : Followed(s, n)'
      BY <1>1, <1>2, <2>1, <2>2 DEF Followed, Under
    <2> QED BY <1>1, <2>3, RowClean
  <1> QED BY <1>3, <1>4 DEF Elapse

\* A commit: the result of a bot that failed puts its session back in the plan; any
\* other request walks the row through the table.
LEMMA CommitsClean ==
  ASSUME RowInv, Clean, NEW q \in txns, Commit(q), ~fate'.met
  PROVE  Clean'
  <1>1. /\ UNCHANGED <<bots, procs>> /\ txns' = txns \ {q}
        /\ \A x \in Sessions : x # q.row => sessions'[x] = sessions[x]
        /\ sessions'[q.row] = Written(q, sessions[q.row])
    BY CommittedRows, TxnFields DEF Commit
  <1>2. q.to = q.seen \/ (q.seen = sessions[q.row].state /\ CanTransition(q.seen, q.to)
                          /\ q.to # "planned")
    <2>1. ~ Met
      BY DEF Met, RowInv, TypeOK
    <2>2. q.to = q.seen \/ q.seen = sessions[q.row].state
      BY <2>1, CommittedRows
    <2> QED BY <2>2, TxnFields DEF Shape
  <1>3. Results'
    BY <1>1 DEF Clean, Results
  <1>4. ASSUME NEW x \in Sessions, NEW n \in Claims PROVE Followed(x, n)'
    <2>1. Followed(x, n)
      BY DEF Clean
    <2>2. CASE x # q.row
      <3>1. ~(q.op = "in_meeting" /\ q.s = x)
        BY <2>2, TxnFields DEF Shape, RunnerEvents, Events
      <3>2. Under(x, n, {"in_meeting"}) => Under(x, n, {"in_meeting"})'
        BY <1>1, <3>1 DEF Under
      <3> QED BY <1>1, <2>1, <2>2, <3>2 DEF Followed
    <2>3. CASE x = q.row /\ q.to = "failed_retryable"
      <3>1. q.op = "result" /\ q.s = x
        BY <2>3, TxnFields DEF Shape
      <3>2. q.n \in Claims /\ bots[x][q.n].phase = "reported"
        BY <3>1 DEF Clean, Results
      <3>3. q.n = sessions[x].tries
        BY <3>2 DEF Clean, Followed
      <3>4. bots[x][n].phase \in {"none", "gone"} \/ bots[x][n].phase = "reported"
        BY <2>1, <3>2, <3>3 DEF Followed
      <3>5. sessions'[x].tries = sessions[x].tries /\ sessions'[x].retry
        BY <1>1, <2>3, TxnFields, WrittenRow
      <3> QED BY <1>1, <2>1, <3>4, <3>5 DEF Followed, Alive, InMeeting
    <2>4. CASE x = q.row /\ q.to # "failed_retryable"
      <3>1. /\ sessions'[x].tries = sessions[x].tries /\ sessions'[x].by = sessions[x].by
            /\ sessions'[x].retry = sessions[x].retry
            /\ sessions'[x].state = IF q.to = q.seen THEN sessions[x].state ELSE q.to
        BY <1>1, <2>4, TxnFields, WrittenRow
      <3>2. sessions'[x].state = "planned" => sessions[x].state = "planned"
        BY <1>2, <3>1
      <3>3. sessions[x].state \in Past => sessions'[x].state \in Past
        BY <1>2, <2>4, <3>1, Table
      <3>4. q.op = "in_meeting" => sessions'[x].state = "in_meeting"
        <4>1. q.op = "in_meeting" => q.to = "in_meeting" /\ CanTransition(q.seen, q.to)
          BY TxnFields DEF Shape
        <4>2. q.op = "in_meeting" => q.to # q.seen
          BY <4>1, Table
        <4> QED BY <3>1, <4>1, <4>2
      <3>5. Under(x, n, {"in_meeting"}) => Under(x, n, {"in_meeting"})' \/ q.op = "in_meeting"
        BY <1>1 DEF Under
      <3> QED BY <1>1, <2>1, <3>1, <3>2, <3>3, <3>4, <3>5 DEF Followed, Past
    <2> QED BY <2>2, <2>3, <2>4
  <1> QED BY <1>3, <1>4 DEF Clean

\* A session a claim gives back has no bot left, unless it was in the meeting.
LEMMA ExpiredEmpty ==
  ASSUME RowInv, Clean, ~SlowAdmission, NEW s \in Sessions, Expired(s),
         sessions[s].state # "in_meeting", NEW n \in Claims
  PROVE  bots[s][n].phase \in {"none", "gone"}
  <1> SUFFICES ASSUME bots[s][n].phase \notin {"none", "gone"} PROVE FALSE
    OBVIOUS
  <1>1. Followed(s, n)
    BY DEF Clean
  <1>2. n = sessions[s].tries
    BY <1>1 DEF Followed
  <1>3. /\ sessions[s].state \in {"claimed", "joining", "waiting_admission"}
        /\ bots[s][n].phase \in InMeeting \cup {"none", "gone"}
        /\ ~Under(s, n, RunnerEvents)
        /\ bots[s][n].phase \in InMeeting /\ bots[s][n].by # None => bots[s][n].told >= 3
    BY <1>2 DEF Expired, LastBot
  <1>4. bots[s][n].phase \in Alive /\ bots[s][n].phase \in InMeeting
    BY <1>3 DEF Alive
  <1>5. bots[s][n].told >= 3
    BY <1>1, <1>3, <1>4, MeetingAssumption DEF Followed
  <1>6. Under(s, n, {"in_meeting"})
    BY <1>1, <1>3, <1>4, <1>5 DEF Followed, Past, Terminal
  <1> QED BY <1>3, <1>6 DEF Under, RunnerEvents, Events

\* What a claim takes has no bot left.
LEMMA TakenEmpty ==
  ASSUME RowInv, Clean, ~SlowAdmission, NEW E \in SUBSET Sessions, \A x \in E : Expired(x),
         NEW s \in Sessions, Claimable(s, Freed(E, s)), NEW n \in Claims
  PROVE  bots[s][n].phase \in {"none", "gone"}
  <1>1. CASE s \in E
    <2>1. sessions[s].state # "in_meeting"
      BY <1>1, FreedRow DEF Claimable
    <2> QED BY <1>1, <2>1, ExpiredEmpty
  <1>2. CASE s \notin E
    <2>1. sessions[s].state = "planned" /\ ~sessions[s].retry
      BY <1>2 DEF Claimable, Freed
    <2> QED BY <2>1 DEF Clean, Followed
  <1> QED BY <1>1, <1>2

LEMMA ClaimsClean ==
  ASSUME RowInv, Clean, ~SlowAdmission, NEW r \in Runners, Claim(r), ~fate'.met
  PROVE  Clean'
  <1>1. PICK E, D \in SUBSET Sessions : Claiming(r, E, D)
    BY ClaimIs
  <1>2. ~ Lost
    BY DEF Lost, Met, RowInv, TypeOK
  <1>3. /\ bots' = [s \in Sessions |->
                      IF Follows(r, E, D, s)
                      THEN [bots[s] EXCEPT ![After(r, E, D, s).tries] = NewBot(r)] ELSE bots[s]]
        /\ UNCHANGED <<txns, procs>>
        /\ \A x \in E : Expired(x)
    BY <1>1, <1>2 DEF Claiming
  <1>4. ASSUME NEW s \in Sessions, s \in D, NEW n \in Claims
        PROVE  bots[s][n].phase \in {"none", "gone"}
    BY <1>1, <1>3, <1>4, ClaimedRow, TakenEmpty
  <1>5. \A s \in Sessions, n \in Claims :
          bots'[s][n] = IF Follows(r, E, D, s) /\ n = After(r, E, D, s).tries
                        THEN NewBot(r) ELSE bots[s][n]
    BY <1>3 DEF RowInv, TypeOK
  <1>6. \A s \in Sessions : Follows(r, E, D, s) => s \in D
    BY DEF Follows
  <1>7. Results'
    <2> SUFFICES ASSUME NEW q \in txns, q.op = "result"
                 PROVE  q.n \in Claims /\ bots'[q.s][q.n].phase = "reported"
      BY <1>3 DEF Results
    <2>1. q.n \in Claims /\ bots[q.s][q.n].phase = "reported" /\ q.s \in Sessions
      BY TxnFields DEF Clean, Results
    <2>2. q.s \notin D
      BY <1>4, <2>1
    <2> QED BY <1>5, <1>6, <2>1, <2>2
  <1>8. ASSUME NEW s \in Sessions, NEW n \in Claims PROVE Followed(s, n)'
    <2>1. sessions'[s] = After(r, E, D, s)
      BY <1>1, ClaimedRow
    <2>2. CASE s \notin E \cup D
      <3>1. sessions'[s] = sessions[s] /\ bots'[s][n] = bots[s][n]
        BY <1>1, <1>5, <1>6, <2>2, ClaimedRow
      <3> QED BY <1>3, <3>1 DEF Clean, Followed, Under
    <2>3. CASE s \in E /\ s \notin D
      <3>1. sessions'[s] = Freed(E, s) /\ bots'[s][n] = bots[s][n]
        BY <1>5, <1>6, <2>1, <2>3 DEF After
      <3>2. CASE sessions[s].state # "in_meeting"
        BY <1>3, <2>3, <3>1, <3>2, ExpiredEmpty, RestsFollowed DEF Followed, Alive, InMeeting
      <3>3. CASE sessions[s].state = "in_meeting"
        <4>1. sessions'[s].state = "failed_final" /\ sessions'[s].tries = sessions[s].tries
          BY <1>3, <2>3, <3>1, <3>3, FreedRow
        <4>2. bots[s][n].phase \notin Alive
          BY <1>3, <2>3, <3>3 DEF Expired
        <4>3. bots[s][n].phase # "launching" \/ sessions'[s].by = sessions[s].by
          BY <2>3, <3>1, <3>3, RowFields, ReleasedRow DEF Freed
        <4>4. Followed(s, n)
          BY DEF Clean
        <4> QED BY <3>1, <4>1, <4>2, <4>3, <4>4 DEF Followed
      <3> QED BY <3>2, <3>3
    <2>4. CASE s \in D
      <3>1. bots[s][n].phase \in {"none", "gone"}
        BY <1>4, <2>4
      <3>2. CASE bots'[s][n] = bots[s][n]
        BY <3>1, <3>2 DEF Followed, Alive, InMeeting
      <3>3. CASE bots'[s][n] # bots[s][n]
        <4>1. /\ Follows(r, E, D, s) /\ n = After(r, E, D, s).tries
              /\ bots'[s][n] = NewBot(r)
          BY <1>5, <3>3
        <4>2. After(r, E, D, s).state = "claimed" /\ After(r, E, D, s).by = r
          <5>1. /\ Claimable(s, Freed(E, s)) /\ After(r, E, D, s) = Taken(r, Freed(E, s))
                /\ Freed(E, s) \in Row
            BY <1>1, <1>3, <2>4, ClaimedRow, FreedRow
          <5> QED BY <4>1, <5>1, TakenRow DEF Follows
        <4>3. NewBot(r).phase = "launching" /\ NewBot(r).by = r
          BY NewBotIs
        <4> QED BY <2>1, <4>1, <4>2, <4>3 DEF Followed, Alive, InMeeting
      <3> QED BY <3>2, <3>3
    <2> QED BY <2>2, <2>3, <2>4
  <1> QED BY <1>7, <1>8 DEF Clean

\* A step of the last bot of a session, or of its task, that writes no row.
LEMMA WorkClean ==
  ASSUME RowInv, Clean, UNCHANGED sessions, NEW s \in Sessions, NEW n \in Claims,
         Moves(s, n), bots[s][n].phase \notin {"none", "gone"}, txns \subseteq txns',
         \A q \in txns' : q \in txns \/ (q.s = s /\ q.n = n),
         \A q \in txns' : q.op = "result" /\ q.s = s /\ q.n = n
                            => bots'[s][n].phase = "reported",
         \A x \in Sessions : x # s => \A r \in Runners : procs'[r][x] = procs[r][x],
         Followed(s, n)'
  PROVE  Clean'
  <1>1. Results'
    <2> SUFFICES ASSUME NEW q \in txns', q.op = "result"
                 PROVE  q.n \in Claims /\ bots'[q.s][q.n].phase = "reported"
      BY DEF Results
    <2>1. CASE q.s = s /\ q.n = n
      BY <2>1
    <2>2. CASE ~(q.s = s /\ q.n = n)
      BY <2>2, TxnFields DEF Clean, Results, Moves
    <2> QED BY <2>1, <2>2
  <1>2. ASSUME NEW x \in Sessions, NEW m \in Claims PROVE Followed(x, m)'
    <2>1. CASE x = s /\ m = n
      BY <2>1
    <2>2. CASE x = s /\ m # n
      <3>1. bots[x][m].phase \in {"none", "gone"}
        BY <2>2 DEF Clean, Followed
      <3>2. bots'[x][m] = bots[x][m]
        BY <2>2 DEF Moves
      <3> QED BY <3>1, <3>2 DEF Followed, Alive, InMeeting
    <2>3. CASE x # s
      <3>1. bots'[x][m] = bots[x][m]
        BY <2>3 DEF Moves
      <3>2. Under(x, m, {"in_meeting"}) => Under(x, m, {"in_meeting"})'
        BY DEF Under
      <3>3. Followed(x, m)
        BY DEF Clean
      <3> QED BY <2>3, <3>1, <3>2, <3>3 DEF Followed
    <2> QED BY <2>1, <2>2, <2>3
  <1> QED BY <1>1, <1>2 DEF Clean

LEMMA NotLost == ASSUME RowInv, ~fate'.met PROVE ~Lost
  BY DEF Lost, Met, RowInv, TypeOK

LEMMA LaunchesClean ==
  ASSUME RowInv, Clean, NEW s \in Sessions, NEW n \in Claims, Launch(s, n), ~fate'.met
  PROVE  Clean'
  <1> DEFINE b == bots[s][n]
  <1>1. /\ b.phase = "launching" /\ b.by \in Runners /\ sessions[s].by = b.by
        /\ n = sessions[s].tries /\ sessions[s].state # "planned"
    BY DEF Launch, Clean, Followed
  <1>2. /\ txns \subseteq txns'
        /\ \A q \in txns' : q \in txns \/ (q.op = "joining" /\ q.s = s /\ q.n = n)
    BY NotLost, ReadOps DEF Launch
  <1>3. \A q \in txns' : ~(q.op = "result" /\ q.s = s /\ q.n = n)
    BY <1>1, <1>2 DEF Clean, Results
  <1>4. UNCHANGED sessions /\ (UNCHANGED procs \/ procs' = [procs EXCEPT ![b.by][s] = n])
    BY DEF Launch
  <1>5. procs \in [Runners -> [Sessions -> Tries]]
    BY DEF RowInv, TypeOK
  <1>6. Moves(s, n) /\ bots'[s][n].by = b.by
    BY LaunchIs
  <1>7. Followed(s, n)'
    <2>1. CASE bots'[s][n].phase = "waiting" /\ bots'[s][n].told = 1
      <3>1. procs' = [procs EXCEPT ![b.by][s] = n]
        <4>1. bots'[s][n].phase # "exited"
          BY <2>1
        <4>2. CASE bots' = [bots EXCEPT ![s][n].phase = "exited", ![s][n].code = 3]
          BY <4>1, <4>2 DEF RowInv, TypeOK, Bot
        <4> QED BY <4>2 DEF Launch
      <3> QED BY <1>1, <1>4, <1>5, <1>6, <2>1, <3>1 DEF Followed, Alive, InMeeting
    <2>2. CASE bots'[s][n].phase = "exited"
      BY <1>1, <1>4, <2>2 DEF Followed, Alive, InMeeting
    <2> QED BY <2>1, <2>2, LaunchIs
  <1> HIDE DEF b
  <1>8. \A x \in Sessions : x # s => \A r \in Runners : procs'[r][x] = procs[r][x]
    BY <1>4, <1>5
  <1> QED BY <1>1, <1>2, <1>3, <1>4, <1>6, <1>7, <1>8, WorkClean DEF b

\* The runner that has relayed that its bot is in the meeting has had it recorded, or is
\* about to: the table lets it from every state the session may be in.
LEMMA RelaysClean ==
  ASSUME RowInv, Clean, NEW s \in Sessions, NEW n \in Claims, Relay(s, n), ~fate'.met
  PROVE  Clean'
  <1> DEFINE b == bots[s][n]
             event == Events[b.told + 1]
             to == EventTarget(event, sessions[s], b.by)
  <1>1. Moves(s, n) /\ b.phase \in Alive /\ bots'[s][n].by = b.by
        /\ bots'[s][n].phase = b.phase /\ bots'[s][n].told = b.told + 1
    BY RelayIs
  <1>2. Followed(s, n) /\ UNCHANGED <<sessions, procs>>
    BY DEF Clean, Relay
  <1>3. Read(event, s, n, b.by, s, to)
    BY NotLost DEF Relay
  <1>4. event \in RunnerEvents
    BY NextEvent
  <1>5. /\ txns \subseteq txns'
        /\ \A q \in txns' : q \in txns \/ (q.op = event /\ q.s = s /\ q.n = n)
        /\ to # "none" => \E q \in txns' : q.op = event /\ q.s = s /\ q.n = n
    <2> HIDE DEF event, to
    <2> QED BY <1>3, ReadOps
  <1>6. event # "result"
    BY <1>4 DEF RunnerEvents, Events
  <1>7. \A q \in txns' : ~(q.op = "result" /\ q.s = s /\ q.n = n)
    BY <1>1, <1>5, <1>6 DEF Clean, Results, Alive, InMeeting
  <1>8. b.told \in 0..4
    BY BotFields
  <1>9. b.told >= 2 => sessions[s].state \in Past \/ Under(s, n, {"in_meeting"})'
    <2>1. CASE b.told >= 3
      BY <1>1, <1>2, <1>5, <2>1 DEF Followed, Under
    <2>2. CASE b.told = 2 /\ sessions[s].state \notin Past
      <3>1. event = "in_meeting"
        BY <2>2 DEF Events
      <3>2. Created(s)
        BY <1>1, BotFields DEF Alive, InMeeting
      <3>3. sessions[s].state \in {"claimed", "joining", "waiting_admission"}
        BY <1>1, <1>2, <2>2, <3>2, RowFields
           DEF Followed, Alive, InMeeting, Past, States, Cancellable
      <3>4. sessions[s].by = b.by
        BY <1>1, <1>2 DEF Followed
      <3>5. to = "in_meeting"
        BY <3>1, <3>3, <3>4, Joins DEF EventTarget
      <3> QED BY <1>5, <3>1, <3>5 DEF Under
    <2> QED BY <1>8, <2>1, <2>2
  <1>10. Followed(s, n)'
    BY <1>1, <1>2, <1>8, <1>9 DEF Followed, Alive, InMeeting
  <1> HIDE DEF b, event, to
  <1> QED BY <1>1, <1>2, <1>5, <1>7, <1>10, WorkClean DEF b, Alive, InMeeting

LEMMA ReportsClean ==
  ASSUME RowInv, Clean, NEW s \in Sessions, NEW n \in Claims, Report(s, n), ~fate'.met
  PROVE  Clean'
  <1>1. bots' = [bots EXCEPT ![s][n].phase = "reported"] /\ UNCHANGED <<sessions, procs>>
        /\ bots[s][n].phase = "exited" /\ "reported" \in Phases
    BY DEF Report, Phases
  <1>2. Moves(s, n) /\ bots'[s][n].phase = "reported"
    BY <1>1, PhaseIs
  <1>3. /\ txns \subseteq txns'
        /\ \A q \in txns' : q \in txns \/ (q.s = s /\ q.n = n)
    BY NotLost, ReadOps DEF Report
  <1>4. n = sessions[s].tries /\ sessions[s].state # "planned"
    BY <1>1 DEF Clean, Followed
  <1>5. Followed(s, n)'
    BY <1>1, <1>2, <1>4 DEF Followed, Alive, InMeeting
  <1> QED BY <1>1, <1>2, <1>3, <1>5, WorkClean

LEMMA TasksEndClean ==
  ASSUME RowInv, Clean, NEW s \in Sessions, NEW n \in Claims, TaskEnds(s, n)
  PROVE  Clean'
  <1>1. Moves(s, n) /\ bots'[s][n].phase = "gone" /\ bots[s][n].phase = "reported"
    BY BotWith, GoneIs DEF TaskEnds
  <1>2. UNCHANGED <<sessions, txns>>
    BY DEF TaskEnds
  <1>3. \A q \in txns' : ~(q.op = "result" /\ q.s = s /\ q.n = n)
    BY <1>2 DEF TaskEnds, Under
  <1>4. \A x \in Sessions : x # s => \A r \in Runners : procs'[r][x] = procs[r][x]
    BY DEF TaskEnds, RowInv, TypeOK
  <1>5. Followed(s, n)'
    BY <1>1 DEF Followed, Alive, InMeeting
  <1> QED BY <1>1, <1>2, <1>3, <1>4, <1>5, WorkClean

LEMMA AdmitsClean ==
  ASSUME RowInv, Clean, NEW s \in Sessions, NEW n \in Claims, BotAdmitted(s, n)
  PROVE  Clean'
  <1>1. bots' = [bots EXCEPT ![s][n].phase = "meeting"] /\ UNCHANGED <<sessions, procs, txns>>
        /\ bots[s][n].phase = "waiting" /\ "meeting" \in Phases
    BY DEF BotAdmitted, Phases, Alive, InMeeting
  <1>2. /\ Moves(s, n) /\ bots'[s][n].phase = "meeting" /\ bots'[s][n].by = bots[s][n].by
        /\ bots'[s][n].told = bots[s][n].told
    BY <1>1, PhaseIs
  <1>3. \A q \in txns' : ~(q.op = "result" /\ q.s = s /\ q.n = n)
    BY <1>1 DEF Clean, Results
  <1>4. Followed(s, n)'
    BY <1>1, <1>2 DEF Clean, Followed, Alive, InMeeting, Under
  <1> QED BY <1>1, <1>2, <1>3, <1>4, WorkClean

LEMMA UploadsClean ==
  ASSUME RowInv, Clean, NEW s \in Sessions, NEW n \in Claims, BotUploads(s, n), ~fate'.met
  PROVE  Clean'
  <1>1. bots' = [bots EXCEPT ![s][n].phase = "uploading"] /\ UNCHANGED <<sessions, procs>>
        /\ bots[s][n].phase = "meeting" /\ "uploading" \in Phases
    BY DEF BotUploads, Phases, Alive, InMeeting
  <1>2. /\ Moves(s, n) /\ bots'[s][n].phase = "uploading" /\ bots'[s][n].by = bots[s][n].by
        /\ bots'[s][n].told = bots[s][n].told
    BY <1>1, PhaseIs
  <1>3. /\ txns \subseteq txns'
        /\ \A q \in txns' : q \in txns \/ (q.op = "ingest" /\ q.s = s /\ q.n = n)
    BY NotLost, ReadOps DEF BotUploads
  <1>4. \A q \in txns' : ~(q.op = "result" /\ q.s = s /\ q.n = n)
    BY <1>1, <1>3 DEF Clean, Results
  <1>5. Under(s, n, {"in_meeting"}) => Under(s, n, {"in_meeting"})'
    BY <1>3 DEF Under
  <1>6. Followed(s, n)
    BY DEF Clean
  <1>7. Followed(s, n)'
    BY <1>1, <1>2, <1>5, <1>6 DEF Followed, Alive, InMeeting
  <1> QED BY <1>1, <1>2, <1>3, <1>4, <1>7, WorkClean

LEMMA ExitsClean ==
  ASSUME RowInv, Clean, NEW s \in Sessions, NEW n \in Claims, BotExits(s, n)
  PROVE  Clean'
  <1>1. Moves(s, n) /\ bots'[s][n].phase \in {"gone", "exited"} /\ bots[s][n].phase \in Alive
    BY ExitIs
  <1>2. UNCHANGED <<sessions, procs, txns>>
    BY DEF BotExits
  <1>3. n = sessions[s].tries /\ sessions[s].state # "planned"
    BY <1>1 DEF Clean, Followed, Alive, InMeeting
  <1>4. \A q \in txns' : ~(q.op = "result" /\ q.s = s /\ q.n = n)
    BY <1>1, <1>2 DEF Clean, Results, Alive, InMeeting
  <1>5. Followed(s, n)'
    BY <1>1, <1>2, <1>3 DEF Followed, Alive, InMeeting
  <1> QED BY <1>1, <1>2, <1>4, <1>5, WorkClean DEF Alive, InMeeting

\* The heartbeat stops bots of cancelled sessions, which are not planned.
LEMMA HeartbeatsClean ==
  ASSUME RowInv, Clean, NEW r \in Runners, Heartbeat(r)
  PROVE  Clean'
  <1>1. UNCHANGED <<sessions, procs, txns>>
    BY DEF Heartbeat
  <1>2. ASSUME NEW s \in Sessions, NEW n \in Claims
        PROVE  \/ bots'[s][n] = bots[s][n]
               \/ /\ bots[s][n].phase \in Alive /\ bots'[s][n].phase = "exited"
                  /\ sessions[s].state = "cancelled"
    <2> DEFINE p == procs[r][s]
    <2>1. CASE /\ sessions[s].state = "cancelled" /\ sessions[s].by = r
               /\ procs[r][s] # 0 /\ bots[s][procs[r][s]].phase \in Alive
      <3>1. bots'[s] = [bots[s] EXCEPT ![p].phase = "exited", ![p].code = 0]
        BY <2>1 DEF Heartbeat
      <3>2. p \in Claims /\ bots[s] \in [Claims -> Bot]
        BY <2>1 DEF RowInv, TypeOK, Tries
      <3> HIDE DEF p
      <3>3. n # p => bots'[s][n] = bots[s][n]
        BY <3>1, <3>2
      <3>4. bots'[s][p].phase = "exited"
        BY <3>1, <3>2 DEF Bot
      <3> QED BY <2>1, <3>3, <3>4 DEF p
    <2>2. CASE ~(/\ sessions[s].state = "cancelled" /\ sessions[s].by = r
                 /\ procs[r][s] # 0 /\ bots[s][procs[r][s]].phase \in Alive)
      BY <2>2 DEF Heartbeat
    <2> QED BY <2>1, <2>2
  <1>3. Results'
    <2> SUFFICES ASSUME NEW q \in txns, q.op = "result"
                 PROVE  q.n \in Claims /\ bots'[q.s][q.n].phase = "reported"
      BY <1>1 DEF Results
    <2>1. q.n \in Claims /\ bots[q.s][q.n].phase = "reported" /\ q.s \in Sessions
      BY TxnFields DEF Clean, Results
    <2> QED BY <1>2, <2>1 DEF Alive, InMeeting
  <1>4. ASSUME NEW s \in Sessions, NEW n \in Claims PROVE Followed(s, n)'
    BY <1>1, <1>2 DEF Clean, Followed, Under, Alive, InMeeting
  <1> QED BY <1>3, <1>4 DEF Clean

-----------------------------------------------------------------------------
(* The step.                                                               *)

\* What has gone wrong stays so.
LEMMA MetStays ==
  ASSUME RowInv, [Next]_vars, ~fate'.met
  PROVE  ~fate.met
  <1>1. fate' = fate \/ Met
    <2>1. UserStep => fate' = fate
      BY DEF UserStep, CheckDuplicate, Create, Cancel, Reschedule
    <2>2. (\E s \in Sessions : Elapse(s)) => fate' = fate
      BY DEF Elapse
    <2>3. (\E q \in txns : Commit(q)) => fate' = fate \/ Met
      BY CommittedRows
    <2>4. ASSUME NEW r \in Runners, Claim(r) PROVE fate' = fate \/ Met
      BY <2>4, ClaimIs DEF Claiming, Lost
    <2>5. ASSUME NEW r \in Runners, Heartbeat(r) \/ Crash(r) PROVE fate' = fate \/ Met
      BY <2>5 DEF Heartbeat, Crash
    <2>6. ASSUME NEW s \in Sessions, NEW n \in Claims, TaskStep(s, n) PROVE fate' = fate \/ Met
      <3>1. Launch(s, n) => fate' = fate \/ Met
        BY DEF Launch, Lost
      <3>2. Relay(s, n) => fate' = fate \/ Met
        BY DEF Relay, Lost
      <3>3. Report(s, n) => fate' = fate \/ Met
        BY DEF Report, Lost
      <3>4. TaskEnds(s, n) => fate' = fate
        BY DEF TaskEnds
      <3> QED BY <2>6, <3>1, <3>2, <3>3, <3>4 DEF TaskStep
    <2>7. ASSUME NEW s \in Sessions, NEW n \in Claims, BotStep(s, n) PROVE fate' = fate \/ Met
      <3>1. BotUploads(s, n) => fate' = fate \/ Met
        BY DEF BotUploads, Lost
      <3> QED BY <2>7, <3>1 DEF BotStep, BotAdmitted, BotExits
    <2>8. UNCHANGED vars => fate' = fate
      BY DEF vars
    <2> QED BY <2>1, <2>2, <2>3, <2>4, <2>5, <2>6, <2>7, <2>8 DEF Next, RunnerStep
  <1>2. fate \in [kind : Mishaps, met : BOOLEAN]
    BY DEF RowInv, TypeOK
  <1> QED BY <1>1, <1>2 DEF Met

LEMMA NextBots == ASSUME ~SlowAdmission, BotInv, [Next]_vars PROVE BotInv'
  <1>1. RowInv /\ RowInv'
    BY NextRows DEF BotInv
  <1>2. ASSUME ~fate'.met PROVE Clean'
    <2>1. Clean
      BY <1>1, <1>2, MetStays DEF BotInv
    <2>2. CASE UserStep
      BY <1>1, <2>1, <2>2, UsersClean, CancelsClean DEF UserStep
    <2>3. CASE \E s \in Sessions : Elapse(s)
      BY <1>1, <2>1, <2>3, ElapsesClean
    <2>4. CASE \E q \in txns : Commit(q)
      BY <1>1, <1>2, <2>1, <2>4, CommitsClean
    <2>5. CASE RunnerStep
      <3>1. ASSUME NEW r \in Runners, Claim(r) PROVE Clean'
        BY <1>1, <1>2, <2>1, <3>1, ClaimsClean
      <3>2. ASSUME NEW r \in Runners, Heartbeat(r) PROVE Clean'
        BY <1>1, <2>1, <3>2, HeartbeatsClean
      <3>3. ASSUME NEW r \in Runners, Crash(r) PROVE FALSE
        BY <1>1, <1>2, <3>3 DEF Crash, Met, RowInv, TypeOK
      <3> QED BY <2>5, <3>1, <3>2, <3>3 DEF RunnerStep
    <2>6. CASE \E s \in Sessions, n \in Claims : TaskStep(s, n)
      BY <1>1, <1>2, <2>1, <2>6, LaunchesClean, RelaysClean, ReportsClean, TasksEndClean
         DEF TaskStep
    <2>7. CASE \E s \in Sessions, n \in Claims : BotStep(s, n)
      BY <1>1, <1>2, <2>1, <2>7, AdmitsClean, UploadsClean, ExitsClean DEF BotStep
    <2>8. CASE UNCHANGED vars
      BY <2>1, <2>8 DEF vars, Clean, Results, Followed, Under
    <2> QED BY <2>2, <2>3, <2>4, <2>5, <2>6, <2>7, <2>8 DEF Next
  <1> QED BY <1>1, <1>2 DEF BotInv

\* One session, one bot, and none when the session is in the plan again: neither a
\* retry nor a lease that has run out lets a second bot join (apply_result,
\* release_expired_leases), as long as bots are admitted within the lease of their claim
\* and nothing is lost, dies or commits over what has changed.
THEOREM OneBotAtATime ==
  ASSUME ~SlowAdmission
  PROVE  Spec => []OneBot
  <1>1. BotInv => OneBot
    <2> SUFFICES ASSUME BotInv, ~fate.met, NEW s \in Sessions
                 PROVE  /\ Cardinality(AliveBots(s)) <= 1
                        /\ sessions[s].state = "planned" => AliveBots(s) = {}
      BY DEF OneBot
    <2>1. \A n \in Claims : Followed(s, n)
      BY DEF BotInv, Clean
    <2>2. \A n \in AliveBots(s) : n = sessions[s].tries /\ sessions[s].state # "planned"
      BY <2>1 DEF AliveBots, Followed, Alive, InMeeting
    <2>3. AliveBots(s) = {} \/ AliveBots(s) = {sessions[s].tries}
      BY <2>2
    <2>4. Cardinality(AliveBots(s)) \in {0, 1}
      BY <2>3, FS_EmptySet, FS_Singleton
    <2> QED BY <2>2, <2>4
  <1>2. BotInv /\ [Next]_vars => BotInv'
    BY NextBots
  <1> QED BY <1>1, <1>2, InitBots, PTL DEF Spec

\* The bot of a cancelled session is within reach of its runner, which the heartbeat
\* brings the session back to and which knows the process (cancelled_for_runner,
\* daemon.py), under the same conditions.
THEOREM CancellationReaches ==
  ASSUME ~SlowAdmission
  PROVE  Spec => []CancelReaches
  <1>1. BotInv => CancelReaches
    BY DEF BotInv, Clean, Followed, CancelReaches
  <1>2. BotInv /\ [Next]_vars => BotInv'
    BY NextBots
  <1> QED BY <1>1, <1>2, InitBots, PTL DEF Spec
=============================================================================
