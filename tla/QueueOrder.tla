----------------------------- MODULE QueueOrder -----------------------------
(***************************************************************************)
(* The order in which the queue serves its entries (queue/store.py): the   *)
(* base priority less a bonus that grows with the wait, then the position,  *)
(* then the date of submission; what users and managers do to that order;   *)
(* and the dispatch that takes the first candidate whose resources are      *)
(* there.  JobExecution leaves the order open.  Here one iteration of the   *)
(* dispatcher is one step, and time passes in ticks, shorter than the aging  *)
(* interval and longer than a poll of the queue or the delay of a retry.     *)
(***************************************************************************)
EXTENDS Integers, FiniteSets, FiniteSetsExt

CONSTANTS
  Jobs,
  Priorities,    \* base priorities in use: smaller is sooner
  Default,       \* queue.default_priority
  Interval,      \* queue.aging_interval_minutes, in ticks
  MaxBonus,      \* queue.aging_max_bonus
  Limit,         \* how many candidates an iteration looks at
  Capacity,      \* how many entries may run
  MaxRun,        \* ticks of a run, at most
  MaxDeferrals,  \* waits of a run for its resources, at most
  MaxOps,        \* requests of the managers, at most
  MaxPosition    \* bound of the positions managers may reach

ASSUME JobsAssumption == IsFiniteSet(Jobs)
ASSUME PrioritiesAssumption == Priorities \subseteq Nat /\ Default \in Priorities
ASSUME SizesAssumption ==
  /\ {MaxBonus, MaxRun, MaxDeferrals, MaxOps, MaxPosition} \subseteq Nat
  /\ {Interval, Limit, Capacity} \subseteq Nat \ {0}

VARIABLES
  entry,     \* job -> its row of job_queue
  asked,     \* job -> the row a submission is about to insert
  ran,       \* job -> ticks its thread has worked
  deferred,  \* job -> waits of its present run
  blocked,   \* the jobs whose resources this machine will not have
  ops,       \* requests of the managers so far
  before     \* who came before whom: <<j, k>> when j waited as k was submitted, with
             \* the same priority, and nobody has touched either since

vars == <<entry, asked, ran, deferred, blocked, ops, before>>

Row == [status: {"none", "waiting", "paused", "running", "ended"},
        base: Priorities \cup {0}, bonus: 0..MaxBonus, position: Nat,
        rank: 0..Cardinality(Jobs),  \* of submitted_at
        age: 0..Interval,            \* since last_aging_at or else submitted_at
        due: BOOLEAN]                \* is scheduled_at past?
NoRow == [status |-> "none", base |-> 0, bonus |-> 0, position |-> 0, rank |-> 0,
          age |-> 0, due |-> TRUE]

TypeOK ==
  /\ entry \in [Jobs -> Row]
  /\ asked \in [Jobs -> [base: Priorities \cup {0}, position: Nat]]
  /\ \A j \in Jobs : asked[j].position > 0 => entry[j] = NoRow
  /\ ran \in [Jobs -> 0..MaxRun]
  /\ deferred \in [Jobs -> 0..MaxDeferrals]
  /\ blocked \subseteq Jobs
  /\ ops \in 0..MaxOps
  /\ before \subseteq Jobs \X Jobs

Init ==
  /\ entry = [j \in Jobs |-> NoRow]
  /\ asked = [j \in Jobs |-> [base |-> 0, position |-> 0]]
  /\ ran = [j \in Jobs |-> 0]
  /\ deferred = [j \in Jobs |-> 0]
  /\ blocked \in {b \in SUBSET Jobs : Cardinality(b) < Limit}
  /\ ops = 0
  /\ before = {}

-----------------------------------------------------------------------------
(* The order.                                                               *)

Have(status) == {j \in Jobs : entry[j].status = status}
Rows == Jobs \ Have("none")

\* Mutant: the order forgets the bonus.
EffectiveBase(r) == r.base

Effective(r) == r.base - r.bonus

\* The ORDER BY of get_next_candidates and of get_ordered_queue.
Ahead(r, s) ==
  \/ Effective(r) < Effective(s)
  \/ Effective(r) = Effective(s) /\ r.position < s.position
  \/ Effective(r) = Effective(s) /\ r.position = s.position /\ r.rank < s.rank

\* How many rows of a set are ahead of a job's.
AheadIn(S, j) == Cardinality({i \in S : Ahead(entry[i], entry[j])})

Startable == {j \in Have("waiting") : entry[j].due}
Candidates == {j \in Startable : AheadIn(Startable, j) < Limit}

\* _next_position, over every row of that priority whatever its status.
NextPosition(rows, p) ==
  1 + Max({0} \cup {rows[j].position : j \in {i \in Jobs : rows[i].status # "none" /\ rows[i].base = p}})

-----------------------------------------------------------------------------
(* Users.                                                                   *)

\* Something is done to these jobs: who came before them or after them is of no use.
Forget(S) == before' = {p \in before : p[1] \notin S /\ p[2] \notin S}

Operate == ops < MaxOps /\ ops' = ops + 1

\* A priority of one's own is a manager's.
Prioritise(p) == IF p = Default THEN UNCHANGED ops ELSE Operate

\* enqueue without a row: the position is read, and the row inserted later.
Ask(j, p) ==
  /\ entry[j] = NoRow /\ asked[j].position = 0
  /\ asked' = [asked EXCEPT ![j] = [base |-> p, position |-> NextPosition(entry, p)]]
  /\ before' = before \cup ({i \in Have("waiting") : entry[i].base = p} \X {j})
  /\ Prioritise(p)
  /\ UNCHANGED <<entry, ran, deferred, blocked>>

\* Mutant: a row that was never aged is ripe at once.
InsertRipe(j) ==
  /\ asked[j].position > 0
  /\ entry' = [entry EXCEPT ![j] =
       [status |-> "waiting", base |-> asked[j].base, bonus |-> 0, position |-> asked[j].position,
        rank |-> Cardinality(Rows) + 1, age |-> Interval, due |-> TRUE]]
  /\ asked' = [asked EXCEPT ![j] = [base |-> 0, position |-> 0]]
  /\ UNCHANGED <<ran, deferred, blocked, ops, before>>

Insert(j) ==
  /\ asked[j].position > 0
  /\ entry' = [entry EXCEPT ![j] =
       [status |-> "waiting", base |-> asked[j].base, bonus |-> 0, position |-> asked[j].position,
        rank |-> Cardinality(Rows) + 1, age |-> 0, due |-> TRUE]]
  /\ asked' = [asked EXCEPT ![j] = [base |-> 0, position |-> 0]]
  /\ UNCHANGED <<ran, deferred, blocked, ops, before>>

\* enqueue of a job whose entry has ended: _refresh_entry keeps its position, its date
\* of submission and that of its last aging.
Refresh(j, p) ==
  /\ entry[j].status = "ended"
  /\ entry' = [entry EXCEPT ![j].status = "waiting", ![j].base = p, ![j].due = TRUE]
  /\ Prioritise(p)
  /\ Forget({j})
  /\ UNCHANGED <<asked, ran, deferred, blocked>>

\* dequeue: whatever ends an entry takes its bonus.
Ended(j) == [entry EXCEPT ![j].status = "ended", ![j].bonus = 0]

Cancel(j) ==
  /\ entry[j].status \in {"waiting", "paused"}
  /\ entry' = Ended(j)
  /\ deferred' = [deferred EXCEPT ![j] = 0]
  /\ Forget({j})
  /\ UNCHANGED <<asked, ran, blocked, ops>>

-----------------------------------------------------------------------------
(* Managers.                                                                *)

\* move_up and move_down read the rank of the job, then move_to_position reads the
\* queue again: the rank asked for may be any.
MoveTo(j, r) ==
  LET listed == Have("waiting") \cup Have("paused")
      others == listed \ {j}
      place  == Min({r, Cardinality(others) + 1})
      rank(i) == 1 + AheadIn(others, i)
      position(i) == IF i = j THEN place ELSE IF rank(i) < place THEN rank(i) ELSE rank(i) + 1
  IN
  /\ j \in listed
  /\ Operate
  /\ entry' = [i \in Jobs |-> IF i \in listed THEN [entry[i] EXCEPT !.position = position(i)]
                              ELSE entry[i]]
  /\ Forget({j} \cup {i \in Jobs : asked[i].position > 0})
  /\ UNCHANGED <<asked, ran, deferred, blocked>>

\* set_priority: the new priority is flushed before the position is read.
SetPriority(j, p) ==
  LET set == [entry EXCEPT ![j].base = p] IN
  /\ j \in Rows
  /\ NextPosition(set, p) <= MaxPosition
  /\ Operate
  /\ entry' = [set EXCEPT ![j].position = NextPosition(set, p)]
  /\ Forget({j})
  /\ UNCHANGED <<asked, ran, deferred, blocked>>

Pause(j) ==
  /\ entry[j].status \notin {"none", "running"}
  /\ Operate
  /\ entry' = [entry EXCEPT ![j].status = "paused"]
  /\ Forget({j})
  /\ UNCHANGED <<asked, ran, deferred, blocked>>

Resume(j) ==
  /\ entry[j].status = "paused"
  /\ entry' = [entry EXCEPT ![j].status = "waiting"]
  /\ UNCHANGED <<asked, ran, deferred, blocked, ops, before>>

-----------------------------------------------------------------------------
(* The dispatcher.                                                          *)

\* Mutant: no cap on the bonus.
RipeUncapped == {j \in Have("waiting") : entry[j].age = Interval}

\* apply_aging, at the head of each iteration: what has waited an interval, be it due
\* or not, up to the cap.
Ripe == {j \in Have("waiting") : entry[j].bonus < MaxBonus /\ entry[j].age = Interval}
Age ==
  /\ Ripe # {}
  /\ entry' = [j \in Jobs |-> IF j \in Ripe
                              THEN [entry[j] EXCEPT !.bonus = entry[j].bonus + 1, !.age = 0]
                              ELSE entry[j]]
  /\ UNCHANGED <<asked, ran, deferred, blocked, ops, before>>

\* The first candidate whose resources are there.
Chosen ==
  {j \in Candidates \ blocked :
     \A i \in Candidates \ blocked : ~Ahead(entry[i], entry[j])}
Room == Cardinality(Have("running")) < Capacity
Dispatch(j) ==
  /\ Ripe = {} /\ Room
  /\ j \in Chosen
  /\ entry' = [entry EXCEPT ![j].status = "running"]
  /\ Forget({j})
  /\ UNCHANGED <<asked, ran, deferred, blocked, ops>>

-----------------------------------------------------------------------------
(* The runs, and time.                                                      *)

Finish(j) ==
  /\ entry[j].status = "running"
  /\ entry' = Ended(j)
  /\ deferred' = [deferred EXCEPT ![j] = 0]
  /\ ran' = [ran EXCEPT ![j] = 0]
  /\ UNCHANGED <<asked, blocked, ops, before>>

\* requeue_later: the row keeps its bonus and its position.
Defer(j) ==
  /\ entry[j].status = "running"
  /\ deferred[j] < MaxDeferrals
  /\ deferred' = [deferred EXCEPT ![j] = deferred[j] + 1]
  /\ entry' = [entry EXCEPT ![j].status = "waiting", ![j].due = FALSE]
  /\ ran' = [ran EXCEPT ![j] = 0]
  /\ UNCHANGED <<asked, blocked, ops, before>>

BecomeDue(j) ==
  /\ j \in Have("waiting") /\ ~entry[j].due
  /\ entry' = [entry EXCEPT ![j].due = TRUE]
  /\ UNCHANGED <<asked, ran, deferred, blocked, ops, before>>

\* The dispatcher has nothing to do: it polls more often than a tick.
Idle == Ripe = {} /\ (Room => Chosen = {})
Tick ==
  /\ Idle
  /\ \A j \in Have("running") : ran[j] < MaxRun
  /\ entry' = [j \in Jobs |-> IF j \notin Rows THEN NoRow
                              ELSE [entry[j] EXCEPT !.age = Min({Interval, entry[j].age + 1}),
                                                    !.due = TRUE]]
  /\ ran' = [j \in Jobs |-> IF j \in Have("running") THEN ran[j] + 1 ELSE ran[j]]
  /\ UNCHANGED <<asked, deferred, blocked, ops, before>>

-----------------------------------------------------------------------------
Next ==
  \/ \E j \in Jobs, p \in Priorities : Ask(j, p) \/ Refresh(j, p) \/ SetPriority(j, p)
  \/ \E j \in Jobs, r \in 1..Cardinality(Jobs) : MoveTo(j, r)
  \/ \E j \in Jobs : Insert(j) \/ Cancel(j) \/ Pause(j) \/ Resume(j)
  \/ \E j \in Jobs : Dispatch(j) \/ Finish(j) \/ Defer(j) \/ BecomeDue(j)
  \/ Age \/ Tick

Spec == Init /\ [][Next]_vars

(***************************************************************************)
(* Fairness: the dispatcher goes on, a run that may go on no longer ends,  *)
(* and time passes.                                                         *)
(***************************************************************************)
Fairness ==
  /\ WF_vars(Age \/ \E j \in Jobs : Dispatch(j))
  /\ \A j \in Jobs : WF_vars(Finish(j) \/ Defer(j))
  /\ SF_vars(Tick)

FairSpec == Spec /\ Fairness

-----------------------------------------------------------------------------
(* Correctness.                                                             *)

\* First come, first served: among jobs of one priority nobody has touched since, the
\* one that waited when the other was submitted is not overtaken, whatever became of
\* the rest of the queue (aging, moves of other jobs, retries, relaunches): the order
\* of get_next_candidates and the writes of apply_aging and move_to_position agree.
NoOvertaking ==
  [][\A p \in before :
       entry[p[2]].status = "waiting" /\ entry'[p[2]].status = "running" =>
         p[1] \notin Startable \ blocked]_vars

\* A waiting entry is eventually taken, as long as some candidate slot is left by the
\* jobs that can never run and the cap of the bonus exceeds the priorities at stake
\* and what the others gain while they wait (apply_aging, dequeue).
EntriesServed ==
  \A j \in Jobs : entry[j].status = "waiting" /\ j \notin blocked ~> entry[j].status # "waiting"
=============================================================================
