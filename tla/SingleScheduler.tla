--------------------------- MODULE SingleScheduler ---------------------------
(***************************************************************************)
(* Which process drains the queue.  Every process that is configured to    *)
(* do so tries once, when it starts, to take an advisory lock of the       *)
(* database that lasts as long as its connection (queue/scheduler_lock.py).*)
(* The one that has it starts its dispatcher, then ends the runs that an   *)
(* earlier process has left behind (services/job_executor.py).  A process  *)
(* that is stopped waits for its dispatcher, not for its runs: it gives    *)
(* the lock back and goes on until they end.                               *)
(*                                                                         *)
(* A job is an entry of the queue and the status of its execution.  The    *)
(* submission, and the three writes that end a run, are one step each:     *)
(* JobExecution has them apart, and the capacity, the cancellations and    *)
(* the postponed entries that are left out here.                           *)
(***************************************************************************)
EXTENDS Naturals

CONSTANTS
  Jobs,
  NoJob,
  Processes,  \* those that are configured to drain the queue
  NoProcess,
  All,        \* those that serve the pages as well (role "all")
  MaxFaults   \* bound of the model: stops, crashes and lost connections

ASSUME SchedulerAssumption ==
  /\ NoJob \notin Jobs /\ NoProcess \notin Processes
  /\ All \subseteq Processes
  /\ MaxFaults \in Nat

VARIABLES
  entry,   \* entry[j]: job_queue.status
  exec,    \* exec[j]: extra_data.execution.status
  lock,    \* the process whose connection has the advisory lock
  procs,   \* procs[p]: the life of process p, its dispatcher, its reconciliation
  runs,    \* runs[p][j]: what the pool of process p does of job j
  faults

vars == <<entry, exec, lock, procs, runs, faults>>

Entries    == {"none", "waiting", "running", "ended"}
Executions == {"none", "queued", "running", "ended"}
Lives      == {"off", "refused", "starting", "up", "joining", "draining", "overrun"}
Runs       == {"none", "submitted", "running"}

Process == [at : Lives, disp : {"none", "idle", "claim", "submit"}, job : Jobs \cup {NoJob},
            todo : SUBSET Jobs,
            cut : BOOLEAN]  \* the connection of its lock was lost
Off     == [at |-> "off", disp |-> "none", job |-> NoJob, todo |-> {}, cut |-> FALSE]
NoRuns  == [j \in Jobs |-> "none"]

Init ==
  /\ entry = [j \in Jobs |-> "none"] /\ exec = [j \in Jobs |-> "none"]
  /\ lock = NoProcess
  /\ procs = [p \in Processes |-> Off] /\ runs = [p \in Processes |-> NoRuns]
  /\ faults = 0

\* is_singleton_owner: what a process believes of the lock.
IsOwner(p)    == procs[p].at \in {"starting", "up", "joining"}
Dispatches(p) == procs[p].disp # "none"
\* It was stopped and has given the lock back; "overrun" when its dispatcher had not ended.
Leaving(p)    == procs[p].at \in {"draining", "overrun"}
Fault         == faults < MaxFaults /\ faults' = faults + 1

\* A request of a user: a job that is active is refused.
Submit(j) ==
  /\ entry[j] \notin {"waiting", "running"} /\ exec[j] \notin {"queued", "running"}
  /\ entry' = [entry EXCEPT ![j] = "waiting"] /\ exec' = [exec EXCEPT ![j] = "queued"]
  /\ UNCHANGED <<lock, procs, runs, faults>>

----------------------------------------------------------------------------
\* The start of a process.

\* Mutant: the role decides who reconciles, whoever has the lock.
StartsByRole(p) ==
  /\ procs[p].at = "off"
  /\ IF lock = NoProcess
     THEN /\ lock' = p
          /\ procs' = [procs EXCEPT ![p] = [Off EXCEPT !.at = "starting", !.disp = "idle", !.todo = Jobs]]
     ELSE /\ procs' = [procs EXCEPT ![p] = [Off EXCEPT !.at = "refused", !.todo = Jobs]]
          /\ UNCHANGED lock
  /\ UNCHANGED <<entry, exec, runs, faults>>

\* try_acquire, then the dispatcher, then the reconciliation.  Without the lock a
\* process that has pages to serve goes on without them and never tries again; any
\* other leaves.
Starts(p) ==
  /\ procs[p].at = "off"
  /\ IF lock = NoProcess
     THEN /\ lock' = p
          /\ procs' = [procs EXCEPT ![p] = [Off EXCEPT !.at = "starting", !.disp = "idle", !.todo = Jobs]]
     ELSE /\ p \in All
          /\ procs' = [procs EXCEPT ![p].at = "refused"]
          /\ UNCHANGED lock
  /\ UNCHANGED <<entry, exec, runs, faults>>

\* _reconcile_interrupted_jobs, one job: a run is ended, an entry that an ended run
\* has left is given back.
Reconcile(p, j) ==
  /\ j \in procs[p].todo
  /\ procs' = [procs EXCEPT ![p].todo = @ \ {j}]
  /\ \/ exec[j] = "running" /\ exec' = [exec EXCEPT ![j] = "ended"] /\ UNCHANGED entry
     \/ /\ exec[j] = "ended" /\ entry[j] = "running"
        /\ entry' = [entry EXCEPT ![j] = "ended"] /\ UNCHANGED exec
     \/ /\ exec[j] \in {"none", "queued"} \/ (exec[j] = "ended" /\ entry[j] # "running")
        /\ UNCHANGED <<entry, exec>>
  /\ UNCHANGED <<lock, runs, faults>>

Started(p) ==
  /\ procs[p].at = "starting" /\ procs[p].todo = {}
  /\ procs' = [procs EXCEPT ![p].at = "up"]
  /\ UNCHANGED <<entry, exec, lock, runs, faults>>

----------------------------------------------------------------------------
\* The dispatcher and the runs of a process.

\* An iteration begins only while nobody has asked for a stop, but is not cut short.
Take(p, j) ==
  /\ procs[p].disp = "idle" /\ procs[p].at \in {"starting", "up"}
  /\ entry[j] = "waiting" /\ runs[p][j] = "none"
  /\ procs' = [procs EXCEPT ![p].disp = "claim", ![p].job = j]
  /\ UNCHANGED <<entry, exec, lock, runs, faults>>

\* Mutant: the entry is forgotten once it is claimed.
ClaimForgets(p) ==
  LET j == procs[p].job
  IN  /\ procs[p].disp = "claim"
      /\ procs' = [procs EXCEPT ![p].disp = IF entry[j] = "waiting" THEN "submit" ELSE "idle",
                                ![p].job = NoJob]
      /\ entry' = IF entry[j] = "waiting" THEN [entry EXCEPT ![j] = "running"] ELSE entry
      /\ UNCHANGED <<exec, lock, runs, faults>>

\* UPDATE .. WHERE status = 'waiting'.
Claim(p) ==
  LET j == procs[p].job
  IN  /\ procs[p].disp = "claim"
      /\ IF entry[j] = "waiting"
         THEN /\ entry' = [entry EXCEPT ![j] = "running"]
              /\ procs' = [procs EXCEPT ![p].disp = "submit"]
         ELSE /\ procs' = [procs EXCEPT ![p].disp = "idle", ![p].job = NoJob]
              /\ UNCHANGED entry
      /\ UNCHANGED <<exec, lock, runs, faults>>

\* A pool that was shut down refuses, and the entry stays as claimed.
Launch(p) ==
  /\ procs[p].disp = "submit"
  /\ runs' = IF Leaving(p) THEN runs
             ELSE [runs EXCEPT ![p][procs[p].job] = "submitted"]
  /\ procs' = [procs EXCEPT ![p].disp = "idle", ![p].job = NoJob]
  /\ UNCHANGED <<entry, exec, lock, faults>>

RunStarts(p, j) ==
  /\ runs[p][j] = "submitted"
  /\ runs' = [runs EXCEPT ![p][j] = "running"]
  /\ exec' = [exec EXCEPT ![j] = "running"] /\ entry' = [entry EXCEPT ![j] = "running"]
  /\ UNCHANGED <<lock, procs, faults>>

RunEnds(p, j) ==
  /\ runs[p][j] = "running"
  /\ runs' = [runs EXCEPT ![p][j] = "none"]
  /\ exec' = [exec EXCEPT ![j] = "ended"] /\ entry' = [entry EXCEPT ![j] = "ended"]
  /\ UNCHANGED <<lock, procs, faults>>

----------------------------------------------------------------------------
\* The end of a process.

\* A process that was refused has no dispatcher to wait for.
StopAsked(p) ==
  /\ procs[p].at \in {"up", "refused"} /\ Fault
  /\ procs' = [procs EXCEPT ![p].at = IF @ = "up" THEN "joining" ELSE "draining"]
  /\ UNCHANGED <<entry, exec, lock, runs>>

DispatcherEnds(p) ==
  /\ procs[p].disp = "idle" /\ (procs[p].at = "joining" \/ Leaving(p))
  /\ procs' = [procs EXCEPT ![p].disp = "none"]
  /\ UNCHANGED <<entry, exec, lock, runs, faults>>

Unlocked(p) == IF lock = p THEN NoProcess ELSE lock

\* Mutant: the lock is given back before the dispatcher is waited for.
ReleasesEarly(p, inTime) ==
  /\ procs[p].at = "joining" /\ inTime = ~Dispatches(p)
  /\ procs' = [procs EXCEPT ![p].at = "draining"]
  /\ lock' = Unlocked(p)
  /\ UNCHANGED <<entry, exec, runs, faults>>

\* The dispatcher has ended, or its iteration lasts longer than stop() waits: the
\* pool is closed and the lock given back.
Releases(p, inTime) ==
  /\ procs[p].at = "joining" /\ inTime = ~Dispatches(p)
  /\ inTime \/ procs[p].disp # "idle"
  /\ procs' = [procs EXCEPT ![p].at = IF inTime THEN "draining" ELSE "overrun"]
  /\ lock' = Unlocked(p)
  /\ UNCHANGED <<entry, exec, runs, faults>>

\* The interpreter waits for the threads of the pool, not for a dispatcher.
Exits(p) ==
  /\ Leaving(p) /\ runs[p] = NoRuns
  /\ procs' = [procs EXCEPT ![p] = Off]
  /\ UNCHANGED <<entry, exec, lock, runs, faults>>

\* Mutant: the lock outlives the process.
CrashLocked(p) ==
  /\ procs[p].at # "off" /\ Fault
  /\ procs' = [procs EXCEPT ![p] = Off] /\ runs' = [runs EXCEPT ![p] = NoRuns]
  /\ UNCHANGED <<entry, exec, lock>>

\* The end of its connection frees the lock.
Crash(p) ==
  /\ procs[p].at # "off" /\ Fault
  /\ procs' = [procs EXCEPT ![p] = Off] /\ runs' = [runs EXCEPT ![p] = NoRuns]
  /\ lock' = Unlocked(p)
  /\ UNCHANGED <<entry, exec>>

\* The connection is lost, and its owner does not know.
LosesConnection(p) ==
  /\ lock = p /\ Fault
  /\ lock' = NoProcess
  /\ procs' = [procs EXCEPT ![p].cut = TRUE]
  /\ UNCHANGED <<entry, exec, runs>>

----------------------------------------------------------------------------
ReleasesLate(p) == Releases(p, FALSE)
Works(p) ==
  \/ Started(p) \/ Claim(p) \/ Launch(p) \/ DispatcherEnds(p) \/ Releases(p, TRUE) \/ Exits(p)
  \/ \E j \in Jobs : Reconcile(p, j)

Next ==
  \/ \E j \in Jobs : Submit(j)
  \/ \E p \in Processes :
       \/ Starts(p) \/ Works(p) \/ ReleasesLate(p)
       \/ \E j \in Jobs : Take(p, j) \/ RunStarts(p, j) \/ RunEnds(p, j)
       \/ StopAsked(p) \/ Crash(p) \/ LosesConnection(p)

Spec == Init /\ [][Next]_vars

(***************************************************************************)
(* A process that has ended is started again (systemd, an administrator),  *)
(* the threads of a process go on, and the aging of the entries brings     *)
(* each of them to the head of the queue.  Nothing is assumed of users and *)
(* of faults.                                                              *)
(***************************************************************************)
Fairness ==
  \A p \in Processes :
    /\ WF_vars(Starts(p)) /\ WF_vars(Works(p))
    /\ \A j \in Jobs : /\ SF_vars(Take(p, j))
                       /\ WF_vars(RunStarts(p, j)) /\ WF_vars(RunEnds(p, j))

FairSpec == Spec /\ Fairness

----------------------------------------------------------------------------
TypeOK ==
  /\ entry \in [Jobs -> Entries] /\ exec \in [Jobs -> Executions]
  /\ lock \in Processes \cup {NoProcess}
  /\ procs \in [Processes -> Process] /\ runs \in [Processes -> [Jobs -> Runs]]
  /\ \A p \in Processes : procs[p].disp \in {"claim", "submit"} => procs[p].job \in Jobs
  /\ faults \in 0..MaxFaults

\* It believes it has the lock, and its connection is lost.
Deprived(p) == IsOwner(p) /\ procs[p].cut
\* Its dispatcher goes on after it gave the lock back.
Overrun(p)  == procs[p].at = "overrun"

(* Invariant I1: no two processes drain or reconcile the queue at one time, whatever
   starts, stops and crashes, as long as connections live and no iteration of the
   dispatcher outlasts the ten seconds stop() waits (scheduler.start, stop; scheduler_lock.try_acquire, release). *)
SingleDrain ==
  \A p, q \in Processes :
    /\ Dispatches(p) \/ procs[p].todo # {}
    /\ Dispatches(q) \/ procs[q].todo # {}
    => p = q \/ \E r \in {p, q} : Deprived(r) \/ Overrun(r)

(* A run that works is not ended by the start of another process, as long as
   connections live and the process that works was not stopped (init_job_executor,
   the incident of 2026-08-01).  The runs the starting process has itself launched
   meanwhile are another matter: see JobExecution!OnlyInterruptedAreJudged. *)
RunsStand ==
  [][\A p, q \in Processes, j \in Jobs :
       p # q /\ Reconcile(p, j) /\ exec'[j] # exec[j] /\ runs[q][j] = "running"
         => Deprived(p) \/ Deprived(q) \/ Leaving(q)]_vars

(* Somebody always comes to drain the queue: a job that waits is taken, whoever was
   refused the lock, stopped, killed or cut from the database. *)
QueueServed == \A j \in Jobs : entry[j] = "waiting" ~> entry[j] # "waiting"
=============================================================================
