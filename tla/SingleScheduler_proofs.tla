----------------------- MODULE SingleScheduler_proofs -----------------------
(***************************************************************************)
(* What holds of SingleScheduler for every set of jobs and processes and   *)
(* every number of stops, crashes and lost connections.                    *)
(*                                                                         *)
(* OwnerInv ties what a process believes, does and owes to the advisory    *)
(* lock: who believes it is the owner has the lock or has lost its         *)
(* connection; only an owner reconciles; only an owner, or a process whose *)
(* dispatcher overran its stop, dispatches; and only those, or a process   *)
(* that leaves, have runs.                                                 *)
(***************************************************************************)
EXTENDS SingleScheduler, TLAPS

Owned(p) ==
  /\ IsOwner(p) => lock = p \/ procs[p].cut
  /\ procs[p].todo # {} => procs[p].at = "starting"
  /\ Dispatches(p) => IsOwner(p) \/ Overrun(p)
  /\ runs[p] # NoRuns => IsOwner(p) \/ Leaving(p)

OwnerInv == TypeOK /\ \A p \in Processes : Owned(p)

USE DEF Entries, Executions, Runs, NoRuns

\* The initial states satisfy the invariant.
LEMMA InitOwned == Init => OwnerInv
  BY SchedulerAssumption DEF Init, OwnerInv, TypeOK, Owned, IsOwner, Dispatches, Off, Process, Lives

-----------------------------------------------------------------------------
(* Every step keeps the types.                                              *)

\* A change of one process keeps the types of them all.
LEMMA OneProcess ==
  ASSUME TypeOK, NEW p \in Processes, NEW r \in Process, procs' = [procs EXCEPT ![p] = r],
         r.disp \in {"claim", "submit"} => r.job \in Jobs
  PROVE  /\ procs' \in [Processes -> Process]
         /\ \A q \in Processes : procs'[q] = IF q = p THEN r ELSE procs[q]
         /\ \A q \in Processes : procs'[q].disp \in {"claim", "submit"} => procs'[q].job \in Jobs
  <1>1. procs' \in [Processes -> Process]
    BY DEF TypeOK
  <1>2. \A q \in Processes : procs'[q] = IF q = p THEN r ELSE procs[q]
    BY DEF TypeOK
  <1> QED BY <1>1, <1>2 DEF TypeOK

\* A request, and the start of a process.
LEMMA StartTyped ==
  ASSUME TypeOK
  PROVE  /\ \A j \in Jobs : Submit(j) => TypeOK'
         /\ \A p \in Processes : Starts(p) \/ Started(p) => TypeOK'
         /\ \A p \in Processes, j \in Jobs : Reconcile(p, j) => TypeOK'
  <1> USE SchedulerAssumption DEF TypeOK
  <1>1. ASSUME NEW j \in Jobs, Submit(j) PROVE TypeOK'
    BY <1>1 DEF Submit
  <1>2. ASSUME NEW p \in Processes, Starts(p) PROVE TypeOK'
    <2>1. CASE lock = NoProcess
      <3> DEFINE r == [Off EXCEPT !.at = "starting", !.disp = "idle", !.todo = Jobs]
      <3>1. procs[p] \in Process
        BY DEF TypeOK
      <3>2. procs' = [procs EXCEPT ![p] = r]
        BY <1>2, <2>1, <3>1 DEF Starts, TypeOK
      <3>3. r \in Process /\ (r.disp \in {"claim", "submit"} => r.job \in Jobs)
        BY <1>2, <2>1, <3>1 DEF Starts, Process, Lives, Off, TypeOK
      <3> HIDE DEF r
      <3>4. /\ procs' \in [Processes -> Process]
            /\ \A q \in Processes : procs'[q].disp \in {"claim", "submit"} => procs'[q].job \in Jobs
        BY <3>2, <3>3, OneProcess
      <3>5. /\ entry' \in [Jobs -> Entries] /\ exec' \in [Jobs -> Executions]
            /\ lock' \in Processes \cup {NoProcess}
            /\ runs' \in [Processes -> [Jobs -> Runs]] /\ faults' \in 0..MaxFaults
        BY <1>2, <2>1 DEF Starts
      <3> QED BY <3>4, <3>5
    <2>2. CASE lock # NoProcess
      <3> DEFINE r == [procs[p] EXCEPT !.at = "refused"]
      <3>1. procs[p] \in Process
        BY DEF TypeOK
      <3>2. procs' = [procs EXCEPT ![p] = r]
        BY <1>2, <2>2, <3>1 DEF Starts, TypeOK
      <3>3. r \in Process /\ (r.disp \in {"claim", "submit"} => r.job \in Jobs)
        BY <1>2, <2>2, <3>1 DEF Starts, Process, Lives, Off, TypeOK
      <3> HIDE DEF r
      <3>4. /\ procs' \in [Processes -> Process]
            /\ \A q \in Processes : procs'[q].disp \in {"claim", "submit"} => procs'[q].job \in Jobs
        BY <3>2, <3>3, OneProcess
      <3>5. /\ entry' \in [Jobs -> Entries] /\ exec' \in [Jobs -> Executions]
            /\ lock' \in Processes \cup {NoProcess}
            /\ runs' \in [Processes -> [Jobs -> Runs]] /\ faults' \in 0..MaxFaults
        BY <1>2, <2>2 DEF Starts
      <3> QED BY <3>4, <3>5
    <2> QED BY <2>1, <2>2
  <1>3. ASSUME NEW p \in Processes, Started(p) PROVE TypeOK'
    <2> DEFINE r == [procs[p] EXCEPT !.at = "up"]
    <2>1. procs[p] \in Process
      BY DEF TypeOK
    <2>2. procs' = [procs EXCEPT ![p] = r]
      BY <1>3, <2>1 DEF Started, TypeOK
    <2>3. r \in Process /\ (r.disp \in {"claim", "submit"} => r.job \in Jobs)
      BY <1>3, <2>1 DEF Started, Process, Lives, Off, TypeOK
    <2> HIDE DEF r
    <2>4. /\ procs' \in [Processes -> Process]
          /\ \A q \in Processes : procs'[q].disp \in {"claim", "submit"} => procs'[q].job \in Jobs
      BY <2>2, <2>3, OneProcess
    <2>5. /\ entry' \in [Jobs -> Entries] /\ exec' \in [Jobs -> Executions]
          /\ lock' \in Processes \cup {NoProcess}
          /\ runs' \in [Processes -> [Jobs -> Runs]] /\ faults' \in 0..MaxFaults
      BY <1>3 DEF Started
    <2> QED BY <2>4, <2>5
  <1>4. ASSUME NEW p \in Processes, NEW j \in Jobs, Reconcile(p, j) PROVE TypeOK'
    <2> DEFINE r == [procs[p] EXCEPT !.todo = @ \ {j}]
    <2>1. procs[p] \in Process
      BY DEF TypeOK
    <2>2. procs' = [procs EXCEPT ![p] = r]
      BY <1>4, <2>1 DEF Reconcile, TypeOK
    <2>3. r \in Process /\ (r.disp \in {"claim", "submit"} => r.job \in Jobs)
      BY <1>4, <2>1 DEF Reconcile, Process, Lives, Off, TypeOK
    <2> HIDE DEF r
    <2>4. /\ procs' \in [Processes -> Process]
          /\ \A q \in Processes : procs'[q].disp \in {"claim", "submit"} => procs'[q].job \in Jobs
      BY <2>2, <2>3, OneProcess
    <2>5. /\ entry' \in [Jobs -> Entries] /\ exec' \in [Jobs -> Executions]
          /\ lock' \in Processes \cup {NoProcess}
          /\ runs' \in [Processes -> [Jobs -> Runs]] /\ faults' \in 0..MaxFaults
      BY <1>4 DEF Reconcile
    <2> QED BY <2>4, <2>5
  <1> QED BY <1>1, <1>2, <1>3, <1>4

\* The dispatcher and the runs.
LEMMA DispatchTyped ==
  ASSUME TypeOK, NEW p \in Processes
  PROVE  /\ Claim(p) \/ Launch(p) => TypeOK'
         /\ \A j \in Jobs : Take(p, j) \/ RunStarts(p, j) \/ RunEnds(p, j) => TypeOK'
  <1> USE SchedulerAssumption DEF TypeOK
  <1>1. ASSUME Claim(p) PROVE TypeOK'
    <2>1. CASE entry[procs[p].job] = "waiting"
      <3> DEFINE r == [procs[p] EXCEPT !.disp = "submit"]
      <3>1. procs[p] \in Process
        BY DEF TypeOK
      <3>2. procs' = [procs EXCEPT ![p] = r]
        BY <1>1, <2>1, <3>1 DEF Claim, TypeOK
      <3>3. r \in Process /\ (r.disp \in {"claim", "submit"} => r.job \in Jobs)
        BY <1>1, <2>1, <3>1 DEF Claim, Process, Lives, Off, TypeOK
      <3> HIDE DEF r
      <3>4. /\ procs' \in [Processes -> Process]
            /\ \A q \in Processes : procs'[q].disp \in {"claim", "submit"} => procs'[q].job \in Jobs
        BY <3>2, <3>3, OneProcess
      <3>5. /\ entry' \in [Jobs -> Entries] /\ exec' \in [Jobs -> Executions]
            /\ lock' \in Processes \cup {NoProcess}
            /\ runs' \in [Processes -> [Jobs -> Runs]] /\ faults' \in 0..MaxFaults
        BY <1>1, <2>1 DEF Claim
      <3> QED BY <3>4, <3>5
    <2>2. CASE entry[procs[p].job] # "waiting"
      <3> DEFINE r == [procs[p] EXCEPT !.disp = "idle", !.job = NoJob]
      <3>1. procs[p] \in Process
        BY DEF TypeOK
      <3>2. procs' = [procs EXCEPT ![p] = r]
        BY <1>1, <2>2, <3>1 DEF Claim, TypeOK
      <3>3. r \in Process /\ (r.disp \in {"claim", "submit"} => r.job \in Jobs)
        BY <1>1, <2>2, <3>1 DEF Claim, Process, Lives, Off, TypeOK
      <3> HIDE DEF r
      <3>4. /\ procs' \in [Processes -> Process]
            /\ \A q \in Processes : procs'[q].disp \in {"claim", "submit"} => procs'[q].job \in Jobs
        BY <3>2, <3>3, OneProcess
      <3>5. /\ entry' \in [Jobs -> Entries] /\ exec' \in [Jobs -> Executions]
            /\ lock' \in Processes \cup {NoProcess}
            /\ runs' \in [Processes -> [Jobs -> Runs]] /\ faults' \in 0..MaxFaults
        BY <1>1, <2>2 DEF Claim
      <3> QED BY <3>4, <3>5
    <2> QED BY <2>1, <2>2
  <1>2. ASSUME Launch(p) PROVE TypeOK'
    <2> DEFINE r == [procs[p] EXCEPT !.disp = "idle", !.job = NoJob]
    <2>1. procs[p] \in Process
      BY DEF TypeOK
    <2>2. procs' = [procs EXCEPT ![p] = r]
      BY <1>2, <2>1 DEF Launch, TypeOK
    <2>3. r \in Process /\ (r.disp \in {"claim", "submit"} => r.job \in Jobs)
      BY <1>2, <2>1 DEF Launch, Process, Lives, Off, TypeOK
    <2> HIDE DEF r
    <2>4. /\ procs' \in [Processes -> Process]
          /\ \A q \in Processes : procs'[q].disp \in {"claim", "submit"} => procs'[q].job \in Jobs
      BY <2>2, <2>3, OneProcess
    <2>5. /\ entry' \in [Jobs -> Entries] /\ exec' \in [Jobs -> Executions]
          /\ lock' \in Processes \cup {NoProcess}
          /\ runs' \in [Processes -> [Jobs -> Runs]] /\ faults' \in 0..MaxFaults
      BY <1>2 DEF Launch
    <2> QED BY <2>4, <2>5
  <1>3. ASSUME NEW j \in Jobs, Take(p, j) PROVE TypeOK'
    <2> DEFINE r == [procs[p] EXCEPT !.disp = "claim", !.job = j]
    <2>1. procs[p] \in Process
      BY DEF TypeOK
    <2>2. procs' = [procs EXCEPT ![p] = r]
      BY <1>3, <2>1 DEF Take, TypeOK
    <2>3. r \in Process /\ (r.disp \in {"claim", "submit"} => r.job \in Jobs)
      BY <1>3, <2>1 DEF Take, Process, Lives, Off, TypeOK
    <2> HIDE DEF r
    <2>4. /\ procs' \in [Processes -> Process]
          /\ \A q \in Processes : procs'[q].disp \in {"claim", "submit"} => procs'[q].job \in Jobs
      BY <2>2, <2>3, OneProcess
    <2>5. /\ entry' \in [Jobs -> Entries] /\ exec' \in [Jobs -> Executions]
          /\ lock' \in Processes \cup {NoProcess}
          /\ runs' \in [Processes -> [Jobs -> Runs]] /\ faults' \in 0..MaxFaults
      BY <1>3 DEF Take
    <2> QED BY <2>4, <2>5
  <1>4. ASSUME NEW j \in Jobs, RunStarts(p, j) PROVE TypeOK'
    BY <1>4 DEF RunStarts
  <1>5. ASSUME NEW j \in Jobs, RunEnds(p, j) PROVE TypeOK'
    BY <1>5 DEF RunEnds
  <1> QED BY <1>1, <1>2, <1>3, <1>4, <1>5

\* What ends a process or takes its connection.
Ends(p) ==
  \/ StopAsked(p) \/ DispatcherEnds(p) \/ Exits(p) \/ Crash(p) \/ LosesConnection(p)
  \/ \E inTime \in BOOLEAN : Releases(p, inTime)

\* The end of a process, and its faults.
LEMMA EndTyped ==
  ASSUME TypeOK, NEW p \in Processes, Ends(p)
  PROVE  TypeOK'
  <1> USE SchedulerAssumption DEF TypeOK, Unlocked, Fault
  <1>1. CASE StopAsked(p)
    <2> DEFINE r == [procs[p] EXCEPT !.at = IF @ = "up" THEN "joining" ELSE "draining"]
    <2>1. procs[p] \in Process
      BY DEF TypeOK
    <2>2. procs' = [procs EXCEPT ![p] = r]
      BY <1>1, <2>1 DEF StopAsked, TypeOK
    <2>3. r \in Process /\ (r.disp \in {"claim", "submit"} => r.job \in Jobs)
      BY <1>1, <2>1 DEF StopAsked, Process, Lives, Off, TypeOK
    <2> HIDE DEF r
    <2>4. /\ procs' \in [Processes -> Process]
          /\ \A q \in Processes : procs'[q].disp \in {"claim", "submit"} => procs'[q].job \in Jobs
      BY <2>2, <2>3, OneProcess
    <2>5. /\ entry' \in [Jobs -> Entries] /\ exec' \in [Jobs -> Executions]
          /\ lock' \in Processes \cup {NoProcess}
          /\ runs' \in [Processes -> [Jobs -> Runs]] /\ faults' \in 0..MaxFaults
      BY <1>1 DEF StopAsked
    <2> QED BY <2>4, <2>5
  <1>2. CASE DispatcherEnds(p)
    <2> DEFINE r == [procs[p] EXCEPT !.disp = "none"]
    <2>1. procs[p] \in Process
      BY DEF TypeOK
    <2>2. procs' = [procs EXCEPT ![p] = r]
      BY <1>2, <2>1 DEF DispatcherEnds, TypeOK
    <2>3. r \in Process /\ (r.disp \in {"claim", "submit"} => r.job \in Jobs)
      BY <1>2, <2>1 DEF DispatcherEnds, Process, Lives, Off, TypeOK
    <2> HIDE DEF r
    <2>4. /\ procs' \in [Processes -> Process]
          /\ \A q \in Processes : procs'[q].disp \in {"claim", "submit"} => procs'[q].job \in Jobs
      BY <2>2, <2>3, OneProcess
    <2>5. /\ entry' \in [Jobs -> Entries] /\ exec' \in [Jobs -> Executions]
          /\ lock' \in Processes \cup {NoProcess}
          /\ runs' \in [Processes -> [Jobs -> Runs]] /\ faults' \in 0..MaxFaults
      BY <1>2 DEF DispatcherEnds
    <2> QED BY <2>4, <2>5
  <1>3. CASE Exits(p)
    <2> DEFINE r == Off
    <2>1. procs[p] \in Process
      BY DEF TypeOK
    <2>2. procs' = [procs EXCEPT ![p] = r]
      BY <1>3, <2>1 DEF Exits, TypeOK
    <2>3. r \in Process /\ (r.disp \in {"claim", "submit"} => r.job \in Jobs)
      BY <1>3, <2>1 DEF Exits, Process, Lives, Off, TypeOK
    <2> HIDE DEF r
    <2>4. /\ procs' \in [Processes -> Process]
          /\ \A q \in Processes : procs'[q].disp \in {"claim", "submit"} => procs'[q].job \in Jobs
      BY <2>2, <2>3, OneProcess
    <2>5. /\ entry' \in [Jobs -> Entries] /\ exec' \in [Jobs -> Executions]
          /\ lock' \in Processes \cup {NoProcess}
          /\ runs' \in [Processes -> [Jobs -> Runs]] /\ faults' \in 0..MaxFaults
      BY <1>3 DEF Exits
    <2> QED BY <2>4, <2>5
  <1>4. CASE Crash(p)
    <2> DEFINE r == Off
    <2>1. procs[p] \in Process
      BY DEF TypeOK
    <2>2. procs' = [procs EXCEPT ![p] = r]
      BY <1>4, <2>1 DEF Crash, TypeOK
    <2>3. r \in Process /\ (r.disp \in {"claim", "submit"} => r.job \in Jobs)
      BY <1>4, <2>1 DEF Crash, Process, Lives, Off, TypeOK
    <2> HIDE DEF r
    <2>4. /\ procs' \in [Processes -> Process]
          /\ \A q \in Processes : procs'[q].disp \in {"claim", "submit"} => procs'[q].job \in Jobs
      BY <2>2, <2>3, OneProcess
    <2>5. /\ entry' \in [Jobs -> Entries] /\ exec' \in [Jobs -> Executions]
          /\ lock' \in Processes \cup {NoProcess}
          /\ runs' \in [Processes -> [Jobs -> Runs]] /\ faults' \in 0..MaxFaults
      BY <1>4 DEF Crash
    <2> QED BY <2>4, <2>5
  <1>5. CASE LosesConnection(p)
    <2> DEFINE r == [procs[p] EXCEPT !.cut = TRUE]
    <2>1. procs[p] \in Process
      BY DEF TypeOK
    <2>2. procs' = [procs EXCEPT ![p] = r]
      BY <1>5, <2>1 DEF LosesConnection, TypeOK
    <2>3. r \in Process /\ (r.disp \in {"claim", "submit"} => r.job \in Jobs)
      BY <1>5, <2>1 DEF LosesConnection, Process, Lives, Off, TypeOK
    <2> HIDE DEF r
    <2>4. /\ procs' \in [Processes -> Process]
          /\ \A q \in Processes : procs'[q].disp \in {"claim", "submit"} => procs'[q].job \in Jobs
      BY <2>2, <2>3, OneProcess
    <2>5. /\ entry' \in [Jobs -> Entries] /\ exec' \in [Jobs -> Executions]
          /\ lock' \in Processes \cup {NoProcess}
          /\ runs' \in [Processes -> [Jobs -> Runs]] /\ faults' \in 0..MaxFaults
      BY <1>5 DEF LosesConnection
    <2> QED BY <2>4, <2>5
  <1>6. CASE \E inTime \in BOOLEAN : Releases(p, inTime)
    <2> PICK inTime \in BOOLEAN : Releases(p, inTime)
      BY <1>6
    <2> DEFINE r == [procs[p] EXCEPT !.at = IF inTime THEN "draining" ELSE "overrun"]
    <2>1. procs[p] \in Process
      BY DEF TypeOK
    <2>2. procs' = [procs EXCEPT ![p] = r]
      BY <1>6, <2>1 DEF Releases, TypeOK
    <2>3. r \in Process /\ (r.disp \in {"claim", "submit"} => r.job \in Jobs)
      BY <1>6, <2>1 DEF Releases, Process, Lives, Off, TypeOK
    <2> HIDE DEF r
    <2>4. /\ procs' \in [Processes -> Process]
          /\ \A q \in Processes : procs'[q].disp \in {"claim", "submit"} => procs'[q].job \in Jobs
      BY <2>2, <2>3, OneProcess
    <2>5. /\ entry' \in [Jobs -> Entries] /\ exec' \in [Jobs -> Executions]
          /\ lock' \in Processes \cup {NoProcess}
          /\ runs' \in [Processes -> [Jobs -> Runs]] /\ faults' \in 0..MaxFaults
      BY <1>6 DEF Releases
    <2> QED BY <2>4, <2>5
  <1> QED BY <1>1, <1>2, <1>3, <1>4, <1>5, <1>6 DEF Ends

-----------------------------------------------------------------------------
(* Every step of a process keeps what ties it to the lock, and takes        *)
(* nothing from the others.                                                 *)

\* The start of a process gives the lock to nobody while another has it.
LEMMA StartOwned ==
  ASSUME OwnerInv, NEW q \in Processes
  PROVE  /\ \A j \in Jobs : Submit(j) => Owned(q)'
         /\ \A p \in Processes : Starts(p) \/ Started(p) => Owned(q)'
         /\ \A p \in Processes, j \in Jobs : Reconcile(p, j) => Owned(q)'
  <1> USE SchedulerAssumption DEF OwnerInv, TypeOK, Owned, IsOwner, Dispatches, Overrun, Leaving
  <1>1. ASSUME NEW j \in Jobs, Submit(j) PROVE Owned(q)'
    BY <1>1 DEF Submit
  <1>2. ASSUME NEW p \in Processes, Starts(p) PROVE Owned(q)'
    <2>1. CASE lock = NoProcess
      <3> DEFINE r == [Off EXCEPT !.at = "starting", !.disp = "idle", !.todo = Jobs]
      <3>1. \A o \in Processes : procs'[o] = IF o = p THEN r ELSE procs[o]
        BY <1>2, <2>1 DEF Starts
      <3>2. CASE q = p
        BY <1>2, <2>1, <3>1, <3>2, ZenonT(30) DEF Starts, Off, Process
      <3>3. CASE q # p
        BY <1>2, <2>1, <3>1, <3>3 DEF Starts
      <3> QED BY <3>2, <3>3
    <2>2. CASE lock # NoProcess
      <3> DEFINE r == [procs[p] EXCEPT !.at = "refused"]
      <3>1. \A o \in Processes : procs'[o] = IF o = p THEN r ELSE procs[o]
        BY <1>2, <2>2 DEF Starts
      <3> QED BY <1>2, <2>2, <3>1 DEF Starts, Off, Process
    <2> QED BY <2>1, <2>2
  <1>3. ASSUME NEW p \in Processes, Started(p) PROVE Owned(q)'
    BY <1>3 DEF Started
  <1>4. ASSUME NEW p \in Processes, NEW j \in Jobs, Reconcile(p, j) PROVE Owned(q)'
    BY <1>4 DEF Reconcile
  <1> QED BY <1>1, <1>2, <1>3, <1>4

\* Only an owner gives work to its pool, and only a pool that has work runs it.
LEMMA DispatchOwned ==
  ASSUME OwnerInv, NEW p \in Processes, NEW q \in Processes
  PROVE  /\ Claim(p) \/ Launch(p) => Owned(q)'
         /\ \A j \in Jobs : Take(p, j) \/ RunStarts(p, j) \/ RunEnds(p, j) => Owned(q)'
  <1> USE DEF OwnerInv, TypeOK, Owned, IsOwner, Dispatches, Overrun, Leaving
  <1>1. ASSUME Claim(p) PROVE Owned(q)'
    <2>1. CASE entry[procs[p].job] = "waiting"
      <3> DEFINE r == [procs[p] EXCEPT !.disp = "submit"]
      <3>1. \A o \in Processes : procs'[o] = IF o = p THEN r ELSE procs[o]
        BY <1>1, <2>1 DEF Claim
      <3>2. CASE q = p
        BY <1>1, <2>1, <3>1, <3>2, SMTT(30) DEF Claim, Off, Process
      <3>3. CASE q # p
        BY <1>1, <2>1, <3>1, <3>3 DEF Claim
      <3> QED BY <3>2, <3>3
    <2>2. CASE entry[procs[p].job] # "waiting"
      <3> DEFINE r == [procs[p] EXCEPT !.disp = "idle", !.job = NoJob]
      <3>1. \A o \in Processes : procs'[o] = IF o = p THEN r ELSE procs[o]
        BY <1>1, <2>2 DEF Claim
      <3>2. CASE q = p
        BY <1>1, <2>2, <3>1, <3>2, SMTT(30) DEF Claim, Off, Process
      <3>3. CASE q # p
        BY <1>1, <2>2, <3>1, <3>3 DEF Claim
      <3> QED BY <3>2, <3>3
    <2> QED BY <2>1, <2>2
  <1>2. ASSUME Launch(p) PROVE Owned(q)'
    BY <1>2 DEF Launch
  <1>3. ASSUME NEW j \in Jobs, Take(p, j) PROVE Owned(q)'
    BY <1>3 DEF Take
  <1>4. ASSUME NEW j \in Jobs, RunStarts(p, j) PROVE Owned(q)'
    <2>1. runs[p] # NoRuns
      BY <1>4 DEF RunStarts
    <2> QED BY <1>4, <2>1 DEF RunStarts
  <1>5. ASSUME NEW j \in Jobs, RunEnds(p, j) PROVE Owned(q)'
    <2>1. runs[p] # NoRuns
      BY <1>5 DEF RunEnds
    <2> QED BY <1>5, <2>1 DEF RunEnds
  <1> QED BY <1>1, <1>2, <1>3, <1>4, <1>5

\* The lock leaves a process when it stops believing it has it, or its connection.
LEMMA EndOwned ==
  ASSUME OwnerInv, NEW p \in Processes, Ends(p), NEW q \in Processes
  PROVE  Owned(q)'
  <1> USE SchedulerAssumption
      DEF OwnerInv, TypeOK, Owned, IsOwner, Dispatches, Overrun, Leaving, Unlocked
  <1>1. CASE StopAsked(p)
    BY <1>1 DEF StopAsked
  <1>2. CASE DispatcherEnds(p)
    BY <1>2 DEF DispatcherEnds
  <1>3. CASE Exits(p)
    <2> DEFINE r == Off
    <2>1. \A o \in Processes : procs'[o] = IF o = p THEN r ELSE procs[o]
      BY <1>3 DEF Exits
    <2> QED BY <1>3, <2>1 DEF Exits, Off, Process
  <1>4. CASE Crash(p)
    <2> DEFINE r == Off
    <2>1. \A o \in Processes : procs'[o] = IF o = p THEN r ELSE procs[o]
      BY <1>4 DEF Crash
    <2> QED BY <1>4, <2>1 DEF Crash, Off, Process
  <1>5. CASE LosesConnection(p)
    BY <1>5 DEF LosesConnection
  <1>6. CASE \E inTime \in BOOLEAN : Releases(p, inTime)
    <2> PICK inTime \in BOOLEAN : Releases(p, inTime)
      BY <1>6
    <2> DEFINE r == [procs[p] EXCEPT !.at = IF inTime THEN "draining" ELSE "overrun"]
    <2>1. \A o \in Processes : procs'[o] = IF o = p THEN r ELSE procs[o]
      BY <1>6 DEF Releases
    <2>2. CASE q = p
      <3>1. procs[p].todo = {} /\ procs'[p] = r /\ procs[p] \in Process
        BY <2>1 DEF Releases
      <3>2. CASE inTime
        BY <3>1, <3>2, <2>2, ZenonT(30) DEF Releases, Process
      <3>3. CASE ~inTime
        BY <3>1, <3>3, <2>2 DEF Releases, Process
      <3> QED BY <3>2, <3>3
    <2>3. CASE q # p
      BY <1>6, <2>1, <2>3 DEF Releases
    <2> QED BY <2>2, <2>3
  <1> QED BY <1>1, <1>2, <1>3, <1>4, <1>5, <1>6 DEF Ends

\* Every step keeps the invariant.
LEMMA OwnerStep == OwnerInv /\ [Next]_vars => OwnerInv'
  <1> SUFFICES ASSUME OwnerInv, [Next]_vars PROVE OwnerInv'
    OBVIOUS
  <1>1. CASE UNCHANGED vars
    BY <1>1 DEF vars, OwnerInv, TypeOK, Owned, IsOwner, Dispatches, Overrun, Leaving
  <1>2. ASSUME NEW j \in Jobs, Submit(j) PROVE OwnerInv'
    BY <1>2, StartTyped, StartOwned DEF OwnerInv
  <1>3. ASSUME NEW p \in Processes, Starts(p) \/ Started(p) PROVE OwnerInv'
    BY <1>3, StartTyped, StartOwned DEF OwnerInv
  <1>4. ASSUME NEW p \in Processes, NEW j \in Jobs, Reconcile(p, j) PROVE OwnerInv'
    BY <1>4, StartTyped, StartOwned DEF OwnerInv
  <1>5. ASSUME NEW p \in Processes, Claim(p) \/ Launch(p) PROVE OwnerInv'
    BY <1>5, DispatchTyped, DispatchOwned DEF OwnerInv
  <1>6. ASSUME NEW p \in Processes, NEW j \in Jobs, Take(p, j) \/ RunStarts(p, j) \/ RunEnds(p, j)
        PROVE  OwnerInv'
    BY <1>6, DispatchTyped, DispatchOwned DEF OwnerInv
  <1>7. ASSUME NEW p \in Processes, Ends(p) PROVE OwnerInv'
    BY <1>7, EndTyped, EndOwned DEF OwnerInv
  <1> QED
    BY <1>1, <1>2, <1>3, <1>4, <1>5, <1>6, <1>7 DEF Next, Works, ReleasesLate, Ends

-----------------------------------------------------------------------------
\* The types of the processes, their pools and the lock.
THEOREM TypeCorrect == Spec => []TypeOK
  <1>1. OwnerInv => TypeOK
    BY DEF OwnerInv
  <1> QED BY <1>1, InitOwned, OwnerStep, PTL DEF Spec

\* Invariant I1 of the documentation, for any number of processes: who drains or
\* reconciles is the owner or overran its stop, and the lock has one owner.
THEOREM OneDrains == Spec => []SingleDrain
  <1>1. OwnerInv => SingleDrain
    BY DEF OwnerInv, Owned, SingleDrain, IsOwner, Dispatches, Deprived, Overrun
  <1> QED BY <1>1, InitOwned, OwnerStep, PTL DEF Spec

\* A start never ends the runs of a process that still has the lock.
THEOREM OthersStand == Spec => RunsStand
  <1>1. OwnerInv /\ [Next]_vars =>
          [\A p, q \in Processes, j \in Jobs :
             p # q /\ Reconcile(p, j) /\ exec'[j] # exec[j] /\ runs[q][j] = "running"
               => Deprived(p) \/ Deprived(q) \/ Leaving(q)]_vars
    <2> SUFFICES ASSUME OwnerInv, NEW p \in Processes, NEW q \in Processes, NEW j \in Jobs,
                        p # q, Reconcile(p, j), runs[q][j] = "running"
                 PROVE  Deprived(p) \/ Deprived(q) \/ Leaving(q)
      OBVIOUS
    <2>1. IsOwner(p)
      BY DEF Reconcile, OwnerInv, Owned, IsOwner
    <2>2. runs[q] # NoRuns
      OBVIOUS
    <2> QED BY <2>1, <2>2 DEF OwnerInv, Owned, Deprived
  <1> QED BY <1>1, InitOwned, OwnerStep, PTL DEF Spec, RunsStand
=============================================================================
