------------------------ MODULE ArtifactStore_proofs ------------------------
(***************************************************************************)
(* What holds of ArtifactStore for every set of machines, threads and      *)
(* files and every number of writes.                                       *)
(*                                                                         *)
(* StoreInv says where a content the database has not held can be: on one  *)
(* disk at most (Alone), never under an entry that passes for synchronised *)
(* (SyncedIsShared for the manifests that are saved, Synced for those a    *)
(* transfer works on), and never behind the sum of a row: a sum that was   *)
(* read in the database names a content it has held, or one that no disk   *)
(* and no chunk will ever show again (Settled).                            *)
(***************************************************************************)
EXTENDS ArtifactStore, TLAPS

Known == 0..versions
Note  == [sha : Known, current : BOOLEAN]
Row   == [sha : Known, head : Known, tail : Known]
Stage == {"idle", "load", "pull", "fetch", "record", "work", "compare", "push", "upload"}
Thread ==
  [at : Stage, todo : SUBSET Files, shas : [Files -> Known], man : [Files -> Note],
   dirty : BOOLEAN, wrote : SUBSET (Files \X (1..versions)),
   cur : [f : Files \cup {None}, note : Note, head : Known, again : BOOLEAN]]

Typed ==
  /\ versions \in 0..MaxVersions
  /\ disk \in [Machines -> [Files -> Known]]
  /\ manifest \in [Machines -> [Files -> Note]]
  /\ db \in [Files -> Row]
  /\ shared \subseteq Files \X (1..versions)
  /\ raced \subseteq Place

\* A sum v the database may have given for file f names a content it has held, or
\* one that was replaced between its sum and its upload, and is nowhere any more.
Settled(f, v) ==
  \/ v = None
  \/ <<f, v>> \in shared
  \/ /\ db[f].head # v /\ db[f].tail # v
     /\ \A m \in Machines : disk[m][f] # v

Rows ==
  \A f \in Files : Settled(f, db[f].sha) /\ (db[f] # NoRow => db[f].sha # None)

Alone ==
  \A m, n \in Machines, f \in Files :
    m # n /\ disk[m][f] = disk[n][f] /\ disk[m][f] # None => <<f, disk[m][f]>> \in shared

World == Typed /\ Rows /\ Alone /\ SyncedIsShared

\* The manifest a transfer works on, and the rows it has read.
Synced(m, r) ==
  \A f \in Files :
    /\ Settled(f, r.shas[f])
    /\ Matches(r.man[f]) /\ <<m, f>> \notin raced => <<f, disk[m][f]>> \in shared

\* A pull replaces what may be lost, with what the row announces.
Pulls(m, r) ==
  /\ r.at \in {"load", "pull", "fetch", "record"} => \A f \in r.todo : r.shas[f] # None
  /\ r.at \in {"fetch", "record"} =>
       /\ r.cur.f \in r.todo
       /\ \/ <<m, r.cur.f>> \in raced
          \/ disk[m][r.cur.f] = None
          \/ <<r.cur.f, disk[m][r.cur.f]>> \in shared
  /\ r.at = "fetch" => r.cur.note.sha # None /\ Settled(r.cur.f, r.cur.note.sha)
  /\ r.at = "record" => disk[m][r.cur.f] # None

\* What became of a write of the thread.
Safe(m, w) == w \in shared \/ disk[m][w[1]] # w[2] \/ <<m, w[1]>> \in raced

\* A push passes over no file whose content is not shared.
Pushes(m, r) ==
  /\ r.at \in {"push", "upload"} =>
       /\ \A f \in r.todo : disk[m][f] # None
       /\ \A w \in r.wrote : w[1] \in r.todo \/ Safe(m, w)
  /\ r.at = "upload" =>
       /\ r.cur.f \in r.todo /\ r.cur.note.sha # None
       /\ r.cur.note.current => disk[m][r.cur.f] = r.cur.note.sha
       /\ \A n \in Machines : n # m /\ disk[n][r.cur.f] = r.cur.note.sha
                                => <<r.cur.f, r.cur.note.sha>> \in shared
       /\ \A w \in r.wrote : w[1] = r.cur.f => r.cur.note.sha = w[2] \/ Safe(m, w)

\* What a thread of machine m holds fits the state.
Fits(m, r) == r \in Thread /\ Synced(m, r) /\ Pulls(m, r) /\ Pushes(m, r)

StoreInv ==
  /\ World
  /\ DOMAIN threads = Threads /\ threads = [t \in Threads |-> threads[t]]
  /\ \A t \in Threads : Fits(On[t], threads[t])

-----------------------------------------------------------------------------
\* A thread that rests fits any state.
LEMMA RestFits ==
  ASSUME Typed, NEW m \in Machines, NEW at \in {"idle", "work"},
         NEW wrote \in SUBSET (Files \X (1..versions))
  PROVE  Fits(m, [Idle EXCEPT !.at = at, !.wrote = wrote])
  <1> DEFINE r == [Idle EXCEPT !.at = at, !.wrote = wrote]
  <1>1. 0 \in Known
    BY DEF Typed, Known
  <1>2. r \in Thread
    BY <1>1 DEF Idle, Thread, NoFile, NoEntry, None, Note, Stage
  <1>3. r.at = at /\ \A f \in Files : r.shas[f] = None /\ r.man[f] = NoEntry
    BY DEF Idle
  <1> HIDE DEF r
  <1>4. Synced(m, r)
    BY <1>3 DEF Synced, Settled, Matches, NoEntry
  <1>5. Pulls(m, r) /\ Pushes(m, r)
    BY <1>3 DEF Pulls, Pushes
  <1> QED BY <1>2, <1>4, <1>5 DEF Fits, r

\* So does an idle one.
LEMMA IdleFits == ASSUME Typed, NEW m \in Machines PROVE Fits(m, Idle)
  <1>1. 0 \in Known
    BY DEF Typed, Known
  <1>2. Idle \in Thread
    BY <1>1 DEF Idle, Thread, NoFile, NoEntry, None, Note, Stage
  <1>3. Idle.at = "idle" /\ \A f \in Files : Idle.shas[f] = None /\ Idle.man[f] = NoEntry
    BY DEF Idle
  <1>4. Synced(m, Idle)
    BY <1>3 DEF Synced, Settled, Matches, NoEntry
  <1>5. Pulls(m, Idle) /\ Pushes(m, Idle)
    BY <1>3 DEF Pulls, Pushes
  <1> QED BY <1>2, <1>4, <1>5 DEF Fits

\* The initial states satisfy the invariant.
LEMMA InitStore == Init => StoreInv
  <1> SUFFICES ASSUME Init PROVE StoreInv
    OBVIOUS
  <1> USE StoreAssumption
  <1>1. Typed
    BY DEF Init, Typed, Known, Note, Row, NoRow, NoEntry, None
  <1>2. Rows /\ Alone /\ SyncedIsShared
    BY DEF Init, Rows, Alone, SyncedIsShared, Settled, NoRow, NoEntry, None, Matches
  <1>3. \A t \in Threads : Fits(On[t], threads[t])
    BY <1>1, IdleFits DEF Init
  <1> QED BY <1>1, <1>2, <1>3 DEF Init, StoreInv, World

-----------------------------------------------------------------------------
\* A step of one thread that leaves the disks, the database and the history alone.
LEMMA OneThread ==
  ASSUME StoreInv, NEW t \in Threads, NEW r, threads' = [threads EXCEPT ![t] = r],
         Fits(On[t], r), World',
         UNCHANGED <<disk, db, versions, shared, raced>>
  PROVE  StoreInv'
  <1>1. ASSUME NEW u \in Threads PROVE Fits(On[u], threads[u])'
    <2>1. threads'[u] = IF u = t THEN r ELSE threads[u]
      BY DEF StoreInv
    <2>2. Fits(On[u], threads'[u])
      BY <2>1 DEF StoreInv
    <2>3. threads'[u] \in Thread'
      BY <2>2 DEF Fits, Thread, Known, Note
    <2>4. Synced(On[u], threads[u])'
      BY <2>2 DEF Fits, Synced, Settled
    <2>5. Pulls(On[u], threads[u])'
      BY <2>2 DEF Fits, Pulls, Settled
    <2>6. Pushes(On[u], threads[u])'
      BY <2>2 DEF Fits, Pushes, Safe
    <2> QED BY <2>3, <2>4, <2>5, <2>6 DEF Fits
  <1> QED BY <1>1 DEF StoreInv

\* The disks, the database and the manifests stay as they are.
LEMMA SameWorld ==
  ASSUME StoreInv, UNCHANGED <<disk, manifest, db, versions, shared, raced>> PROVE World'
  BY DEF StoreInv, World, Typed, Rows, Alone, SyncedIsShared, Settled, Known, Note, Row

\* A transfer that ends saves its manifest.
LEMMA SavedWorld ==
  ASSUME StoreInv, NEW t \in Threads, manifest' = Saved(t),
         UNCHANGED <<disk, db, versions, shared, raced>>
  PROVE  World'
  <1>1. threads[t] \in Thread /\ Synced(On[t], threads[t]) /\ On[t] \in Machines
    BY StoreAssumption DEF StoreInv, Fits
  <1>2. /\ manifest' \in [Machines -> [Files -> Note]]
        /\ \A m \in Machines : manifest'[m] = manifest[m] \/ (m = On[t] /\ manifest'[m] = threads[t].man)
    <2>1. manifest' = manifest \/ manifest' = [manifest EXCEPT ![On[t]] = threads[t].man]
      BY Zenon DEF Saved
    <2>2. manifest \in [Machines -> [Files -> Note]] /\ threads[t].man \in [Files -> Note]
      BY <1>1 DEF StoreInv, World, Typed, Thread
    <2> QED BY <1>1, <2>1, <2>2
  <1>3. Typed'
    BY <1>2 DEF StoreInv, World, Typed, Known, Note, Row
  <1>4. Rows' /\ Alone'
    BY DEF StoreInv, World, Rows, Alone, Settled
  <1>5. SyncedIsShared'
    BY <1>1, <1>2 DEF StoreInv, World, SyncedIsShared, Synced
  <1> QED BY <1>3, <1>4, <1>5 DEF World

\* A pull reads the rows, then the manifest.
LEMMA StartPullKeeps == ASSUME StoreInv, NEW t \in Threads, StartPull(t) PROVE StoreInv'
  <1> DEFINE r == [Idle EXCEPT !.at = "load", !.todo = {f \in Files : db[f].sha # None},
                               !.shas = [f \in Files |-> db[f].sha]]
  <1>1. World'
    BY SameWorld DEF StartPull
  <1>2. r \in Thread
    BY IdleFits, StoreAssumption, ZenonT(30) DEF StoreInv, World, Typed, Fits, Thread, Stage, Row
  <1>3. /\ r.at = "load" /\ r.todo = {f \in Files : db[f].sha # None}
        /\ \A f \in Files : r.shas[f] = db[f].sha /\ r.man[f] = NoEntry
    BY DEF Idle
  <1>4. threads' = [threads EXCEPT ![t] = r]
    BY DEF StartPull
  <1> HIDE DEF r
  <1>5. Synced(On[t], r)
    BY <1>3 DEF Synced, StoreInv, World, Rows, Matches, NoEntry
  <1>6. Pulls(On[t], r) /\ Pushes(On[t], r)
    BY <1>3 DEF Pulls, Pushes
  <1> QED BY <1>1, <1>2, <1>4, <1>5, <1>6, OneThread DEF Fits, StartPull

LEMMA LoadManifestKeeps == ASSUME StoreInv, NEW t \in Threads, LoadManifest(t) PROVE StoreInv'
  <1> DEFINE r == [threads[t] EXCEPT !.at = "pull", !.man = manifest[On[t]]]
  <1>1. World'
    BY SameWorld DEF LoadManifest
  <1>2. threads[t] \in Thread /\ Fits(On[t], threads[t]) /\ On[t] \in Machines
    BY StoreAssumption DEF StoreInv, Fits
  <1>3. r \in Thread
    BY <1>2 DEF StoreInv, World, Typed, Fits, Thread, Stage
  <1>4. /\ r.at = "pull" /\ r.todo = threads[t].todo
        /\ r.shas = threads[t].shas /\ r.man = manifest[On[t]]
    BY <1>2 DEF Thread
  <1>5. threads' = [threads EXCEPT ![t] = r]
    BY DEF LoadManifest, StoreInv
  <1> HIDE DEF r
  <1>6. Synced(On[t], r)
    BY <1>2, <1>4 DEF Synced, Fits, StoreInv, World, SyncedIsShared
  <1>7. Pulls(On[t], r) /\ Pushes(On[t], r)
    BY <1>2, <1>4 DEF Pulls, Pushes, Fits, LoadManifest, At
  <1> QED BY <1>1, <1>3, <1>5, <1>6, <1>7, OneThread DEF Fits, LoadManifest
\* A thread that rests, keeping what it wrote.
LEMMA RestingFits == ASSUME StoreInv, NEW t \in Threads PROVE Fits(On[t], Resting(t))
  BY RestFits, StoreAssumption DEF StoreInv, World, Fits, Thread, Resting

LEMMA SkipPullKeeps == ASSUME StoreInv, NEW t \in Threads, SkipPull(t) PROVE StoreInv'
  BY RestingFits, SameWorld, OneThread DEF SkipPull

LEMMA PullFailsKeeps == ASSUME StoreInv, NEW t \in Threads, PullFails(t) PROVE StoreInv'
  <1>1. On[t] \in Machines /\ Typed
    BY StoreAssumption DEF StoreInv, World
  <1>2. CASE On[t] \in Lazy
    BY <1>2, RestingFits, SameWorld, OneThread DEF PullFails
  <1>3. CASE On[t] \notin Lazy
    BY <1>1, <1>3, IdleFits, SameWorld, OneThread DEF PullFails
  <1> QED BY <1>2, <1>3

LEMMA LeaveKeeps == ASSUME StoreInv, NEW t \in Threads, Leave(t) PROVE StoreInv'
  <1>1. On[t] \in Machines /\ Typed
    BY StoreAssumption DEF StoreInv, World
  <1> QED BY <1>1, IdleFits, SameWorld, OneThread DEF Leave

LEMMA EndPullKeeps == ASSUME StoreInv, NEW t \in Threads, EndPull(t) PROVE StoreInv'
  BY RestingFits, SavedWorld, OneThread DEF EndPull

LEMMA EndPushKeeps == ASSUME StoreInv, NEW t \in Threads, EndPush(t) PROVE StoreInv'
  <1>1. On[t] \in Machines /\ Typed
    BY StoreAssumption DEF StoreInv, World
  <1>2. PICK next \in {"idle", "work"} : threads' = [threads EXCEPT ![t] = [Idle EXCEPT !.at = next]]
    BY DEF EndPush
  <1> DEFINE r == [Idle EXCEPT !.at = next]
  <1>3. Fits(On[t], r)
    <2>1. Idle \in Thread
      BY <1>1, IdleFits DEF Fits
    <2>2. r \in Thread
      BY <2>1 DEF Thread, Stage
    <2>3. r.at = next /\ \A f \in Files : r.shas[f] = None /\ r.man[f] = NoEntry
      BY DEF Idle
    <2> HIDE DEF r
    <2>4. Synced(On[t], r) /\ Pulls(On[t], r) /\ Pushes(On[t], r)
      BY <2>3 DEF Synced, Settled, Matches, NoEntry, Pulls, Pushes
    <2> QED BY <2>2, <2>4 DEF Fits
  <1> HIDE DEF r
  <1> QED BY <1>2, <1>3, SavedWorld, OneThread DEF EndPush, r

LEMMA StartPushKeeps == ASSUME StoreInv, NEW t \in Threads, StartPush(t) PROVE StoreInv'
  <1> DEFINE r == [threads[t] EXCEPT !.at = "compare", !.man = manifest[On[t]]]
  <1>1. World'
    BY SameWorld DEF StartPush
  <1>2. threads[t] \in Thread /\ Fits(On[t], threads[t]) /\ On[t] \in Machines
    BY StoreAssumption DEF StoreInv, Fits
  <1>3. r \in Thread
    BY <1>2 DEF StoreInv, World, Typed, Fits, Thread, Stage
  <1>4. r.at = "compare" /\ r.shas = threads[t].shas /\ r.man = manifest[On[t]]
    BY <1>2 DEF Thread
  <1>5. threads' = [threads EXCEPT ![t] = r]
    BY DEF StartPush, StoreInv
  <1> HIDE DEF r
  <1>6. Synced(On[t], r)
    BY <1>2, <1>4 DEF Synced, Fits, StoreInv, World, SyncedIsShared
  <1>7. Pulls(On[t], r) /\ Pushes(On[t], r)
    BY <1>4 DEF Pulls, Pushes
  <1> QED BY <1>1, <1>3, <1>5, <1>6, <1>7, OneThread DEF Fits, StartPush

\* Every file of the disk is to be looked at, so no write is passed over.
LEMMA ReadRowsKeeps == ASSUME StoreInv, NEW t \in Threads, ReadRows(t) PROVE StoreInv'
  <1> DEFINE r == [threads[t] EXCEPT !.at = "push", !.todo = {f \in Files : Local(t, f) # None},
                                     !.shas = [f \in Files |-> db[f].sha]]
  <1>1. World'
    BY SameWorld DEF ReadRows
  <1>2. threads[t] \in Thread /\ Fits(On[t], threads[t]) /\ On[t] \in Machines
    BY StoreAssumption DEF StoreInv, Fits
  <1>3. [f \in Files |-> db[f].sha] \in [Files -> Known]
    BY DEF StoreInv, World, Typed, Row
  <1>4. r \in Thread
    BY <1>2, <1>3 DEF Thread, Stage
  <1>5. /\ r.at = "push" /\ r.todo = {f \in Files : disk[On[t]][f] # None}
        /\ r.shas = [f \in Files |-> db[f].sha]
        /\ r.man = threads[t].man /\ r.wrote = threads[t].wrote
    BY <1>2 DEF Thread, Local
  <1>6. threads' = [threads EXCEPT ![t] = r]
    BY DEF ReadRows, StoreInv
  <1> HIDE DEF r
  <1>7. Synced(On[t], r)
    BY <1>2, <1>5 DEF Synced, Fits, StoreInv, World, Rows
  <1>8. Pulls(On[t], r)
    BY <1>5 DEF Pulls
  <1>9. Pushes(On[t], r)
    <2>1. ASSUME NEW w \in r.wrote PROVE w[1] \in r.todo \/ Safe(On[t], w)
      <3>1. w[1] \in Files /\ w[2] \in 1..versions /\ versions \in Nat
        BY <1>2, <1>5 DEF Thread, StoreInv, World, Typed
      <3>2. w[2] # None
        BY <3>1 DEF None
      <3> QED BY <1>5, <3>1, <3>2 DEF Safe
    <2> QED BY <1>5, <2>1 DEF Pushes
  <1> QED BY <1>1, <1>4, <1>6, <1>7, <1>8, <1>9, OneThread DEF Fits, ReadRows

-----------------------------------------------------------------------------
\* One file of a pull is looked at, or recorded.

\* A file leaves a transfer's list, with an entry that the disk bears out or none.
LEMMA FileDone ==
  ASSUME StoreInv, NEW t \in Threads, NEW f \in Files, NEW r \in Thread,
         r.at \in {"pull", "push"}, threads[t].at \in {"pull", "record", "push", "upload"},
         threads[t].at \in {"pull", "record"} <=> r.at = "pull",
         r.todo = Left(t, f),
         \A g \in Files : r.shas[g] = IF g = f THEN None ELSE threads[t].shas[g],
         r.wrote = threads[t].wrote,
         \A g \in Files \ {f} : r.man[g] = threads[t].man[g],
         r.man[f] = threads[t].man[f] \/ <<f, disk[On[t]][f]>> \in shared \/ <<On[t], f>> \in raced,
         r.at = "push" => \A w \in r.wrote : w[1] = f => Safe(On[t], w)
  PROVE  Fits(On[t], r)
  <1>1. Fits(On[t], threads[t]) /\ threads[t] \in Thread
    BY DEF StoreInv, Fits
  <1>2. ASSUME NEW g \in Files
        PROVE  /\ Settled(g, r.shas[g])
               /\ Matches(r.man[g]) /\ <<On[t], g>> \notin raced => <<g, disk[On[t]][g]>> \in shared
    <2>1. CASE g = f
      BY <1>1, <2>1 DEF Fits, Synced, Settled
    <2>2. CASE g # f
      BY <1>1, <2>2 DEF Fits, Synced
    <2> QED BY <2>1, <2>2
  <1>3. Pulls(On[t], r)
    BY <1>1 DEF Left, Fits, Pulls, Thread
  <1>4. Pushes(On[t], r)
    BY <1>1 DEF Left, Fits, Pushes, Thread
  <1> QED BY <1>2, <1>3, <1>4 DEF Fits, Synced

LEMMA LookKeeps ==
  ASSUME StoreInv, NEW t \in Threads, NEW f \in Files, Look(t, f) PROVE StoreInv'
  <1>1. /\ threads[t] \in Thread /\ Fits(On[t], threads[t]) /\ On[t] \in Machines
        /\ threads[t].at = "pull" /\ f \in threads[t].todo
        /\ World'
    BY StoreAssumption, SameWorld DEF StoreInv, Fits, Look, At
  <1>2. /\ disk[On[t]][f] \in Known /\ db[f].head \in Known
        /\ threads[t].shas[f] \in Known /\ 0 \in Known
    BY <1>1 DEF StoreInv, World, Typed, Row, Thread, Known
  <1>3. CASE Wanted(t, f)
    <2> DEFINE r == [threads[t] EXCEPT !.at = "fetch",
                      !.cur = [f |-> f, note |-> [sha |-> threads[t].shas[f], current |-> FALSE],
                               head |-> db[f].head, again |-> FALSE]]
    <2>1. r \in Thread
      BY <1>1, <1>2 DEF Thread, Stage, Note
    <2>2. /\ r.at = "fetch" /\ r.todo = threads[t].todo /\ r.shas = threads[t].shas
          /\ r.man = threads[t].man /\ r.cur.f = f /\ r.cur.note.sha = threads[t].shas[f]
      BY <1>1 DEF Thread
    <2>3. threads' = [threads EXCEPT ![t] = r]
      BY <1>3 DEF Look
    <2> HIDE DEF r
    <2>4. \/ <<On[t], f>> \in raced
          \/ disk[On[t]][f] = None
          \/ <<f, disk[On[t]][f]>> \in shared
      BY <1>1, <1>3 DEF Wanted, Local, Entry, Fits, Synced
    <2>5. Synced(On[t], r)
      BY <1>1, <2>2 DEF Fits, Synced
    <2>6. Pulls(On[t], r)
      BY <1>1, <2>2, <2>4 DEF Fits, Pulls, Synced
    <2>7. Pushes(On[t], r)
      BY <2>2 DEF Pushes
    <2> QED BY <1>1, <2>1, <2>3, <2>5, <2>6, <2>7, OneThread DEF Fits, Look
  <1>4. CASE ~Wanted(t, f) /\ Entry(t, f) = NoEntry /\ Local(t, f) = threads[t].shas[f]
    <2> DEFINE r == [threads[t] EXCEPT !.todo = Left(t, f), !.shas[f] = None, !.dirty = TRUE,
                       !.man[f] = [sha |-> Local(t, f), current |-> TRUE]]
    <2>1. r \in Thread
      BY <1>1, <1>2 DEF Left, Thread, Stage, Note, Local, None
    <2>2. /\ r.at = "pull" /\ r.todo = Left(t, f) /\ r.wrote = threads[t].wrote
          /\ \A g \in Files : r.shas[g] = IF g = f THEN None ELSE threads[t].shas[g]
          /\ \A g \in Files \ {f} : r.man[g] = threads[t].man[g]
      BY <1>1 DEF Thread
    <2>3. threads' = [threads EXCEPT ![t] = r]
      BY <1>4 DEF Look
    <2> HIDE DEF r
    <2>4. <<f, disk[On[t]][f]>> \in shared
      BY <1>1, <1>4 DEF Fits, Synced, Settled, Pulls, Local
    <2>5. Fits(On[t], r)
      BY <1>1, <2>1, <2>2, <2>4, FileDone, ZenonT(30)
    <2> QED BY <1>1, <2>3, <2>5, OneThread DEF Look
  <1>5. CASE ~Wanted(t, f) /\ ~(Entry(t, f) = NoEntry /\ Local(t, f) = threads[t].shas[f])
    <2> DEFINE r == [threads[t] EXCEPT !.todo = Left(t, f), !.shas[f] = None]
    <2>1. r \in Thread
      BY <1>1, <1>2 DEF Left, Thread, Stage, Note, None
    <2>2. /\ r.at = "pull" /\ r.todo = Left(t, f) /\ r.wrote = threads[t].wrote
          /\ \A g \in Files : r.shas[g] = IF g = f THEN None ELSE threads[t].shas[g]
          /\ r.man = threads[t].man
      BY <1>1 DEF Thread
    <2>3. threads' = [threads EXCEPT ![t] = r]
      BY <1>5 DEF Look
    <2> HIDE DEF r
    <2>4. Fits(On[t], r)
      BY <1>1, <2>1, <2>2, FileDone
    <2> QED BY <1>1, <2>3, <2>4, OneThread DEF Look
  <1> QED BY <1>3, <1>4, <1>5

\* What the disk shows under a record is shared, or the file was written meanwhile.
LEMMA RecordKeeps == ASSUME StoreInv, NEW t \in Threads, Record(t) PROVE StoreInv'
  <1> DEFINE f == threads[t].cur.f
             r == [threads[t] EXCEPT !.at = "pull", !.todo = Left(t, f), !.shas[f] = None, !.dirty = TRUE,
                     !.cur = NoFile, !.man[f] = [sha |-> threads[t].shas[f], current |-> TRUE]]
  <1>1. /\ threads[t] \in Thread /\ Fits(On[t], threads[t]) /\ On[t] \in Machines
        /\ threads[t].at = "record"
        /\ World'
    BY StoreAssumption, SameWorld DEF StoreInv, Fits, Record, At
  <1>2. f \in Files
    BY <1>1 DEF Fits, Pulls, Thread
  <1>3. 0 \in Known
    BY DEF StoreInv, World, Typed, Known
  <1>4. threads' = [threads EXCEPT ![t] = r]
    BY DEF Record
  <1>5. <<f, disk[On[t]][f]>> \in shared \/ <<On[t], f>> \in raced
    BY <1>1 DEF Fits, Pulls
  <1> HIDE DEF f
  <1>6. r \in Thread
    BY <1>1, <1>2, <1>3, ZenonT(30) DEF Left, Thread, Stage, Note, None, NoFile, NoEntry
  <1>7. /\ r.at = "pull" /\ r.todo = Left(t, f) /\ r.wrote = threads[t].wrote
        /\ \A g \in Files : r.shas[g] = IF g = f THEN None ELSE threads[t].shas[g]
        /\ \A g \in Files \ {f} : r.man[g] = threads[t].man[g]
    BY <1>1 DEF Thread
  <1> HIDE DEF r
  <1>8. Fits(On[t], r)
    BY <1>1, <1>2, <1>5, <1>6, <1>7, FileDone
  <1> QED BY <1>1, <1>4, <1>8, OneThread DEF Record

\* One file of a push is examined: one that is passed over is shared.
LEMMA ExamineKeeps ==
  ASSUME StoreInv, NEW t \in Threads, NEW f \in Files, Examine(t, f) PROVE StoreInv'
  <1> DEFINE entry == [sha |-> Local(t, f), current |-> TRUE]
  <1>1. /\ threads[t] \in Thread /\ Fits(On[t], threads[t]) /\ On[t] \in Machines
        /\ threads[t].at = "push" /\ f \in threads[t].todo
        /\ World'
    BY StoreAssumption, SameWorld DEF StoreInv, Fits, Examine, At
  <1>2. disk[On[t]][f] \in Known /\ threads[t].shas[f] \in Known /\ 0 \in Known
    BY <1>1 DEF StoreInv, World, Typed, Row, Thread, Known
  <1>3. entry \in Note /\ entry.sha = disk[On[t]][f] /\ entry.current = TRUE
    BY <1>2 DEF Note, Local
  <1>4. ASSUME <<f, disk[On[t]][f]>> \in shared \/ <<On[t], f>> \in raced,
               NEW w \in threads[t].wrote, w[1] = f
        PROVE  Safe(On[t], w)
    <2>1. w = <<w[1], w[2]>>
      BY <1>1 DEF Thread
    <2> QED BY <1>4, <2>1 DEF Safe
  <1>5. CASE InStep(t, f)
    <2> DEFINE r == [threads[t] EXCEPT !.todo = Left(t, f), !.shas[f] = None]
    <2>1. r \in Thread
      BY <1>1, <1>2 DEF Left, Thread, Stage, Note, None
    <2>2. /\ r.at = "push" /\ r.todo = Left(t, f) /\ r.wrote = threads[t].wrote
          /\ \A g \in Files : r.shas[g] = IF g = f THEN None ELSE threads[t].shas[g]
          /\ r.man = threads[t].man
      BY <1>1 DEF Thread
    <2>3. threads' = [threads EXCEPT ![t] = r]
      BY <1>5 DEF Examine
    <2> HIDE DEF r
    <2>4. <<f, disk[On[t]][f]>> \in shared \/ <<On[t], f>> \in raced
      BY <1>1, <1>5 DEF InStep, Entry, Fits, Synced
    <2>5. Fits(On[t], r)
      BY <1>1, <1>4, <2>1, <2>2, <2>4, FileDone
    <2> QED BY <1>1, <2>3, <2>5, OneThread DEF Examine
  <1>6. CASE ~InStep(t, f) /\ threads[t].shas[f] = entry.sha
    <2> DEFINE r == [threads[t] EXCEPT !.todo = Left(t, f), !.shas[f] = None, !.dirty = TRUE,
                                       !.man[f] = entry]
    <2>1. threads' = [threads EXCEPT ![t] = r]
      BY <1>6 DEF Examine
    <2>2. <<f, disk[On[t]][f]>> \in shared
      BY <1>1, <1>3, <1>6 DEF Fits, Synced, Settled, Pushes
    <2> HIDE DEF entry
    <2>3. r \in Thread
      BY <1>1, <1>2, <1>3 DEF Left, Thread, Stage, None
    <2>4. /\ r.at = "push" /\ r.todo = Left(t, f) /\ r.wrote = threads[t].wrote
          /\ \A g \in Files : r.shas[g] = IF g = f THEN None ELSE threads[t].shas[g]
          /\ \A g \in Files \ {f} : r.man[g] = threads[t].man[g]
      BY <1>1 DEF Thread
    <2> HIDE DEF r
    <2>5. \A w \in r.wrote : w[1] = f => Safe(On[t], w)
      BY <1>4, <2>2, <2>4
    <2>6. Fits(On[t], r)
      BY <1>1, <2>2, <2>3, <2>4, <2>5, FileDone
    <2> QED BY <1>1, <2>1, <2>6, OneThread DEF Examine
  <1>7. CASE ~InStep(t, f) /\ threads[t].shas[f] # entry.sha
    <2> DEFINE r == [threads[t] EXCEPT !.at = "upload", !.cur = [NoFile EXCEPT !.f = f, !.note = entry]]
    <2>1. threads' = [threads EXCEPT ![t] = r]
      BY <1>7 DEF Examine
    <2> HIDE DEF entry
    <2>2. r \in Thread
      BY <1>1, <1>2, <1>3 DEF Thread, Stage, None, NoFile
    <2>3. /\ r.at = "upload" /\ r.todo = threads[t].todo /\ r.wrote = threads[t].wrote
          /\ r.shas = threads[t].shas /\ r.man = threads[t].man
          /\ r.cur.f = f /\ r.cur.note = entry
      BY <1>1 DEF Thread, NoFile
    <2> HIDE DEF r
    <2>4. Synced(On[t], r)
      BY <1>1, <2>3 DEF Fits, Synced
    <2>5. Pulls(On[t], r)
      BY <2>3 DEF Pulls
    <2>6. disk[On[t]][f] # None
      BY <1>1 DEF Fits, Pushes
    <2>7. \A n \in Machines : n # On[t] /\ disk[n][f] = entry.sha => <<f, entry.sha>> \in shared
      BY <1>1, <1>3, <2>6 DEF StoreInv, World, Alone
    <2>8. \A w \in r.wrote : w[1] = f => entry.sha = w[2] \/ Safe(On[t], w)
      BY <1>3 DEF Safe
    <2>9. Pushes(On[t], r)
      BY <1>1, <1>3, <2>3, <2>6, <2>7, <2>8 DEF Fits, Pushes
    <2> QED BY <1>1, <2>1, <2>2, <2>4, <2>5, <2>9, OneThread DEF Fits, Examine
  <1> QED BY <1>5, <1>6, <1>7

-----------------------------------------------------------------------------
\* A file is replaced.

\* What the threads of its machine noted of the file is not current any more.
LEMMA Noticed ==
  ASSUME StoreInv, NEW m \in Machines, NEW f \in Files, NEW u \in Threads,
         NEW r, r = threads[u], NEW n, n = Noticing(m, f)[u]
  PROVE  /\ n \in Thread
         /\ n.at = r.at /\ n.todo = r.todo /\ n.shas = r.shas /\ n.wrote = r.wrote
         /\ n.cur.f = r.cur.f /\ n.cur.note.sha = r.cur.note.sha
         /\ n.cur.note.current => r.cur.note.current /\ ~(On[u] = m /\ r.cur.f = f)
         /\ \A g \in Files : /\ n.man[g].sha = r.man[g].sha
                             /\ n.man[g].current => r.man[g].current
         /\ On[u] = m => ~n.man[f].current
  <1>1. r \in Thread
    BY DEF StoreInv, Fits
  <1>2. n = IF On[u] # m THEN r
            ELSE [r EXCEPT !.man[f] = Outdated(@),
                           !.cur.note = IF r.cur.f = f THEN Outdated(@) ELSE @]
    BY DEF Noticing
  <1>3. r.man[f] \in Note /\ r.cur.note \in Note
    BY <1>1 DEF Thread
  <1>4. CASE On[u] # m
    BY <1>1, <1>2, <1>4
  <1>5. CASE On[u] = m
    <2>1. n = [r EXCEPT !.man[f] = Outdated(r.man[f]),
                        !.cur.note = IF r.cur.f = f THEN Outdated(r.cur.note) ELSE r.cur.note]
      BY <1>2, <1>5
    <2>2. /\ Outdated(r.man[f]) \in Note /\ Outdated(r.man[f]).sha = r.man[f].sha
          /\ ~Outdated(r.man[f]).current
      BY <1>3 DEF Outdated, Note
    <2>3. /\ Outdated(r.cur.note) \in Note /\ Outdated(r.cur.note).sha = r.cur.note.sha
          /\ ~Outdated(r.cur.note).current
      BY <1>3 DEF Outdated, Note
    <2>4. n \in Thread
      <3> DEFINE a == Outdated(r.man[f])
                 b == IF r.cur.f = f THEN Outdated(r.cur.note) ELSE r.cur.note
      <3>1. a \in Note /\ b \in Note
        BY <1>3, <2>2, <2>3
      <3>2. n = [r EXCEPT !.man[f] = a, !.cur.note = b]
        BY <2>1
      <3> HIDE DEF a, b
      <3>3. [r.man EXCEPT ![f] = a] \in [Files -> Note]
        BY <1>1, <3>1 DEF Thread
      <3>4. [r.cur EXCEPT !.note = b] \in
              [f : Files \cup {None}, note : Note, head : Known, again : BOOLEAN]
        BY <1>1, <3>1 DEF Thread
      <3>5. n = [r EXCEPT !.man = [r.man EXCEPT ![f] = a], !.cur = [r.cur EXCEPT !.note = b]]
        BY <1>1, <3>2 DEF Thread
      <3> QED BY <1>1, <3>3, <3>4, <3>5 DEF Thread
    <2>5. /\ n.at = r.at /\ n.todo = r.todo /\ n.shas = r.shas /\ n.wrote = r.wrote
          /\ n.man = [r.man EXCEPT ![f] = Outdated(r.man[f])]
          /\ n.cur = [r.cur EXCEPT !.note = IF r.cur.f = f THEN Outdated(r.cur.note) ELSE r.cur.note]
      BY <1>1, <2>1 DEF Thread
    <2>6. /\ n.cur.f = r.cur.f
          /\ n.cur.note = IF r.cur.f = f THEN Outdated(r.cur.note) ELSE r.cur.note
      BY <1>1, <2>5 DEF Thread
    <2>7. \A g \in Files : n.man[g] = IF g = f THEN Outdated(r.man[f]) ELSE r.man[g]
      BY <1>1, <2>5 DEF Thread
    <2> QED BY <1>5, <2>2, <2>3, <2>4, <2>5, <2>6, <2>7
  <1> QED BY <1>4, <1>5

\* Content v takes the place of file f of machine m: one the database has held, or a
\* new one.
Replacing(m, f, v) ==
  /\ Replaced(m, f, v) /\ v # None /\ v \in Known'
  /\ UNCHANGED <<db, shared>>
  /\ versions \in Nat /\ versions' \in versions..MaxVersions /\ raced \subseteq raced' /\ raced' \subseteq Place
  /\ \/ v \in Known /\ <<f, v>> \in shared
     \/ /\ v \notin Known
        /\ \A u \in Threads : On[u] = m /\ threads[u].cur.f = f /\ threads[u].at \in {"fetch", "record"}
                                => <<m, f>> \in raced'

LEMMA ReplacingSettled ==
  ASSUME StoreInv, NEW m \in Machines, NEW f \in Files, NEW v, Replacing(m, f, v)
  PROVE  /\ \A n \in Machines, g \in Files : disk'[n][g] = IF n = m /\ g = f THEN v ELSE disk[n][g]
         /\ Known \subseteq Known' /\ Note \subseteq Note'
         /\ \A g \in Files, x \in Known : Settled(g, x) => Settled(g, x)'
  <1>1. \A n \in Machines, g \in Files : disk'[n][g] = IF n = m /\ g = f THEN v ELSE disk[n][g]
    BY DEF Replacing, Replaced, StoreInv, World, Typed
  <1>2. Known \subseteq Known' /\ Note \subseteq Note'
    BY DEF Replacing, Known, Note
  <1>3. ASSUME NEW g \in Files, NEW x \in Known, Settled(g, x) PROVE Settled(g, x)'
    BY <1>1, <1>3 DEF Settled, Replacing
  <1> QED BY <1>1, <1>2, <1>3

LEMMA ReplacingWorld ==
  ASSUME StoreInv, NEW m \in Machines, NEW f \in Files, NEW v, Replacing(m, f, v)
  PROVE  World'
  <1>1. /\ \A n \in Machines, g \in Files : disk'[n][g] = IF n = m /\ g = f THEN v ELSE disk[n][g]
        /\ Known \subseteq Known' /\ Note \subseteq Note'
        /\ \A g \in Files, x \in Known : Settled(g, x) => Settled(g, x)'
    BY ReplacingSettled
  <1>2. /\ manifest' \in [Machines -> [Files -> Note]]
        /\ \A n \in Machines, g \in Files :
             IF n = m /\ g = f THEN ~Matches(manifest'[n][g]) ELSE manifest'[n][g] = manifest[n][g]
    <2>1. manifest[m][f] \in Note /\ manifest \in [Machines -> [Files -> Note]]
      BY DEF StoreInv, World, Typed
    <2>2. Outdated(manifest[m][f]) \in Note /\ ~Matches(Outdated(manifest[m][f]))
      BY <2>1 DEF Outdated, Note, Matches
    <2>3. manifest' = [manifest EXCEPT ![m][f] = Outdated(manifest[m][f])]
      BY DEF Replacing, Replaced
    <2> QED BY <2>1, <2>2, <2>3
  <1>3. Typed'
    <2>1. disk' \in [Machines -> [Files -> Known']]
      BY <1>1 DEF Replacing, Replaced, StoreInv, World, Typed
    <2>2. manifest' \in [Machines -> [Files -> Note']]
      BY <1>1, <1>2
    <2>3. db' \in [Files -> Row']
      BY <1>1 DEF Replacing, StoreInv, World, Typed, Row
    <2>4. shared' \subseteq Files \X (1..versions')
      BY DEF Replacing, StoreInv, World, Typed
    <2>5. versions' \in 0..MaxVersions /\ raced' \subseteq Place
      BY DEF Replacing, StoreInv, World, Typed
    <2> QED BY <2>1, <2>2, <2>3, <2>4, <2>5 DEF Typed
  <1>4. Rows'
    BY <1>1 DEF Replacing, Rows, StoreInv, World, Typed, Row
  <1>5. Alone'
    <2> SUFFICES ASSUME NEW j \in Machines, NEW k \in Machines, NEW g \in Files,
                        j # k, disk'[j][g] = disk'[k][g], disk'[j][g] # None
                 PROVE  <<g, disk'[j][g]>> \in shared'
      BY DEF Alone
    <2>1. disk[j][g] \in Known /\ disk[k][g] \in Known
      BY DEF StoreInv, World, Typed
    <2>2. CASE g = f /\ (j = m \/ k = m)
      BY <1>1, <2>1, <2>2 DEF Replacing
    <2>3. CASE ~(g = f /\ (j = m \/ k = m))
      BY <1>1, <2>3 DEF Replacing, Alone, StoreInv, World
    <2> QED BY <2>2, <2>3
  <1>6. SyncedIsShared'
    BY <1>1, <1>2 DEF Replacing, SyncedIsShared, StoreInv, World
  <1> QED BY <1>3, <1>4, <1>5, <1>6 DEF World

\* No thread is left with an entry, a sum or a list that the new content belies.
LEMMA ReplacingFits ==
  ASSUME StoreInv, NEW m \in Machines, NEW f \in Files, NEW v, Replacing(m, f, v),
         NEW u \in Threads, NEW r, r = threads[u], NEW n, n = threads'[u],
         n \in Thread',
         n.todo = r.todo, n.shas = r.shas, n.cur.f = r.cur.f, n.cur.note.sha = r.cur.note.sha,
         n.at = r.at \/ (n.at = "record" /\ r.at = "fetch" /\ On[u] = m /\ r.cur.f = f),
         n.wrote = r.wrote \/ n.at = "work",
         n.cur.note.current => r.cur.note.current /\ ~(On[u] = m /\ r.cur.f = f),
         \A g \in Files : /\ n.man[g].sha = r.man[g].sha
                          /\ n.man[g].current => r.man[g].current,
         On[u] = m => ~n.man[f].current
  PROVE  Fits(On[u], threads[u])'
  <1>1. /\ \A k \in Machines, g \in Files : disk'[k][g] = IF k = m /\ g = f THEN v ELSE disk[k][g]
        /\ Known \subseteq Known' /\ Note \subseteq Note'
        /\ \A g \in Files, x \in Known : Settled(g, x) => Settled(g, x)'
    BY ReplacingSettled
  <1>2. Fits(On[u], r) /\ r \in Thread /\ On[u] \in Machines
    BY StoreAssumption DEF StoreInv, Fits
  <1>3. Synced(On[u], threads[u])'
    <2>1. ASSUME NEW g \in Files PROVE Settled(g, threads[u].shas[g])'
      <3>1. Settled(g, r.shas[g]) /\ r.shas[g] \in Known
        BY <1>2 DEF Fits, Synced, Thread
      <3> QED BY <1>1, <3>1 DEF Settled, Replacing
    <2>2. ASSUME NEW g \in Files, Matches(n.man[g]), <<On[u], g>> \notin raced'
          PROVE  <<g, disk'[On[u]][g]>> \in shared'
      <3>1. Matches(r.man[g]) /\ ~(On[u] = m /\ g = f) /\ <<On[u], g>> \notin raced
        BY <2>2 DEF Matches, Replacing
      <3>2. <<g, disk[On[u]][g]>> \in shared
        BY <1>2, <3>1 DEF Fits, Synced
      <3> QED BY <1>1, <1>2, <3>1, <3>2 DEF Replacing
    <2> QED BY <2>1, <2>2 DEF Synced
  <1>4. Pulls(On[u], threads[u])'
    <2>1. n.at \in {"load", "pull", "fetch", "record"} => \A g \in n.todo : n.shas[g] # None
      BY <1>2 DEF Fits, Pulls
    <2>2. ASSUME n.at \in {"fetch", "record"}
          PROVE  /\ n.cur.f \in n.todo /\ n.cur.f \in Files
                 /\ \/ <<On[u], n.cur.f>> \in raced'
                    \/ disk'[On[u]][n.cur.f] = None
                    \/ <<n.cur.f, disk'[On[u]][n.cur.f]>> \in shared'
      <3>1. /\ r.cur.f \in r.todo /\ r.cur.f \in Files
            /\ \/ <<On[u], r.cur.f>> \in raced
               \/ disk[On[u]][r.cur.f] = None
               \/ <<r.cur.f, disk[On[u]][r.cur.f]>> \in shared
        BY <1>2, <2>2 DEF Fits, Pulls, Thread
      <3>2. CASE On[u] = m /\ r.cur.f = f
        BY <1>1, <2>2, <3>1, <3>2 DEF Replacing
      <3>3. CASE ~(On[u] = m /\ r.cur.f = f)
        BY <1>1, <1>2, <3>1, <3>3 DEF Replacing
      <3> QED BY <3>2, <3>3
    <2>3. ASSUME n.at = "fetch" PROVE n.cur.note.sha # None /\ Settled(threads[u].cur.f, threads[u].cur.note.sha)'
      <3>1. /\ r.cur.note.sha # None /\ Settled(r.cur.f, r.cur.note.sha)
            /\ r.cur.f \in Files /\ r.cur.note.sha \in Known
        BY <1>2, <2>3 DEF Fits, Pulls, Thread, Note
      <3> QED BY <1>1, <3>1 DEF Settled, Replacing
    <2>4. ASSUME n.at = "record" PROVE disk'[On[u]][n.cur.f] # None
      <3>1. n.cur.f \in Files
        BY <2>2, <2>4
      <3>2. CASE On[u] = m /\ r.cur.f = f
        BY <1>1, <3>1, <3>2 DEF Replacing
      <3>3. CASE ~(On[u] = m /\ r.cur.f = f)
        BY <1>1, <1>2, <2>4, <3>1, <3>3 DEF Fits, Pulls
      <3> QED BY <3>2, <3>3
    <2> QED BY <2>1, <2>2, <2>3, <2>4 DEF Pulls
  <1>5. ASSUME NEW w \in n.wrote, n.at \in {"push", "upload"}, Safe(On[u], w)
        PROVE  w \in shared' \/ disk'[On[u]][w[1]] # w[2] \/ <<On[u], w[1]>> \in raced'
    <2>1. w = <<w[1], w[2]>> /\ w[1] \in Files /\ w[2] \in Known
      BY <1>2, <1>5 DEF Thread, StoreInv, World, Typed, Known
    <2> QED BY <1>1, <1>2, <1>5, <2>1 DEF Safe, Replacing
  <1>6. Pushes(On[u], threads[u])'
    <2>1. ASSUME n.at \in {"push", "upload"}
          PROVE  /\ \A g \in n.todo : disk'[On[u]][g] # None
                 /\ \A w \in n.wrote : w[1] \in n.todo \/ Safe(On[u], w)'
      <3>1. /\ \A g \in r.todo : disk[On[u]][g] # None /\ g \in Files
            /\ \A w \in r.wrote : w[1] \in r.todo \/ Safe(On[u], w)
        BY <1>2, <2>1 DEF Fits, Pushes, Thread
      <3>2. \A g \in n.todo : disk'[On[u]][g] # None
        BY <1>1, <1>2, <3>1 DEF Replacing
      <3>3. \A w \in n.wrote : w[1] \in n.todo \/ Safe(On[u], w)'
        BY <1>5, <2>1, <3>1 DEF Safe
      <3> QED BY <3>2, <3>3
    <2>2. ASSUME n.at = "upload"
          PROVE  /\ n.cur.f \in n.todo /\ n.cur.note.sha # None
                 /\ n.cur.note.current => disk'[On[u]][n.cur.f] = n.cur.note.sha
                 /\ \A k \in Machines : k # On[u] /\ disk'[k][n.cur.f] = n.cur.note.sha
                                => <<n.cur.f, n.cur.note.sha>> \in shared'
                 /\ \A w \in n.wrote : w[1] = n.cur.f => n.cur.note.sha = w[2] \/ Safe(On[u], w)'
      <3>1. /\ r.cur.f \in r.todo /\ r.cur.note.sha # None
            /\ r.cur.note.current => disk[On[u]][r.cur.f] = r.cur.note.sha
            /\ \A k \in Machines : k # On[u] /\ disk[k][r.cur.f] = r.cur.note.sha
                                => <<r.cur.f, r.cur.note.sha>> \in shared
            /\ \A w \in r.wrote : w[1] = r.cur.f => r.cur.note.sha = w[2] \/ Safe(On[u], w)
            /\ r.cur.f \in Files /\ r.cur.note.sha \in Known
        BY <1>2, <2>2 DEF Fits, Pushes, Thread, Note
      <3>2. n.cur.note.current => disk'[On[u]][n.cur.f] = n.cur.note.sha
        BY <1>1, <1>2, <3>1
      <3>3. \A k \in Machines : k # On[u] /\ disk'[k][n.cur.f] = n.cur.note.sha
                                => <<n.cur.f, n.cur.note.sha>> \in shared'
        BY <1>1, <3>1 DEF Replacing
      <3>4. \A w \in n.wrote : w[1] = n.cur.f => n.cur.note.sha = w[2] \/ Safe(On[u], w)'
        BY <1>5, <2>2, <3>1 DEF Safe
      <3> QED BY <3>1, <3>2, <3>3, <3>4
    <2> QED BY <2>1, <2>2 DEF Pushes
  <1> QED BY <1>3, <1>4, <1>6 DEF Fits

\* A pull replaces a file by what the row announced, chunk by chunk the same.
LEMMA MaterializeKeeps == ASSUME StoreInv, NEW t \in Threads, Materialize(t) PROVE StoreInv'
  <1> DEFINE cur == threads[t].cur
             m   == On[t]
             f   == cur.f
             tail == db[f].tail
  <1>1. /\ threads[t] \in Thread /\ Fits(m, threads[t]) /\ m \in Machines
        /\ threads[t].at = "fetch" /\ f \in Files
        /\ cur.note.sha # None /\ Settled(f, cur.note.sha) /\ cur.note.sha \in Known
    BY StoreAssumption DEF StoreInv, Fits, Pulls, Thread, Note, Materialize, At
  <1>2. CASE Intact(cur, tail)
    <2> DEFINE v == cur.note.sha
    <2>1. <<f, v>> \in shared /\ cur.head = tail /\ tail = v
      BY <1>1, <1>2 DEF Intact, Settled
    <2>2. /\ Replaced(m, f, v) /\ threads' = [Noticing(m, f) EXCEPT ![t].at = "record"]
          /\ UNCHANGED <<db, versions, shared, raced>>
      BY <1>2, <2>1 DEF Materialize
    <2>3. Replacing(m, f, v)
      BY <1>1, <2>1, <2>2 DEF Replacing, StoreInv, World, Typed, Known
    <2> HIDE DEF cur, m, f, tail, v
    <2>4. World'
      BY <1>1, <2>3, ReplacingWorld
    <2>5. ASSUME NEW u \in Threads PROVE Fits(On[u], threads[u])'
      <3> DEFINE r == threads[u]
                 n == Noticing(m, f)[u]
      <3>1. /\ n \in Thread
            /\ n.at = r.at /\ n.todo = r.todo /\ n.shas = r.shas /\ n.wrote = r.wrote
            /\ n.cur.f = r.cur.f /\ n.cur.note.sha = r.cur.note.sha
            /\ n.cur.note.current => r.cur.note.current /\ ~(On[u] = m /\ r.cur.f = f)
            /\ \A g \in Files : /\ n.man[g].sha = r.man[g].sha
                                /\ n.man[g].current => r.man[g].current
            /\ On[u] = m => ~n.man[f].current
        BY <1>1, Noticed
      <3>2. threads'[u] = IF u = t THEN [n EXCEPT !.at = "record"] ELSE n
        BY <2>2 DEF Noticing
      <3>3. Thread' = Thread
        BY <2>2 DEF Thread, Known, Note
      <3> HIDE DEF n
      <3>4. CASE u # t
        BY <1>1, <2>3, <3>1, <3>2, <3>3, <3>4, ReplacingFits
      <3>5. CASE u = t
        <4>1. threads'[u] \in Thread
          BY <3>1, <3>2, <3>5 DEF Thread, Stage
        <4>2. /\ threads'[u].at = "record" /\ threads'[u].todo = n.todo /\ threads'[u].shas = n.shas
              /\ threads'[u].wrote = n.wrote /\ threads'[u].cur = n.cur /\ threads'[u].man = n.man
          BY <3>1, <3>2, <3>5 DEF Thread
        <4> QED BY <1>1, <2>3, <3>1, <3>3, <3>5, <4>1, <4>2, ReplacingFits DEF m, f, cur
      <3> QED BY <3>4, <3>5
    <2>6. DOMAIN threads' = Threads /\ threads' = [u \in Threads |-> threads'[u]]
      BY <2>2 DEF Noticing
    <2> QED BY <2>4, <2>5, <2>6 DEF StoreInv
  <1>3. CASE ~Intact(cur, tail)
    <2> DEFINE r == [threads[t] EXCEPT !.cur =
                 [threads[t].cur EXCEPT !.note.sha = db[f].sha, !.head = db[f].head, !.again = TRUE]]
    <2>1. threads' = [threads EXCEPT ![t] = r] /\ db[f] # NoRow
      BY <1>3 DEF Materialize
    <2>2. db[f].sha \in Known /\ db[f].head \in Known /\ db[f].sha # None /\ Settled(f, db[f].sha)
      BY <1>1, <2>1 DEF StoreInv, World, Typed, Rows, Row
    <2>3. World' /\ UNCHANGED <<disk, db, versions, shared, raced>>
      BY <1>3, SameWorld DEF Materialize
    <2> DEFINE c == [threads[t].cur EXCEPT !.note.sha = db[f].sha, !.head = db[f].head, !.again = TRUE]
    <2>4. /\ c \in [f : Files \cup {None}, note : Note, head : Known, again : BOOLEAN]
          /\ c.f = f /\ c.note.sha = db[f].sha
      BY <1>1, <2>2 DEF Thread, Note
    <2>5. r = [threads[t] EXCEPT !.cur = c]
      OBVIOUS
    <2> HIDE DEF c, r
    <2>6. /\ r \in Thread /\ r.at = "fetch" /\ r.todo = threads[t].todo /\ r.shas = threads[t].shas
          /\ r.man = threads[t].man /\ r.cur = c
      BY <1>1, <2>4, <2>5 DEF Thread
    <2>7. Synced(On[t], r)
      BY <1>1, <2>6 DEF Fits, Synced
    <2>8. Pulls(On[t], r) /\ Pushes(On[t], r)
      BY <1>1, <2>2, <2>4, <2>6 DEF Fits, Pulls, Pushes
    <2> QED BY <2>1, <2>3, <2>6, <2>7, <2>8, OneThread DEF Fits
  <1> QED BY <1>2, <1>3

\* The program writes a file: its content is new.
LEMMA WriteKeeps ==
  ASSUME StoreInv, NEW t \in Threads, NEW f \in Files, Write(t, f) PROVE StoreInv'
  <1> DEFINE m == On[t]
             v == versions + 1
  <1>1. /\ threads[t] \in Thread /\ Fits(m, threads[t]) /\ m \in Machines
        /\ versions \in 0..MaxVersions /\ versions < MaxVersions /\ MaxVersions \in Nat
        /\ threads[t].at = "work" /\ raced \subseteq Place
    BY StoreAssumption DEF StoreInv, World, Typed, Fits, Write, At
  <1>2. /\ Replaced(m, f, v) /\ versions' = v
        /\ threads' = [Noticing(m, f) EXCEPT ![t].wrote = {<<f, v>>}]
        /\ UNCHANGED <<db, shared>>
    BY DEF Write
  <1>3. v # None /\ v \in Known' /\ v \notin Known
    BY <1>1, <1>2 DEF None, Known
  <1>4. /\ raced \subseteq raced' /\ raced' \subseteq Place
        /\ \A u \in Threads : On[u] = m /\ threads[u].cur.f = f /\ threads[u].at \in {"fetch", "record"}
                                => <<m, f>> \in raced'
    <2>1. raced' = raced \/ raced' = raced \cup {<<m, f>>}
      BY DEF Write
    <2>2. ASSUME NEW u \in Threads, On[u] = m, threads[u].cur.f = f, threads[u].at \in {"fetch", "record"}
          PROVE  raced' = raced \cup {<<m, f>>}
      BY <2>2 DEF Write, At
    <2> QED BY <1>1, <2>1, <2>2 DEF Place
  <1>5. Replacing(m, f, v)
    BY <1>1, <1>2, <1>3, <1>4 DEF Replacing
  <1>6. World'
    BY <1>1, <1>5, ReplacingWorld
  <1>7. Thread \subseteq Thread'
    <2>1. Known \subseteq Known' /\ Note \subseteq Note' /\ 1..versions \subseteq 1..versions'
      BY <1>1, <1>2 DEF Known, Note
    <2> HIDE DEF m, v
    <2>2. SUBSET (Files \X (1..versions)) \subseteq SUBSET (Files \X (1..versions'))
      BY <2>1
    <2>3. [Files -> Known] \subseteq [Files -> Known'] /\ [Files -> Note] \subseteq [Files -> Note']
      BY <2>1
    <2>4. [f : Files \cup {None}, note : Note, head : Known, again : BOOLEAN]
            \subseteq [f : Files \cup {None}, note : Note', head : Known', again : BOOLEAN]
      BY <2>1
    <2> QED BY <2>2, <2>3, <2>4 DEF Thread
  <1>8. <<f, v>> \in Files \X (1..versions')
    BY <1>1, <1>2
  <1>9. ASSUME NEW u \in Threads PROVE Fits(On[u], threads[u])'
    <2> HIDE DEF m, v
    <2> DEFINE r == threads[u]
               n == Noticing(m, f)[u]
    <2>1. /\ n \in Thread
          /\ n.at = r.at /\ n.todo = r.todo /\ n.shas = r.shas /\ n.wrote = r.wrote
          /\ n.cur.f = r.cur.f /\ n.cur.note.sha = r.cur.note.sha
          /\ n.cur.note.current => r.cur.note.current /\ ~(On[u] = m /\ r.cur.f = f)
          /\ \A g \in Files : /\ n.man[g].sha = r.man[g].sha
                              /\ n.man[g].current => r.man[g].current
          /\ On[u] = m => ~n.man[f].current
      BY <1>1, Noticed
    <2>2. threads'[u] = IF u = t THEN [n EXCEPT !.wrote = {<<f, v>>}] ELSE n
      BY <1>2 DEF Noticing
    <2> HIDE DEF n
    <2>3. CASE u # t
      BY <1>1, <1>5, <1>7, <2>1, <2>2, <2>3, ReplacingFits
    <2>4. CASE u = t
      <3>1. n \in Thread'
        BY <1>7, <2>1
      <3>2. threads'[u] \in Thread'
        BY <1>8, <2>2, <2>4, <3>1 DEF Thread
      <3>3. /\ threads'[u].at = n.at /\ threads'[u].todo = n.todo /\ threads'[u].shas = n.shas
            /\ threads'[u].cur = n.cur /\ threads'[u].man = n.man
        BY <2>1, <2>2, <2>4 DEF Thread
      <3> QED BY <1>1, <1>5, <2>1, <2>4, <3>2, <3>3, ReplacingFits
    <2> QED BY <2>3, <2>4
  <1>10. DOMAIN threads' = Threads /\ threads' = [u \in Threads |-> threads'[u]]
    BY <1>2 DEF Noticing
  <1> QED BY <1>6, <1>9, <1>10 DEF StoreInv

-----------------------------------------------------------------------------
\* A row and its chunks are replaced: the sum that was noted is the content's, or it
\* is a sum that nothing shows any more.
LEMMA UploadKeeps == ASSUME StoreInv, NEW t \in Threads, Upload(t) PROVE StoreInv'
  <1> SUFFICES ASSUME NEW f, f = threads[t].cur.f,
                      NEW sha, sha = threads[t].cur.note.sha,
                      NEW ver, ver = disk[On[t]][f]
               PROVE  StoreInv'
    OBVIOUS
  <1> DEFINE m   == On[t]
             cur == threads[t].cur
             r   == [threads[t] EXCEPT !.at = "push", !.todo = Left(t, f), !.shas[f] = None, !.dirty = TRUE,
                                       !.cur = NoFile, !.man[f] = cur.note]
  <1>1. /\ threads[t] \in Thread /\ Fits(m, threads[t]) /\ m \in Machines
        /\ threads[t].at = "upload" /\ f \in Files /\ f \in threads[t].todo
        /\ sha # None /\ sha \in Known /\ cur.note \in Note
        /\ ver # None /\ ver \in Known /\ 0 \in Known
    BY StoreAssumption DEF StoreInv, World, Typed, Fits, Pushes, Thread, Note, Known, Upload, At
  <1>2. /\ db' = [db EXCEPT ![f] = [sha |-> sha, head |-> ver, tail |-> ver]]
        /\ shared' = IF ver = sha THEN shared \cup {<<f, ver>>} ELSE shared
        /\ threads' = [threads EXCEPT ![t] = r]
        /\ UNCHANGED <<disk, manifest, versions, raced>>
    BY DEF Upload, Local, SentEntry
  <1>3. /\ cur.note.current => ver = sha
        /\ \A k \in Machines : k # m /\ disk[k][f] = sha => <<f, sha>> \in shared
        /\ \A w \in threads[t].wrote : w[1] = f => sha = w[2] \/ Safe(m, w)
    BY <1>1 DEF Fits, Pushes
  <1>4. /\ r.at = "push" /\ r.todo = Left(t, f) /\ r.wrote = threads[t].wrote
        /\ \A g \in Files : r.shas[g] = IF g = f THEN None ELSE threads[t].shas[g]
        /\ \A g \in Files : r.man[g] = IF g = f THEN cur.note ELSE threads[t].man[g]
    BY <1>1 DEF Thread
  <1>5. r \in Thread
    <2>1. Left(t, f) \in SUBSET Files /\ NoFile \in [f : Files \cup {None}, note : Note, head : Known, again : BOOLEAN]
      BY <1>1 DEF Thread, Left, NoFile, NoEntry, None, Note
    <2> HIDE DEF cur
    <2> QED BY <1>1, <2>1 DEF Thread, Stage, None
  <1> HIDE DEF cur, m, r
  <1>6. /\ \A g \in Files : db'[g] = IF g = f THEN [sha |-> sha, head |-> ver, tail |-> ver] ELSE db[g]
        /\ shared \subseteq shared' /\ (ver = sha => <<f, sha>> \in shared')
    BY <1>1, <1>2 DEF StoreInv, World, Typed
  <1>7. ASSUME NEW g \in Files, NEW x, Settled(g, x) PROVE Settled(g, x)'
    <2>1. CASE g = f /\ x = ver
      BY <1>1, <1>6, <1>7, <2>1 DEF Settled, m
    <2>2. CASE g = f /\ x # ver
      <3>1. db'[g].head = ver /\ db'[g].tail = ver
        BY <1>6, <2>2
      <3> QED BY <1>2, <1>6, <1>7, <2>2, <3>1 DEF Settled
    <2>3. CASE g # f
      <3>1. db'[g] = db[g]
        BY <1>6, <2>3
      <3> QED BY <1>2, <1>6, <1>7, <2>3, <3>1 DEF Settled
    <2> QED BY <2>1, <2>2, <2>3
  <1>8. Settled(f, sha)'
    <2>1. CASE ver = sha
      BY <1>6, <2>1 DEF Settled
    <2>2. CASE ver # sha
      BY <1>1, <1>2, <1>3, <1>6, <2>2 DEF Settled, m
    <2> QED BY <2>1, <2>2
  <1>9. World'
    <2>1. Typed'
      <3>1. db' \in [Files -> Row]
        BY <1>1, <1>2 DEF StoreInv, World, Typed, Row
      <3>2. shared' \subseteq Files \X (1..versions)
        BY <1>1, <1>2 DEF StoreInv, World, Typed, Known, None
      <3> QED BY <1>2, <3>1, <3>2 DEF StoreInv, World, Typed, Known, Note, Row
    <2>2. Rows'
      <3> SUFFICES ASSUME NEW g \in Files
                   PROVE  Settled(g, db[g].sha)' /\ (db'[g] # NoRow => db'[g].sha # None)
        BY DEF Rows
      <3>1. CASE g = f
        BY <1>1, <1>6, <1>8, <3>1 DEF Settled
      <3>2. CASE g # f
        <4>1. Settled(g, db[g].sha) /\ (db[g] # NoRow => db[g].sha # None) /\ db'[g] = db[g]
          BY <1>6, <3>2 DEF StoreInv, World, Rows
        <4> QED BY <1>2, <1>6, <3>2, <4>1 DEF Settled
      <3> QED BY <3>1, <3>2
    <2>3. Alone'
      BY <1>2, <1>6 DEF StoreInv, World, Alone
    <2>4. SyncedIsShared'
      BY <1>2, <1>6 DEF StoreInv, World, SyncedIsShared
    <2> QED BY <2>1, <2>2, <2>3, <2>4 DEF World
  <1>10. Thread' = Thread
    BY <1>2 DEF Thread, Known, Note
  <1>11. ASSUME NEW u \in Threads, u # t PROVE Fits(On[u], threads[u])'
    <2>1. threads'[u] = threads[u] /\ Fits(On[u], threads[u])
      BY <1>2, <1>11 DEF StoreInv
    <2>2. Synced(On[u], threads[u])'
      <3>1. ASSUME NEW g \in Files PROVE Settled(g, threads[u].shas[g])'
        <4>1. Settled(g, threads[u].shas[g])
          BY <2>1 DEF Fits, Synced
        <4>2. \A x : Settled(g, x) => Settled(g, x)'
          BY <1>7
        <4> QED BY <2>1, <4>1, <4>2 DEF Settled
      <3> QED BY <1>2, <1>6, <2>1, <3>1 DEF Fits, Synced
    <2>3. Pulls(On[u], threads[u])'
      <3>1. threads[u].at = "fetch" => Settled(threads[u].cur.f, threads[u].cur.note.sha)'
        <4> SUFFICES ASSUME threads[u].at = "fetch"
                     PROVE  Settled(threads[u].cur.f, threads[u].cur.note.sha)'
          OBVIOUS
        <4>1. Settled(threads[u].cur.f, threads[u].cur.note.sha) /\ threads[u].cur.f \in Files
          BY <2>1 DEF Fits, Pulls, Thread
        <4> QED BY <2>1, <4>1, <1>7 DEF Settled
      <3> QED BY <1>2, <1>6, <2>1, <3>1 DEF Fits, Pulls
    <2>4. Pushes(On[u], threads[u])'
      BY <1>2, <1>6, <2>1 DEF Fits, Pushes, Safe
    <2> QED BY <1>10, <2>1, <2>2, <2>3, <2>4 DEF Fits
  <1>12. Fits(On[t], threads[t])'
    <2>1. threads'[t] = r
      BY <1>2 DEF StoreInv
    <2>2. Synced(On[t], threads[t])'
      <3>1. ASSUME NEW g \in Files, g # f PROVE Settled(g, threads[t].shas[g])'
        <4>1. Settled(g, threads[t].shas[g]) /\ threads'[t].shas[g] = threads[t].shas[g]
          BY <1>1, <1>4, <2>1, <3>1 DEF Fits, Synced
        <4> QED BY <1>2, <1>6, <3>1, <4>1 DEF Settled
      <3>2. Settled(f, threads[t].shas[f])'
        BY <1>1, <1>4, <2>1 DEF Settled
      <3>3. ASSUME NEW g \in Files, Matches(r.man[g]), <<On[t], g>> \notin raced'
            PROVE  <<g, disk'[On[t]][g]>> \in shared'
        <4>1. CASE g = f
          BY <1>2, <1>3, <1>4, <1>6, <3>3, <4>1 DEF Matches, m
        <4>2. CASE g # f
          BY <1>1, <1>2, <1>4, <1>6, <3>3, <4>2 DEF Fits, Synced, m
        <4> QED BY <4>1, <4>2
      <3> QED BY <2>1, <3>1, <3>2, <3>3 DEF Synced
    <2>3. Pulls(On[t], threads[t])'
      BY <1>4, <2>1 DEF Pulls
    <2>4. Pushes(On[t], threads[t])'
      <3>1. \A g \in r.todo : disk'[On[t]][g] # None
        BY <1>1, <1>2, <1>4 DEF Left, Fits, Pushes, m
      <3>2. ASSUME NEW w \in r.wrote PROVE w[1] \in r.todo \/ Safe(On[t], w)'
        <4>1. w = <<w[1], w[2]>> /\ w \in threads[t].wrote
          BY <1>1, <1>4 DEF Thread
        <4>2. w[1] \in threads[t].todo \/ Safe(On[t], w)
          BY <1>1, <4>1 DEF Fits, Pushes, m
        <4>3. CASE Safe(On[t], w)
          BY <1>2, <1>6, <4>3 DEF Safe
        <4>4. CASE w[1] = f
          BY <1>2, <1>3, <1>6, <4>1, <4>4 DEF Safe, m
        <4>5. CASE w[1] # f /\ w[1] \in threads[t].todo
          BY <1>4, <4>5 DEF Left
        <4> QED BY <4>2, <4>3, <4>4, <4>5
      <3> QED BY <1>4, <2>1, <3>1, <3>2 DEF Pushes
    <2> QED BY <1>5, <1>10, <2>1, <2>2, <2>3, <2>4 DEF Fits
  <1>13. DOMAIN threads' = Threads /\ threads' = [u \in Threads |-> threads'[u]]
    BY <1>2 DEF StoreInv
  <1> QED BY <1>9, <1>11, <1>12, <1>13 DEF StoreInv

-----------------------------------------------------------------------------
\* Threads that stop forget everything.
LEMMA StopKeeps == ASSUME StoreInv, NEW T \in SUBSET Threads, Stop(T) PROVE StoreInv'
  <1>1. World'
    BY SameWorld DEF Stop
  <1>2. threads' = [u \in Threads |-> threads'[u]] /\ DOMAIN threads' = Threads
    BY DEF Stop
  <1>3. ASSUME NEW u \in Threads PROVE Fits(On[u], threads[u])'
    <2>1. threads'[u] = IF u \in T THEN Idle ELSE threads[u]
      BY DEF Stop
    <2>2. Fits(On[u], threads'[u])
      BY <2>1, IdleFits, StoreAssumption DEF StoreInv, World
    <2>3. UNCHANGED <<disk, db, versions, shared, raced>>
      BY DEF Stop
    <2>4. threads'[u] \in Thread'
      BY <2>2, <2>3 DEF Fits, Thread, Known, Note
    <2>5. Synced(On[u], threads[u])'
      BY <2>2, <2>3 DEF Fits, Synced, Settled
    <2>6. Pulls(On[u], threads[u])'
      BY <2>2, <2>3 DEF Fits, Pulls, Settled
    <2>7. Pushes(On[u], threads[u])'
      BY <2>2, <2>3 DEF Fits, Pushes, Safe
    <2> QED BY <2>4, <2>5, <2>6, <2>7 DEF Fits
  <1> QED BY <1>1, <1>2, <1>3 DEF StoreInv

\* A stutter.
LEMMA StutterKeeps == ASSUME StoreInv, UNCHANGED vars PROVE StoreInv'
  <1>1. World'
    BY SameWorld DEF vars
  <1>2. ASSUME NEW u \in Threads PROVE Fits(On[u], threads[u])'
    <2>1. Fits(On[u], threads[u])
      BY DEF StoreInv
    <2>2. threads[u]' \in Thread'
      BY <2>1 DEF vars, Fits, Thread, Known, Note
    <2>3. Synced(On[u], threads[u])'
      BY <2>1 DEF vars, Fits, Synced, Settled
    <2>4. Pulls(On[u], threads[u])'
      BY <2>1 DEF vars, Fits, Pulls, Settled
    <2>5. Pushes(On[u], threads[u])'
      BY <2>1 DEF vars, Fits, Pushes, Safe
    <2> QED BY <2>2, <2>3, <2>4, <2>5 DEF Fits
  <1> QED BY <1>1, <1>2 DEF StoreInv, vars

\* Every step keeps the invariant.
LEMMA StepKeeps == StoreInv /\ [Next]_vars => StoreInv'
  <1> SUFFICES ASSUME StoreInv, [Next]_vars PROVE StoreInv'
    OBVIOUS
  <1>1. ASSUME NEW t \in Threads,
               \/ StartPull(t) \/ SkipPull(t) \/ LoadManifest(t) \/ PullFails(t)
               \/ Record(t) \/ EndPull(t) \/ Leave(t)
        PROVE  StoreInv'
    BY <1>1, StartPullKeeps, SkipPullKeeps, LoadManifestKeeps, PullFailsKeeps,
       RecordKeeps, EndPullKeeps, LeaveKeeps
  <1>2. ASSUME NEW t \in Threads,
               Materialize(t) \/ StartPush(t) \/ ReadRows(t) \/ Upload(t) \/ EndPush(t)
        PROVE  StoreInv'
    BY <1>2, MaterializeKeeps, StartPushKeeps, ReadRowsKeeps, UploadKeeps, EndPushKeeps
  <1>3. ASSUME NEW t \in Threads, NEW f \in Files, Look(t, f) \/ Write(t, f) \/ Examine(t, f)
        PROVE  StoreInv'
    BY <1>3, LookKeeps, WriteKeeps, ExamineKeeps
  <1>4. ASSUME NEW t \in Threads, Stop({t}) PROVE StoreInv'
    BY <1>4, StopKeeps
  <1>5. ASSUME NEW m \in Machines, Stop({t \in Threads : On[t] = m}) PROVE StoreInv'
    BY <1>5, StopKeeps
  <1>6. CASE UNCHANGED vars
    BY <1>6, StutterKeeps
  <1> QED BY <1>1, <1>2, <1>3, <1>4, <1>5, <1>6 DEF Next

\* The invariant holds of every behaviour.
LEMMA StoreHolds == Spec => []StoreInv
  BY InitStore, StepKeeps, PTL DEF Spec

-----------------------------------------------------------------------------
\* The variables keep their types: no copy on a disk is ever put together from the
\* chunks of two pushes (_materialize_once), whatever pushes a pull runs into.
THEOREM TypeCorrect == Spec => []TypeOK
  <1>1. StoreInv => TypeOK
    <2> SUFFICES ASSUME StoreInv PROVE TypeOK
      OBVIOUS
    <2>1. versions \in 0..MaxVersions /\ MaxVersions \in Nat
      BY StoreAssumption DEF StoreInv, World, Typed
    <2>2. Known \subseteq Content /\ Note \subseteq Bookmark /\ 1..versions \subseteq Versions
      BY <2>1 DEF Known, Content, Versions, None, Note, Bookmark
    <2>3. /\ disk \in [Machines -> [Files -> Content]]
          /\ manifest \in [Machines -> [Files -> Bookmark]]
          /\ db \in [Files -> [sha : Content, head : Content, tail : Content]]
          /\ shared \subseteq Files \X Versions /\ raced \subseteq Place
      BY <2>2 DEF StoreInv, World, Typed, Row
    <2>4. threads \in [Threads ->
       [at : {"idle", "load", "pull", "fetch", "record", "work", "compare", "push", "upload"},
        todo : SUBSET Files, shas : [Files -> Content], man : [Files -> Bookmark],
        dirty : BOOLEAN, wrote : SUBSET (Files \X Versions),
        cur : [f : Files \cup {None}, note : Bookmark, head : Content, again : BOOLEAN]]]
      <3> DEFINE Thr == [at : Stage, todo : SUBSET Files, shas : [Files -> Content], man : [Files -> Bookmark],
                         dirty : BOOLEAN, wrote : SUBSET (Files \X Versions),
                         cur : [f : Files \cup {None}, note : Bookmark, head : Content, again : BOOLEAN]]
      <3>1. /\ [Files -> Known] \subseteq [Files -> Content] /\ [Files -> Note] \subseteq [Files -> Bookmark]
            /\ SUBSET (Files \X (1..versions)) \subseteq SUBSET (Files \X Versions)
            /\ [f : Files \cup {None}, note : Note, head : Known, again : BOOLEAN]
                 \subseteq [f : Files \cup {None}, note : Bookmark, head : Content, again : BOOLEAN]
        BY <2>2
      <3>2. Thread \subseteq Thr
        BY <3>1 DEF Thread
      <3>3. threads \in [Threads -> Thr]
        BY <3>2 DEF StoreInv, Fits
      <3> QED BY <3>3 DEF Stage
    <2> QED BY <2>1, <2>3, <2>4 DEF TypeOK
  <1> QED BY <1>1, StoreHolds, PTL

\* A file that a saved manifest takes for synchronised is one the database has held:
\* no edit passes for pushed, however the threads of a machine overwrite each
\* other's manifest, fail or stop (push_job_files, pull_job_files).
THEOREM SyncedShared == Spec => []SyncedIsShared
  <1>1. StoreInv => SyncedIsShared
    BY DEF StoreInv, World
  <1> QED BY <1>1, StoreHolds, PTL

\* A pull replaces no content the database has never held, unless it was written
\* after the pull had looked at the file.
THEOREM Kept == Spec => UnpushedKept
  <1>1. ASSUME StoreInv, [Next]_vars
        PROVE  [\A m \in Machines, f \in Files :
                  /\ versions' = versions /\ disk'[m][f] # disk[m][f]
                  /\ disk[m][f] # None /\ <<m, f>> \notin raced
                  => <<f, disk[m][f]>> \in shared]_vars
    <2> SUFFICES ASSUME NEW m \in Machines, NEW f \in Files,
                        versions' = versions, disk'[m][f] # disk[m][f],
                        disk[m][f] # None, <<m, f>> \notin raced
                 PROVE  <<f, disk[m][f]>> \in shared
      OBVIOUS
    <2>1. ~\E t \in Threads, g \in Files : Write(t, g)
      <3>1. versions \in Nat
        BY <1>1, StoreAssumption DEF StoreInv, World, Typed
      <3> QED BY <3>1 DEF Write
    <2>2. disk' # disk
      OBVIOUS
    <2>3. PICK t \in Threads : Materialize(t)
      <3>1. ~\E t \in Threads :
               \/ StartPull(t) \/ SkipPull(t) \/ LoadManifest(t) \/ PullFails(t) \/ Record(t) \/ EndPull(t)
               \/ Leave(t) \/ StartPush(t) \/ ReadRows(t) \/ Upload(t) \/ EndPush(t)
        BY <2>2 DEF StartPull, SkipPull, LoadManifest, PullFails, Record, EndPull, Leave,
                    StartPush, ReadRows, Upload, EndPush
      <3>2. ~\E t \in Threads, g \in Files : Look(t, g) \/ Examine(t, g)
        BY <2>2, ZenonT(30) DEF Look, Examine
      <3>3. \A T : ~Stop(T)
        BY <2>2 DEF Stop
      <3>4. ~UNCHANGED vars
        BY <2>2 DEF vars
      <3> QED BY <1>1, <2>1, <3>1, <3>2, <3>3, <3>4 DEF Next
    <2> DEFINE cur == threads[t].cur
    <2>4. Intact(cur, db[cur.f].tail) /\ Replaced(On[t], cur.f, cur.head)
      BY <2>2, <2>3 DEF Materialize, Intact
    <2>5. On[t] = m /\ cur.f = f
      BY <1>1, <2>4 DEF Replaced, StoreInv, World, Typed
    <2>6. Fits(On[t], threads[t])
      BY <1>1 DEF StoreInv
    <2>7. Pulls(m, threads[t]) /\ threads[t].at = "fetch"
      BY <2>3, <2>5, <2>6 DEF Fits, Materialize, At
    <2> QED BY <2>5, <2>7 DEF Pulls
  <1> QED BY <1>1, StoreHolds, PTL DEF Spec, UnpushedKept

\* A save that is answered, or a phase that is marked, is durable: the database has
\* held what it wrote, or the file was written again since.
THEOREM Durable == Spec => SavedIsDurable
  <1>1. ASSUME StoreInv, [Next]_vars
        PROVE  [\A t \in Threads :
                  EndPush(t) =>
                    \A w \in threads[t].wrote :
                      \/ w \in shared
                      \/ Local(t, w[1]) # w[2]
                      \/ <<On[t], w[1]>> \in raced]_vars
    <2> SUFFICES ASSUME NEW t \in Threads, EndPush(t), NEW w \in threads[t].wrote PROVE Safe(On[t], w)
      BY DEF Safe, Local
    <2>1. Fits(On[t], threads[t])
      BY <1>1 DEF StoreInv
    <2>2. threads[t].at = "push" /\ threads[t].todo = {}
      BY DEF EndPush, At
    <2> QED BY <2>1, <2>2 DEF Fits, Pushes
  <1> QED BY <1>1, StoreHolds, PTL DEF Spec, SavedIsDurable
=============================================================================
