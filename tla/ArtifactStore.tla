--------------------------- MODULE ArtifactStore ---------------------------
(***************************************************************************)
(* The files of one job when the front end and the workers share no disk   *)
(* (storage.shared_backend: pg).  The database holds the reference copy    *)
(* and each machine a cache of it: a pull brings the rows of the database  *)
(* to the disk, a push the files of the disk to the database, and a local  *)
(* manifest says in which state each file was last synchronised            *)
(* (jobs/artifact_store.py, docs/STOCKAGE_PARTAGE_JOBS.md).                *)
(*                                                                         *)
(* The threads of a machine (requests of the front end, the run of a       *)
(* worker) all do the same: pull, work, push, then answer the request or   *)
(* mark the phase as done.  They share the disk and the manifest without   *)
(* any lock; a transfer works on the manifest it loaded and saves it when  *)
(* it ends.                                                                *)
(*                                                                         *)
(* A content is named by the number of the write that made it, which is    *)
(* also its sha256; a blob has two chunks.  What was noted of the state of *)
(* a file (its size and mtime) is current until the file is replaced: no   *)
(* two states of a file look the same.                                     *)
(***************************************************************************)
EXTENDS Naturals, FiniteSets

CONSTANTS
  Machines,
  Threads,
  Files,
  On,          \* On[t]: the machine of thread t
  Writes,      \* Writes[m]: the files the program writes on machine m
  Lazy,        \* the machines whose requests may skip the pull (throttled, best effort)
  MaxVersions  \* bound of the model: contents written

ASSUME StoreAssumption ==
  /\ On \in [Threads -> Machines]
  /\ Writes \in [Machines -> SUBSET Files]
  /\ Lazy \subseteq Machines
  /\ MaxVersions \in Nat

VARIABLES
  disk,      \* disk[m][f]: the content of file f on machine m
  manifest,  \* manifest[m][f]: its state when it was last synchronised
  db,        \* db[f]: the row of file f and its two chunks
  threads,   \* what each thread is doing
  versions,  \* how many contents have been written
  shared,    \* history: the contents the database has held, file by file
  raced      \* history: the files written while a pull was replacing them

vars == <<disk, manifest, db, threads, versions, shared, raced>>

None     == 0
Versions == 1..MaxVersions
Content  == {None} \cup Versions
NoEntry  == [sha |-> None, current |-> FALSE]
NoRow    == [sha |-> None, head |-> None, tail |-> None]
Place    == Machines \X Files

\* cur: the file in hand, what was noted of it, the chunk read.
NoFile == [f |-> None, note |-> NoEntry, head |-> None, again |-> FALSE]
Idle   == [at |-> "idle", todo |-> {}, shas |-> [f \in Files |-> None],
           man |-> [f \in Files |-> NoEntry], dirty |-> FALSE, cur |-> NoFile, wrote |-> {}]

Init ==
  /\ disk = [m \in Machines |-> [f \in Files |-> None]]
  /\ manifest = [m \in Machines |-> [f \in Files |-> NoEntry]]
  /\ db = [f \in Files |-> NoRow]
  /\ threads = [t \in Threads |-> Idle]
  /\ versions = 0 /\ shared = {} /\ raced = {}

At(t, where) == threads[t].at = where
Local(t, f)  == disk[On[t]][f]
Entry(t, f)  == threads[t].man[f]
Left(t, f)   == threads[t].todo \ {f}
Matches(entry) == entry.sha # None /\ entry.current

\* File f of machine m is replaced: whatever was noted of it is not current any more.
Outdated(entry) == [entry EXCEPT !.current = FALSE]
Replaced(m, f, ver) ==
  /\ disk' = [disk EXCEPT ![m][f] = ver]
  /\ manifest' = [manifest EXCEPT ![m][f] = Outdated(@)]
Noticing(m, f) ==
  [t \in Threads |->
     IF On[t] # m THEN threads[t]
     ELSE [threads[t] EXCEPT !.man[f] = Outdated(@),
                             !.cur.note = IF threads[t].cur.f = f THEN Outdated(@) ELSE @]]

Resting(t) == [Idle EXCEPT !.at = "work", !.wrote = threads[t].wrote]

----------------------------------------------------------------------------
\* pull_job_files: the rows are read, then the manifest; the files follow.

StartPull(t) ==
  /\ At(t, "idle")
  /\ threads' = [threads EXCEPT ![t] =
       [Idle EXCEPT !.at = "load", !.todo = {f \in Files : db[f].sha # None},
                    !.shas = [f \in Files |-> db[f].sha]]]
  /\ UNCHANGED <<disk, manifest, db, versions, shared, raced>>

LoadManifest(t) ==
  /\ At(t, "load")
  /\ threads' = [threads EXCEPT ![t].at = "pull", ![t].man = manifest[On[t]]]
  /\ UNCHANGED <<disk, manifest, db, versions, shared, raced>>

\* Requests that follow each other closely do not pull.
SkipPull(t) ==
  /\ At(t, "idle") /\ On[t] \in Lazy
  /\ threads' = [threads EXCEPT ![t] = Resting(t)]
  /\ UNCHANGED <<disk, manifest, db, versions, shared, raced>>

\* Mutant: a file that was modified here is replaced as well.
WantedAnyway(t, f) == Local(t, f) = None \/ Entry(t, f).sha # threads[t].shas[f]

\* The file is missing, or it is as last synchronised and the row has changed.
Wanted(t, f) ==
  \/ Local(t, f) = None
  \/ /\ Matches(Entry(t, f))
     /\ Entry(t, f).sha # threads[t].shas[f]

\* A file that no manifest knows and that equals the row is adopted; any other
\* file that is not wanted stays as it is.
Look(t, f) ==
  /\ At(t, "pull") /\ f \in threads[t].todo
  /\ threads' = [threads EXCEPT ![t] =
       IF Wanted(t, f)
       THEN [@ EXCEPT !.at = "fetch",
                      !.cur = [f |-> f, note |-> [sha |-> threads[t].shas[f], current |-> FALSE],
                               head |-> db[f].head, again |-> FALSE]]
       ELSE IF Entry(t, f) = NoEntry /\ Local(t, f) = @.shas[f]
       THEN [@ EXCEPT !.todo = Left(t, f), !.shas[f] = None, !.dirty = TRUE,
                      !.man[f] = [sha |-> Local(t, f), current |-> TRUE]]
       ELSE [@ EXCEPT !.todo = Left(t, f), !.shas[f] = None]]
  /\ UNCHANGED <<disk, manifest, db, versions, shared, raced>>

\* Mutant: the sum of what was read is not compared with the row's.
IntactUnchecked(cur, tail) == cur.head # None /\ tail # None

Intact(cur, tail) == cur.head = cur.note.sha /\ tail = cur.note.sha

\* The last chunk is read.  The sum is right: the file is replaced.  It is not: the
\* row is read again, once.
Materialize(t) ==
  LET cur == threads[t].cur
      m   == On[t]
      f   == cur.f
  IN  /\ At(t, "fetch")
      /\ \/ /\ Intact(cur, db[f].tail)
            /\ Replaced(m, f, IF cur.head = db[f].tail THEN cur.head ELSE MaxVersions + 1)
            /\ threads' = [Noticing(m, f) EXCEPT ![t].at = "record"]
         \/ /\ ~Intact(cur, db[f].tail) /\ ~cur.again /\ db[f] # NoRow
            /\ threads' = [threads EXCEPT ![t].cur =
                 [@ EXCEPT !.note.sha = db[f].sha, !.head = db[f].head, !.again = TRUE]]
            /\ UNCHANGED <<disk, manifest>>
      /\ UNCHANGED <<db, versions, shared, raced>>

\* The sum is wrong twice: the pull fails and its manifest is lost.  The front end
\* goes on, the run of a worker fails.
PullFails(t) ==
  /\ At(t, "fetch")
  /\ ~Intact(threads[t].cur, db[threads[t].cur.f].tail) /\ threads[t].cur.again
  /\ threads' = [threads EXCEPT ![t] = IF On[t] \in Lazy THEN Resting(t) ELSE Idle]
  /\ UNCHANGED <<disk, manifest, db, versions, shared, raced>>

\* The manifest takes the state of the file as it now is, and the sum of the row as
\* it was first read.
Record(t) ==
  LET f == threads[t].cur.f
  IN  /\ At(t, "record")
      /\ threads' = [threads EXCEPT ![t] =
           [@ EXCEPT !.at = "pull", !.todo = Left(t, f), !.shas[f] = None, !.dirty = TRUE, !.cur = NoFile,
                     !.man[f] = [sha |-> threads[t].shas[f], current |-> TRUE]]]
      /\ UNCHANGED <<disk, manifest, db, versions, shared, raced>>

Saved(t) == IF threads[t].dirty THEN [manifest EXCEPT ![On[t]] = threads[t].man] ELSE manifest

EndPull(t) ==
  /\ At(t, "pull") /\ threads[t].todo = {}
  /\ manifest' = Saved(t)
  /\ threads' = [threads EXCEPT ![t] = Resting(t)]
  /\ UNCHANGED <<disk, db, versions, shared, raced>>

----------------------------------------------------------------------------
\* The handler of a request, or a phase of the pipeline.

\* A write publishes its file in one step (JobFilesystem._atomic_write).
Write(t, f) ==
  LET m == On[t]
  IN  /\ At(t, "work") /\ threads[t].wrote = {}
      /\ f \in Writes[m] /\ versions < MaxVersions
      /\ versions' = versions + 1
      /\ Replaced(m, f, versions + 1)
      /\ raced' = IF \E u \in Threads : /\ On[u] = m /\ threads[u].cur.f = f
                                        /\ At(u, "fetch") \/ At(u, "record")
                  THEN raced \cup {<<m, f>>} ELSE raced
      /\ threads' = [Noticing(m, f) EXCEPT ![t].wrote = {<<f, versions + 1>>}]
      /\ UNCHANGED <<db, shared>>

\* A request that only reads, a run that ends.
Leave(t) ==
  /\ At(t, "work") /\ threads[t].wrote = {}
  /\ threads' = [threads EXCEPT ![t] = Idle]
  /\ UNCHANGED <<disk, manifest, db, versions, shared, raced>>

----------------------------------------------------------------------------
\* push_job_files: the manifest is read, then the rows; the files follow.

StartPush(t) ==
  /\ At(t, "work")
  /\ threads' = [threads EXCEPT ![t].at = "compare", ![t].man = manifest[On[t]]]
  /\ UNCHANGED <<disk, manifest, db, versions, shared, raced>>

ReadRows(t) ==
  /\ At(t, "compare")
  /\ threads' = [threads EXCEPT ![t] =
       [@ EXCEPT !.at = "push", !.todo = {f \in Files : Local(t, f) # None},
                 !.shas = [f \in Files |-> db[f].sha]]]
  /\ UNCHANGED <<disk, manifest, db, versions, shared, raced>>

\* Mutant: whether the file has been written since is not looked at.
InStepBySum(t, f) == Entry(t, f).sha # None /\ threads[t].shas[f] = Entry(t, f).sha

\* The file is as last synchronised, and so is the row.
InStep(t, f) ==
  Matches(Entry(t, f)) /\ threads[t].shas[f] = Entry(t, f).sha

\* Its state is noted, then its sum computed and compared with the row's.
Examine(t, f) ==
  LET entry == [sha |-> Local(t, f), current |-> TRUE]
  IN  /\ At(t, "push") /\ f \in threads[t].todo
      /\ threads' = [threads EXCEPT ![t] =
           IF InStep(t, f)
           THEN [@ EXCEPT !.todo = Left(t, f), !.shas[f] = None]
           ELSE IF @.shas[f] = entry.sha
           THEN [@ EXCEPT !.todo = Left(t, f), !.shas[f] = None, !.dirty = TRUE, !.man[f] = entry]
           ELSE [@ EXCEPT !.at = "upload",
                          !.cur = [NoFile EXCEPT !.f = f, !.note = entry]]]
      /\ UNCHANGED <<disk, manifest, db, versions, shared, raced>>

\* Mutant: its state is read after it was sent.
SentEntryNow(t) == [threads[t].cur.note EXCEPT !.current = TRUE]

\* What the manifest keeps of the file that was just sent.
SentEntry(t) == threads[t].cur.note

\* The file is read again and replaces the row and its chunks, in one transaction.
Upload(t) ==
  LET cur  == threads[t].cur
      f    == cur.f
      ver  == Local(t, f)
  IN  /\ At(t, "upload")
      /\ db' = [db EXCEPT ![f] = [sha |-> cur.note.sha, head |-> ver, tail |-> ver]]
      /\ shared' = IF ver = cur.note.sha THEN shared \cup {<<f, ver>>} ELSE shared
      /\ threads' = [threads EXCEPT ![t] =
           [@ EXCEPT !.at = "push", !.todo = Left(t, f), !.shas[f] = None, !.dirty = TRUE, !.cur = NoFile,
                     !.man[f] = SentEntry(t)]]
      /\ UNCHANGED <<disk, manifest, versions, raced>>

\* The request is answered, the phase marked as done; a run may have other phases.
EndPush(t) ==
  /\ At(t, "push") /\ threads[t].todo = {}
  /\ manifest' = Saved(t)
  /\ \E next \in {"idle", "work"} :
       /\ next = "work" => On[t] \notin Lazy
       /\ threads' = [threads EXCEPT ![t] = [Idle EXCEPT !.at = next]]
  /\ UNCHANGED <<disk, db, versions, shared, raced>>

----------------------------------------------------------------------------
\* A transfer fails (its manifest is lost, what it has committed stays), or its
\* machine stops.
Stop(T) ==
  /\ \E t \in T : ~At(t, "idle")
  /\ threads' = [t \in Threads |-> IF t \in T THEN Idle ELSE threads[t]]
  /\ UNCHANGED <<disk, manifest, db, versions, shared, raced>>

Next ==
  \/ \E t \in Threads :
       \/ StartPull(t) \/ SkipPull(t) \/ LoadManifest(t) \/ Materialize(t) \/ PullFails(t)
       \/ Record(t) \/ EndPull(t) \/ Leave(t) \/ StartPush(t) \/ ReadRows(t) \/ Upload(t) \/ EndPush(t)
       \/ \E f \in Files : Look(t, f) \/ Write(t, f) \/ Examine(t, f)
       \/ Stop({t})
  \/ \E m \in Machines : Stop({t \in Threads : On[t] = m})

Spec == Init /\ [][Next]_vars

----------------------------------------------------------------------------
(* Properties.                                                             *)

Bookmark == [sha : Content, current : BOOLEAN]

\* Every copy on a disk is one content, whole: two chunks of two pushes never make
\* a file (_materialize_once), and an entry or a row names a content.
TypeOK ==
  /\ disk \in [Machines -> [Files -> Content]]
  /\ manifest \in [Machines -> [Files -> Bookmark]]
  /\ db \in [Files -> [sha : Content, head : Content, tail : Content]]
  /\ threads \in [Threads ->
       [at : {"idle", "load", "pull", "fetch", "record", "work", "compare", "push", "upload"},
        todo : SUBSET Files, shas : [Files -> Content], man : [Files -> Bookmark],
        dirty : BOOLEAN, wrote : SUBSET (Files \X Versions),
        cur : [f : Files \cup {None}, note : Bookmark, head : Content, again : BOOLEAN]]]
  /\ versions \in 0..MaxVersions
  /\ shared \subseteq Files \X Versions
  /\ raced \subseteq Place

\* A file the manifest takes for synchronised is one the database has held: whatever
\* threads overwrite each other's manifest, fail or stop, no edit passes for pushed.
SyncedIsShared ==
  \A m \in Machines, f \in Files :
    Matches(manifest[m][f]) /\ <<m, f>> \notin raced
      => <<f, disk[m][f]>> \in shared

\* A pull replaces no content the database has never held, unless it was written
\* after the pull had looked: "un fichier local modifie mais non pousse n'est jamais
\* ecrase" (artifact_store.py, the module's docstring).
UnpushedKept ==
  [][\A m \in Machines, f \in Files :
       /\ versions' = versions /\ disk'[m][f] # disk[m][f]
       /\ disk[m][f] # None /\ <<m, f>> \notin raced
       => <<f, disk[m][f]>> \in shared]_vars

\* A save that is answered, or a phase that is marked, is durable: the database has
\* held what it wrote, or the file was written again since (routes.py, the hook that
\* pushes after a write; CheckpointManager.checkpoint).
SavedIsDurable ==
  [][\A t \in Threads :
       EndPush(t) =>
         \A w \in threads[t].wrote :
           \/ w \in shared
           \/ Local(t, w[1]) # w[2]
           \/ <<On[t], w[1]>> \in raced]_vars
=============================================================================
