--------------------------- MODULE MCJobExecution ---------------------------
(***************************************************************************)
(* Instances of JobExecution for TLC.  Jobs and handlers are model values; *)
(* the actions compare them for equality only, so both are interchangeable *)
(* in the runs that check no liveness.                                     *)
(***************************************************************************)
EXTENDS JobExecution, TLC

Symmetry == Permutations(Jobs) \cup Permutations(Handlers)

\* What tells two states apart in a run without restarts: not the corrected files,
\* which only a reconciliation looks at, nor the fields of a thread that are written
\* again before they are read.
Visible ==
  <<tables, audio, workers, restart,
    [disp EXCEPT !.job = IF disp.pc \in {"drop", "claim", "submit"} THEN @ ELSE NoJob,
                 !.drop = IF disp.pc = "drop" THEN @ ELSE NoEntry],
    [h \in Handlers |->
       [hand[h] EXCEPT !.seen = IF hand[h].pc = "enqueue" THEN @ ELSE NoEntry,
                       !.kind = IF hand[h].pc \in {"lookup", "enqueue", "queued", "ready",
                                                   "decide"} THEN @ ELSE "none"]]>>
=============================================================================
