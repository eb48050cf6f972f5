-------------------------- MODULE MCArtifactStore --------------------------
EXTENDS ArtifactStore, TLC

CONSTANTS web, gpu, w1, w2, g1

\* A front end that serves two requests at once, a worker that runs the job; both
\* write every file, as the editor does with what the pipeline has made.
OnMachine == [t \in Threads |-> IF t = g1 THEN gpu ELSE web]
AllWrite  == [m \in Machines |-> Files]

\* Files that only the front end writes, such as the context of the meeting.
WebWrites == [m \in Machines |-> IF m = web THEN Files ELSE {}]

Requests == Permutations({w1, w2} \cap Threads)
=============================================================================
