-------------------------- MODULE Questions_proofs --------------------------
(***************************************************************************)
(* What holds of Questions for every number of questions, every set of     *)
(* meetings and processes, and any number of crashes and handovers.        *)
(*                                                                         *)
(* AnswerInv is the inductive invariant.  A question that is handled has   *)
(* left the queue, has one handler and no answer yet (Handled); an answer  *)
(* and its request are written together and part only by an expiry or a    *)
(* deletion that had begun before (Answers); whoever is about to expire a  *)
(* question saw it late, and overrun if it may still be answered (Doomed); *)
(* what a deletion under way has not seen of its meeting was recorded      *)
(* while it ran (Forgets), and nothing else cites a meeting that is gone   *)
(* (NoGhostMeeting); what is sent, and what later questions replay of it,  *)
(* rests on candidates (Sources).                                          *)
(***************************************************************************)
EXTENDS Questions, TLAPS

Answering(w) == threads[w].at \in {"ready", "call", "filter", "commit"}

Handled ==
  /\ \A w \in Workers : Handling(w) =>
       /\ ~Has(threads[w].q, {"none", "waiting", "done", "gone"})
       /\ \A t \in turns : t.q # threads[w].q
  /\ \A v, w \in Workers : Handling(v) /\ Handling(w) /\ threads[v].q = threads[w].q => v = w

Answers ==
  /\ AllOrNothing
  /\ \A t, u \in turns : t.q = u.q => t = u
  /\ \A q \in Questions : rows[q].cites # {} => \E t \in turns : t.q = q
  /\ \A q \in Questions : Has(q, {"gone"}) => rows[q].cites = {}

\* What the page or a worker is about to expire.
Expiring == page \cup UNION {threads[w].stale : w \in Workers}
Doomed ==
  /\ \A q \in Questions : rows[q].overrun /\ Has(q, {"none", "waiting", "running"}) => rows[q].late
  /\ \A q \in Expiring :
       /\ ~Has(q, {"none"})
       /\ Has(q, {"waiting"}) \/ (\E w \in Workers : Handling(w) /\ threads[w].q = q) => rows[q].late
       /\ Has(q, {"done"}) \/ (\E w \in Workers : Answering(w) /\ threads[w].q = q) => rows[q].overrun

\* What a deletion has selected of the answers and requests that cite its meeting.
Forgets ==
  \A m \in Meetings :
    /\ \A q \in forget[m].turns \cup forget[m].rows : Has(q, {"gone"}) \/ m \in rows[q].cites
    /\ forget[m].at # "none" =>
         \A t \in turns : m \in t.cites => t.q \in forget[m].turns \/ m \in rows[t.q].raced
    /\ forget[m].at = "rows" =>
         /\ \A q \in Questions : m \in rows[q].cites => q \in forget[m].rows \/ m \in rows[q].raced
         /\ \A q \in forget[m].turns : Has(q, {"gone"}) \/ q \in forget[m].rows

Sources ==
  /\ \A t \in turns : t.about \cap meetings \subseteq t.cites
  /\ \A w \in Workers :
       /\ ~Handling(w) => threads[w].cands = {} /\ threads[w].sent = {}
       /\ threads[w].cands \subseteq Allowed(threads[w].q)
       /\ threads[w].sent \cap meetings \subseteq Allowed(threads[w].q)
       /\ At(w, "commit") => threads[w].about \cap meetings \subseteq threads[w].cites

AnswerInv ==
  TypeOK /\ Handled /\ Answers /\ Doomed /\ Forgets /\ NoGhostMeeting /\ Sources

AThread == Thread(Searching, {NoQuestion}) \cup Thread(Handles, Questions)

-----------------------------------------------------------------------------
(* The types.                                                               *)

\* A thread that handles or claims a question has one; every thread has its fields.
LEMMA ThreadTyped ==
  ASSUME TypeOK, NEW w \in Workers
  PROVE  /\ threads[w] \in AThread
         /\ threads[w].at \in Handles => threads[w] \in Thread(Handles, Questions)
                                         /\ threads[w].q \in Questions
  <1>1. threads[w] \in AThread
    BY DEF TypeOK, AThread
  <1>2. Searching \cap Handles = {}
    BY DEF Searching, Handles
  <1> QED BY <1>1, <1>2 DEF AThread, Thread

\* A thread that waits for the next question.
LEMMA IdleTyped ==
  /\ Idle \in AThread /\ [Idle EXCEPT !.at = "select"] \in AThread
  BY DEF Idle, AThread, Thread, Searching, Statuses

\* A step of one thread.
LEMMA OneThread ==
  ASSUME TypeOK, NEW w \in Workers, NEW r \in AThread, threads' = [threads EXCEPT ![w] = r]
  PROVE  /\ threads' \in [Workers -> AThread]
         /\ \A v \in Workers : threads'[v] = IF v = w THEN r ELSE threads[v]
  BY DEF TypeOK, AThread

\* A row of which some fields change.
LEMMA OneRow ==
  ASSUME TypeOK, NEW q \in Questions, NEW r \in Row, rows' = [rows EXCEPT ![q] = r]
  PROVE  /\ rows' \in [Questions -> Row]
         /\ \A p \in Questions : rows'[p] = IF p = q THEN r ELSE rows[p]
  BY DEF TypeOK

\* Failing some rows changes their status and nothing else.
LEMMA FailedTyped ==
  ASSUME TypeOK, NEW some
  PROVE  /\ Failed(some) \in [Questions -> Row]
         /\ \A p \in Questions :
              /\ Failed(some)[p].status = IF p \in some THEN "failed" ELSE rows[p].status
              /\ Failed(some)[p].cites = rows[p].cites
              /\ Failed(some)[p].late = rows[p].late
              /\ Failed(some)[p].overrun = rows[p].overrun
              /\ Failed(some)[p].raced = rows[p].raced
  <1>1. \A p \in Questions : rows[p] \in Row
    BY DEF TypeOK
  <1>2. \A p \in Questions : [rows[p] EXCEPT !.status = "failed"] \in Row
    BY <1>1 DEF Row, Statuses
  <1> QED BY <1>1, <1>2 DEF Failed, Row

-----------------------------------------------------------------------------
(* The steps of a thread.                                                   *)

\* What is being expired are questions.
LEMMA ExpiringTyped ==
  ASSUME TypeOK
  PROVE  Expiring \subseteq Questions
  BY DEF Expiring, TypeOK, Thread

\* Nothing more is doomed where nothing more is handled, answered or being expired.
LEMMA DoomedKept ==
  ASSUME TypeOK, Doomed, Expiring' \subseteq Expiring,
         \A v \in Workers : Handling(v)' =>
           Handling(v) /\ threads'[v].q = threads[v].q /\ (Answering(v)' => Answering(v)),
         \A q \in Questions :
           /\ rows'[q].late = rows[q].late /\ rows'[q].overrun = rows[q].overrun
           /\ rows'[q].status \in {rows[q].status, "failed"}
  PROVE  Doomed'
  <1>1. /\ Expiring \subseteq Questions
        /\ \A v \in Workers : Answering(v)' => Handling(v)'
    BY ExpiringTyped DEF Answering, Handling, Handles
  <1>2. \A q \in Questions, some \in {{"none"}, {"waiting"}, {"done"}, {"none", "waiting", "running"}} :
          Has(q, some)' => Has(q, some)
    BY DEF Has
  <1> QED BY <1>1, <1>2 DEF Doomed

\* A step that neither answers nor deletes is nothing to the deletions under way.
LEMMA ForgetsKept ==
  ASSUME TypeOK, Forgets, UNCHANGED <<turns, forget>>,
         \A q \in Questions :
           /\ rows'[q].cites = rows[q].cites /\ rows'[q].raced = rows[q].raced
           /\ rows[q].status = "gone" => rows'[q].status = "gone"
  PROVE  Forgets'
  <1>1. \A m \in Meetings : forget[m].turns \cup forget[m].rows \subseteq Questions
    BY DEF TypeOK, Forgetting
  <1>2. \A t \in turns : t.q \in Questions
    BY DEF TypeOK, Turn
  <1>3. \A q \in Questions : Has(q, {"gone"}) => Has(q, {"gone"})'
    BY DEF Has
  <1> QED BY <1>1, <1>2, <1>3 DEF Forgets

\* The candidates are the meetings the question may be answered from; a question that
\* somebody is expiring is late, and goes no further.
LEMMA PrepareStep ==
  ASSUME AnswerInv, NEW w \in Workers, Prepare(w)
  PROVE  AnswerInv'
  <1> DEFINE r == [threads[w] EXCEPT !.at = "ready", !.cands = meetings \cap Allowed(threads[w].q)]
  <1> USE DEF AnswerInv
  <1>1. threads[w] \in Thread(Handles, Questions)
    BY ThreadTyped DEF Prepare, At, Handles
  <1>2. r \in Thread(Handles, Questions)
    BY <1>1 DEF Thread, Handles, Prepare, TypeOK
  <1>3. threads' \in [Workers -> AThread]
        /\ \A v \in Workers : threads'[v] = IF v = w THEN r ELSE threads[v]
    BY <1>2, OneThread, ZenonT(30) DEF Prepare, AThread
  <1>4. /\ UNCHANGED <<rows, turns, meetings, forget, page, active, restarts>>
        /\ threads[w].at = "prepare" /\ ~rows[threads[w].q].late
    BY DEF Prepare, At
  <1>5. /\ r.at = "ready" /\ r.q = threads[w].q /\ r.stale = threads[w].stale
        /\ r.sent = threads[w].sent /\ r.cands \subseteq Allowed(r.q)
    BY <1>1 DEF Thread
  <1> HIDE DEF r
  <1>6. TypeOK'
    BY <1>3, <1>4 DEF TypeOK, AThread, Deleting
  <1>7. Handled'
    BY <1>3, <1>4, <1>5 DEF Handled, Handling, Handles, Has
  <1>8. Answers' /\ NoGhostMeeting'
    BY <1>4 DEF Answers, AllOrNothing, NoGhostMeeting, Has
  <1>9. Doomed'
    <2>1. Expiring' = Expiring
      BY <1>3, <1>4, <1>5 DEF Expiring
    <2>2. threads[w].q \notin Expiring
      BY <1>4 DEF Doomed, Handling, Handles
    <2>3. \A v \in Workers : Handling(v)' => Handling(v) /\ threads'[v].q = threads[v].q
      BY <1>3, <1>4, <1>5 DEF Handling, Handles
    <2>4. \A v \in Workers : v # w /\ Answering(v)' => Answering(v) /\ threads'[v].q = threads[v].q
      BY <1>3 DEF Answering
    <2>5. threads'[w].q \notin Expiring
      BY <1>3, <1>5, <2>2
    <2> QED BY <1>4, <2>1, <2>3, <2>4, <2>5 DEF Doomed, Has
  <1>10. Sources'
    BY <1>3, <1>4, <1>5 DEF Sources, Handling, Handles, At, Allowed
  <1>11. Forgets'
    BY <1>4, ForgetsKept
  <1> QED BY <1>6, <1>7, <1>8, <1>9, <1>10, <1>11

\* The row of the question is done with; the thread is idle.
LEMMA GiveUpStep ==
  ASSUME AnswerInv, NEW w \in Workers, GiveUp(w)
  PROVE  AnswerInv'
  <1> DEFINE some == {p \in {threads[w].q} : Has(p, {"running"})}
  <1> USE DEF AnswerInv
  <1>1. threads' \in [Workers -> AThread]
        /\ \A v \in Workers : threads'[v] = IF v = w THEN Idle ELSE threads[v]
    BY IdleTyped, OneThread DEF GiveUp
  <1>2. /\ UNCHANGED <<turns, meetings, forget, page, active, restarts>>
        /\ rows' = Failed(some) /\ Handling(w)
    BY DEF GiveUp, FailRunning, Handling, Handles
  <1>3. \A p \in some : Has(p, {"running"})
    OBVIOUS
  <1> HIDE DEF some
  <1>4. /\ rows' \in [Questions -> Row]
        /\ \A p \in Questions :
             /\ rows'[p].status = IF p \in some THEN "failed" ELSE rows[p].status
             /\ rows'[p].cites = rows[p].cites
             /\ rows'[p].late = rows[p].late /\ rows'[p].overrun = rows[p].overrun
             /\ rows'[p].raced = rows[p].raced
    BY <1>2, FailedTyped
  <1>5. TypeOK'
    BY <1>1, <1>2, <1>4 DEF TypeOK, AThread, Deleting
  <1>6. Handled'
    BY <1>1, <1>2, <1>3, <1>4, ThreadTyped DEF Handled, Handling, Handles, Has, Idle
  <1>7. \A t \in turns : t.q \in Questions /\ t.q \notin some
    BY <1>3 DEF Answers, AllOrNothing, Has, TypeOK, Turn
  <1>8. Answers'
    BY <1>2, <1>3, <1>4, <1>7 DEF Answers, AllOrNothing, Has
  <1>9. Doomed'
    <2>1. Expiring' \subseteq Expiring
      BY <1>1, <1>2 DEF Expiring, Idle
    <2>2. \A v \in Workers : Handling(v)' =>
            Handling(v) /\ threads'[v].q = threads[v].q /\ (Answering(v)' => Answering(v))
      BY <1>1 DEF Handling, Handles, Answering, Idle
    <2> QED BY <1>4, <2>1, <2>2, DoomedKept
  <1>10. NoGhostMeeting' /\ Sources'
    BY <1>1, <1>2, <1>4 DEF NoGhostMeeting, Sources, Handling, Handles, At, Allowed, Idle
  <1>11. Forgets'
    BY <1>2, <1>3, <1>4, ForgetsKept DEF Has
  <1> QED BY <1>5, <1>6, <1>8, <1>9, <1>10, <1>11

\* Given back, the question waits again, with nobody and nothing answered.
LEMMA ReleaseStep ==
  ASSUME AnswerInv, NEW w \in Workers, Release(w)
  PROVE  AnswerInv'
  <1> DEFINE q == threads[w].q
  <1> DEFINE r == IF Has(q, {"running"}) THEN [rows[q] EXCEPT !.status = "waiting", !.overrun = FALSE]
                  ELSE rows[q]
  <1> USE DEF AnswerInv
  <1>1. threads' \in [Workers -> AThread]
        /\ \A v \in Workers : threads'[v] = IF v = w THEN Idle ELSE threads[v]
    BY IdleTyped, OneThread DEF Release
  <1>2. /\ UNCHANGED <<turns, meetings, forget, page, active, restarts>>
        /\ Handling(w) /\ q \in Questions /\ rows[q] \in Row
    BY ThreadTyped DEF Release, At, Handling, Handles, TypeOK
  <1>3. rows' = [rows EXCEPT ![q] = r]
    BY <1>2 DEF Release, TypeOK
  <1>4. /\ r \in Row /\ r.cites = rows[q].cites /\ r.late = rows[q].late /\ r.raced = rows[q].raced
        /\ r.overrun => rows[q].overrun
        /\ r.status = "waiting" \/ r.status = rows[q].status
        /\ r.overrun => r.status = rows[q].status
    BY <1>2 DEF Row, Statuses
  <1> HIDE DEF q, r
  <1>5. /\ rows' \in [Questions -> Row]
        /\ \A p \in Questions : rows'[p] = IF p = q THEN r ELSE rows[p]
    BY <1>2, <1>3, <1>4, OneRow
  <1>6. TypeOK'
    BY <1>1, <1>2, <1>5 DEF TypeOK, AThread, Deleting
  <1>7. /\ \A v \in Workers : v # w /\ Handling(v) => threads[v].q # q
        /\ \A t \in turns : t.q # q /\ t.q \in Questions
        /\ ~Has(q, {"none", "waiting", "done", "gone"})
    BY <1>2 DEF Handled, q, TypeOK, Turn
  <1>8. Handled'
    BY <1>1, <1>2, <1>5, <1>7, ThreadTyped DEF Handled, Handling, Handles, Has, Idle
  <1>9. Answers'
    BY <1>2, <1>4, <1>5, <1>7 DEF Answers, AllOrNothing, Has
  <1>10. Doomed'
    <2>1. Expiring' \subseteq Expiring
      BY <1>1, <1>2 DEF Expiring, Idle
    <2>2. Expiring \subseteq Questions
      BY ExpiringTyped
    <2>3. \A v \in Workers : Answering(v)' => v # w /\ Answering(v) /\ threads'[v].q # q
      BY <1>1, <1>7 DEF Answering, Idle, Handling, Handles
    <2>3a. \A v \in Workers : Handling(v)' =>
             v # w /\ Handling(v) /\ threads'[v].q = threads[v].q /\ threads'[v].q # q
      BY <1>1, <1>7 DEF Handling, Handles, Idle
    <2>3b. q \in Expiring => rows[q].late
      BY <1>2 DEF Doomed, q
    <2>4. \A p \in Questions :
            rows'[p].overrun /\ Has(p, {"none", "waiting", "running"})' => rows'[p].late
      <3>1. r.overrun /\ r.status \in {"none", "waiting", "running"} => r.late
        BY <1>2, <1>4 DEF Doomed, Has
      <3> QED BY <1>4, <1>5, <3>1 DEF Doomed, Has
    <2>5. ASSUME NEW p \in Expiring'
          PROVE  /\ ~Has(p, {"none"})'
                 /\ Has(p, {"waiting"})' \/ (\E v \in Workers : Handling(v)' /\ threads'[v].q = p)
                    => rows'[p].late
                 /\ Has(p, {"done"})' \/ (\E v \in Workers : Answering(v)' /\ threads'[v].q = p)
                    => rows'[p].overrun
      <3>1. CASE p = q
        BY <1>4, <1>5, <1>7, <2>1, <2>2, <2>3, <2>3a, <2>3b, <2>5, <3>1 DEF Doomed, Has
      <3>2. CASE p # q
        BY <1>1, <1>5, <2>1, <2>2, <2>3, <2>3a, <2>5, <3>2 DEF Doomed, Has
      <3> QED BY <3>1, <3>2
    <2> QED BY <2>4, <2>5 DEF Doomed
  <1>11. NoGhostMeeting' /\ Sources'
    BY <1>1, <1>2, <1>4, <1>5 DEF NoGhostMeeting, Sources, Handling, Handles, At, Allowed, Idle
  <1>12. Forgets'
    BY <1>2, <1>4, <1>5, <1>7, ForgetsKept DEF Has
  <1> QED BY <1>6, <1>8, <1>9, <1>10, <1>11, <1>12

\* A thread that forgets everything, because it crashed or rolled back, disturbs nothing.
LEMMA IdleStep ==
  ASSUME AnswerInv, NEW w \in Workers, threads' = [threads EXCEPT ![w] = Idle],
         UNCHANGED <<rows, turns, meetings, forget, page, active>>, restarts' \in Nat
  PROVE  AnswerInv'
  <1> USE DEF AnswerInv
  <1>1. threads' \in [Workers -> AThread]
        /\ \A v \in Workers : threads'[v] = IF v = w THEN Idle ELSE threads[v]
    BY IdleTyped, OneThread
  <1>2. TypeOK'
    BY <1>1 DEF TypeOK, AThread, Deleting
  <1>3. Handled'
    BY <1>1 DEF Handled, Handling, Handles, Has, Idle
  <1>4. Answers' /\ NoGhostMeeting'
    BY DEF Answers, AllOrNothing, NoGhostMeeting, Has
  <1>5. Doomed'
    <2>1. Expiring' \subseteq Expiring
      BY <1>1 DEF Expiring, Idle
    <2>2. \A v \in Workers : Handling(v)' =>
            Handling(v) /\ threads'[v].q = threads[v].q /\ (Answering(v)' => Answering(v))
      BY <1>1 DEF Handling, Handles, Answering, Idle
    <2> QED BY <2>1, <2>2, DoomedKept
  <1>6. Sources'
    BY <1>1 DEF Sources, Handling, Handles, At, Allowed, Idle
  <1>7. Forgets'
    BY ForgetsKept
  <1> QED BY <1>2, <1>3, <1>4, <1>5, <1>6, <1>7

\* Between two questions a thread reads what is stale.
LEMMA ReadStaleStep ==
  ASSUME AnswerInv, NEW w \in Workers, ReadStale(w)
  PROVE  AnswerInv'
  <1> DEFINE stale == {q \in Questions : Stale(q)}
  <1> DEFINE r == [threads[w] EXCEPT !.at = IF stale = {} THEN "select" ELSE "expire", !.stale = stale]
  <1> USE DEF AnswerInv
  <1>1. threads[w] \in Thread(Searching, {NoQuestion}) /\ threads[w].at = "idle"
    BY ThreadTyped DEF ReadStale, At, AThread, Thread, Handles
  <1>2. r \in Thread(Searching, {NoQuestion})
    BY <1>1 DEF Thread, Searching
  <1>3. threads' = [threads EXCEPT ![w] = r]
    BY <1>1 DEF ReadStale, TypeOK
  <1>4. threads' \in [Workers -> AThread]
        /\ \A v \in Workers : threads'[v] = IF v = w THEN r ELSE threads[v]
    BY <1>2, <1>3, OneThread DEF AThread
  <1>5. UNCHANGED <<rows, turns, meetings, forget, page, active, restarts>>
    BY DEF ReadStale
  <1>6. /\ r.at \in {"select", "expire"} /\ r.q = threads[w].q /\ r.stale = {q \in Questions : Stale(q)}
        /\ r.sent = threads[w].sent /\ r.cands = threads[w].cands
    BY <1>1 DEF Thread
  <1> HIDE DEF r
  <1>7. TypeOK'
    BY <1>4, <1>5 DEF TypeOK, AThread, Deleting
  <1>8. Handled'
    BY <1>4, <1>5, <1>6 DEF Handled, Handling, Handles, Has
  <1>9. Answers' /\ NoGhostMeeting'
    BY <1>5 DEF Answers, AllOrNothing, NoGhostMeeting, Has
  <1>10. Doomed'
    <2>1. Expiring' \subseteq Expiring \cup {q \in Questions : Stale(q)}
      BY <1>4, <1>5, <1>6 DEF Expiring
    <2>2. \A v \in Workers : Handling(v)' =>
            Handling(v) /\ threads'[v].q = threads[v].q /\ (Answering(v)' => Answering(v))
      BY <1>4, <1>6 DEF Handling, Handles, Answering
    <2>3. ASSUME NEW q \in Questions, Stale(q)
          PROVE  /\ rows[q].late /\ ~Has(q, {"none", "done"})
                 /\ (\E v \in Workers : Answering(v) /\ threads[v].q = q) => rows[q].overrun
      BY <2>3 DEF Stale, Has, Doomed, Handled, Answering, Handling, Handles
    <2>4. \A v \in Workers : Answering(v)' => Handling(v)'
      BY DEF Answering, Handling, Handles
    <2> QED BY <1>5, <2>1, <2>2, <2>3, <2>4 DEF Doomed, Has
  <1>11. Sources'
    BY <1>1, <1>4, <1>5, <1>6 DEF Sources, Handling, Handles, At, Allowed
  <1>12. Forgets'
    BY <1>5, ForgetsKept
  <1> QED BY <1>7, <1>8, <1>9, <1>10, <1>11, <1>12

\* Whoever expires a question that was answered meanwhile knows it overrun.
LEMMA FailStep ==
  ASSUME AnswerInv, NEW some \in SUBSET Expiring, rows' = Failed(some),
         \A q \in some : ~Has(q, {"gone"}),
         TypeOK', Expiring' \subseteq Expiring, UNCHANGED <<turns, meetings, forget>>,
         \A v \in Workers : Handling(v)' =>
           Handling(v) /\ threads'[v].q = threads[v].q /\ (Answering(v)' => Answering(v)),
         Sources'
  PROVE  AnswerInv'
  <1> USE DEF AnswerInv
  <1>1. \A p \in Questions :
          /\ rows'[p].status = IF p \in some THEN "failed" ELSE rows[p].status
          /\ rows'[p].cites = rows[p].cites
          /\ rows'[p].late = rows[p].late /\ rows'[p].overrun = rows[p].overrun
          /\ rows'[p].raced = rows[p].raced
    BY FailedTyped
  <1>2. \A v \in Workers : threads'[v].q \in Questions \cup {NoQuestion}
    BY DEF TypeOK, Thread
  <1>3. Handled'
    BY <1>1, ThreadTyped DEF Handled, Handling, Handles, Has
  <1>4. \A t \in turns : t.q \in Questions
    BY DEF TypeOK, Turn
  <1>5. Answers'
    BY <1>1, <1>4 DEF Answers, AllOrNothing, Has, Doomed
  <1>6. Doomed'
    BY <1>1, DoomedKept
  <1>7. NoGhostMeeting'
    BY <1>1 DEF NoGhostMeeting
  <1>8. Forgets'
    BY <1>1, ForgetsKept DEF Has
  <1> QED BY <1>3, <1>5, <1>6, <1>7, <1>8

\* The worker expires what it has read, before it claims.
LEMMA ExpireStep ==
  ASSUME AnswerInv, NEW w \in Workers, Expire(w)
  PROVE  AnswerInv'
  <1> USE DEF AnswerInv
  <1>1. UNCHANGED <<turns, meetings, forget, page, active, restarts>>
    BY DEF Expire
  <1>2. CASE \E q \in threads[w].stale : Has(q, {"gone"})
    BY <1>1, <1>2, IdleStep DEF Expire, TypeOK
  <1>3. CASE ~\E q \in threads[w].stale : Has(q, {"gone"})
    <2> DEFINE r == [Idle EXCEPT !.at = "select"]
    <2>1. threads' \in [Workers -> AThread]
          /\ \A v \in Workers : threads'[v] = IF v = w THEN r ELSE threads[v]
      BY <1>3, IdleTyped, OneThread DEF Expire
    <2>2. rows' = Failed(threads[w].stale)
      BY <1>3 DEF Expire
    <2>3. r.at = "select" /\ r.stale = {} /\ r.cands = {} /\ r.sent = {}
      BY DEF Idle
    <2> HIDE DEF r
    <2>4. TypeOK'
      BY <1>1, <2>1, <2>2, FailedTyped DEF TypeOK, AThread, Deleting
    <2>5. threads[w].stale \in SUBSET Expiring /\ Expiring' \subseteq Expiring
      BY <1>1, <2>1, <2>3 DEF Expiring
    <2>6. \A v \in Workers : Handling(v)' =>
           Handling(v) /\ threads'[v].q = threads[v].q /\ (Answering(v)' => Answering(v))
      BY <2>1, <2>3 DEF Handling, Handles, Answering
    <2>7. Sources'
      BY <1>1, <2>1, <2>3 DEF Sources, Handling, Handles, At, Allowed
    <2> QED BY <1>1, <1>3, <2>2, <2>4, <2>5, <2>6, <2>7, FailStep
  <1> QED BY <1>2, <1>3

\* The page expires the row it has read, unless it is gone.
LEMMA PageStep ==
  ASSUME AnswerInv, PageExpires
  PROVE  AnswerInv'
  <1> DEFINE some == {q \in page : ~Has(q, {"gone"})}
  <1> USE DEF AnswerInv
  <1>1. UNCHANGED <<turns, meetings, forget, threads, active, restarts>> /\ rows' = Failed(some) /\ page' = {}
    BY DEF PageExpires
  <1>2. some \in SUBSET Expiring /\ \A q \in some : ~Has(q, {"gone"})
    BY DEF Expiring
  <1> HIDE DEF some
  <1>3. TypeOK'
    BY <1>1, FailedTyped DEF TypeOK, Deleting
  <1>4. Expiring' \subseteq Expiring
    BY <1>1 DEF Expiring
  <1>5. \A v \in Workers : Handling(v)' =>
           Handling(v) /\ threads'[v].q = threads[v].q /\ (Answering(v)' => Answering(v))
    BY <1>1 DEF Handling, Answering
  <1>6. Sources'
    BY <1>1 DEF Sources, Handling, At, Allowed
  <1> QED BY <1>1, <1>2, <1>3, <1>4, <1>5, <1>6, FailStep

\* The next question is chosen; nothing is handled before the claim.
LEMMA SelectStep ==
  ASSUME AnswerInv, NEW w \in Workers, Select(w)
  PROVE  AnswerInv'
  <1> USE DEF AnswerInv
  <1>1. threads[w] \in Thread(Searching, {NoQuestion}) /\ threads[w].at = "select"
    BY ThreadTyped DEF Select, At, AThread, Thread, Handles
  <1>2. UNCHANGED <<rows, turns, meetings, forget, page, active, restarts>>
    BY DEF Select
  <1>3. CASE threads' = [threads EXCEPT ![w] = Idle]
    BY <1>2, <1>3, IdleStep DEF TypeOK
  <1>4. ASSUME NEW q \in Questions, threads' = [threads EXCEPT ![w].at = "claim", ![w].q = q]
        PROVE  AnswerInv'
    <2> DEFINE r == [threads[w] EXCEPT !.at = "claim", !.q = q]
    <2>1. r \in Thread(Handles, Questions)
      BY <1>1 DEF Thread, Handles
    <2>2. threads' = [threads EXCEPT ![w] = r]
      BY <1>1, <1>4 DEF TypeOK
    <2>3. threads' \in [Workers -> AThread]
          /\ \A v \in Workers : threads'[v] = IF v = w THEN r ELSE threads[v]
      BY <2>1, <2>2, OneThread DEF AThread
    <2>4. /\ r.at = "claim" /\ r.stale = threads[w].stale
          /\ r.sent = {} /\ r.cands = {}
      BY <1>1 DEF Thread, Sources, Handling, Handles
    <2> HIDE DEF r
    <2>5. TypeOK'
      BY <1>2, <2>3 DEF TypeOK, AThread, Deleting
    <2>6. Handled'
      BY <1>2, <2>3, <2>4 DEF Handled, Handling, Handles, Has
    <2>7. Answers' /\ NoGhostMeeting'
      BY <1>2 DEF Answers, AllOrNothing, NoGhostMeeting, Has
    <2>8. Doomed'
      <3>1. Expiring' \subseteq Expiring
        BY <1>2, <2>3, <2>4 DEF Expiring
      <3>2. \A v \in Workers : Handling(v)' =>
              Handling(v) /\ threads'[v].q = threads[v].q /\ (Answering(v)' => Answering(v))
        BY <2>3, <2>4 DEF Handling, Handles, Answering
      <3> QED BY <1>2, <3>1, <3>2, DoomedKept
    <2>9. Sources'
      BY <1>2, <2>3, <2>4 DEF Sources, Handling, Handles, At, Allowed
    <2>10. Forgets'
      BY <1>2, ForgetsKept
    <2> QED BY <2>5, <2>6, <2>7, <2>8, <2>9, <2>10
  <1> QED BY <1>1, <1>3, <1>4 DEF Select

\* A question that waits has neither a handler nor an answer: its claim gives it one
\* handler.
LEMMA ClaimStep ==
  ASSUME AnswerInv, NEW w \in Workers, Claim(w)
  PROVE  AnswerInv'
  <1> DEFINE q == threads[w].q
  <1> USE DEF AnswerInv
  <1>1. threads[w] \in Thread(Handles, Questions) /\ threads[w].at = "claim" /\ q \in Questions
        /\ rows[q] \in Row
    BY ThreadTyped DEF Claim, At, Handles, TypeOK
  <1>2. UNCHANGED <<turns, meetings, forget, page, active, restarts>>
    BY DEF Claim
  <1>3. threads[w].cands = {} /\ threads[w].sent = {}
    BY <1>1 DEF Sources, Handling, Handles
  <1>4. CASE Has(q, {"waiting"})
    <2> DEFINE r == [threads[w] EXCEPT !.at = "prepare"]
    <2> DEFINE row == [rows[q] EXCEPT !.status = "running", !.overrun = FALSE]
    <2>1. r \in Thread(Handles, Questions) /\ threads' = [threads EXCEPT ![w] = r]
      BY <1>1, <1>4 DEF Thread, Handles, Claim
    <2>2. threads' \in [Workers -> AThread]
          /\ \A v \in Workers : threads'[v] = IF v = w THEN r ELSE threads[v]
      BY <2>1, OneThread DEF AThread
    <2>3. /\ r.at = "prepare" /\ r.q = q /\ r.stale = threads[w].stale
          /\ r.sent = {} /\ r.cands = {}
      BY <1>1, <1>3 DEF Thread
    <2>4. row \in Row /\ rows' = [rows EXCEPT ![q] = row]
      BY <1>1, <1>4 DEF Row, Statuses, Claim, TypeOK
    <2>5. /\ row.status = "running" /\ row.cites = rows[q].cites /\ row.late = rows[q].late
          /\ row.raced = rows[q].raced
          /\ ~row.overrun
      BY <1>1 DEF Row
    <2> HIDE DEF r, row, q
    <2>6. /\ rows' \in [Questions -> Row]
          /\ \A p \in Questions : rows'[p] = IF p = q THEN row ELSE rows[p]
      BY <1>1, <2>4, OneRow
    <2>7. TypeOK'
      BY <1>2, <2>2, <2>6 DEF TypeOK, AThread, Deleting
    <2>8. /\ \A v \in Workers : Handling(v) => v # w /\ threads[v].q # q
          /\ \A t \in turns : t.q # q /\ t.q \in Questions
      BY <1>1, <1>4 DEF Handled, Answers, AllOrNothing, Has, Handling, Handles, TypeOK, Turn
    <2>9. Handled'
      <3>1. \A v \in Workers : v # w /\ Handling(v)' =>
              /\ Handling(v) /\ threads'[v].q = threads[v].q
              /\ threads[v].q # q /\ threads[v].q \in Questions
        BY <2>2, <2>8, ThreadTyped DEF Handling, Handles
      <3>2. threads'[w].q = q
        BY <2>2, <2>3
      <3>3. \A v \in Workers : Handling(v)' =>
              /\ ~Has(threads[v].q, {"none", "waiting", "done", "gone"})'
              /\ \A t \in turns : t.q # threads'[v].q
        BY <1>1, <2>5, <2>6, <2>8, <3>1, <3>2 DEF Handled, Has
      <3>4. \A v, u \in Workers :
              Handling(v)' /\ Handling(u)' /\ threads'[v].q = threads'[u].q => v = u
        BY <3>1, <3>2 DEF Handled
      <3> QED BY <1>2, <3>3, <3>4 DEF Handled, Handling
    <2>10. Answers'
      BY <1>2, <2>5, <2>6, <2>8 DEF Answers, AllOrNothing, Has
    <2>11. Doomed'
      <3>1. Expiring' \subseteq Expiring /\ Expiring \subseteq Questions
        BY <1>2, <2>2, <2>3, ExpiringTyped DEF Expiring
      <3>2. \A v \in Workers : Answering(v)' =>
              Answering(v) /\ threads'[v].q = threads[v].q /\ threads[v].q # q
        BY <2>2, <2>3, <2>8 DEF Answering, Handling, Handles
      <3>3. q \in Expiring => rows[q].late
        BY <1>4 DEF Doomed, Has, q
      <3>4. \A v \in Workers : Handling(v)' => v = w \/ (Handling(v) /\ threads'[v].q = threads[v].q)
        BY <2>2 DEF Handling, Handles
      <3>5. threads'[w].q = q
        BY <2>2, <2>3
      <3> QED BY <1>4, <2>5, <2>6, <3>1, <3>2, <3>3, <3>4, <3>5 DEF Doomed, Has
    <2>12. NoGhostMeeting' /\ Sources'
      BY <1>2, <2>2, <2>3, <2>5, <2>6 DEF NoGhostMeeting, Sources, Handling, Handles, At, Allowed
    <2>13. Forgets'
      BY <1>2, <1>4, <2>5, <2>6, ForgetsKept DEF Has, q
    <2> QED BY <2>7, <2>9, <2>10, <2>11, <2>12, <2>13
  <1>5. CASE ~Has(q, {"waiting"})
    <2> DEFINE r == [threads[w] EXCEPT !.at = "select", !.q = NoQuestion]
    <2>1. r \in Thread(Searching, {NoQuestion})
      BY <1>1 DEF Thread, Searching
    <2>2. rows' = rows /\ threads' = [threads EXCEPT ![w] = r]
      BY <1>1, <1>5 DEF Claim, TypeOK
    <2>3. threads' \in [Workers -> AThread]
          /\ \A v \in Workers : threads'[v] = IF v = w THEN r ELSE threads[v]
      BY <2>1, <2>2, OneThread DEF AThread
    <2>4. r.at = "select" /\ r.stale = threads[w].stale /\ r.sent = {} /\ r.cands = {}
      BY <1>1, <1>3 DEF Thread
    <2> HIDE DEF r
    <2>5. TypeOK'
      BY <1>2, <2>2, <2>3 DEF TypeOK, AThread, Deleting
    <2>6. Handled'
      BY <1>2, <2>2, <2>3, <2>4 DEF Handled, Handling, Handles, Has
    <2>7. Answers' /\ NoGhostMeeting'
      BY <1>2, <2>2 DEF Answers, AllOrNothing, NoGhostMeeting, Has
    <2>8. Doomed'
      <3>1. Expiring' \subseteq Expiring
        BY <1>2, <2>3, <2>4 DEF Expiring
      <3>2. \A v \in Workers : Handling(v)' =>
              Handling(v) /\ threads'[v].q = threads[v].q /\ (Answering(v)' => Answering(v))
        BY <2>3, <2>4 DEF Handling, Handles, Answering
      <3> QED BY <2>2, <3>1, <3>2, DoomedKept
    <2>9. Sources'
      BY <1>2, <2>3, <2>4 DEF Sources, Handling, Handles, At, Allowed
    <2>10. Forgets'
      BY <1>2, <2>2, ForgetsKept
    <2> QED BY <2>5, <2>6, <2>7, <2>8, <2>9, <2>10
  <1> QED BY <1>4, <1>5

\* The call and the answer keep the question, its handler and its candidates.
LEMMA TalkStep ==
  ASSUME AnswerInv, NEW w \in Workers, NEW r \in Thread(Handles, Questions),
         threads' = [threads EXCEPT ![w] = r],
         UNCHANGED <<rows, turns, meetings, forget, page, active, restarts>>,
         Answering(w), r.at \in {"ready", "call", "filter", "commit"},
         r.q = threads[w].q, r.stale = threads[w].stale, r.cands \subseteq threads[w].cands,
         r.sent \cap meetings \subseteq Allowed(r.q),
         r.at = "commit" => r.about \cap meetings \subseteq r.cites
  PROVE  AnswerInv'
  <1> USE DEF AnswerInv
  <1>1. threads' \in [Workers -> AThread]
        /\ \A v \in Workers : threads'[v] = IF v = w THEN r ELSE threads[v]
    BY OneThread DEF AThread
  <1>2. TypeOK'
    BY <1>1 DEF TypeOK, AThread, Deleting
  <1>3. Handled'
    BY <1>1 DEF Handled, Handling, Handles, Has, Answering
  <1>4. Answers' /\ NoGhostMeeting'
    BY DEF Answers, AllOrNothing, NoGhostMeeting, Has
  <1>5. Doomed'
    <2>1. Expiring' \subseteq Expiring
      BY <1>1 DEF Expiring
    <2>2. \A v \in Workers : Handling(v)' =>
            Handling(v) /\ threads'[v].q = threads[v].q /\ (Answering(v)' => Answering(v))
      BY <1>1 DEF Handling, Handles, Answering
    <2> QED BY <2>1, <2>2, DoomedKept
  <1>6. Sources'
    BY <1>1 DEF Sources, Handling, Handles, At, Allowed, Answering
  <1>7. Forgets'
    BY ForgetsKept
  <1> QED BY <1>2, <1>3, <1>4, <1>5, <1>6, <1>7

\* What is replayed rests on candidates, of the meetings that exist.
LEMMA CallStep ==
  ASSUME AnswerInv, NEW w \in Workers, Call(w)
  PROVE  AnswerInv'
  <1> DEFINE sent == threads[w].cands \cup UNION {t.about : t \in Replayed(w)}
  <1> DEFINE r == [threads[w] EXCEPT !.at = "call", !.sent = sent]
  <1>1. threads[w] \in Thread(Handles, Questions) /\ threads[w].at = "ready"
    BY ThreadTyped DEF Call, At, Handles, AnswerInv
  <1>2. \A t \in turns : t.about \subseteq Meetings
    BY DEF AnswerInv, TypeOK, Turn
  <1>3. sent \subseteq Meetings
    BY <1>1, <1>2 DEF Replayed, Thread
  <1>4. sent \cap meetings \subseteq Allowed(threads[w].q)
    BY DEF AnswerInv, Sources, Replayed
  <1> HIDE DEF sent
  <1>5. r \in Thread(Handles, Questions)
    BY <1>1, <1>3 DEF Thread, Handles
  <1>6. threads' = [threads EXCEPT ![w] = r]
    BY <1>1 DEF Call, sent, AnswerInv, TypeOK
  <1>7. r.at = "call" /\ r.q = threads[w].q /\ r.stale = threads[w].stale
        /\ r.cands = threads[w].cands /\ r.sent = sent
    BY <1>1 DEF Thread
  <1>8. Answering(w) /\ UNCHANGED <<rows, turns, meetings, forget, page, active, restarts>>
    BY <1>1 DEF Call, Answering
  <1> HIDE DEF r
  <1> QED BY <1>4, <1>5, <1>6, <1>7, <1>8, TalkStep

\* The answer cites candidates only.
LEMMA AnsweredStep ==
  ASSUME AnswerInv, NEW w \in Workers, Answered(w)
  PROVE  AnswerInv'
  <1>1. threads[w] \in Thread(Handles, Questions) /\ threads[w].at = "call"
        /\ rows[threads[w].q].status \in Statuses
    BY ThreadTyped DEF Answered, At, Handles, AnswerInv, TypeOK, Row
  <1>2. PICK cited \in SUBSET threads[w].cands :
          threads' = [threads EXCEPT ![w].at = "filter", ![w].about = cited,
                                     ![w].seen = rows[threads[w].q].status,
                                     ![w].cands = {}, ![w].sent = {}]
    BY DEF Answered
  <1> DEFINE r == [threads[w] EXCEPT !.at = "filter", !.about = cited,
                                     !.seen = rows[threads[w].q].status,
                                     !.cands = {}, !.sent = {}]
  <1>3. r \in Thread(Handles, Questions)
    BY <1>1, <1>2 DEF Thread, Handles
  <1>4. threads' = [threads EXCEPT ![w] = r]
    BY <1>1, <1>2 DEF AnswerInv, TypeOK
  <1>5. r.at = "filter" /\ r.q = threads[w].q /\ r.stale = threads[w].stale
        /\ r.cands = {} /\ r.sent = {}
    BY <1>1 DEF Thread
  <1>6. Answering(w) /\ UNCHANGED <<rows, turns, meetings, forget, page, active, restarts>>
    BY <1>1 DEF Answered, Answering
  <1> HIDE DEF r
  <1> QED BY <1>3, <1>4, <1>5, <1>6, TalkStep

\* What is dropped from the citations is exactly what is gone.
LEMMA FilterStep ==
  ASSUME AnswerInv, NEW w \in Workers, Filter(w)
  PROVE  AnswerInv'
  <1> DEFINE r == [threads[w] EXCEPT !.at = "commit", !.cites = threads[w].about \cap meetings]
  <1>1. threads[w] \in Thread(Handles, Questions) /\ threads[w].at = "filter"
    BY ThreadTyped DEF Filter, At, Handles, AnswerInv
  <1>2. r \in Thread(Handles, Questions)
    BY <1>1 DEF Thread, Handles
  <1>3. threads' = [threads EXCEPT ![w] = r]
    BY <1>1 DEF Filter, AnswerInv, TypeOK
  <1>4. r.at = "commit" /\ r.q = threads[w].q /\ r.stale = threads[w].stale
        /\ r.cands = threads[w].cands /\ r.sent = threads[w].sent
        /\ r.about \cap meetings \subseteq r.cites
    BY <1>1 DEF Thread
  <1>5. Answering(w) /\ UNCHANGED <<rows, turns, meetings, forget, page, active, restarts>>
    BY <1>1 DEF Filter, Answering
  <1>6. threads[w].sent \cap meetings \subseteq Allowed(threads[w].q)
    BY DEF AnswerInv, Sources
  <1> HIDE DEF r
  <1> QED BY <1>2, <1>3, <1>4, <1>5, <1>6, TalkStep

\* The answer and the end of its request.
LEMMA RecordStep ==
  ASSUME AnswerInv, NEW w \in Workers, Record(w)
  PROVE  AnswerInv'
  <1> DEFINE q == threads[w].q
  <1> DEFINE row == [rows[q] EXCEPT !.status = "done", !.cites = threads[w].cites, !.late = FALSE,
                                 !.raced = threads[w].cites \cap Deleting]
  <1> DEFINE turn == [q |-> q, cites |-> threads[w].cites, about |-> threads[w].about]
  <1> USE DEF AnswerInv
  <1>1. /\ threads[w] \in Thread(Handles, Questions) /\ threads[w].at = "commit"
        /\ q \in Questions /\ rows[q] \in Row /\ Handling(w) /\ Answering(w)
    BY ThreadTyped DEF Record, At, Handles, Handling, Answering, TypeOK
  <1>2. /\ UNCHANGED <<meetings, forget, page, active, restarts>> /\ turns' = turns \cup {turn}
        /\ threads[w].cites \subseteq meetings
    BY DEF Record
  <1>3. threads' \in [Workers -> AThread]
        /\ \A v \in Workers : threads'[v] = IF v = w THEN Idle ELSE threads[v]
    BY IdleTyped, OneThread DEF Record
  <1>4. row \in Row /\ rows' = [rows EXCEPT ![q] = row]
    BY <1>1 DEF Row, Statuses, Record, Done, TypeOK, Thread
  <1>5. /\ row.status = "done" /\ row.cites = threads[w].cites
        /\ row.raced = threads[w].cites \cap Deleting
        /\ row.overrun = rows[q].overrun
    BY <1>1 DEF Row
  <1>6. turn \in Turn /\ turn.q = q /\ turn.cites = threads[w].cites
        /\ turn.about = threads[w].about
    BY <1>1 DEF Turn, Thread
  <1> HIDE DEF row, turn, q
  <1>7. /\ rows' \in [Questions -> Row]
        /\ \A p \in Questions : rows'[p] = IF p = q THEN row ELSE rows[p]
    BY <1>1, <1>4, OneRow
  <1>8. TypeOK'
    BY <1>2, <1>3, <1>6, <1>7 DEF TypeOK, AThread, Deleting
  <1>9. /\ \A v \in Workers : v # w /\ Handling(v) => threads[v].q # q
        /\ \A t \in turns : t.q # q /\ t.q \in Questions
    BY <1>1 DEF Handled, q, TypeOK, Turn
  <1>10. \A v \in Workers : Handling(v)' =>
           /\ v # w /\ Handling(v) /\ threads'[v].q = threads[v].q
           /\ threads[v].q # q /\ threads[v].q \in Questions
    BY <1>3, <1>9, ThreadTyped DEF Handling, Handles, Idle
  <1>11. Handled'
    <2>1. \A v \in Workers : Handling(v)' =>
            /\ ~Has(threads[v].q, {"none", "waiting", "done", "gone"})'
            /\ \A t \in turns' : t.q # threads'[v].q
      BY <1>2, <1>6, <1>7, <1>10 DEF Handled, Has
    <2> QED BY <1>10, <2>1 DEF Handled
  <1>12. Answers'
    <2>1. AllOrNothing'
      BY <1>1, <1>2, <1>5, <1>6, <1>7, <1>9 DEF Answers, AllOrNothing, Has
    <2>2. \A t, u \in turns' : t.q = u.q => t = u
      BY <1>2, <1>6, <1>9 DEF Answers
    <2>3. \A p \in Questions : rows'[p].cites # {} => \E t \in turns' : t.q = p
      BY <1>2, <1>6, <1>7 DEF Answers
    <2>4. \A p \in Questions : Has(p, {"gone"})' => rows'[p].cites = {}
      BY <1>5, <1>7 DEF Answers, Has
    <2> QED BY <2>1, <2>2, <2>3, <2>4 DEF Answers
  <1>13. Doomed'
    <2>1. Expiring' \subseteq Expiring
      BY <1>2, <1>3 DEF Expiring, Idle
    <2>2. \A v \in Workers : Answering(v)' => Answering(v) /\ threads'[v].q = threads[v].q
      BY <1>3 DEF Answering, Idle
    <2>3. q \in Expiring => rows[q].overrun
      BY <1>1 DEF Doomed, q
    <2>4. \A v \in Workers : Answering(v)' => Handling(v)'
      BY DEF Answering, Handling, Handles
    <2>5. \A p \in Questions :
            rows'[p].overrun /\ Has(p, {"none", "waiting", "running"})' => rows'[p].late
      BY <1>5, <1>7 DEF Doomed, Has
    <2>6. ASSUME NEW p \in Expiring'
          PROVE  /\ ~Has(p, {"none"})'
                 /\ Has(p, {"waiting"})' \/ (\E v \in Workers : Handling(v)' /\ threads'[v].q = p)
                    => rows'[p].late
                 /\ Has(p, {"done"})' \/ (\E v \in Workers : Answering(v)' /\ threads'[v].q = p)
                    => rows'[p].overrun
      <3>1. p \in Questions /\ p \in Expiring
        BY <2>1, ExpiringTyped
      <3>2. CASE p = q
        BY <1>5, <1>7, <1>10, <2>3, <2>4, <3>1, <3>2 DEF Has
      <3>3. CASE p # q
        BY <1>7, <1>10, <2>2, <3>1, <3>3 DEF Doomed, Has
      <3> QED BY <3>2, <3>3
    <2> QED BY <2>5, <2>6 DEF Doomed
  <1>14. NoGhostMeeting'
    BY <1>2, <1>5, <1>6, <1>7 DEF NoGhostMeeting
  <1>15. Sources'
    <2>1. \A t \in turns' : t.about \cap meetings' \subseteq t.cites
      BY <1>1, <1>2, <1>6 DEF Sources, At
    <2> QED BY <1>2, <1>3, <2>1 DEF Sources, Handling, Handles, At, Allowed, Idle
  <1>16. Forgets'
    <2>1. ~Has(q, {"gone"}) /\ rows[q].cites = {}
      BY <1>1, <1>9 DEF Handled, Answers, Has, q
    <2>2. \A m \in Meetings : forget[m].turns \cup forget[m].rows \subseteq Questions
      BY DEF TypeOK, Forgetting
    <2>3. \A m \in Meetings : \A p \in forget[m].turns \cup forget[m].rows :
            p # q /\ (Has(p, {"gone"})' \/ m \in rows'[p].cites)
      BY <1>7, <2>1, <2>2 DEF Forgets, Has
    <2>4. \A m \in Meetings : forget[m].at # "none" =>
            /\ \A t \in turns' : m \in t.cites => t.q \in forget[m].turns \/ m \in rows'[t.q].raced
            /\ m \in row.cites => m \in row.raced
      <3>1. \A m \in Meetings : forget[m].at # "none" /\ m \in row.cites => m \in row.raced
        BY <1>5 DEF Deleting
      <3>2. \A t \in turns' : t = turn \/ (t \in turns /\ rows'[t.q] = rows[t.q])
        BY <1>2, <1>7, <1>9
      <3>3. rows'[turn.q] = row /\ turn.cites = row.cites
        BY <1>1, <1>5, <1>6, <1>7
      <3> QED BY <3>1, <3>2, <3>3 DEF Forgets
    <2>5. \A m \in Meetings : forget[m].at = "rows" =>
            /\ \A p \in Questions : m \in rows'[p].cites => p \in forget[m].rows \/ m \in rows'[p].raced
            /\ \A p \in forget[m].turns : Has(p, {"gone"})' \/ p \in forget[m].rows
      BY <1>7, <2>2, <2>3, <2>4 DEF Forgets, Has
    <2> QED BY <1>2, <2>3, <2>4, <2>5 DEF Forgets
  <1> QED BY <1>16, <1>8, <1>11, <1>12, <1>13, <1>14, <1>15

-----------------------------------------------------------------------------
(* The page, the clock, the meetings and the queue.                         *)

\* A new question has neither a handler nor an answer.
LEMMA SubmitStep ==
  ASSUME AnswerInv, NEW q \in Questions, Submit(q)
  PROVE  AnswerInv'
  <1> DEFINE row == [rows[q] EXCEPT !.status = "waiting"]
  <1> USE DEF AnswerInv
  <1>1. Has(q, {"none"}) /\ UNCHANGED <<turns, meetings, forget, threads, page, active, restarts>>
        /\ rows[q] \in Row
    BY DEF Submit, TypeOK
  <1>2. row \in Row /\ rows' = [rows EXCEPT ![q] = row]
    BY <1>1 DEF Row, Statuses, Submit, With, TypeOK
  <1>3. /\ row.status = "waiting" /\ row.cites = rows[q].cites /\ row.late = rows[q].late
        /\ row.raced = rows[q].raced
        /\ row.overrun = rows[q].overrun
    BY <1>1 DEF Row
  <1> HIDE DEF row
  <1>4. /\ rows' \in [Questions -> Row]
        /\ \A p \in Questions : rows'[p] = IF p = q THEN row ELSE rows[p]
    BY <1>2, OneRow
  <1>5. TypeOK'
    BY <1>1, <1>4 DEF TypeOK, Deleting
  <1>6. Handled'
    BY <1>1, <1>4, ThreadTyped DEF Handled, Handling, Handles, Has
  <1>7. \A t \in turns : t.q # q /\ t.q \in Questions
    BY <1>1 DEF Answers, AllOrNothing, Has, TypeOK, Turn
  <1>8. Answers'
    BY <1>1, <1>3, <1>4, <1>7 DEF Answers, AllOrNothing, Has
  <1>9. Doomed'
    <2>1. Expiring' = Expiring /\ q \notin Expiring
      BY <1>1 DEF Expiring, Doomed
    <2>2. \A v \in Workers : (Handling(v)' => Handling(v)) /\ (Answering(v)' => Answering(v))
      BY <1>1 DEF Handling, Answering
    <2>3. row.overrun => row.late
      BY <1>1, <1>3 DEF Doomed, Has
    <2> QED BY <1>1, <1>3, <1>4, <2>1, <2>2, <2>3, ExpiringTyped DEF Doomed, Has
  <1>10. NoGhostMeeting' /\ Sources'
    BY <1>1, <1>3, <1>4 DEF NoGhostMeeting, Sources, Handling, At, Allowed
  <1>11. Forgets'
    BY <1>1, <1>3, <1>4, ForgetsKept DEF Has
  <1> QED BY <1>5, <1>6, <1>8, <1>9, <1>10, <1>11

\* A delay that passes changes no status.
LEMMA AgeStep ==
  ASSUME AnswerInv, NEW q \in Questions, Age(q)
  PROVE  AnswerInv'
  <1> USE DEF AnswerInv
  <1>1. UNCHANGED <<turns, meetings, forget, threads, page, active, restarts>> /\ rows[q] \in Row
    BY DEF Age, TypeOK
  <1>2. PICK row \in Row : /\ rows' = [rows EXCEPT ![q] = row]
                          /\ row.status = rows[q].status /\ row.cites = rows[q].cites
                          /\ row.raced = rows[q].raced
                          /\ row.late /\ (rows[q].overrun => row.overrun)
    <2>1. CASE ~rows[q].late /\ rows' = [rows EXCEPT ![q].late = TRUE]
      <3> DEFINE row == [rows[q] EXCEPT !.late = TRUE]
      <3>1. row \in Row /\ rows' = [rows EXCEPT ![q] = row]
        BY <1>1, <2>1 DEF Row, TypeOK
      <3> QED BY <1>1, <3>1 DEF Row
    <2>2. CASE rows[q].late /\ rows' = [rows EXCEPT ![q].overrun = TRUE]
      <3> DEFINE row == [rows[q] EXCEPT !.overrun = TRUE]
      <3>1. row \in Row /\ rows' = [rows EXCEPT ![q] = row]
        BY <1>1, <2>2 DEF Row, TypeOK
      <3> QED BY <1>1, <2>2, <3>1 DEF Row
    <2> QED BY <2>1, <2>2 DEF Age
  <1>3. /\ rows' \in [Questions -> Row]
        /\ \A p \in Questions : rows'[p] = IF p = q THEN row ELSE rows[p]
    BY <1>2, OneRow
  <1>4. /\ \A p \in Questions :
             /\ rows'[p].status = rows[p].status /\ rows'[p].cites = rows[p].cites
             /\ rows'[p].raced = rows[p].raced
             /\ (rows[p].late => rows'[p].late) /\ (rows[p].overrun => rows'[p].overrun)
             /\ rows'[p].late \/ rows'[p] = rows[p]
    BY <1>2, <1>3
  <1>5. TypeOK'
    BY <1>1, <1>3 DEF TypeOK, Deleting
  <1>6. Handled'
    BY <1>1, <1>4, ThreadTyped DEF Handled, Handling, Handles, Has
  <1>7. \A t \in turns : t.q \in Questions
    BY DEF TypeOK, Turn
  <1>8. Answers'
    BY <1>1, <1>4, <1>7 DEF Answers, AllOrNothing, Has
  <1>9. Doomed'
    <2>1. Expiring' = Expiring
      BY <1>1 DEF Expiring
    <2>2. \A v \in Workers : (Handling(v)' => Handling(v)) /\ (Answering(v)' => Answering(v))
      BY <1>1 DEF Handling, Answering
    <2> QED BY <1>1, <1>4, <2>1, <2>2, ExpiringTyped DEF Doomed, Has
  <1>10. NoGhostMeeting' /\ Sources'
    BY <1>1, <1>4 DEF NoGhostMeeting, Sources, Handling, At, Allowed
  <1>11. Forgets'
    BY <1>1, <1>4, ForgetsKept
  <1> QED BY <1>5, <1>6, <1>8, <1>9, <1>10, <1>11

\* The page reads a row that is late.
LEMMA PageReadsStep ==
  ASSUME AnswerInv, NEW q \in Questions, PageReads(q)
  PROVE  AnswerInv'
  <1> USE DEF AnswerInv
  <1>1. UNCHANGED <<rows, turns, meetings, forget, threads, active, restarts>> /\ page' = {q} /\ Stale(q)
    BY DEF PageReads
  <1>2. TypeOK' /\ Handled' /\ Answers' /\ NoGhostMeeting' /\ Sources'
    <2>1. TypeOK'
      BY <1>1 DEF TypeOK, Deleting
    <2>2. Handled'
      BY <1>1 DEF Handled, Handling, Has
    <2>3. Answers' /\ NoGhostMeeting'
      BY <1>1 DEF Answers, AllOrNothing, NoGhostMeeting, Has
    <2>4. Sources'
      BY <1>1 DEF Sources, Handling, At, Allowed
    <2> QED BY <2>1, <2>2, <2>3, <2>4
  <1>4. Forgets'
    BY <1>1, ForgetsKept
  <1>3. Doomed'
    <2>1. Expiring' \subseteq Expiring \cup {q}
      BY <1>1 DEF Expiring
    <2>2. \A v \in Workers : (Handling(v)' => Handling(v)) /\ (Answering(v)' => Answering(v))
      BY <1>1 DEF Handling, Answering
    <2>3. /\ rows[q].late /\ ~Has(q, {"none", "done"})
          /\ (\E v \in Workers : Answering(v) /\ threads[v].q = q) => rows[q].overrun
      BY <1>1 DEF Stale, Has, Doomed, Handled, Answering, Handling, Handles
    <2>4. \A v \in Workers : Answering(v) => Handling(v)
      BY DEF Answering, Handling, Handles
    <2> QED BY <1>1, <2>1, <2>2, <2>3, <2>4 DEF Doomed, Has
  <1> QED BY <1>2, <1>3, <1>4

\* A deletion that selects changes nothing of the rest.
LEMMA SelectionStep ==
  ASSUME AnswerInv, UNCHANGED <<rows, turns, meetings, threads, page, active, restarts>>,
         TypeOK', Forgets'
  PROVE  AnswerInv'
  <1> USE DEF AnswerInv
  <1>1. Handled'
    BY DEF Handled, Handling, Has
  <1>2. Answers' /\ NoGhostMeeting'
    BY DEF Answers, AllOrNothing, NoGhostMeeting, Has
  <1>3. Sources'
    BY DEF Sources, Handling, At, Allowed
  <1>4. Doomed'
    <2>1. Expiring' \subseteq Expiring
      BY DEF Expiring
    <2>2. \A v \in Workers : Handling(v)' =>
            Handling(v) /\ threads'[v].q = threads[v].q /\ (Answering(v)' => Answering(v))
      BY DEF Handling, Answering
    <2> QED BY <2>1, <2>2, DoomedKept
  <1> QED BY <1>1, <1>2, <1>3, <1>4

\* A deletion under way that has selected some rows more.
LEMMA OneDeletion ==
  ASSUME TypeOK, NEW m \in meetings, NEW f \in Forgetting, f.at # "none",
         forget' = [forget EXCEPT ![m] = f]
  PROVE  /\ forget' \in [Meetings -> Forgetting] /\ (UNCHANGED meetings => Deleting' \subseteq meetings')
         /\ \A n \in Meetings : forget'[n] = IF n = m THEN f ELSE forget[n]
  BY DEF TypeOK, Deleting

\* An answer that cites the meeting cites it in its request too.
LEMMA ForgetTurnsStep ==
  ASSUME AnswerInv, NEW m \in Meetings, ForgetTurns(m)
  PROVE  AnswerInv'
  <1> DEFINE citing == {t.q : t \in {u \in turns : m \in u.cites}}
  <1> DEFINE f == [forget[m] EXCEPT !.at = "turns", !.turns = citing]
  <1> USE DEF AnswerInv
  <1>1. /\ UNCHANGED <<rows, turns, meetings, threads, page, active, restarts>>
        /\ m \in meetings /\ forget[m] \in Forgetting
    BY DEF ForgetTurns, TypeOK
  <1>2. citing \subseteq Questions
    BY DEF TypeOK, Turn
  <1>3. f \in Forgetting /\ forget' = [forget EXCEPT ![m] = f]
    BY <1>1, <1>2 DEF ForgetTurns, Forgetting, TypeOK
  <1>4. f.at = "turns" /\ f.turns = citing /\ f.rows = forget[m].rows
    BY <1>1 DEF Forgetting
  <1>5. \A q \in citing : Has(q, {"gone"}) \/ m \in rows[q].cites
    BY DEF Answers, AllOrNothing
  <1>6. \A t \in turns : m \in t.cites => t.q \in citing
    OBVIOUS
  <1> HIDE DEF f, citing
  <1>7. \A n \in Meetings : forget'[n] = IF n = m THEN f ELSE forget[n]
    BY <1>1, <1>3, <1>4, OneDeletion
  <1>8. TypeOK'
    BY <1>1, <1>3, <1>4, OneDeletion DEF TypeOK
  <1>9. Forgets'
    BY <1>1, <1>4, <1>5, <1>6, <1>7 DEF Forgets, Has
  <1> QED BY <1>1, <1>8, <1>9, SelectionStep

\* An answer that was selected is of a request that cites the meeting too.
LEMMA ForgetRequestsStep ==
  ASSUME AnswerInv, NEW m \in Meetings, ForgetRequests(m)
  PROVE  AnswerInv'
  <1> DEFINE citing == {q \in Questions : m \in rows[q].cites}
  <1> DEFINE f == [forget[m] EXCEPT !.at = "rows", !.rows = citing]
  <1> USE DEF AnswerInv
  <1>1. /\ UNCHANGED <<rows, turns, meetings, threads, page, active, restarts>>
        /\ forget[m].at = "turns" /\ m \in meetings /\ forget[m] \in Forgetting
    BY DEF ForgetRequests, TypeOK, Deleting
  <1>2. citing \subseteq Questions
    OBVIOUS
  <1>3. f \in Forgetting /\ forget' = [forget EXCEPT ![m] = f]
    BY <1>1, <1>2 DEF ForgetRequests, Forgetting, TypeOK
  <1>4. f.at = "rows" /\ f.rows = citing /\ f.turns = forget[m].turns
    BY <1>1 DEF Forgetting
  <1>5. \A q \in forget[m].turns : Has(q, {"gone"}) \/ q \in citing
    BY <1>1 DEF Forgets, Forgetting
  <1>6. \A q \in Questions : q \in citing <=> m \in rows[q].cites
    OBVIOUS
  <1> HIDE DEF f, citing
  <1>7. \A n \in Meetings : forget'[n] = IF n = m THEN f ELSE forget[n]
    BY <1>1, <1>3, <1>4, OneDeletion
  <1>8. TypeOK'
    BY <1>1, <1>3, <1>4, OneDeletion DEF TypeOK
  <1>9. Forgets'
    <2>1. /\ \A q \in f.turns \cup f.rows : Has(q, {"gone"})' \/ m \in rows'[q].cites
          /\ \A t \in turns' : m \in t.cites => t.q \in f.turns \/ m \in rows'[t.q].raced
          /\ \A q \in Questions : m \in rows'[q].cites => q \in f.rows
          /\ \A q \in f.turns : Has(q, {"gone"})' \/ q \in f.rows
      BY <1>1, <1>2, <1>4, <1>5, <1>6 DEF Forgets, Has
    <2> QED BY <1>1, <1>7, <2>1 DEF Forgets, Has
  <1> QED BY <1>1, <1>8, <1>9, SelectionStep

\* With a meeting go the answers that cite it and their requests; an answer recorded
\* meanwhile loses its citation or its request.
LEMMA DeleteStep ==
  ASSUME AnswerInv, NEW m \in Meetings, DeleteMeeting(m)
  PROVE  AnswerInv'
  <1> DEFINE lost == forget[m].rows
  <1> USE DEF AnswerInv
  <1>1. /\ UNCHANGED <<threads, page, active, restarts>> /\ meetings' = meetings \ {m}
        /\ turns' = {[t EXCEPT !.cites = @ \ {m}] : t \in {u \in turns : u.q \notin forget[m].turns}}
        /\ forget[m].at = "rows" /\ m \in meetings /\ lost \subseteq Questions
        /\ forget' = [forget EXCEPT ![m] = Kept]
    BY DEF DeleteMeeting, TypeOK, Deleting, Forgetting
  <1>2. \A p \in Questions :
          rows[p] \in Row
          /\ [rows[p] EXCEPT !.status = "gone", !.cites = {}, !.late = FALSE, !.overrun = FALSE] \in Row
    BY DEF TypeOK, Row, Statuses
  <1>3. /\ rows' \in [Questions -> Row]
        /\ \A p \in Questions :
             /\ p \in lost => /\ rows'[p].status = "gone" /\ rows'[p].cites = {}
                             /\ rows'[p].raced = rows[p].raced
             /\ p \notin lost => rows'[p] = rows[p]
    BY <1>2 DEF DeleteMeeting, Row
  <1>4. /\ forget' \in [Meetings -> Forgetting]
        /\ \A n \in Meetings : forget'[n] = IF n = m THEN Kept ELSE forget[n]
        /\ Kept.at = "none" /\ Kept.turns = {} /\ Kept.rows = {}
    BY <1>1 DEF TypeOK, Kept, Forgetting
  <1>5. \A u \in turns' : \E t \in turns :
          /\ t \in Turn /\ u \in Turn /\ t.q \notin forget[m].turns
          /\ u = [t EXCEPT !.cites = @ \ {m}]
          /\ u.q = t.q /\ u.about = t.about /\ u.cites = t.cites \ {m}
    BY <1>1 DEF TypeOK, Turn
  <1>6. \A t \in turns : t.q \in Questions /\ (t.q \notin forget[m].turns =>
          \E u \in turns' : u.q = t.q /\ u.cites = t.cites \ {m})
    <2>1. ASSUME NEW t \in turns, t.q \notin forget[m].turns
          PROVE  \E u \in turns' : u.q = t.q /\ u.cites = t.cites \ {m}
      <3>1. [t EXCEPT !.cites = @ \ {m}] \in turns'
        BY <1>1, <2>1
      <3>2. t \in Turn
        BY DEF TypeOK
      <3> QED BY <3>1, <3>2 DEF Turn
    <2> QED BY <2>1 DEF TypeOK, Turn
  <1>7. \A q \in lost : Has(q, {"gone"}) \/ m \in rows[q].cites
    BY DEF Forgets
  <1>8. \A q \in forget[m].turns : Has(q, {"gone"}) \/ q \in lost
    BY <1>1 DEF Forgets
  <1>9. \A q \in Questions : m \in rows[q].cites => q \in lost \/ m \in rows[q].raced
    BY <1>1 DEF Forgets
  <1>10. \A v \in Workers : Handling(v) => threads[v].q \in Questions /\ threads[v].q \notin lost
    BY <1>7, ThreadTyped DEF Handled, Answers, Handling, Handles, Has
  <1> HIDE DEF lost
  <1>11. TypeOK'
    <2>1. turns' \subseteq Turn
      BY <1>5
    <2> QED BY <1>1, <1>3, <1>4, <2>1 DEF TypeOK, Deleting
  <1>12. Handled'
    <2>1. \A v \in Workers : Handling(v)' => \A u \in turns' : u.q # threads[v].q
      BY <1>1, <1>5 DEF Handled, Handling
    <2> QED BY <1>1, <1>3, <1>10, <2>1 DEF Handled, Handling, Has
  <1>13. Answers'
    <2>1. ASSUME NEW q \in Questions, Has(q, {"done"})'
          PROVE  \E u \in turns' : u.q = q /\ u.cites = rows'[q].cites \cap meetings'
      <3>1. q \notin lost /\ rows'[q] = rows[q] /\ Has(q, {"done"})
        BY <1>3, <2>1 DEF Has
      <3>2. PICK t \in turns : t.q = q /\ t.cites = rows[q].cites \cap meetings
        BY <3>1 DEF Answers, AllOrNothing
      <3>3. t.q \notin forget[m].turns
        BY <1>8, <3>1, <3>2 DEF Has
      <3> QED BY <1>1, <1>6, <3>1, <3>2, <3>3
    <2>2. ASSUME NEW u \in turns'
          PROVE  \/ Has(u.q, {"gone"})' /\ rows'[u.q].raced # {}
                 \/ /\ u.cites = rows'[u.q].cites \cap meetings'
                    /\ Has(u.q, {"done"})' \/ (Has(u.q, {"failed"})' /\ rows'[u.q].overrun)
      <3>1. PICK t \in turns : /\ t.q \notin forget[m].turns /\ u.q = t.q
                               /\ u.cites = t.cites \ {m} /\ t.q \in Questions
        BY <1>5, <1>6
      <3>2. CASE Has(t.q, {"gone"}) /\ rows[t.q].raced # {}
        BY <1>3, <3>1, <3>2 DEF Has
      <3>3. CASE /\ t.cites = rows[t.q].cites \cap meetings
                 /\ Has(t.q, {"done"}) \/ (Has(t.q, {"failed"}) /\ rows[t.q].overrun)
        <4>1. CASE t.q \in lost
          <5>1. m \in t.cites
            BY <1>1, <1>7, <3>3, <4>1 DEF Has
          <5>2. m \in rows[t.q].raced
            BY <1>1, <3>1, <5>1 DEF Forgets
          <5> QED BY <1>3, <3>1, <4>1, <5>2 DEF Has
        <4>2. CASE t.q \notin lost
          BY <1>1, <1>3, <3>1, <3>3, <4>2 DEF Has
        <4> QED BY <4>1, <4>2
      <3> QED BY <3>2, <3>3 DEF Answers, AllOrNothing
    <2>3. ASSUME NEW u \in turns', NEW v \in turns', u.q = v.q PROVE u = v
      <3>1. PICK t \in turns : u.q = t.q /\ u = [t EXCEPT !.cites = @ \ {m}]
        BY <1>5
      <3>2. PICK x \in turns : v.q = x.q /\ v = [x EXCEPT !.cites = @ \ {m}]
        BY <1>5
      <3>3. t = x
        BY <2>3, <3>1, <3>2 DEF Answers
      <3> QED BY <3>1, <3>2, <3>3
    <2>4. ASSUME NEW q \in Questions, rows'[q].cites # {} PROVE \E u \in turns' : u.q = q
      <3>1. q \notin lost /\ rows'[q] = rows[q]
        BY <1>3, <2>4
      <3>2. PICK t \in turns : t.q = q
        BY <2>4, <3>1 DEF Answers
      <3>3. ~Has(q, {"gone"})
        BY <2>4, <3>1 DEF Answers
      <3> QED BY <1>6, <1>8, <3>1, <3>2, <3>3
    <2>5. \A q \in Questions : Has(q, {"gone"})' => rows'[q].cites = {}
      BY <1>3 DEF Answers, Has
    <2> QED BY <2>1, <2>2, <2>3, <2>4, <2>5 DEF Answers, AllOrNothing
  <1>14. Doomed'
    <2>1. Expiring' = Expiring /\ Expiring \subseteq Questions
      BY <1>1, ExpiringTyped DEF Expiring
    <2>2. \A v \in Workers : (Handling(v)' => Handling(v)) /\ (Answering(v)' => Answering(v) /\ Handling(v))
      BY <1>1 DEF Handling, Handles, Answering
    <2>3. \A q \in Questions : q \in lost => ~Has(q, {"none", "waiting", "running", "done"})'
      BY <1>3 DEF Has
    <2>4. \A q \in Questions :
            rows'[q].overrun /\ Has(q, {"none", "waiting", "running"})' => rows'[q].late
      BY <1>3, <2>3 DEF Doomed, Has
    <2>5. ASSUME NEW q \in Expiring'
          PROVE  /\ ~Has(q, {"none"})'
                 /\ Has(q, {"waiting"})' \/ (\E v \in Workers : Handling(v)' /\ threads'[v].q = q)
                    => rows'[q].late
                 /\ Has(q, {"done"})' \/ (\E v \in Workers : Answering(v)' /\ threads'[v].q = q)
                    => rows'[q].overrun
      <3>1. CASE q \in lost
        BY <1>1, <1>10, <2>1, <2>2, <2>3, <3>1 DEF Has
      <3>2. CASE q \notin lost
        BY <1>1, <1>3, <2>1, <2>2, <3>2 DEF Doomed, Has
      <3> QED BY <3>1, <3>2
    <2> QED BY <2>4, <2>5 DEF Doomed
  <1>15. Forgets'
    <2>1. \A n \in Meetings : forget[n].turns \cup forget[n].rows \subseteq Questions
      BY DEF TypeOK, Forgetting
    <2>2. \A n \in Meetings : \A q \in Questions :
            /\ Has(q, {"gone"}) => Has(q, {"gone"})'
            /\ n \in rows[q].cites => Has(q, {"gone"})' \/ n \in rows'[q].cites
            /\ n \in rows'[q].cites => n \in rows[q].cites
            /\ rows'[q].raced = rows[q].raced
      BY <1>3 DEF Has
    <2>3. \A u \in turns' : \E t \in turns : u.q = t.q /\ u.cites \subseteq t.cites /\ t.q \in Questions
      BY <1>5, <1>6
    <2>4. ASSUME NEW n \in Meetings, n # m
          PROVE  /\ \A q \in forget[n].turns \cup forget[n].rows :
                      Has(q, {"gone"})' \/ n \in rows'[q].cites
                 /\ forget[n].at # "none" => \A u \in turns' :
                      n \in u.cites => u.q \in forget[n].turns \/ n \in rows'[u.q].raced
                 /\ forget[n].at = "rows" =>
                      /\ \A q \in Questions :
                           n \in rows'[q].cites => q \in forget[n].rows \/ n \in rows'[q].raced
                      /\ \A q \in forget[n].turns : Has(q, {"gone"})' \/ q \in forget[n].rows
      BY <2>1, <2>2, <2>3, <2>4 DEF Forgets
    <2> QED BY <1>4, <2>4 DEF Forgets
  <1>16. NoGhostMeeting'
    BY <1>1, <1>3, <1>5, <1>9 DEF NoGhostMeeting
  <1>17. Sources'
    <2>1. \A u \in turns' : u.about \cap meetings' \subseteq u.cites
      BY <1>1, <1>5 DEF Sources
    <2> QED BY <1>1, <2>1 DEF Sources, Handling, At, Allowed
  <1> QED BY <1>11, <1>12, <1>13, <1>14, <1>15, <1>16, <1>17

-----------------------------------------------------------------------------
\* The initial states satisfy the invariant.
LEMMA InitHolds == Init => AnswerInv
  <1> SUFFICES ASSUME Init PROVE AnswerInv
    OBVIOUS
  <1>1. TypeOK
    <2>1. Kept \in Forgetting /\ Kept.at = "none" /\ Kept.turns = {} /\ Kept.rows = {}
      BY DEF Kept, Forgetting
    <2> QED BY <2>1, IdleTyped, QuestionsAssumption DEF Init, TypeOK, Row, Statuses, AThread, Deleting
  <1>2. Handled /\ Answers /\ NoGhostMeeting /\ Sources
    BY DEF Init, Handled, Handling, Handles, Answering, Answers, AllOrNothing, Has, NoGhostMeeting,
       Sources, At, Idle, Allowed
  <1>3. Doomed
    <2>1. Expiring = {}
      BY DEF Init, Expiring, Idle
    <2> QED BY <2>1 DEF Init, Doomed
  <1>4. Forgets
    BY DEF Init, Forgets, Kept
  <1> QED BY <1>1, <1>2, <1>3, <1>4 DEF AnswerInv

\* Every step keeps the invariant.
LEMMA AnswerStep == AnswerInv /\ [Next]_vars => AnswerInv'
  <1> SUFFICES ASSUME AnswerInv, [Next]_vars PROVE AnswerInv'
    OBVIOUS
  <1>1. CASE UNCHANGED vars
    <2> USE DEF AnswerInv
    <2>1. TypeOK'
      BY <1>1 DEF vars, TypeOK, Deleting
    <2>2. Handled'
      BY <1>1 DEF vars, Handled, Handling, Has
    <2>3. Answers' /\ NoGhostMeeting'
      BY <1>1 DEF vars, Answers, AllOrNothing, NoGhostMeeting, Has
    <2>4. Sources'
      BY <1>1 DEF vars, Sources, Handling, At, Allowed
    <2>5. Doomed'
      <3>1. Expiring' = Expiring
        BY <1>1 DEF vars, Expiring
      <3>2. \A v \in Workers : Handling(v)' =>
              Handling(v) /\ threads'[v].q = threads[v].q /\ (Answering(v)' => Answering(v))
        BY <1>1 DEF vars, Handling, Answering
      <3> QED BY <1>1, <3>1, <3>2, DoomedKept DEF vars
    <2>6. Forgets'
      BY <1>1, ForgetsKept DEF vars
    <2> QED BY <2>1, <2>2, <2>3, <2>4, <2>5, <2>6
  <1>2. ASSUME NEW w \in Workers, Unexpected(w) \/ Crash(w) PROVE AnswerInv'
    <2>1. CASE Unexpected(w)
      BY <2>1, IdleStep DEF Unexpected, AnswerInv, TypeOK
    <2>2. CASE Crash(w)
      <3>1. /\ UNCHANGED <<rows, turns, meetings, forget, page, active>>
            /\ threads' = [threads EXCEPT ![w] = Idle]
        BY <2>2 DEF Crash
      <3>2. restarts' \in Nat
        BY <2>2 DEF Crash, AnswerInv, TypeOK
      <3> QED BY <3>1, <3>2, IdleStep
    <2> QED BY <1>2, <2>1, <2>2
  <1>3. CASE HandOver
    <2> USE DEF AnswerInv
    <2>1. TypeOK'
      <3>1. /\ active' \in Workers /\ restarts' \in Nat
            /\ UNCHANGED <<rows, turns, meetings, forget, threads, page>>
        BY <1>3 DEF HandOver, TypeOK
      <3> QED BY <3>1 DEF TypeOK, Deleting
    <2>2. Handled'
      BY <1>3 DEF HandOver, Handled, Handling, Has
    <2>3. Answers' /\ NoGhostMeeting'
      BY <1>3 DEF HandOver, Answers, AllOrNothing, NoGhostMeeting, Has
    <2>4. Sources'
      BY <1>3 DEF HandOver, Sources, Handling, At, Allowed
    <2>5. Doomed'
      <3>1. Expiring' = Expiring
        BY <1>3 DEF HandOver, Expiring
      <3>2. \A v \in Workers : Handling(v)' =>
              Handling(v) /\ threads'[v].q = threads[v].q /\ (Answering(v)' => Answering(v))
        BY <1>3 DEF HandOver, Handling, Answering
      <3> QED BY <1>3, <3>1, <3>2, DoomedKept DEF HandOver
    <2>6. Forgets'
      BY <1>3, ForgetsKept DEF HandOver
    <2> QED BY <2>1, <2>2, <2>3, <2>4, <2>5, <2>6
  <1>4. ASSUME NEW w \in Workers, Works(w) PROVE AnswerInv'
    BY <1>2, <1>4, ReadStaleStep, ExpireStep, SelectStep, ClaimStep, PrepareStep, GiveUpStep,
       ReleaseStep, CallStep, AnsweredStep, FilterStep, RecordStep DEF Works
  <1> QED
    BY <1>1, <1>2, <1>3, <1>4, SubmitStep, AgeStep, PageReadsStep, PageStep, ForgetTurnsStep, ForgetRequestsStep,
       DeleteStep DEF Next, Deletes

-----------------------------------------------------------------------------
\* The rows, turns and threads keep their types, whatever the number of questions.
THEOREM TypeCorrect == Spec => []TypeOK
  <1>1. AnswerInv => TypeOK
    BY DEF AnswerInv
  <1> QED BY <1>1, InitHolds, AnswerStep, PTL DEF Spec

\* No handover, crash or expiry gives a question two handlers or two answers.
THEOREM OneHandler == Spec => []HandledOnce
  <1>1. AnswerInv => HandledOnce
    BY DEF AnswerInv, Handled, Answers, HandledOnce
  <1> QED BY <1>1, InitHolds, AnswerStep, PTL DEF Spec

\* An answer and its request are written together, and part only by an expiry of a
\* question that overran or by a deletion that was under way when it was recorded.
THEOREM WrittenTogether == Spec => []AllOrNothing
  <1>1. AnswerInv => AllOrNothing
    BY DEF AnswerInv, Answers
  <1> QED BY <1>1, InitHolds, AnswerStep, PTL DEF Spec

\* Deletions race with answers, statement by statement: no turn ever cites a meeting
\* that is gone, and a request does only if it was recorded during the deletion.
THEOREM GhostsNeverCited == Spec => []NoGhostMeeting
  <1>1. AnswerInv => NoGhostMeeting
    BY DEF AnswerInv
  <1> QED BY <1>1, InitHolds, AnswerStep, PTL DEF Spec

\* Confidential meetings reach the LLM only for questions that include them, through
\* the candidates or through the answers that are replayed.
THEOREM SentIsAllowed == Spec => []OnlyAllowed
  <1>1. AnswerInv => OnlyAllowed
    BY DEF AnswerInv, Sources, OnlyAllowed
  <1> QED BY <1>1, InitHolds, AnswerStep, PTL DEF Spec
=============================================================================
