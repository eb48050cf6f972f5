------------------------- MODULE QueueOrder_proofs -------------------------
(***************************************************************************)
(* That no entry of the queue overtakes an equal that came before it, for   *)
(* any number of jobs, priorities, slots and requests.  The invariant        *)
(* OrderInv says of every pair of before that both have the same base, the   *)
(* first the smaller position and at least the bonus of the second, or the   *)
(* same and at least its age: whatever aging gives the second, it gives the  *)
(* first no later, and a move of others keeps the ranks of the two in order. *)
(***************************************************************************)
EXTENDS QueueOrder, FiniteSetTheorems, FunctionTheorems, WellFoundedInduction, TLAPS

\* A finite set of naturals that is not empty has its maximum.
LEMMA MaxExists ==
  ASSUME NEW S, S \subseteq Nat, IsFiniteSet(S), S # {}
  PROVE  Max(S) \in S /\ \A y \in S : y <= Max(S)
  <1> DEFINE Above(x) == {y \in S : y > x}
             Tails == {Above(x) : x \in S}
  <1>1. Tails \subseteq FiniteSubsetsOf(S) /\ Tails # {}
    <2>1. \A x \in S : Above(x) \in SUBSET S /\ IsFiniteSet(Above(x))
      BY FS_Subset
    <2> HIDE DEF Above
    <2> QED BY <2>1 DEF FiniteSubsetsOf
  <1> HIDE DEF Tails
  <1>2. PICK t \in Tails : \A u \in Tails : ~ (<<u, t>> \in StrictSubsetOrdering(S))
    BY <1>1, FS_StrictSubsetOrderingWellFounded, WFMin
  <1>3. PICK x \in S : t = Above(x)
    BY DEF Tails
  <1>4. \A y \in S : y <= x
    <2> SUFFICES ASSUME NEW y \in S, y > x PROVE FALSE
      OBVIOUS
    <2> x \in Nat /\ y \in Nat /\ \A z \in S : z \in Nat
      OBVIOUS
    <2>1. /\ Above(y) \in SUBSET S /\ Above(x) \in SUBSET S
          /\ Above(y) \subseteq Above(x)
          /\ y \in Above(x) /\ y \notin Above(y)
      <3>1. \A z \in S : z > y => z > x
        OBVIOUS
      <3>2. ~ (y > y)
        OBVIOUS
      <3> QED BY <3>1, <3>2
    <2>2. Above(y) \in Tails
      BY DEF Tails
    <2> HIDE DEF Above
    <2>3. Above(y) # Above(x)
      BY <2>1
    <2> QED BY <1>2, <1>3, <2>1, <2>2, <2>3 DEF StrictSubsetOrdering
  <1> QED BY <1>4 DEF Max

\* The next position is beyond every position of its priority.
LEMMA NextBeyond ==
  ASSUME NEW rows \in [Jobs -> Row], NEW p
  PROVE  /\ NextPosition(rows, p) \in Nat \ {0}
         /\ \A j \in Jobs : rows[j].status # "none" /\ rows[j].base = p =>
              rows[j].position < NextPosition(rows, p)
  <1> DEFINE I == {i \in Jobs : rows[i].status # "none" /\ rows[i].base = p}
             T == {rows[j].position : j \in I}
             f == [i \in I |-> rows[i].position]
  <1>1. IsFiniteSet(I)
    BY JobsAssumption, FS_Subset
  <1>2. f \in Surjection(I, T)
    BY DEF Surjection
  <1>3. IsFiniteSet(T)
    BY <1>1, <1>2, FS_Surjection
  <1>4. IsFiniteSet({0} \cup T)
    <2>1. {0} \cup T = T \cup {0}
      OBVIOUS
    <2> QED BY <1>3, <2>1, FS_AddElement
  <1>5. {0} \cup T \subseteq Nat
    BY DEF Row
  <1> HIDE DEF T
  <1>6. Max({0} \cup T) \in Nat /\ \A y \in T : y <= Max({0} \cup T)
    BY <1>4, <1>5, MaxExists
  <1>7. NextPosition(rows, p) = 1 + Max({0} \cup T)
    BY DEF NextPosition, T
  <1>8. \A j \in I : rows[j].position \in T /\ rows[j].position \in Nat
    BY DEF T, Row
  <1>9. NextPosition(rows, p) \in Nat \ {0}
    BY <1>6, <1>7
  <1> QED
    <2> SUFFICES ASSUME NEW j \in Jobs, rows[j].status # "none" /\ rows[j].base = p
                 PROVE  rows[j].position < NextPosition(rows, p)
      BY <1>9
    <2>1. rows[j].position \in T /\ rows[j].position \in Nat
      BY <1>8
    <2> QED BY <1>6, <1>7, <2>1

\* The fields of a row are integers.
LEMMA RowNumbers ==
  ASSUME NEW r \in Row
  PROVE  /\ r.base \in Nat /\ r.bonus \in Nat /\ r.position \in Nat
         /\ r.rank \in Nat /\ r.age \in Nat
         /\ r.bonus <= MaxBonus /\ r.age <= Interval /\ Effective(r) \in Int
  <1>1. /\ r.base \in Priorities \cup {0} /\ r.bonus \in 0..MaxBonus
        /\ r.position \in Nat /\ r.rank \in 0..Cardinality(Jobs) /\ r.age \in 0..Interval
    BY DEF Row
  <1>2. r.base \in Nat
    <2>1. Priorities \cup {0} \subseteq Nat
      BY PrioritiesAssumption
    <2> QED BY <1>1, <2>1, Zenon
  <1>3. Cardinality(Jobs) \in Nat /\ MaxBonus \in Nat /\ Interval \in Nat
    BY JobsAssumption, FS_CardinalityType, SizesAssumption
  <1> QED BY <1>1, <1>2, <1>3 DEF Effective

\* The order is strict and transitive.
LEMMA AheadOrder ==
  ASSUME NEW r \in Row, NEW s \in Row, NEW t \in Row
  PROVE  ~Ahead(r, r) /\ (Ahead(r, s) /\ Ahead(s, t) => Ahead(r, t))
  <1> QED BY RowNumbers DEF Ahead

\* What is ahead of another has fewer ahead of it, and strictly so among a set that
\* holds it.
LEMMA AheadFewer ==
  ASSUME entry \in [Jobs -> Row], NEW S \in SUBSET Jobs, NEW i \in Jobs, NEW j \in Jobs,
         Ahead(entry[i], entry[j])
  PROVE  /\ AheadIn(S, i) \in Nat /\ AheadIn(S, j) \in Nat
         /\ AheadIn(S, i) <= AheadIn(S, j)
         /\ i \in S => AheadIn(S, i) < AheadIn(S, j)
  <1> DEFINE A == {k \in S : Ahead(entry[k], entry[i])}
             B == {k \in S : Ahead(entry[k], entry[j])}
  <1>1. \A k \in Jobs : entry[k] \in Row
    OBVIOUS
  <1>2. A \in SUBSET B
    BY <1>1, AheadOrder
  <1>3. i \in S => i \in B /\ i \notin A
    BY <1>1, AheadOrder
  <1>4. IsFiniteSet(B) /\ IsFiniteSet(A)
    BY JobsAssumption, FS_Subset
  <1> HIDE DEF A, B
  <1>5. Cardinality(A) \in Nat /\ Cardinality(B) \in Nat
    BY <1>4, FS_CardinalityType
  <1>6. Cardinality(A) <= Cardinality(B) /\ (Cardinality(B) = Cardinality(A) => B = A)
    BY <1>2, <1>4, FS_Subset
  <1> USE DEF A, B
  <1>7. AheadIn(S, i) = Cardinality(A) /\ AheadIn(S, j) = Cardinality(B)
    BY DEF AheadIn
  <1> HIDE DEF A, B
  <1> QED BY <1>3, <1>5, <1>6, <1>7

\* The smaller of two naturals.
LEMMA MinOfTwo ==
  ASSUME NEW a \in Nat, NEW b \in Nat
  PROVE  Min({a, b}) \in {a, b} /\ Min({a, b}) <= a /\ Min({a, b}) <= b
  <1>1. \E x \in {a, b} : \A y \in {a, b} : x <= y
    <2>1. CASE a <= b
      BY <2>1
    <2>2. CASE b <= a
      BY <2>2
    <2> QED BY <2>1, <2>2
  <1> QED BY <1>1 DEF Min

-----------------------------------------------------------------------------
(* The invariant.                                                           *)

\* A pair that came in this order, and what it becomes once both are in the queue.
Follows(j, k) ==
  /\ entry[j].status = "waiting"
  /\ \/ /\ asked[k].position > 0
        /\ asked[k].base = entry[j].base
        /\ entry[j].position < asked[k].position
     \/ /\ entry[k].status = "waiting"
        /\ entry[k].base = entry[j].base
        /\ entry[j].position < entry[k].position
        /\ \/ entry[k].bonus < entry[j].bonus
           \/ entry[k].bonus = entry[j].bonus /\ entry[k].age <= entry[j].age

OrderInv == TypeOK /\ \A p \in before : Follows(p[1], p[2])

\* The first of a pair is ahead of the second in the queue.
LEMMA FollowsIsAhead ==
  ASSUME TypeOK, NEW j \in Jobs, NEW k \in Jobs, Follows(j, k), entry[k].status = "waiting"
  PROVE  Ahead(entry[j], entry[k])
  <1>1. entry[j] \in Row /\ entry[k] \in Row
    BY DEF TypeOK
  <1>2. asked[k].position = 0
    BY DEF TypeOK, NoRow
  <1>3. /\ entry[k].base = entry[j].base /\ entry[j].position < entry[k].position
        /\ entry[k].bonus <= entry[j].bonus
    BY <1>1, <1>2, RowNumbers DEF Follows
  <1> QED BY <1>1, <1>3, RowNumbers DEF Ahead, Effective

-----------------------------------------------------------------------------
(* Steps that write one row.                                                *)

\* A row is not asked for again, and only waiting or pending jobs are paired.
LEMMA Unpaired ==
  ASSUME OrderInv, NEW j \in Jobs, entry[j].status # "none"
  PROVE  /\ asked[j].position = 0
         /\ entry[j].status # "waiting" => \A p \in before : p[1] # j /\ p[2] # j
  <1>1. asked[j].position = 0
    <2>1. asked[j].position \in Nat
      BY DEF OrderInv, TypeOK
    <2> QED BY <2>1 DEF OrderInv, TypeOK, NoRow
  <1> QED BY <1>1 DEF OrderInv, Follows

\* What a step that writes one row and forgets its pairs does to the rows and pairs.
LEMMA RowStep ==
  ASSUME OrderInv, NEW j \in Jobs, NEW r \in Row, asked[j].position = 0, UNCHANGED asked,
         entry' = [i \in Jobs |-> IF i = j THEN r ELSE entry[i]],
         before' \subseteq before, \A p \in before' : p[1] # j /\ p[2] # j
  PROVE  /\ entry' \in [Jobs -> Row]
         /\ asked' \in [Jobs -> [base: Priorities \cup {0}, position: Nat]]
         /\ \A i \in Jobs : asked'[i].position > 0 => entry'[i] = NoRow
         /\ before' \subseteq Jobs \X Jobs
         /\ \A p \in before' : Follows(p[1], p[2])'
  <1>1. entry' \in [Jobs -> Row]
    BY DEF OrderInv, TypeOK
  <1>2. \A i \in Jobs : i # j => entry'[i] = entry[i]
    OBVIOUS
  <1>3. before' \subseteq Jobs \X Jobs
    BY DEF OrderInv, TypeOK
  <1>4. \A i \in Jobs : asked'[i].position > 0 => entry'[i] = NoRow
    <2>1. ~ (0 > 0)
      OBVIOUS
    <2> QED BY <2>1, <1>2 DEF OrderInv, TypeOK
  <1>5. ASSUME NEW p \in before' PROVE Follows(p[1], p[2])'
    <2>1. /\ p[1] \in Jobs /\ p[2] \in Jobs /\ p[1] # j /\ p[2] # j
          /\ Follows(p[1], p[2])
      BY <1>3 DEF OrderInv
    <2> QED BY <1>2, <2>1 DEF Follows
  <1> QED BY <1>1, <1>3, <1>4, <1>5 DEF OrderInv, TypeOK

LEMMA OperateTyped == ASSUME TypeOK, Operate PROVE ops' \in 0..MaxOps
  BY SizesAssumption DEF TypeOK, Operate

LEMMA PrioritiseTyped ==
  ASSUME TypeOK, NEW p, Prioritise(p) PROVE ops' \in 0..MaxOps
  BY OperateTyped DEF TypeOK, Prioritise

\* A counter of each job stays in its bounds when one of them is reset.
LEMMA CountersTyped ==
  ASSUME TypeOK, NEW j \in Jobs
  PROVE  /\ [ran EXCEPT ![j] = 0] \in [Jobs -> 0..MaxRun]
         /\ [deferred EXCEPT ![j] = 0] \in [Jobs -> 0..MaxDeferrals]
  <1>1. 0 \in 0..MaxRun /\ 0 \in 0..MaxDeferrals
    BY SizesAssumption
  <1> QED BY <1>1 DEF TypeOK

LEMMA RefreshStep ==
  ASSUME OrderInv, NEW j \in Jobs, NEW p \in Priorities, Refresh(j, p) PROVE OrderInv'
  <1> DEFINE r == [entry[j] EXCEPT !.status = "waiting", !.base = p, !.due = TRUE]
  <1>1. r \in Row
    BY ZenonT(30) DEF OrderInv, TypeOK, Row
  <1>2. entry' = [i \in Jobs |-> IF i = j THEN r ELSE entry[i]]
    BY DEF OrderInv, TypeOK, Refresh
  <1> HIDE DEF r
  <1>3. asked[j].position = 0
    BY Unpaired DEF Refresh
  <1>4. before' \subseteq before /\ \A q \in before' : q[1] # j /\ q[2] # j
    BY DEF Refresh, Forget
  <1>5. ops' \in 0..MaxOps
    BY PrioritiseTyped DEF OrderInv, Refresh
  <1> QED BY <1>1, <1>2, <1>3, <1>4, <1>5, RowStep, ZenonT(30) DEF OrderInv, TypeOK, Refresh

LEMMA SetPriorityStep ==
  ASSUME OrderInv, NEW j \in Jobs, NEW p \in Priorities, SetPriority(j, p) PROVE OrderInv'
  <1> DEFINE set == [entry EXCEPT ![j].base = p]
             r == [entry[j] EXCEPT !.base = p, !.position = NextPosition(set, p)]
  <1>1. [entry[j] EXCEPT !.base = p] \in Row
    BY ZenonT(30) DEF OrderInv, TypeOK, Row
  <1>2. set = [i \in Jobs |-> IF i = j THEN [entry[j] EXCEPT !.base = p] ELSE entry[i]]
    BY DEF OrderInv, TypeOK
  <1>3. set \in [Jobs -> Row]
    BY <1>1, <1>2 DEF OrderInv, TypeOK
  <1>4. NextPosition(set, p) \in Nat
    <2> HIDE DEF set
    <2> QED BY <1>3, NextBeyond
  <1>5. r \in Row
    BY <1>4, ZenonT(30) DEF OrderInv, TypeOK, Row
  <1>6. entry' = [set EXCEPT ![j].position = NextPosition(set, p)]
    BY DEF SetPriority
  <1> DEFINE n == NextPosition(set, p)
  <1>7. entry' = [i \in Jobs |-> IF i = j THEN r ELSE entry[i]]
    <2> HIDE DEF n
    <2>1. entry' = [i \in Jobs |-> IF i = j THEN [set[j] EXCEPT !.position = n] ELSE set[i]]
      BY <1>2, <1>6 DEF n
    <2> QED BY <1>2, <2>1 DEF n
  <1> HIDE DEF r
  <1>8. asked[j].position = 0
    BY Unpaired DEF SetPriority, Rows, Have
  <1>9. before' \subseteq before /\ \A q \in before' : q[1] # j /\ q[2] # j
    BY DEF SetPriority, Forget
  <1>10. ops' \in 0..MaxOps
    BY OperateTyped DEF OrderInv, SetPriority
  <1> QED BY <1>5, <1>7, <1>8, <1>9, <1>10, RowStep DEF OrderInv, TypeOK, SetPriority

LEMMA CancelStep ==
  ASSUME OrderInv, NEW j \in Jobs, Cancel(j) PROVE OrderInv'
  <1> DEFINE r == [entry[j] EXCEPT !.status = "ended", !.bonus = 0]
  <1>1. r \in Row
    <2>1. 0 \in 0..MaxBonus
      BY SizesAssumption
    <2> QED BY <2>1, ZenonT(30) DEF OrderInv, TypeOK, Row
  <1>2. entry' = [i \in Jobs |-> IF i = j THEN r ELSE entry[i]]
    BY DEF OrderInv, TypeOK, Cancel, Ended
  <1> HIDE DEF r
  <1>3. asked[j].position = 0
    BY Unpaired DEF Cancel
  <1>4. before' \subseteq before /\ \A q \in before' : q[1] # j /\ q[2] # j
    BY DEF Cancel, Forget
  <1> QED BY <1>1, <1>2, <1>3, <1>4, RowStep, CountersTyped, ZenonT(30)
       DEF OrderInv, TypeOK, Cancel

LEMMA PauseStep ==
  ASSUME OrderInv, NEW j \in Jobs, Pause(j) PROVE OrderInv'
  <1> DEFINE r == [entry[j] EXCEPT !.status = "paused"]
  <1>1. r \in Row
    BY ZenonT(30) DEF OrderInv, TypeOK, Row
  <1>2. entry' = [i \in Jobs |-> IF i = j THEN r ELSE entry[i]]
    BY DEF OrderInv, TypeOK, Pause
  <1> HIDE DEF r
  <1>3. asked[j].position = 0
    BY Unpaired DEF Pause
  <1>4. before' \subseteq before /\ \A q \in before' : q[1] # j /\ q[2] # j
    BY DEF Pause, Forget
  <1>5. ops' \in 0..MaxOps
    BY OperateTyped DEF OrderInv, Pause
  <1> QED BY <1>1, <1>2, <1>3, <1>4, <1>5, RowStep DEF OrderInv, TypeOK, Pause

LEMMA ResumeStep ==
  ASSUME OrderInv, NEW j \in Jobs, Resume(j) PROVE OrderInv'
  <1> DEFINE r == [entry[j] EXCEPT !.status = "waiting"]
  <1>1. r \in Row
    BY DEF OrderInv, TypeOK, Row
  <1>2. entry' = [i \in Jobs |-> IF i = j THEN r ELSE entry[i]]
    BY DEF OrderInv, TypeOK, Resume
  <1> HIDE DEF r
  <1>3. asked[j].position = 0 /\ \A q \in before : q[1] # j /\ q[2] # j
    BY Unpaired DEF Resume
  <1> QED BY <1>1, <1>2, <1>3, RowStep, ZenonT(30) DEF OrderInv, TypeOK, Resume

LEMMA DispatchStep ==
  ASSUME OrderInv, NEW j \in Jobs, Dispatch(j) PROVE OrderInv'
  <1> DEFINE r == [entry[j] EXCEPT !.status = "running"]
  <1>1. r \in Row
    BY ZenonT(30) DEF OrderInv, TypeOK, Row
  <1>2. entry' = [i \in Jobs |-> IF i = j THEN r ELSE entry[i]]
    BY DEF OrderInv, TypeOK, Dispatch
  <1> HIDE DEF r
  <1>3. asked[j].position = 0
    BY Unpaired DEF Dispatch, Chosen, Candidates, Startable, Have
  <1>4. before' \subseteq before /\ \A q \in before' : q[1] # j /\ q[2] # j
    BY DEF Dispatch, Forget
  <1> QED BY <1>1, <1>2, <1>3, <1>4, RowStep DEF OrderInv, TypeOK, Dispatch

LEMMA FinishStep ==
  ASSUME OrderInv, NEW j \in Jobs, Finish(j) PROVE OrderInv'
  <1> DEFINE r == [entry[j] EXCEPT !.status = "ended", !.bonus = 0]
  <1>1. r \in Row
    <2>1. 0 \in 0..MaxBonus
      BY SizesAssumption
    <2> QED BY <2>1, ZenonT(30) DEF OrderInv, TypeOK, Row
  <1>2. entry' = [i \in Jobs |-> IF i = j THEN r ELSE entry[i]]
    BY DEF OrderInv, TypeOK, Finish, Ended
  <1> HIDE DEF r
  <1>3. asked[j].position = 0 /\ \A q \in before : q[1] # j /\ q[2] # j
    BY Unpaired DEF Finish
  <1> QED BY <1>1, <1>2, <1>3, RowStep, CountersTyped, ZenonT(30) DEF OrderInv, TypeOK, Finish

LEMMA DeferStep ==
  ASSUME OrderInv, NEW j \in Jobs, Defer(j) PROVE OrderInv'
  <1> DEFINE r == [entry[j] EXCEPT !.status = "waiting", !.due = FALSE]
  <1>1. r \in Row
    BY ZenonT(30) DEF OrderInv, TypeOK, Row
  <1>2. entry' = [i \in Jobs |-> IF i = j THEN r ELSE entry[i]]
    BY DEF OrderInv, TypeOK, Defer
  <1> HIDE DEF r
  <1>3. asked[j].position = 0 /\ \A q \in before : q[1] # j /\ q[2] # j
    BY Unpaired DEF Defer
  <1>4. deferred' \in [Jobs -> 0..MaxDeferrals]
    <2>1. deferred[j] + 1 \in 0..MaxDeferrals
      BY SizesAssumption DEF OrderInv, TypeOK, Defer
    <2> QED BY <2>1 DEF OrderInv, TypeOK, Defer
  <1>5. ran' \in [Jobs -> 0..MaxRun]
    BY CountersTyped DEF OrderInv, Defer
  <1>6. UNCHANGED <<asked, blocked, ops, before>>
    BY DEF Defer
  <1> QED BY <1>1, <1>2, <1>3, <1>4, <1>5, <1>6, RowStep DEF OrderInv, TypeOK

-----------------------------------------------------------------------------
(* Steps that insert a row, or write many.                                  *)

LEMMA AskStep ==
  ASSUME OrderInv, NEW k \in Jobs, NEW b \in Priorities, Ask(k, b) PROVE OrderInv'
  <1> DEFINE n == NextPosition(entry, b)
             a == [base |-> b, position |-> n]
  <1>1. n \in Nat \ {0} /\ \A j \in Jobs : entry[j].status # "none" /\ entry[j].base = b =>
                                           entry[j].position < n
    BY NextBeyond DEF OrderInv, TypeOK
  <1>2. asked' = [asked EXCEPT ![k] = a]
    BY DEF Ask
  <1> HIDE DEF n
  <1>3. a \in [base: Priorities \cup {0}, position: Nat] /\ a.base = b /\ a.position = n
    BY <1>1
  <1> HIDE DEF a
  <1>4. /\ asked' \in [Jobs -> [base: Priorities \cup {0}, position: Nat]]
        /\ \A i \in Jobs : asked'[i] = IF i = k THEN a ELSE asked[i]
    BY <1>2, <1>3 DEF OrderInv, TypeOK
  <1>5. \A i \in Jobs : asked'[i].position > 0 => entry'[i] = NoRow
    BY <1>4 DEF OrderInv, TypeOK, Ask
  <1>6. before' = before \cup ({i \in Have("waiting") : entry[i].base = b} \X {k})
    BY DEF Ask
  <1>7. before' \subseteq Jobs \X Jobs
    BY <1>6 DEF OrderInv, TypeOK, Have
  <1>8. ops' \in 0..MaxOps
    BY PrioritiseTyped DEF OrderInv, Ask
  <1>9. ASSUME NEW p \in before' PROVE Follows(p[1], p[2])'
    <2>1. p[1] \in Jobs /\ p[2] \in Jobs /\ entry' = entry
      BY <1>7 DEF Ask
    <2>2. CASE p \in before
      <3>1. Follows(p[1], p[2])
        BY <2>2 DEF OrderInv
      <3>2. p[2] # k
        <4>1. entry[k].status # "waiting" /\ ~ (asked[k].position > 0)
          BY DEF Ask, NoRow
        <4> QED BY <3>1, <4>1 DEF Follows
      <3> QED BY <2>1, <3>1, <3>2, <1>4 DEF Follows
    <2>3. CASE p[1] \in Have("waiting") /\ entry[p[1]].base = b /\ p[2] = k
      <3>1. entry[p[1]].status = "waiting" /\ entry[p[1]].position < n /\ n > 0
        BY <1>1, <2>3 DEF Have
      <3> QED BY <1>3, <1>4, <2>1, <2>3, <3>1 DEF Follows
    <2> QED BY <1>6, <2>2, <2>3
  <1>10. UNCHANGED <<entry, ran, deferred, blocked>>
    BY DEF Ask
  <1> QED BY <1>4, <1>5, <1>7, <1>8, <1>9, <1>10 DEF OrderInv, TypeOK

LEMMA InsertStep ==
  ASSUME OrderInv, NEW k \in Jobs, Insert(k) PROVE OrderInv'
  <1> DEFINE r == [status |-> "waiting", base |-> asked[k].base, bonus |-> 0,
                   position |-> asked[k].position, rank |-> Cardinality(Rows) + 1,
                   age |-> 0, due |-> TRUE]
             none == [base |-> 0, position |-> 0]
  <1>1. entry[k] = NoRow /\ asked[k] \in [base: Priorities \cup {0}, position: Nat]
    BY DEF OrderInv, TypeOK, Insert
  <1>2. Cardinality(Rows) + 1 \in 0..Cardinality(Jobs)
    <2>1. Rows \cup {k} \in SUBSET Jobs /\ k \notin Rows
      BY <1>1 DEF Rows, Have, NoRow
    <2>2. IsFiniteSet(Rows)
      BY JobsAssumption, FS_Subset DEF Rows
    <2>3. Cardinality(Rows \cup {k}) = Cardinality(Rows) + 1
      BY <2>1, <2>2, FS_AddElement
    <2>4. Cardinality(Rows \cup {k}) <= Cardinality(Jobs)
      BY <2>1, JobsAssumption, FS_Subset
    <2>5. Cardinality(Rows) \in Nat /\ Cardinality(Jobs) \in Nat
      BY <2>2, JobsAssumption, FS_CardinalityType
    <2> QED BY <2>3, <2>4, <2>5
  <1>3. r \in Row
    <2>1. 0 \in 0..MaxBonus /\ 0 \in 0..Interval
      BY SizesAssumption
    <2> QED BY <1>1, <1>2, <2>1 DEF Row
  <1>4. r.status = "waiting" /\ r.base = asked[k].base /\ r.position = asked[k].position
        /\ r.bonus = 0 /\ r.age = 0
    OBVIOUS
  <1>5. entry' = [entry EXCEPT ![k] = r] /\ asked' = [asked EXCEPT ![k] = none]
    BY DEF Insert
  <1>6. none \in [base: Priorities \cup {0}, position: Nat] /\ ~ (none.position > 0)
    OBVIOUS
  <1> HIDE DEF r, none
  <1>7. /\ entry' \in [Jobs -> Row]
        /\ asked' \in [Jobs -> [base: Priorities \cup {0}, position: Nat]]
        /\ \A i \in Jobs : entry'[i] = IF i = k THEN r ELSE entry[i]
        /\ \A i \in Jobs : asked'[i] = IF i = k THEN none ELSE asked[i]
    BY <1>3, <1>5, <1>6 DEF OrderInv, TypeOK
  <1>8. \A i \in Jobs : asked'[i].position > 0 => entry'[i] = NoRow
    BY <1>6, <1>7 DEF OrderInv, TypeOK
  <1>9. UNCHANGED <<ran, deferred, blocked, ops, before>>
    BY DEF Insert
  <1>10. ASSUME NEW p \in before' PROVE Follows(p[1], p[2])'
    <2>1. p[1] \in Jobs /\ p[2] \in Jobs /\ Follows(p[1], p[2])
      BY <1>9 DEF OrderInv, TypeOK
    <2>2. p[1] # k
      BY <1>1, <2>1 DEF Follows, NoRow
    <2>3. CASE p[2] = k
      <3>1. asked[k].base = entry[p[1]].base /\ entry[p[1]].position < asked[k].position
        BY <1>1, <2>1, <2>3 DEF Follows, NoRow
      <3>2. 0 < entry[p[1]].bonus \/ (0 = entry[p[1]].bonus /\ 0 <= entry[p[1]].age)
        <4>1. entry[p[1]].bonus \in Nat /\ entry[p[1]].age \in Nat
          BY <2>1, RowNumbers DEF OrderInv, TypeOK
        <4> QED BY <4>1
      <3> QED BY <1>4, <1>7, <2>1, <2>2, <2>3, <3>1, <3>2 DEF Follows
    <2>4. CASE p[2] # k
      BY <1>7, <2>1, <2>2, <2>4 DEF Follows
    <2> QED BY <2>3, <2>4
  <1> QED BY <1>7, <1>8, <1>9, <1>10 DEF OrderInv, TypeOK

\* What keeps the pairs when many rows are written.
LEMMA ManyRows ==
  ASSUME OrderInv, entry' \in [Jobs -> Row], UNCHANGED asked, before' \subseteq before,
         \A i \in Jobs : entry[i] = NoRow => entry'[i] = NoRow,
         \A p \in before' : Follows(p[1], p[2]) => Follows(p[1], p[2])'
  PROVE  /\ entry' \in [Jobs -> Row]
         /\ asked' \in [Jobs -> [base: Priorities \cup {0}, position: Nat]]
         /\ \A i \in Jobs : asked'[i].position > 0 => entry'[i] = NoRow
         /\ before' \subseteq Jobs \X Jobs
         /\ \A p \in before' : Follows(p[1], p[2])'
  BY DEF OrderInv, TypeOK

LEMMA BecomeDueStep ==
  ASSUME OrderInv, NEW j \in Jobs, BecomeDue(j) PROVE OrderInv'
  <1> DEFINE r == [entry[j] EXCEPT !.due = TRUE]
  <1>1. /\ r \in Row /\ r.status = entry[j].status /\ r.base = entry[j].base
        /\ r.bonus = entry[j].bonus /\ r.position = entry[j].position /\ r.age = entry[j].age
    BY ZenonT(30) DEF OrderInv, TypeOK, Row
  <1>2. entry' = [i \in Jobs |-> IF i = j THEN r ELSE entry[i]]
    BY DEF OrderInv, TypeOK, BecomeDue
  <1> HIDE DEF r
  <1>3. entry' \in [Jobs -> Row]
    BY <1>1, <1>2 DEF OrderInv, TypeOK
  <1>4. UNCHANGED <<asked, ran, deferred, blocked, ops, before>>
    BY DEF BecomeDue
  <1>5. \A i \in Jobs : entry[i] = NoRow => entry'[i] = NoRow
    <2>1. entry[j] # NoRow
      BY DEF BecomeDue, Have, NoRow
    <2> QED BY <1>2, <2>1
  <1>6. \A p \in before' : Follows(p[1], p[2]) => Follows(p[1], p[2])'
    <2> SUFFICES ASSUME NEW p \in before', Follows(p[1], p[2]) PROVE Follows(p[1], p[2])'
      OBVIOUS
    <2>1. p[1] \in Jobs /\ p[2] \in Jobs
      BY <1>4 DEF OrderInv, TypeOK
    <2>2. \A i \in Jobs : /\ entry'[i].status = entry[i].status /\ entry'[i].base = entry[i].base
                          /\ entry'[i].bonus = entry[i].bonus /\ entry'[i].age = entry[i].age
                          /\ entry'[i].position = entry[i].position
      BY <1>1, <1>2
    <2> QED BY <1>4, <2>1, <2>2 DEF Follows
  <1> QED BY <1>3, <1>4, <1>5, <1>6, ManyRows DEF OrderInv, TypeOK

LEMMA AgeStep == ASSUME OrderInv, Age PROVE OrderInv'
  <1> DEFINE r(j) == [entry[j] EXCEPT !.bonus = entry[j].bonus + 1, !.age = 0]
  <1>1. ASSUME NEW j \in Ripe
        PROVE  /\ r(j) \in Row /\ r(j).status = entry[j].status /\ r(j).base = entry[j].base
               /\ r(j).bonus = entry[j].bonus + 1 /\ r(j).position = entry[j].position
               /\ r(j).age = 0
    <2>1. j \in Jobs /\ entry[j] \in Row /\ entry[j].bonus < MaxBonus
      BY <1>1 DEF Ripe, Have, OrderInv, TypeOK
    <2>2. entry[j].bonus + 1 \in 0..MaxBonus /\ 0 \in 0..Interval
      BY <2>1, RowNumbers, SizesAssumption
    <2> QED BY <2>1, <2>2 DEF Row
  <1>2. \A j \in Jobs : entry'[j] = IF j \in Ripe THEN r(j) ELSE entry[j]
    BY DEF Age
  <1>3. entry' = [j \in Jobs |-> IF j \in Ripe THEN r(j) ELSE entry[j]]
    BY DEF Age
  <1> HIDE DEF r
  <1>4. entry' \in [Jobs -> Row]
    BY <1>1, <1>3 DEF OrderInv, TypeOK
  <1>5. UNCHANGED <<asked, ran, deferred, blocked, ops, before>>
    BY DEF Age
  <1>6. \A i \in Jobs : entry[i] = NoRow => entry'[i] = NoRow
    <2>1. \A i \in Ripe : entry[i] # NoRow
      BY DEF Ripe, Have, NoRow
    <2> QED BY <1>2, <2>1
  <1>7. ASSUME NEW p \in before', Follows(p[1], p[2]) PROVE Follows(p[1], p[2])'
    <2> DEFINE j == p[1]
               k == p[2]
    <2>1. j \in Jobs /\ k \in Jobs
      BY <1>5 DEF OrderInv, TypeOK
    <2> HIDE DEF j, k
    <2>2. Follows(j, k)
      BY <1>7 DEF j, k
    <2>3. \A i \in Jobs : /\ entry'[i].status = entry[i].status /\ entry'[i].base = entry[i].base
                          /\ entry'[i].position = entry[i].position
      BY <1>1, <1>2
    <2>4. CASE asked[k].position > 0 /\ asked[k].base = entry[j].base
               /\ entry[j].position < asked[k].position
      <3>1. Follows(j, k)'
        BY <1>5, <2>1, <2>2, <2>3, <2>4 DEF Follows
      <3> QED BY <3>1 DEF j, k
    <2>5. CASE /\ entry[k].status = "waiting" /\ entry[k].base = entry[j].base
               /\ entry[j].position < entry[k].position
               /\ \/ entry[k].bonus < entry[j].bonus
                  \/ entry[k].bonus = entry[j].bonus /\ entry[k].age <= entry[j].age
      <3>1. /\ entry[j].bonus \in Nat /\ entry[j].age \in Nat /\ entry[j].age <= Interval
            /\ entry[k].bonus \in Nat /\ entry[k].age \in Nat /\ Interval \in Nat
        BY <2>1, RowNumbers, SizesAssumption DEF OrderInv, TypeOK
      <3>2. \A i \in {j, k} :
              /\ i \in Ripe <=> entry[i].bonus < MaxBonus /\ entry[i].age = Interval
              /\ i \in Ripe => entry'[i].bonus = entry[i].bonus + 1 /\ entry'[i].age = 0
              /\ i \notin Ripe => entry'[i].bonus = entry[i].bonus /\ entry'[i].age = entry[i].age
        BY <1>1, <1>2, <2>1, <2>2, <2>5 DEF Ripe, Have, Follows
      <3>3. \/ entry'[k].bonus < entry'[j].bonus
            \/ entry'[k].bonus = entry'[j].bonus /\ entry'[k].age <= entry'[j].age
        <4>1. MaxBonus \in Nat
          BY SizesAssumption
        <4>2. CASE j \in Ripe /\ k \in Ripe
          BY <2>5, <3>1, <3>2, <4>2
        <4>3. CASE j \in Ripe /\ k \notin Ripe
          BY <2>5, <3>1, <3>2, <4>3
        <4>4. CASE j \notin Ripe /\ k \in Ripe
          BY <2>5, <3>1, <3>2, <4>1, <4>4
        <4>5. CASE j \notin Ripe /\ k \notin Ripe
          BY <2>5, <3>1, <3>2, <4>5
        <4> QED BY <4>2, <4>3, <4>4, <4>5
      <3>4. Follows(j, k)'
        BY <2>1, <2>2, <2>3, <2>5, <3>3 DEF Follows
      <3> QED BY <3>4 DEF j, k
    <2> QED BY <2>2, <2>4, <2>5 DEF Follows
  <1> QED BY <1>4, <1>5, <1>6, <1>7, ManyRows DEF OrderInv, TypeOK

LEMMA TickStep == ASSUME OrderInv, Tick PROVE OrderInv'
  <1> DEFINE older(i) == Min({Interval, entry[i].age + 1})
             r(i) == [entry[i] EXCEPT !.age = older(i), !.due = TRUE]
  <1>1. ASSUME NEW i \in Jobs
        PROVE  /\ older(i) \in {Interval, entry[i].age + 1}
               /\ older(i) <= Interval /\ older(i) <= entry[i].age + 1
    <2>1. Interval \in Nat /\ entry[i].age + 1 \in Nat
      BY RowNumbers, SizesAssumption DEF OrderInv, TypeOK
    <2> QED BY <2>1, MinOfTwo
  <1> HIDE DEF older
  <1>2. ASSUME NEW i \in Jobs
        PROVE  /\ r(i) \in Row /\ r(i).status = entry[i].status /\ r(i).base = entry[i].base
               /\ r(i).bonus = entry[i].bonus /\ r(i).position = entry[i].position
               /\ r(i).age = older(i)
    <2>1. entry[i] \in Row /\ older(i) \in 0..Interval
      BY <1>1, RowNumbers, SizesAssumption DEF OrderInv, TypeOK
    <2> QED BY <2>1 DEF Row
  <1>3. entry' = [i \in Jobs |-> IF i \notin Rows THEN NoRow ELSE r(i)]
    BY DEF Tick, older
  <1> HIDE DEF r
  <1>4. NoRow \in Row
    <2>1. 0 \in 0..MaxBonus /\ 0 \in 0..Interval /\ 0 \in 0..Cardinality(Jobs)
      BY SizesAssumption, JobsAssumption, FS_CardinalityType
    <2> QED BY <2>1 DEF NoRow, Row
  <1>5. entry' \in [Jobs -> Row]
    BY <1>2, <1>3, <1>4
  <1>6. UNCHANGED <<asked, deferred, blocked, ops, before>>
    BY DEF Tick
  <1>7. ran' \in [Jobs -> 0..MaxRun]
    <2>1. \A i \in Jobs : ran[i] \in 0..MaxRun /\ MaxRun \in Nat
      BY SizesAssumption DEF OrderInv, TypeOK
    <2>2. ASSUME NEW i \in Have("running") PROVE ran[i] + 1 \in 0..MaxRun
      <3>1. i \in Jobs /\ ran[i] < MaxRun
        BY DEF Tick, Have
      <3> QED BY <2>1, <3>1
    <2> QED BY <2>1, <2>2 DEF Tick
  <1>8. \A i \in Jobs : entry[i] = NoRow => entry'[i] = NoRow
    BY <1>3 DEF Rows, Have, NoRow
  <1>9. ASSUME NEW p \in before', Follows(p[1], p[2]) PROVE Follows(p[1], p[2])'
    <2> DEFINE j == p[1]
               k == p[2]
    <2>1. j \in Jobs /\ k \in Jobs
      BY <1>6 DEF OrderInv, TypeOK
    <2> HIDE DEF j, k
    <2>2. Follows(j, k)
      BY <1>9 DEF j, k
    <2>3. \A i \in Rows : entry'[i] = r(i)
      BY <1>3 DEF Rows
    <2>4. j \in Rows
      BY <2>1, <2>2 DEF Follows, Rows, Have
    <2>5. CASE asked[k].position > 0 /\ asked[k].base = entry[j].base
               /\ entry[j].position < asked[k].position
      <3>1. Follows(j, k)'
        BY <1>2, <1>6, <2>1, <2>2, <2>3, <2>4, <2>5 DEF Follows
      <3> QED BY <3>1 DEF j, k
    <2>6. CASE /\ entry[k].status = "waiting" /\ entry[k].base = entry[j].base
               /\ entry[j].position < entry[k].position
               /\ \/ entry[k].bonus < entry[j].bonus
                  \/ entry[k].bonus = entry[j].bonus /\ entry[k].age <= entry[j].age
      <3>1. k \in Rows
        BY <2>1, <2>6 DEF Rows, Have
      <3>2. entry[k].age <= entry[j].age => older(k) <= older(j)
        <4>1. entry[k].age \in Nat /\ entry[j].age \in Nat /\ Interval \in Nat
          BY <2>1, RowNumbers, SizesAssumption DEF OrderInv, TypeOK
        <4>2. \A i \in {j, k} : /\ older(i) = Interval \/ older(i) = entry[i].age + 1
                                /\ older(i) <= Interval /\ older(i) <= entry[i].age + 1
          BY <1>1, <2>1
        <4> QED BY <4>1, <4>2
      <3>3. Follows(j, k)'
        BY <1>2, <2>1, <2>2, <2>3, <2>4, <2>6, <3>1, <3>2 DEF Follows
      <3> QED BY <3>3 DEF j, k
    <2> QED BY <2>2, <2>5, <2>6 DEF Follows
  <1> QED BY <1>5, <1>6, <1>7, <1>8, <1>9, ManyRows DEF OrderInv, TypeOK

LEMMA MoveStep ==
  ASSUME OrderInv, NEW m \in Jobs, NEW n \in Nat, MoveTo(m, n) PROVE OrderInv'
  <1> DEFINE listed == Have("waiting") \cup Have("paused")
             others == listed \ {m}
             place == Min({n, Cardinality(others) + 1})
             rank(i) == 1 + AheadIn(others, i)
             position(i) == IF i = m THEN place
                            ELSE IF rank(i) < place THEN rank(i) ELSE rank(i) + 1
             r(i) == [entry[i] EXCEPT !.position = position(i)]
  <1>1. others \in SUBSET Jobs /\ IsFiniteSet(others)
    BY JobsAssumption, FS_Subset DEF Have
  <1>2. place \in Nat
    <2>1. Cardinality(others) + 1 \in Nat
      BY <1>1, FS_CardinalityType
    <2> QED BY <2>1, MinOfTwo
  <1>3. \A i \in Jobs : rank(i) \in Nat
    <2>1. \A i \in Jobs : {k \in others : Ahead(entry[k], entry[i])} \in SUBSET others
      OBVIOUS
    <2> HIDE DEF others
    <2>2. \A i \in Jobs : AheadIn(others, i) \in Nat
      BY <1>1, <2>1, FS_Subset, FS_CardinalityType DEF AheadIn
    <2> QED BY <2>2
  <1>4. entry' = [i \in Jobs |-> IF i \in listed THEN r(i) ELSE entry[i]]
    BY DEF MoveTo
  <1>5. before' = {p \in before : /\ p[1] \notin {m} \cup {i \in Jobs : asked[i].position > 0}
                                  /\ p[2] \notin {m} \cup {i \in Jobs : asked[i].position > 0}}
    BY DEF MoveTo, Forget
  <1> HIDE DEF place, rank
  <1>6. \A i \in Jobs : position(i) \in Nat
    BY <1>2, <1>3
  <1>7. ASSUME NEW i \in Jobs
        PROVE  /\ r(i) \in Row /\ r(i).status = entry[i].status /\ r(i).base = entry[i].base
               /\ r(i).bonus = entry[i].bonus /\ r(i).age = entry[i].age
               /\ r(i).position = position(i)
    <2> HIDE DEF position
    <2> QED BY <1>6 DEF OrderInv, TypeOK, Row
  <1> HIDE DEF r
  <1>8. entry' \in [Jobs -> Row]
    BY <1>4, <1>7 DEF OrderInv, TypeOK
  <1>9. UNCHANGED <<asked, ran, deferred, blocked>> /\ ops' \in 0..MaxOps
    BY OperateTyped DEF OrderInv, MoveTo
  <1>10. \A i \in Jobs : entry[i] = NoRow => entry'[i] = NoRow
    BY <1>4 DEF Have, NoRow
  <1>11. ASSUME NEW p \in before', Follows(p[1], p[2]) PROVE Follows(p[1], p[2])'
    <2> DEFINE j == p[1]
               k == p[2]
    <2>1. j \in Jobs /\ k \in Jobs /\ j # m /\ k # m /\ ~ (asked[k].position > 0)
      BY <1>5 DEF OrderInv, TypeOK
    <2> HIDE DEF j, k
    <2>2. Follows(j, k) /\ entry[j].status = "waiting" /\ entry[k].status = "waiting"
      BY <1>11, <2>1 DEF j, k, Follows
    <2>3. j \in listed /\ k \in listed /\ j \in others
      BY <2>1, <2>2 DEF Have
    <2>4. entry'[j] = r(j) /\ entry'[k] = r(k)
      BY <1>4, <2>1, <2>3
    <2>5. Ahead(entry[j], entry[k])
      BY <2>1, <2>2, FollowsIsAhead DEF OrderInv
    <2>6. rank(j) < rank(k)
      <3> HIDE DEF others
      <3>1. /\ AheadIn(others, j) \in Nat /\ AheadIn(others, k) \in Nat
            /\ AheadIn(others, j) < AheadIn(others, k)
        BY <1>1, <2>1, <2>3, <2>5, AheadFewer DEF OrderInv, TypeOK
      <3> QED BY <3>1 DEF rank
    <2>7. position(j) < position(k)
      BY <1>2, <1>3, <2>1, <2>6
    <2> HIDE DEF position
    <2>8. Follows(j, k)'
      BY <1>7, <2>1, <2>2, <2>4, <2>7 DEF Follows
    <2> QED BY <2>8 DEF j, k
  <1>12. before' \subseteq before
    BY <1>5
  <1> QED BY <1>8, <1>9, <1>10, <1>11, <1>12, ManyRows DEF OrderInv, TypeOK

-----------------------------------------------------------------------------
(* The theorems.                                                            *)

LEMMA InitHolds == Init => OrderInv
  <1>1. NoRow \in Row
    <2>1. 0 \in 0..MaxBonus /\ 0 \in 0..Interval /\ 0 \in 0..Cardinality(Jobs)
      BY SizesAssumption, JobsAssumption, FS_CardinalityType
    <2> QED BY <2>1 DEF NoRow, Row
  <1>2. 0 \in 0..MaxRun /\ 0 \in 0..MaxDeferrals /\ 0 \in 0..MaxOps
    BY SizesAssumption
  <1> QED BY <1>1, <1>2 DEF Init, OrderInv, TypeOK

LEMMA OrderStep == OrderInv /\ [Next]_vars => OrderInv'
<1> SUFFICES ASSUME OrderInv, [Next]_vars PROVE OrderInv'
  OBVIOUS
<1>1. ASSUME NEW j \in Jobs, NEW p \in Priorities, Ask(j, p) \/ Refresh(j, p) \/ SetPriority(j, p)
      PROVE  OrderInv'
  BY <1>1, AskStep, RefreshStep, SetPriorityStep
<1>2. ASSUME NEW j \in Jobs, NEW r \in 1..Cardinality(Jobs), MoveTo(j, r) PROVE OrderInv'
  <2>1. r \in Nat
    BY JobsAssumption, FS_CardinalityType
  <2> QED BY <1>2, <2>1, MoveStep
<1>3. ASSUME NEW j \in Jobs, Insert(j) \/ Cancel(j) \/ Pause(j) \/ Resume(j) PROVE OrderInv'
  BY <1>3, InsertStep, CancelStep, PauseStep, ResumeStep
<1>4. ASSUME NEW j \in Jobs, Dispatch(j) \/ Finish(j) \/ Defer(j) \/ BecomeDue(j) PROVE OrderInv'
  BY <1>4, DispatchStep, FinishStep, DeferStep, BecomeDueStep
<1>5. CASE Age
  BY <1>5, AgeStep
<1>6. CASE Tick
  BY <1>6, TickStep
<1>7. CASE UNCHANGED vars
  BY <1>7 DEF vars, OrderInv, TypeOK, Follows
<1> QED BY <1>1, <1>2, <1>3, <1>4, <1>5, <1>6, <1>7 DEF Next

\* The rows, the requests and the pairs keep their types (queue/store.py writes nothing
\* over a row that is still to be inserted).
THEOREM TypeCorrect == Spec => []TypeOK
<1>1. OrderInv => TypeOK
  BY DEF OrderInv
<1> QED BY <1>1, InitHolds, OrderStep, PTL DEF Spec

\* What a dispatch takes has no equal ahead of it that could run.
LEMMA DispatchInOrder ==
  ASSUME OrderInv, NEW d \in Jobs, Dispatch(d), NEW p \in before, p[2] = d
  PROVE  p[1] \notin Startable \ blocked
  <1> SUFFICES ASSUME p[1] \in Startable \ blocked PROVE FALSE
    OBVIOUS
  <1> DEFINE j == p[1]
  <1>1. j \in Jobs /\ Follows(j, d) /\ j \in Startable /\ j \notin blocked
    BY DEF OrderInv, TypeOK
  <1> HIDE DEF j
  <1>2. d \in Candidates /\ \A i \in Candidates \ blocked : ~Ahead(entry[i], entry[d])
    BY DEF Dispatch, Chosen
  <1>3. entry[d].status = "waiting" /\ AheadIn(Startable, d) < Limit
    BY <1>2 DEF Candidates, Startable, Have
  <1>4. Ahead(entry[j], entry[d])
    BY <1>1, <1>3, FollowsIsAhead DEF OrderInv
  <1>5. AheadIn(Startable, j) < Limit
    <2>1. Startable \in SUBSET Jobs
      BY DEF Startable, Have
    <2>2. /\ AheadIn(Startable, j) \in Nat /\ AheadIn(Startable, d) \in Nat
          /\ AheadIn(Startable, j) <= AheadIn(Startable, d)
      BY <1>1, <1>4, <2>1, AheadFewer DEF OrderInv, TypeOK
    <2>3. Limit \in Nat
      BY SizesAssumption
    <2> QED BY <1>3, <2>2, <2>3
  <1>6. j \in Candidates
    BY <1>1, <1>5 DEF Candidates
  <1> QED BY <1>1, <1>2, <1>4, <1>6

LEMMA OvertakingStep ==
  OrderInv /\ [Next]_vars =>
    \A p \in before : entry[p[2]].status = "waiting" /\ entry'[p[2]].status = "running" =>
                        p[1] \notin Startable \ blocked
<1> SUFFICES ASSUME OrderInv, [Next]_vars, NEW p \in before,
                    entry[p[2]].status = "waiting", entry'[p[2]].status = "running"
             PROVE  p[1] \notin Startable \ blocked
  OBVIOUS
<1> DEFINE k == p[2]
<1>1. k \in Jobs /\ entry[k].status = "waiting" /\ entry'[k].status = "running"
  BY DEF OrderInv, TypeOK
<1> HIDE DEF k
<1>2. entry[k] # NoRow
  BY <1>1 DEF NoRow
<1>3. ASSUME NEW j \in Jobs, NEW b \in Priorities, Ask(j, b) \/ Refresh(j, b) \/ SetPriority(j, b)
      PROVE  FALSE
  <2>1. CASE Ask(j, b)
    BY <1>1, <2>1 DEF Ask
  <2>2. CASE Refresh(j, b)
    <3>1. entry'[k].status = IF k = j THEN "waiting" ELSE entry[k].status
      BY <1>1, <2>2 DEF OrderInv, TypeOK, Refresh
    <3> QED BY <1>1, <3>1
  <2>3. CASE SetPriority(j, b)
    <3>1. entry'[k].status = entry[k].status
      BY <1>1, <2>3 DEF OrderInv, TypeOK, SetPriority
    <3> QED BY <1>1, <3>1
  <2> QED BY <1>3, <2>1, <2>2, <2>3
<1>4. ASSUME NEW j \in Jobs, NEW r \in 1..Cardinality(Jobs), MoveTo(j, r) PROVE FALSE
  BY <1>1, <1>4 DEF OrderInv, TypeOK, MoveTo
<1>5. ASSUME NEW j \in Jobs, Insert(j) \/ Cancel(j) \/ Pause(j) \/ Resume(j) PROVE FALSE
  <2>1. CASE Insert(j)
    <3>1. k # j
      BY <1>2, <2>1 DEF OrderInv, TypeOK, Insert
    <3>2. entry'[k] = entry[k]
      BY <1>1, <2>1, <3>1 DEF OrderInv, TypeOK, Insert
    <3> QED BY <1>1, <3>2
  <2>2. CASE Cancel(j)
    <3>1. entry'[k].status = IF k = j THEN "ended" ELSE entry[k].status
      BY <1>1, <2>2 DEF OrderInv, TypeOK, Cancel, Ended
    <3> QED BY <1>1, <3>1
  <2>3. CASE Pause(j)
    <3>1. entry'[k].status = IF k = j THEN "paused" ELSE entry[k].status
      BY <1>1, <2>3 DEF OrderInv, TypeOK, Pause
    <3> QED BY <1>1, <3>1
  <2>4. CASE Resume(j)
    <3>1. entry'[k].status = IF k = j THEN "waiting" ELSE entry[k].status
      BY <1>1, <2>4 DEF OrderInv, TypeOK, Resume
    <3> QED BY <1>1, <3>1
  <2> QED BY <1>5, <2>1, <2>2, <2>3, <2>4
<1>6. ASSUME NEW j \in Jobs, Finish(j) \/ Defer(j) \/ BecomeDue(j) PROVE FALSE
  <2>1. CASE Finish(j)
    <3>1. entry'[k].status = IF k = j THEN "ended" ELSE entry[k].status
      BY <1>1, <2>1 DEF OrderInv, TypeOK, Finish, Ended
    <3> QED BY <1>1, <3>1
  <2>2. CASE Defer(j)
    <3>1. entry'[k].status = IF k = j THEN "waiting" ELSE entry[k].status
      BY <1>1, <2>2 DEF OrderInv, TypeOK, Defer
    <3> QED BY <1>1, <3>1
  <2>3. CASE BecomeDue(j)
    <3>1. entry'[k].status = entry[k].status
      BY <1>1, <2>3 DEF OrderInv, TypeOK, BecomeDue
    <3> QED BY <1>1, <3>1
  <2> QED BY <1>6, <2>1, <2>2, <2>3
<1>7. ASSUME NEW j \in Jobs, Dispatch(j) PROVE p[1] \notin Startable \ blocked
  <2>1. j = k
    BY <1>1, <1>7 DEF OrderInv, TypeOK, Dispatch
  <2> QED BY <1>7, <2>1, DispatchInOrder DEF k
<1>8. CASE Age
  <2>1. entry[k] \in Row
    BY <1>1 DEF OrderInv, TypeOK
  <2>2. entry'[k].status = entry[k].status
    BY <1>1, <1>8, <2>1 DEF Row, Age
  <2> QED BY <1>1, <2>2
<1>9. CASE Tick
  <2>1. k \in Rows /\ entry[k] \in Row
    BY <1>1 DEF OrderInv, TypeOK, Rows, Have
  <2>2. entry'[k].status = entry[k].status
    BY <1>1, <1>9, <2>1 DEF Row, Tick
  <2> QED BY <1>1, <2>2
<1>10. CASE UNCHANGED vars
  BY <1>1, <1>10 DEF vars
<1> QED BY <1>3, <1>4, <1>5, <1>6, <1>7, <1>8, <1>9, <1>10 DEF Next

\* Among jobs of one priority nobody has touched since, none overtakes another that
\* waited when it was submitted and could run (get_next_candidates, apply_aging and
\* move_to_position agree on the order).
THEOREM FirstComeFirstServed == Spec => NoOvertaking
<1>1. OrderInv /\ [Next]_vars =>
        [\A p \in before : entry[p[2]].status = "waiting" /\ entry'[p[2]].status = "running" =>
                              p[1] \notin Startable \ blocked]_vars
  BY OvertakingStep
<1> QED BY <1>1, InitHolds, OrderStep, PTL DEF Spec, NoOvertaking
=============================================================================
