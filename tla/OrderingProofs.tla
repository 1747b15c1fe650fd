--------------------------- MODULE OrderingProofs ---------------------------
(***************************************************************************)
(* Proofs about the ordering, for any jobs, any bound and any budgets.     *)
(* That sorting lists every job rests on the counting of CountingLemmas,   *)
(* and what the loop comes to when it is played on to its end is induction *)
(* over its turns (IntervalInduction).                                     *)
(***************************************************************************)
EXTENDS Ordering, CountingLemmas, FiniteSetTheorems, TLAPS

Job == [job_id : Nat, priority : Priority, arrival : Nat]

-----------------------------------------------------------------------------
(* The ranking                                                             *)

LEMMA SortKeyIsTotalOrder ==
  ASSUME NEW w \in Job, NEW v \in Job, NEW u \in Job
  PROVE  /\ ~sort_key_before(w, w)
         /\ sort_key_before(w, v) /\ sort_key_before(v, u) => sort_key_before(w, u)
         /\ w # v => sort_key_before(w, v) \/ sort_key_before(v, w)
  <1>1. \A x \in Job : /\ x.priority \in Priority /\ x.arrival \in Nat /\ x.job_id \in Nat
                       /\ x = [job_id |-> x.job_id, priority |-> x.priority,
                               arrival |-> x.arrival]
    BY DEF Job
  <1>2. /\ RANK["interactive"] = 0 /\ RANK["background"] = 1
        /\ Priority = {"interactive", "background"}
    BY DEF RANK, Priority
  <1>3. ~sort_key_before(w, w)
    BY <1>1, <1>2 DEF sort_key_before
  <1>4. sort_key_before(w, v) /\ sort_key_before(v, u) => sort_key_before(w, u)
    BY <1>1, <1>2 DEF sort_key_before
  <1>5. w # v => sort_key_before(w, v) \/ sort_key_before(v, w)
    BY <1>1, <1>2 DEF sort_key_before
  <1> QED BY <1>3, <1>4, <1>5

\* sorted lists every job once, each behind the ones with a smaller key.
LEMMA RankingLists ==
  ASSUME NEW jobs \in SUBSET Job, IsFiniteSet(jobs)
  PROVE  LET ranked == ranking(jobs)
             n == Cardinality(jobs)
         IN  /\ n \in Nat /\ DOMAIN ranked = 1 .. n
             /\ \A i \in 1 .. n : ranked[i] \in jobs
             /\ \A w \in jobs : \E i \in 1 .. n : ranked[i] = w
             /\ \A i, j \in 1 .. n : i < j => sort_key_before(ranked[i], ranked[j])
  <1> DEFINE R == {p \in jobs \X jobs : sort_key_before(p[1], p[2])}
  <1>1. /\ \A w \in jobs : <<w, w>> \notin R
        /\ \A w, v, u \in jobs : <<w, v>> \in R /\ <<v, u>> \in R => <<w, u>> \in R
        /\ \A w, v \in jobs : w # v => <<w, v>> \in R \/ <<v, w>> \in R
    BY SortKeyIsTotalOrder
  <1>2. \A w, v \in jobs : sort_key_before(w, v) <=> <<w, v>> \in R
    OBVIOUS
  <1>3. \A w \in jobs : {v \in jobs : sort_key_before(v, w)} = Under(jobs, R, w)
    BY DEF Under
  <1> HIDE DEF R
  <1>4. \A w \in jobs : Cardinality({v \in jobs : sort_key_before(v, w)}) = Place(jobs, R, w)
    BY <1>3 DEF Place
  <1>5. ranking(jobs) = Sorted(jobs, R)
    BY <1>4 DEF ranking, Sorted
  <1>6. LET n == Cardinality(jobs)
            ranked == Sorted(jobs, R)
        IN  /\ n \in Nat /\ DOMAIN ranked = 1 .. n
            /\ \A i \in 1 .. n : ranked[i] \in jobs
            /\ \A w \in jobs : \E i \in 1 .. n : ranked[i] = w
            /\ \A i, j \in 1 .. n : i < j => <<ranked[i], ranked[j]>> \in R
    BY <1>1, SortedLists
  <1> QED BY <1>2, <1>5, <1>6

\* next_to_start answers with the job at the least index that can start.
LEMMA NextIsLeast ==
  ASSUME NEW n \in Nat, NEW ordered, DOMAIN ordered = 1 .. n, NEW startable,
         \E i \in 1 .. n : ordered[i] \in startable
  PROVE  \E m \in 1 .. n :
           /\ ordered[m] \in startable /\ next_to_start(ordered, startable) = ordered[m]
           /\ \A i \in 1 .. n : ordered[i] \in startable => m <= i
  <1> DEFINE able == {i \in DOMAIN ordered : ordered[i] \in startable}
  <1>1. able \in SUBSET (1 .. n) /\ able # {}
    OBVIOUS
  <1>2. next_to_start(ordered, startable) = ordered[Min(able)]
    BY <1>1 DEF next_to_start
  <1>3. Min(able) \in able /\ \A i \in able : Min(able) <= i
    <2> HIDE DEF able
    <2> QED BY <1>1, LeastIndex
  <1> QED BY <1>2, <1>3

\* The background job that was ranked first is ahead of all, and the others keep their order.
LEMMA PromoteLists ==
  ASSUME NEW n \in Nat, NEW ranked, DOMAIN ranked = 1 .. n,
         \E i \in 1 .. n : ranked[i].priority = "background"
  PROVE  \E k \in 1 .. n :
           /\ ranked[k].priority = "background"
           /\ \A i \in 1 .. n : ranked[i].priority = "background" => k <= i
           /\ DOMAIN promote(ranked) = 1 .. n
           /\ promote(ranked)[1] = ranked[k]
           /\ \A i \in 2 .. k : promote(ranked)[i] = ranked[i - 1]
           /\ \A i \in k + 1 .. n : promote(ranked)[i] = ranked[i]
  <1> DEFINE bg == {i \in DOMAIN ranked : ranked[i].priority = "background"}
             k == Min(bg)
  <1>1. bg \in SUBSET (1 .. n) /\ bg # {}
    OBVIOUS
  <1>2. k \in bg /\ \A i \in bg : k <= i
    <2> HIDE DEF bg
    <2> QED BY <1>1, LeastIndex
  <1>3. k \in 1 .. n /\ ranked[k].priority = "background"
    BY <1>2
  <1>4. promote(ranked) = [i \in 1 .. n |-> CASE i = 1 -> ranked[k]
                                              [] i \in 2 .. k -> ranked[i - 1]
                                              [] OTHER -> ranked[i]]
    BY DEF promote
  <1> HIDE DEF k
  <1>5. promote(ranked)[1] = ranked[k]
    BY <1>3, <1>4
  <1>6. \A i \in 2 .. k : promote(ranked)[i] = ranked[i - 1]
    BY <1>3, <1>4
  <1>7. \A i \in k + 1 .. n : promote(ranked)[i] = ranked[i]
    BY <1>3, <1>4
  <1> QED BY <1>2, <1>3, <1>4, <1>5, <1>6, <1>7

\* What starts is the first of those that can by the sort key, or the first background
\* job once the run has reached the bound; and if that one can start it is the one.
LEMMA WhatStarts ==
  ASSUME NEW jobs \in SUBSET Job, IsFiniteSet(jobs), NEW run \in Nat,
         NEW startable \in SUBSET jobs, startable # {}
  PROVE  LET started == next_to_start(order(jobs, run), startable)
         IN  /\ started \in startable
             /\ \/ \A v \in startable \ {started} : sort_key_before(started, v)
                \/ /\ run >= Bound
                   /\ started \in Background(jobs)
                   /\ \A v \in Background(jobs) \ {started} : sort_key_before(started, v)
             /\ run >= Bound =>
                  \A b \in Background(jobs) \cap startable :
                    (\A v \in Background(jobs) \ {b} : sort_key_before(b, v)) => started = b
  <1> DEFINE n == Cardinality(jobs)
             ranked == ranking(jobs)
             ordered == order(jobs, run)
             started == next_to_start(ordered, startable)
  <1> SUFFICES
        /\ started \in startable
        /\ \/ \A v \in startable \ {started} : sort_key_before(started, v)
           \/ /\ run >= Bound
              /\ started \in Background(jobs)
              /\ \A v \in Background(jobs) \ {started} : sort_key_before(started, v)
        /\ run >= Bound =>
             \A b \in Background(jobs) \cap startable :
               (\A v \in Background(jobs) \ {b} : sort_key_before(b, v)) => started = b
    OBVIOUS
  <1>1. /\ n \in Nat /\ DOMAIN ranked = 1 .. n
        /\ \A i \in 1 .. n : ranked[i] \in jobs
        /\ \A w \in jobs : \E i \in 1 .. n : ranked[i] = w
        /\ \A i, j \in 1 .. n : i < j => sort_key_before(ranked[i], ranked[j])
    BY RankingLists
  <1>2. Bound \in Nat
    BY BoundAssumption
  <1> HIDE DEF ranked, n
  <1>3. CASE run < Bound \/ Background(jobs) = {}
    <2>1. ordered = ranked
      BY <1>3 DEF order, ranked
    <2> HIDE DEF ordered, started
    <2>2. \E i \in 1 .. n : ordered[i] \in startable
      BY <1>1, <2>1
    <2>3. PICK m \in 1 .. n : /\ ordered[m] \in startable /\ started = ordered[m]
                              /\ \A i \in 1 .. n : ordered[i] \in startable => m <= i
      BY <1>1, <2>1, <2>2, NextIsLeast DEF started
    <2>4. \A v \in startable \ {started} : sort_key_before(started, v)
      <3> SUFFICES ASSUME NEW v \in startable, v # started
                   PROVE  sort_key_before(started, v)
        OBVIOUS
      <3>1. PICK j \in 1 .. n : ranked[j] = v
        BY <1>1
      <3>2. m <= j /\ m # j
        BY <2>1, <2>3, <3>1
      <3>3. m < j
        BY <1>1, <3>2
      <3> QED BY <1>1, <2>1, <2>3, <3>1, <3>3
    <2>5. run >= Bound => Background(jobs) = {}
      BY <1>2, <1>3
    <2> QED BY <2>3, <2>4, <2>5
  <1>4. CASE ~(run < Bound \/ Background(jobs) = {})
    <2>1. ordered = promote(ranked) /\ run >= Bound
      BY <1>2, <1>4 DEF order, ranked
    <2> HIDE DEF ordered, started
    <2>2. \E i \in 1 .. n : ranked[i].priority = "background"
      BY <1>1, <1>4 DEF Background
    <2>3. PICK k \in 1 .. n :
            /\ ranked[k].priority = "background"
            /\ \A i \in 1 .. n : ranked[i].priority = "background" => k <= i
            /\ DOMAIN ordered = 1 .. n
            /\ ordered[1] = ranked[k]
            /\ \A i \in 2 .. k : ordered[i] = ranked[i - 1]
            /\ \A i \in k + 1 .. n : ordered[i] = ranked[i]
      <3>1. \E k \in 1 .. n :
              /\ ranked[k].priority = "background"
              /\ \A i \in 1 .. n : ranked[i].priority = "background" => k <= i
              /\ DOMAIN promote(ranked) = 1 .. n
              /\ promote(ranked)[1] = ranked[k]
              /\ \A i \in 2 .. k : promote(ranked)[i] = ranked[i - 1]
              /\ \A i \in k + 1 .. n : promote(ranked)[i] = ranked[i]
        BY <1>1, <2>2, PromoteLists
      <3> QED BY <2>1, <3>1
    <2>4. /\ ranked[k] \in Background(jobs)
          /\ \A v \in Background(jobs) \ {ranked[k]} : sort_key_before(ranked[k], v)
      <3>1. ranked[k] \in Background(jobs)
        BY <1>1, <2>3 DEF Background
      <3>2. ASSUME NEW v \in Background(jobs), v # ranked[k]
            PROVE  sort_key_before(ranked[k], v)
        <4>1. PICK j \in 1 .. n : ranked[j] = v
          BY <1>1 DEF Background
        <4>2. v.priority = "background" /\ k <= j /\ k # j
          BY <2>3, <3>2, <4>1 DEF Background
        <4>3. k < j
          BY <1>1, <4>2
        <4> QED BY <1>1, <4>1, <4>3
      <3> QED BY <3>1, <3>2
    <2>5. \A j \in 1 .. n : \E i \in 1 .. n : /\ ordered[i] = ranked[j]
                                              /\ i = IF j < k THEN j + 1
                                                     ELSE IF j = k THEN 1 ELSE j
      <3> SUFFICES ASSUME NEW j \in 1 .. n
                   PROVE  LET i == IF j < k THEN j + 1 ELSE IF j = k THEN 1 ELSE j
                          IN  i \in 1 .. n /\ ordered[i] = ranked[j]
        OBVIOUS
      <3>1. CASE j < k
        <4>1. j + 1 \in 2 .. k /\ j + 1 \in 1 .. n /\ j + 1 - 1 = j
          BY <1>1, <3>1
        <4> QED BY <2>3, <3>1, <4>1
      <3>2. CASE j = k
        BY <1>1, <2>3, <3>2
      <3>3. CASE j > k
        <4>1. j \in k + 1 .. n
          BY <1>1, <3>3
        <4> QED BY <1>1, <2>3, <3>3, <4>1
      <3> QED BY <1>1, <3>1, <3>2, <3>3
    <2>6. \E i \in 1 .. n : ordered[i] \in startable
      <3>1. PICK v \in startable : TRUE
        OBVIOUS
      <3>2. PICK j \in 1 .. n : ranked[j] = v
        BY <1>1
      <3> QED BY <2>5, <3>2
    <2>7. PICK m \in 1 .. n : /\ ordered[m] \in startable /\ started = ordered[m]
                              /\ \A i \in 1 .. n : ordered[i] \in startable => m <= i
      BY <1>1, <2>3, <2>6, NextIsLeast DEF started
    <2>8. CASE ranked[k] \in startable
      <3>1. m = 1
        <4>1. 1 \in 1 .. n
          BY <1>1
        <4>2. m <= 1
          BY <2>3, <2>7, <2>8, <4>1
        <4> QED BY <1>1, <4>2
      <3>2. started = ranked[k]
        BY <2>3, <2>7, <3>1
      <3>3. ASSUME NEW b \in Background(jobs),
                   \A v \in Background(jobs) \ {b} : sort_key_before(b, v)
            PROVE  b = ranked[k]
        <4> SUFFICES ASSUME b # ranked[k] PROVE FALSE
          OBVIOUS
        <4>1. sort_key_before(b, ranked[k]) /\ sort_key_before(ranked[k], b)
          BY <2>4, <3>3
        <4>2. b \in Job /\ ranked[k] \in Job
          BY <2>4 DEF Background
        <4> QED BY <4>1, <4>2, SortKeyIsTotalOrder
      <3> QED BY <2>1, <2>4, <2>7, <3>2, <3>3
    <2>9. CASE ranked[k] \notin startable
      <3>1. PICK j \in 1 .. n : /\ ranked[j] = started
                                /\ m = IF j < k THEN j + 1 ELSE IF j = k THEN 1 ELSE j
        <4>1. m # 1
          BY <2>3, <2>7, <2>9
        <4>2. CASE m <= k
          <5>1. m \in 2 .. k /\ m - 1 \in 1 .. n /\ m - 1 < k /\ m = m - 1 + 1
            BY <1>1, <4>1, <4>2
          <5>2. ranked[m - 1] = started
            BY <2>3, <2>7, <5>1
          <5> QED BY <5>1, <5>2
        <4>3. CASE ~(m <= k)
          <5>1. m \in k + 1 .. n /\ ~(m < k) /\ m # k
            BY <1>1, <4>3
          <5>2. ranked[m] = started
            BY <2>3, <2>7, <5>1
          <5> QED BY <5>1, <5>2
        <4> QED BY <4>2, <4>3
      <3>2. ASSUME NEW v \in startable, v # started
            PROVE  sort_key_before(started, v)
        <4>1. PICK h \in 1 .. n : ranked[h] = v
          BY <1>1
        <4>2. h # k /\ j # k /\ h # j
          BY <2>7, <2>9, <3>1, <3>2, <4>1
        <4>3. m <= IF h < k THEN h + 1 ELSE h
          <5>1. PICK i \in 1 .. n : /\ ordered[i] = ranked[h]
                                    /\ i = IF h < k THEN h + 1 ELSE IF h = k THEN 1 ELSE h
            BY <2>5
          <5>2. m <= i
            BY <2>7, <4>1, <5>1
          <5> QED BY <4>2, <5>1, <5>2
        <4>4. j < h
          BY <1>1, <3>1, <4>2, <4>3
        <4> QED BY <1>1, <3>1, <4>1, <4>4
      <3>3. ASSUME NEW b \in Background(jobs) \cap startable,
                   \A v \in Background(jobs) \ {b} : sort_key_before(b, v)
            PROVE  FALSE
        <4>1. b # ranked[k]
          BY <2>9
        <4>2. sort_key_before(b, ranked[k]) /\ sort_key_before(ranked[k], b)
          BY <2>4, <3>3, <4>1
        <4>3. b \in Job /\ ranked[k] \in Job
          BY <2>4 DEF Background
        <4> QED BY <4>2, <4>3, SortKeyIsTotalOrder
      <3> QED BY <2>7, <3>2, <3>3
    <2> QED BY <2>8, <2>9
  <1> QED BY <1>3, <1>4

LEMMA FirstExists ==
  ASSUME NEW jobs \in SUBSET Job, IsFiniteSet(jobs), jobs # {}
  PROVE  \E b \in jobs : \A v \in jobs \ {b} : sort_key_before(b, v)
  <1> DEFINE n == Cardinality(jobs)
             ranked == ranking(jobs)
  <1>1. /\ n \in Nat
        /\ \A i \in 1 .. n : ranked[i] \in jobs
        /\ \A w \in jobs : \E i \in 1 .. n : ranked[i] = w
        /\ \A i, j \in 1 .. n : i < j => sort_key_before(ranked[i], ranked[j])
    BY RankingLists
  <1> HIDE DEF n, ranked
  <1>2. 1 \in 1 .. n
    BY <1>1
  <1>3. ASSUME NEW v \in jobs, v # ranked[1] PROVE sort_key_before(ranked[1], v)
    <2>1. PICK j \in 1 .. n : ranked[j] = v
      BY <1>1
    <2>2. 1 < j
      BY <1>1, <1>3, <2>1
    <2> QED BY <1>1, <1>2, <2>1, <2>2
  <1> QED BY <1>1, <1>2, <1>3

-----------------------------------------------------------------------------
(* The loop                                                                *)

TypeInv ==
  /\ waiting \in SUBSET Job /\ IsFiniteSet(waiting)
  /\ interactive_run \in Nat /\ accepted \in 0 .. Len(Ident) /\ clock \in Nat
  /\ streak \in Nat /\ background_streak \in Nat
  /\ passed \in [JobId -> Nat] /\ ahead \in [JobId -> Nat]

\* Identifiers are given out once, in the order of Ident, and nothing has passed a job
\* that is yet to come.
IdentInv ==
  /\ \A w \in waiting : \E i \in 1 .. accepted : w.job_id = Ident[i]
  /\ \A w, v \in waiting : w.job_id = v.job_id => w = v
  /\ \A i \in DOMAIN Ident : i > accepted => passed[Ident[i]] = 0

LoopInv == TypeInv /\ IdentInv

Startable(budget) == {w \in waiting : fits(Peak[w.job_id], budget) = "now"}
Started(budget) == next_to_start(order(waiting, interactive_run), Startable(budget))

LEMMA TurnStarts ==
  ASSUME LoopInv, NEW budget \in Budgets, Start(budget)
  PROVE  LET startable == Startable(budget)
             started == Started(budget)
             background == started.priority = "background"
         IN  /\ started \in startable
             /\ \/ \A v \in startable \ {started} : sort_key_before(started, v)
                \/ /\ interactive_run >= Bound
                   /\ background
                   /\ \A v \in Background(waiting) \ {started} : sort_key_before(started, v)
             /\ interactive_run >= Bound =>
                  \A b \in Background(waiting) \cap startable :
                    (\A v \in Background(waiting) \ {b} : sort_key_before(b, v)) => started = b
             /\ waiting' = waiting \ {started}
             /\ interactive_run' = IF background THEN 0 ELSE interactive_run + 1
             /\ streak' = IF ~background /\ Background(startable) # {} THEN streak + 1 ELSE 0
             /\ background_streak' = IF background /\ Interactive(startable) # {}
                                       THEN background_streak + 1 ELSE 0
             /\ passed' = [j \in JobId |->
                  IF ~background /\ \E w \in Background(waiting) : w.job_id = j
                    THEN passed[j] + 1 ELSE passed[j]]
             /\ UNCHANGED <<accepted, clock, ahead>>
  <1> DEFINE startable == Startable(budget)
             started == Started(budget)
  <1>1. startable \in SUBSET waiting
    BY DEF Startable
  <1>2. started # Nothing
    BY DEF Start, Startable, Started
  <1>3. startable # {}
    BY <1>2 DEF Started, next_to_start
  <1>4. /\ started \in startable
        /\ \/ \A v \in startable \ {started} : sort_key_before(started, v)
           \/ /\ interactive_run >= Bound
              /\ started \in Background(waiting)
              /\ \A v \in Background(waiting) \ {started} : sort_key_before(started, v)
        /\ interactive_run >= Bound =>
             \A b \in Background(waiting) \cap startable :
               (\A v \in Background(waiting) \ {b} : sort_key_before(b, v)) => started = b
    <2> HIDE DEF startable
    <2> QED BY <1>1, <1>3, WhatStarts DEF LoopInv, TypeInv, Started, startable
  <1>5. started \in Background(waiting) => started.priority = "background"
    BY DEF Background
  <1> QED BY <1>4, <1>5 DEF Start, Startable, Started, interactive_run_after

LEMMA InitLoopInv == Init => LoopInv
  <1> SUFFICES ASSUME Init PROVE LoopInv
    OBVIOUS
  <1>1. Len(Ident) \in Nat /\ \A i \in DOMAIN Ident : Ident[i] \in JobId
    BY IdentAssumption DEF JobId
  <1> QED BY <1>1, FS_EmptySet DEF Init, LoopInv, TypeInv, IdentInv

LEMMA AcceptKeepsLoopInv ==
  ASSUME LoopInv, NEW p \in Priority, NEW arrival \in {clock, clock + 1}, Accept(p, arrival)
  PROVE  /\ LoopInv'
         /\ Waiting(Ident[accepted + 1], p, arrival) \in Job \ waiting
         /\ passed[Ident[accepted + 1]] = 0 /\ Ident[accepted + 1] \in JobId
         /\ \A w \in waiting : w.job_id # Ident[accepted + 1]
  <1> DEFINE new == Waiting(Ident[accepted + 1], p, arrival)
             count == Cardinality({v \in Background(waiting \cup {new}) :
                                     v.priority = new.priority /\ Older(v, new)})
  <1>1. /\ accepted + 1 \in DOMAIN Ident /\ DOMAIN Ident = 1 .. Len(Ident)
        /\ accepted \in Nat /\ Len(Ident) \in Nat
        /\ Ident[accepted + 1] \in JobId /\ Ident[accepted + 1] \in Nat /\ arrival \in Nat
    BY IdentAssumption DEF LoopInv, TypeInv, Accept, JobId
  <1>2. new \in Job /\ new.job_id = Ident[accepted + 1]
    BY <1>1 DEF Waiting, Job
  <1>3. \A w \in waiting : w.job_id # new.job_id
    BY <1>1, <1>2, IdentAssumption DEF LoopInv, IdentInv
  <1>4. waiting' = waiting \cup {new} /\ accepted' = accepted + 1 /\ clock' = arrival
        /\ UNCHANGED <<interactive_run, streak, background_streak, passed>>
    BY DEF Accept
  <1>5. IsFiniteSet(waiting') /\ waiting' \in SUBSET Job
    BY <1>2, <1>4, FS_AddElement DEF LoopInv, TypeInv
  <1>6. count \in Nat
    <2> DEFINE before == {v \in Background(waiting \cup {new}) :
                          v.priority = new.priority /\ Older(v, new)}
    <2>1. before \in SUBSET waiting'
      BY <1>4 DEF Background
    <2>2. IsFiniteSet(before)
      BY <1>5, <2>1, FS_Subset
    <2> HIDE DEF before
    <2>3. Cardinality(before) \in Nat
      BY <2>2, FS_CardinalityType
    <2> QED BY <2>3 DEF before
  <1> HIDE DEF count
  <1>7. ahead' \in [JobId -> Nat]
    <2>1. \A j \in JobId : ahead[j] \in Nat /\ ahead[j] + 1 \in Nat
      BY DEF LoopInv, TypeInv
    <2>2. /\ ahead' = [j \in JobId |-> ahead'[j]]
          /\ \A j \in JobId : ahead'[j] \in {count, ahead[j] + 1, ahead[j]}
      BY DEF Accept, count
    <2> QED BY <1>6, <2>1, <2>2
  <1>8. TypeInv'
    BY <1>1, <1>4, <1>5, <1>7 DEF LoopInv, TypeInv
  <1>9. IdentInv'
    BY <1>1, <1>2, <1>3, <1>4 DEF LoopInv, IdentInv
  <1>10. passed[Ident[accepted + 1]] = 0
    BY <1>1 DEF LoopInv, IdentInv
  <1> QED BY <1>1, <1>2, <1>3, <1>8, <1>9, <1>10 DEF LoopInv

LEMMA StartKeepsLoopInv ==
  ASSUME LoopInv, NEW budget \in Budgets, Start(budget)
  PROVE  LoopInv'
  <1> DEFINE started == Started(budget)
             background == started.priority = "background"
  <1>1. /\ waiting' = waiting \ {started}
        /\ interactive_run' = IF background THEN 0 ELSE interactive_run + 1
        /\ streak' \in {streak + 1, 0}
        /\ background_streak' \in {background_streak + 1, 0}
        /\ passed' = [j \in JobId |->
             IF ~background /\ \E w \in Background(waiting) : w.job_id = j
               THEN passed[j] + 1 ELSE passed[j]]
        /\ UNCHANGED <<accepted, clock, ahead>>
    BY TurnStarts
  <1> HIDE DEF started, background
  <1>2. TypeInv'
    BY <1>1, FS_RemoveElement DEF LoopInv, TypeInv
  <1>3. IdentInv'
    <2>1. ASSUME NEW i \in DOMAIN Ident, i > accepted PROVE passed'[Ident[i]] = 0
      <3>1. Ident[i] \in JobId /\ passed[Ident[i]] = 0
        BY <2>1 DEF LoopInv, IdentInv, JobId
      <3>2. ~ \E w \in Background(waiting) : w.job_id = Ident[i]
        <4> SUFFICES ASSUME NEW w \in waiting, w.job_id = Ident[i] PROVE FALSE
          BY DEF Background
        <4>1. PICK h \in 1 .. accepted : Ident[h] = Ident[i]
          BY DEF LoopInv, IdentInv
        <4>2. h \in DOMAIN Ident /\ h # i
          BY <2>1, IdentAssumption DEF LoopInv, TypeInv
        <4> QED BY <4>1, <4>2, IdentAssumption
      <3> QED BY <1>1, <3>1, <3>2
    <2> QED BY <1>1, <2>1 DEF LoopInv, IdentInv
  <1> QED BY <1>2, <1>3 DEF LoopInv

LEMMA AlwaysLoopInv == Spec => []LoopInv
  <1>1. LoopInv /\ [Next]_vars => LoopInv'
    <2>1. LoopInv /\ (Drained \/ UNCHANGED vars) => LoopInv'
      BY DEF Drained, vars, LoopInv, TypeInv, IdentInv
    <2> QED BY <2>1, AcceptKeepsLoopInv, StartKeepsLoopInv DEF Next
  <1> QED BY <1>1, InitLoopInv, PTL DEF Spec

-----------------------------------------------------------------------------
(* Starvation                                                              *)

StreakInv == background_streak <= 1 /\ (background_streak = 1 => interactive_run = 0)

\* A promotion moves one job and not the class: a second background job never starts past
\* an interactive one that could start, whatever the budgets allow (ordering.py:183-187).
THEOREM PromotionsAreSingle == Spec => []OneBackgroundAtATime
  <1>1. Init => StreakInv
    BY DEF Init, StreakInv
  <1>2. LoopInv /\ StreakInv /\ [Next]_vars => StreakInv'
    <2> SUFFICES ASSUME LoopInv, StreakInv, [Next]_vars PROVE StreakInv'
      OBVIOUS
    <2>1. CASE \/ Drained \/ UNCHANGED vars
               \/ \E p \in Priority, a \in {clock, clock + 1} : Accept(p, a)
      BY <2>1 DEF Drained, vars, Accept, StreakInv
    <2>2. ASSUME NEW budget \in Budgets, Start(budget) PROVE StreakInv'
      <3> DEFINE startable == Startable(budget)
                 started == Started(budget)
                 background == started.priority = "background"
      <3>1. /\ started \in startable
            /\ \/ \A v \in startable \ {started} : sort_key_before(started, v)
               \/ interactive_run >= Bound
            /\ interactive_run' = IF background THEN 0 ELSE interactive_run + 1
            /\ background_streak' = IF background /\ Interactive(startable) # {}
                                      THEN background_streak + 1 ELSE 0
        BY <2>2, TurnStarts
      <3>2. ASSUME background, Interactive(startable) # {} PROVE interactive_run >= Bound
        <4>1. PICK v \in startable : v.priority = "interactive"
          BY <3>2 DEF Interactive
        <4>2. ~sort_key_before(started, v) /\ v # started
          <5>1. RANK["interactive"] = 0 /\ RANK["background"] = 1
            BY DEF RANK, Priority
          <5> QED BY <3>2, <4>1, <5>1 DEF sort_key_before
        <4> QED BY <3>1, <4>1, <4>2
      <3> HIDE DEF background, startable, started
      <3>3. Bound \in Nat \ {0} /\ interactive_run \in Nat /\ background_streak \in Nat
        BY BoundAssumption DEF LoopInv, TypeInv
      <3> QED BY <3>1, <3>2, <3>3 DEF StreakInv
    <2> QED BY <2>1, <2>2 DEF Next
  <1>3. StreakInv => OneBackgroundAtATime
    BY DEF StreakInv, OneBackgroundAtATime
  <1> QED BY <1>1, <1>2, <1>3, AlwaysLoopInv, PTL DEF Spec

\* Every job could start whenever the loop asks: nothing is held by loaded weights.
RoomForAll ==
  \A j \in JobId, budget \in Budgets : fits(Peak[j], budget) = "now"

\* Once the run has reached the bound only a background job starts where one waits.
LEMMA BoundPromotes ==
  ASSUME RoomForAll, LoopInv, NEW budget \in Budgets, Start(budget),
         Background(waiting) # {}, Started(budget).priority # "background"
  PROVE  interactive_run < Bound
  <1>1. waiting = Startable(budget)
    <2>1. \A w \in waiting : w.job_id \in JobId
      BY IdentAssumption DEF LoopInv, TypeInv, IdentInv, JobId
    <2> QED BY <2>1 DEF Startable, RoomForAll
  <1>2. Background(waiting) \in SUBSET Job /\ IsFiniteSet(Background(waiting))
    <2>1. Background(waiting) \in SUBSET waiting
      BY DEF Background
    <2> QED BY <2>1, FS_Subset DEF LoopInv, TypeInv
  <1>3. PICK b \in Background(waiting) :
          \A v \in Background(waiting) \ {b} : sort_key_before(b, v)
    BY <1>2, FirstExists
  <1>4. b \in Background(waiting) \cap Startable(budget) /\ b.priority = "background"
    BY <1>1 DEF Background
  <1>5. ~(interactive_run >= Bound)
    BY <1>3, <1>4, TurnStarts
  <1> QED BY <1>5, BoundAssumption DEF LoopInv, TypeInv

StarvationInv == streak <= Bound /\ streak <= interactive_run

\* Where every job can start, at most Bound interactive jobs start in a row while a
\* background job waits, whatever arrives and when (ordering.py:16-17).
THEOREM StarvationIsBounded ==
  ASSUME RoomForAll
  PROVE  Spec => []StarvationBound
  <1>1. Init => StarvationInv
    BY BoundAssumption DEF Init, StarvationInv
  <1>2. LoopInv /\ StarvationInv /\ [Next]_vars => StarvationInv'
    <2> SUFFICES ASSUME LoopInv, StarvationInv, [Next]_vars PROVE StarvationInv'
      OBVIOUS
    <2>1. CASE \/ Drained \/ UNCHANGED vars
               \/ \E p \in Priority, a \in {clock, clock + 1} : Accept(p, a)
      BY <2>1 DEF Drained, vars, Accept, StarvationInv
    <2>2. ASSUME NEW budget \in Budgets, Start(budget) PROVE StarvationInv'
      <3> DEFINE background == Started(budget).priority = "background"
      <3>1. /\ interactive_run' = IF background THEN 0 ELSE interactive_run + 1
            /\ streak' = IF ~background /\ Background(Startable(budget)) # {}
                           THEN streak + 1 ELSE 0
        BY <2>2, TurnStarts
      <3>2. Background(Startable(budget)) # {} => Background(waiting) # {}
        BY DEF Background, Startable
      <3>3. ~background /\ Background(Startable(budget)) # {} => interactive_run < Bound
        BY <2>2, <3>2, BoundPromotes
      <3>4. Bound \in Nat \ {0} /\ interactive_run \in Nat /\ streak \in Nat
        BY BoundAssumption DEF LoopInv, TypeInv
      <3> HIDE DEF background
      <3> QED BY <3>1, <3>3, <3>4 DEF StarvationInv
    <2> QED BY <2>1, <2>2 DEF Next
  <1>3. StarvationInv => StarvationBound
    BY DEF StarvationInv, StarvationBound
  <1> QED BY <1>1, <1>2, <1>3, AlwaysLoopInv, PTL DEF Spec

\* The background jobs older than w that wait now.
Before(w) == {v \in Background(waiting) : v.priority = w.priority /\ Older(v, w)}

\* Of the older background jobs that w ever met, the ones that have started.
Done(w) == ahead[w.job_id] - Cardinality(Before(w))

\* Each of those has let at most Bound interactive jobs pass, and the run counts the ones
\* since the last.
TurnInv ==
  \A w \in Background(waiting) :
    /\ Done(w) \in Nat
    /\ passed[w.job_id] <= Bound * Done(w) + interactive_run
    /\ passed[w.job_id] <= Bound * Done(w) + Bound

LEMMA BeforeIsFinite ==
  ASSUME LoopInv, NEW w
  PROVE  IsFiniteSet(Before(w)) /\ Cardinality(Before(w)) \in Nat
  <1>1. Before(w) \in SUBSET waiting
    BY DEF Before, Background
  <1>2. IsFiniteSet(Before(w))
    BY <1>1, FS_Subset DEF LoopInv, TypeInv
  <1> QED BY <1>2, FS_CardinalityType

LEMMA AcceptKeepsTurnInv ==
  ASSUME LoopInv, TurnInv, NEW p \in Priority, NEW arrival \in {clock, clock + 1},
         Accept(p, arrival)
  PROVE  TurnInv'
  <1> DEFINE new == Waiting(Ident[accepted + 1], p, arrival)
             before(w) == {v \in Background(waiting \cup {new}) :
                            v.priority = w.priority /\ Older(v, w)}
  <1>1. /\ LoopInv' /\ new \in Job \ waiting
        /\ passed[new.job_id] = 0 /\ new.job_id \in JobId
        /\ \A w \in waiting : w.job_id # new.job_id
    BY AcceptKeepsLoopInv DEF Waiting
  <1>2. /\ waiting' = waiting \cup {new} /\ UNCHANGED <<passed, interactive_run>>
        /\ ahead' = [j \in JobId |->
              IF j = new.job_id THEN Cardinality(before(new))
              ELSE IF \E w \in waiting : w.job_id = j /\ new \in before(w)
                     THEN ahead[j] + 1 ELSE ahead[j]]
    BY DEF Accept
  <1>3. \A w : Before(w)' = before(w)
    BY <1>2 DEF Before, Background
  <1>4. Bound \in Nat /\ interactive_run \in Nat
    BY BoundAssumption DEF LoopInv, TypeInv
  <1> HIDE DEF new
  <1>5. ASSUME NEW w \in Background(waiting)', w = new
        PROVE  /\ Done(w)' \in Nat /\ passed'[w.job_id] <= Bound * Done(w)' + interactive_run'
               /\ passed'[w.job_id] <= Bound * Done(w)' + Bound
    <2>1. ahead'[w.job_id] = Cardinality(Before(w)') /\ passed'[w.job_id] = 0
      BY <1>1, <1>2, <1>3, <1>5
    <2>2. Cardinality(Before(w)') \in Nat
      <3>1. Before(w)' \subseteq waiting' /\ IsFiniteSet(waiting')
        BY <1>1 DEF Before, Background, LoopInv, TypeInv
      <3> QED BY <3>1, FS_Subset, FS_CardinalityType
    <2>3. Done(w)' = 0
      BY <2>1, <2>2 DEF Done
    <2> QED BY <1>2, <1>4, <2>1, <2>3
  <1>6. ASSUME NEW w \in Background(waiting)', w # new
        PROVE  /\ Done(w)' \in Nat /\ passed'[w.job_id] <= Bound * Done(w)' + interactive_run'
               /\ passed'[w.job_id] <= Bound * Done(w)' + Bound
    <2>1. w \in Background(waiting) /\ w.job_id # new.job_id /\ w.job_id \in JobId
      <3>1. w \in Background(waiting) /\ w \in waiting
        BY <1>2, <1>6 DEF Background
      <3>2. w.job_id \in JobId
        BY <3>1, IdentAssumption DEF LoopInv, TypeInv, IdentInv, JobId
      <3> QED BY <1>1, <3>1, <3>2
    <2>2. Done(w)' = Done(w)
      <3>1. IsFiniteSet(Before(w)) /\ Cardinality(Before(w)) \in Nat /\ ahead[w.job_id] \in Nat
        BY <2>1, BeforeIsFinite DEF LoopInv, TypeInv
      <3>2. CASE new \in before(w)
        <4>1. Before(w)' = Before(w) \cup {new} /\ new \notin Before(w)
          BY <1>1, <1>3, <3>2 DEF Before, Background
        <4>2. Cardinality(Before(w)') = Cardinality(Before(w)) + 1
          BY <3>1, <4>1, FS_AddElement
        <4>3. ahead'[w.job_id] = ahead[w.job_id] + 1
          BY <1>2, <2>1, <3>2 DEF Background
        <4> QED BY <3>1, <4>2, <4>3 DEF Done
      <3>3. CASE new \notin before(w)
        <4>1. Before(w)' = Before(w)
          BY <1>3, <3>3 DEF Before, Background
        <4>2. ~ \E v \in waiting : v.job_id = w.job_id /\ new \in before(v)
          BY <2>1, <3>3 DEF LoopInv, IdentInv, Background
        <4>3. ahead'[w.job_id] = ahead[w.job_id]
          BY <1>2, <2>1, <4>2
        <4> QED BY <4>1, <4>3 DEF Done
      <3> QED BY <3>2, <3>3
    <2> QED BY <1>2, <2>1, <2>2 DEF TurnInv
  <1> QED BY <1>5, <1>6 DEF TurnInv

LEMMA StartKeepsTurnInv ==
  ASSUME RoomForAll, LoopInv, TurnInv, NEW budget \in Budgets, Start(budget)
  PROVE  TurnInv'
  <1> DEFINE startable == Startable(budget)
             started == Started(budget)
             background == started.priority = "background"
  <1>1. /\ started \in startable
        /\ \/ \A v \in startable \ {started} : sort_key_before(started, v)
           \/ /\ background
              /\ \A v \in Background(waiting) \ {started} : sort_key_before(started, v)
        /\ waiting' = waiting \ {started}
        /\ interactive_run' = IF background THEN 0 ELSE interactive_run + 1
        /\ passed' = [j \in JobId |->
             IF ~background /\ \E w \in Background(waiting) : w.job_id = j
               THEN passed[j] + 1 ELSE passed[j]]
        /\ ahead' = ahead
    BY TurnStarts
  <1>2. startable = waiting /\ \A w \in waiting : w.job_id \in JobId
    <2>1. \A w \in waiting : w.job_id \in JobId
      BY IdentAssumption DEF LoopInv, TypeInv, IdentInv, JobId
    <2> QED BY <2>1 DEF Startable, RoomForAll
  <1>3. Bound \in Nat /\ interactive_run \in Nat
    BY BoundAssumption DEF LoopInv, TypeInv
  <1>4. ~background /\ Background(waiting) # {} => interactive_run < Bound
    BY BoundPromotes
  <1> HIDE DEF startable, started, background
  <1> SUFFICES ASSUME NEW w \in Background(waiting)'
               PROVE  /\ Done(w)' \in Nat
                      /\ passed'[w.job_id] <= Bound * Done(w)' + interactive_run'
                      /\ passed'[w.job_id] <= Bound * Done(w)' + Bound
    BY DEF TurnInv
  <1>5. /\ w \in Background(waiting) /\ w # started /\ w.job_id \in JobId
        /\ passed[w.job_id] \in Nat /\ ahead[w.job_id] \in Nat
    BY <1>1, <1>2 DEF Background, LoopInv, TypeInv
  <1>6. /\ Done(w) \in Nat
        /\ passed[w.job_id] <= Bound * Done(w) + interactive_run
        /\ passed[w.job_id] <= Bound * Done(w) + Bound
    BY <1>5 DEF TurnInv
  <1>7. IsFiniteSet(Before(w)) /\ Cardinality(Before(w)) \in Nat
    BY BeforeIsFinite
  <1>8. CASE background
    <2>1. Before(w)' = Before(w) \ {started} /\ started \in Before(w)
      <3>1. sort_key_before(started, w)
        BY <1>1, <1>2, <1>5 DEF Background
      <3>2. started \in Background(waiting) /\ started.priority = w.priority
        BY <1>1, <1>2, <1>5, <1>8 DEF Background, background
      <3>3. w.priority = "background"
        BY <1>5 DEF Background
      <3>4. Older(started, w)
        BY <3>1, <3>2, <3>3 DEF sort_key_before, Older, RANK, Priority
      <3> QED BY <1>1, <3>2, <3>4 DEF Before, Background
    <2>2. Cardinality(Before(w)') = Cardinality(Before(w)) - 1
      BY <1>7, <2>1, FS_RemoveElement
    <2>3. Done(w)' = Done(w) + 1
      BY <1>1, <1>5, <1>7, <2>2 DEF Done
    <2>4. Bound * (Done(w) + 1) = Bound * Done(w) + Bound /\ Bound * Done(w) \in Nat
      BY <1>3, <1>6
    <2>5. passed'[w.job_id] = passed[w.job_id] /\ interactive_run' = 0
      BY <1>1, <1>5, <1>8
    <2> QED BY <1>3, <1>5, <1>6, <2>3, <2>4, <2>5
  <1>9. CASE ~background
    <2>1. Before(w)' = Before(w)
      BY <1>1, <1>9 DEF Before, Background, background
    <2>2. Done(w)' = Done(w)
      BY <1>1, <2>1 DEF Done
    <2>3. passed'[w.job_id] = passed[w.job_id] + 1 /\ interactive_run' = interactive_run + 1
      BY <1>1, <1>5, <1>9
    <2>4. interactive_run < Bound /\ Bound * Done(w) \in Nat
      BY <1>3, <1>4, <1>5, <1>6, <1>9
    <2> QED BY <1>3, <1>5, <1>6, <2>2, <2>3, <2>4
  <1> QED BY <1>8, <1>9

\* Where every job can start, a background job with k others before it waits for at most
\* Bound * (k + 1) interactive starts (ordering.py:24-30).
THEOREM EveryJobHasItsTurn ==
  ASSUME RoomForAll
  PROVE  Spec => []EachHasItsTurn
  <1>1. Init => TurnInv
    BY DEF Init, TurnInv, Background
  <1>2. LoopInv /\ TurnInv /\ [Next]_vars => TurnInv'
    <2>1. LoopInv /\ TurnInv /\ (Drained \/ UNCHANGED vars) => TurnInv'
      BY DEF Drained, vars, TurnInv, Done, Before, Background
    <2> QED BY <2>1, AcceptKeepsTurnInv, StartKeepsTurnInv DEF Next
  <1>3. LoopInv /\ TurnInv => EachHasItsTurn
    <2> SUFFICES ASSUME LoopInv, TurnInv, NEW w \in Background(waiting)
                 PROVE  passed[w.job_id] <= Bound * (ahead[w.job_id] + 1)
      BY DEF EachHasItsTurn
    <2>1. w.job_id \in JobId
      BY IdentAssumption DEF Background, LoopInv, TypeInv, IdentInv, JobId
    <2>2. passed[w.job_id] \in Nat /\ ahead[w.job_id] \in Nat /\ Bound \in Nat
      BY <2>1, BoundAssumption DEF LoopInv, TypeInv
    <2>3. PICK c \in Nat : c = Cardinality(Before(w))
      BY BeforeIsFinite
    <2>4. /\ ahead[w.job_id] - c \in Nat
          /\ passed[w.job_id] <= Bound * (ahead[w.job_id] - c) + Bound
      BY <2>3 DEF TurnInv, Done
    <2>5. Bound * (ahead[w.job_id] + 1) = Bound * (ahead[w.job_id] - c) + Bound + Bound * c
      BY <2>2, <2>3, <2>4
    <2>6. Bound * c \in Nat /\ Bound * (ahead[w.job_id] - c) \in Nat
      BY <2>2, <2>3, <2>4
    <2> QED BY <2>2, <2>4, <2>5, <2>6
  <1> QED BY <1>1, <1>2, <1>3, AlwaysLoopInv, PTL DEF Spec

-----------------------------------------------------------------------------
(* Positions                                                               *)

\* How many jobs sort before w, and whether w sorts before all the others.
Count(w, jobs) == Cardinality({v \in jobs : sort_key_before(v, w)})
Lowest(w, jobs) == \A v \in jobs \ {w} : sort_key_before(w, v)

Promotes(jobs, run) == run >= Bound /\ Background(jobs) # {}

\* What a position counts: the jobs that sort before, and the one moved to the front.
AheadOf(w, jobs, run) ==
  IF ~Promotes(jobs, run) THEN Count(w, jobs)
  ELSE IF w \in Interactive(jobs) THEN Count(w, jobs) + 1
  ELSE IF Lowest(w, Background(jobs)) THEN 0 ELSE Count(w, jobs)

LEMMA KindsOfJobs ==
  ASSUME NEW jobs \in SUBSET Job, NEW w \in jobs
  PROVE  /\ w \in Interactive(jobs) <=> w.priority = "interactive"
         /\ w \in Background(jobs) <=> w.priority = "background"
         /\ w \in Interactive(jobs) <=> w \notin Background(jobs)
         /\ \A v \in jobs : sort_key_before(v, w) /\ w \in Interactive(jobs)
                              => v \in Interactive(jobs)
  <1>1. \A v \in jobs : v.priority \in {"interactive", "background"}
    BY DEF Job, Priority
  <1>2. RANK["interactive"] = 0 /\ RANK["background"] = 1
    BY DEF RANK, Priority
  <1> QED BY <1>1, <1>2 DEF Interactive, Background, sort_key_before

\* The i-th of the ranking has i - 1 before it, and no other job has.
LEMMA RankingPlaces ==
  ASSUME NEW jobs \in SUBSET Job, IsFiniteSet(jobs)
  PROVE  /\ \A i \in 1 .. Cardinality(jobs) : Count(ranking(jobs)[i], jobs) = i - 1
         /\ \A w, v \in jobs : Count(w, jobs) = Count(v, jobs) => w = v
         /\ \A w \in jobs : Count(w, jobs) \in Nat
  <1> DEFINE R == {p \in jobs \X jobs : sort_key_before(p[1], p[2])}
             n == Cardinality(jobs)
  <1>1. /\ \A w \in jobs : <<w, w>> \notin R
        /\ \A w, v, u \in jobs : <<w, v>> \in R /\ <<v, u>> \in R => <<w, u>> \in R
        /\ \A w, v \in jobs : w # v => <<w, v>> \in R \/ <<v, w>> \in R
    BY SortKeyIsTotalOrder
  <1>2. \A w \in jobs : {v \in jobs : sort_key_before(v, w)} = Under(jobs, R, w)
    BY DEF Under
  <1> HIDE DEF R
  <1>3. \A w \in jobs : Count(w, jobs) = Place(jobs, R, w)
    BY <1>2 DEF Place, Count
  <1>4. n \in Nat
    BY FS_CardinalityType
  <1>5. /\ \A w \in jobs : Place(jobs, R, w) \in 0 .. n - 1
        /\ \A w, v \in jobs : <<w, v>> \in R => Place(jobs, R, w) < Place(jobs, R, v)
        /\ \A k \in 0 .. n - 1 : \E w \in jobs : Place(jobs, R, w) = k
    BY <1>1, CountedPlaces
  <1> HIDE DEF n
  <1>6. /\ \A w \in jobs : Count(w, jobs) \in Nat
        /\ \A w, v \in jobs : <<w, v>> \in R => Count(w, jobs) < Count(v, jobs)
        /\ \A k \in 0 .. n - 1 : \E w \in jobs : Count(w, jobs) = k
    BY <1>3, <1>4, <1>5
  <1>7. ASSUME NEW i \in 1 .. n PROVE Count(ranking(jobs)[i], jobs) = i - 1
    <2>1. i - 1 \in 0 .. n - 1
      BY <1>4
    <2>2. \E w \in jobs : Count(w, jobs) = i - 1
      BY <1>6, <2>1
    <2>3. ranking(jobs)[i] = CHOOSE w \in jobs : Count(w, jobs) = i - 1
      BY DEF ranking, Count, n
    <2> QED BY <2>2, <2>3
  <1>8. ASSUME NEW w \in jobs, NEW v \in jobs, Count(w, jobs) = Count(v, jobs) PROVE w = v
    <2>1. ~(Count(w, jobs) < Count(v, jobs)) /\ ~(Count(v, jobs) < Count(w, jobs))
      BY <1>6, <1>8
    <2> QED BY <1>1, <1>6, <2>1
  <1> QED BY <1>6, <1>7, <1>8 DEF n

\* The order lists each waiting job where AheadOf says.
LEMMA OrderPlaces ==
  ASSUME NEW jobs \in SUBSET Job, IsFiniteSet(jobs), NEW run \in Nat
  PROVE  LET ordered == order(jobs, run)
             n == Cardinality(jobs)
         IN  /\ n \in Nat /\ ordered \in Seq(jobs) /\ Len(ordered) = n
             /\ DOMAIN ordered = 1 .. n
             /\ \A i \in 1 .. n : AheadOf(ordered[i], jobs, run) = i - 1
             /\ \A w \in jobs : \E i \in 1 .. n : ordered[i] = w
  <1> DEFINE n == Cardinality(jobs)
             ranked == ranking(jobs)
             ordered == order(jobs, run)
  <1> SUFFICES /\ n \in Nat /\ DOMAIN ordered = 1 .. n
               /\ ordered \in [1 .. n -> jobs]
               /\ \A i \in 1 .. n : AheadOf(ordered[i], jobs, run) = i - 1
               /\ \A w \in jobs : \E i \in 1 .. n : ordered[i] = w
    <2> HIDE DEF ordered, n
    <2>1. ordered \in Seq(jobs) /\ Len(ordered) = n
      OBVIOUS
    <2> QED BY <2>1 DEF ordered, n
  <1>1. /\ n \in Nat /\ DOMAIN ranked = 1 .. n
        /\ \A i \in 1 .. n : ranked[i] \in jobs
        /\ \A w \in jobs : \E i \in 1 .. n : ranked[i] = w
        /\ \A i, j \in 1 .. n : i < j => sort_key_before(ranked[i], ranked[j])
    BY RankingLists
  <1>2. \A i \in 1 .. n : Count(ranked[i], jobs) = i - 1
    BY RankingPlaces
  <1>3. ranked = [i \in 1 .. n |-> ranked[i]]
    <2> DEFINE pick(i) == CHOOSE w \in jobs :
                 Cardinality({v \in jobs : sort_key_before(v, w)}) = i - 1
    <2>1. ranked = [i \in 1 .. n |-> pick(i)]
      BY DEF ranking
    <2> HIDE DEF pick, ranked, n
    <2> QED BY <2>1
  <1>4. Bound \in Nat
    BY BoundAssumption
  <1> HIDE DEF ranked, n
  <1>5. CASE ~Promotes(jobs, run)
    <2>1. ordered = ranked
      BY <1>4, <1>5 DEF order, ranked, Promotes
    <2> HIDE DEF ordered
    <2>2. ordered \in [1 .. n -> jobs]
      BY <1>1, <1>3, <2>1
    <2> QED BY <1>1, <1>2, <1>5, <2>1, <2>2 DEF AheadOf
  <1>6. CASE Promotes(jobs, run)
    <2>1. ordered = promote(ranked)
      BY <1>4, <1>6 DEF order, ranked, Promotes
    <2> HIDE DEF ordered
    <2>2. \E i \in 1 .. n : ranked[i].priority = "background"
      BY <1>1, <1>6 DEF Background, Promotes
    <2>3. PICK k \in 1 .. n :
            /\ ranked[k].priority = "background"
            /\ \A i \in 1 .. n : ranked[i].priority = "background" => k <= i
            /\ DOMAIN ordered = 1 .. n
            /\ ordered[1] = ranked[k]
            /\ \A i \in 2 .. k : ordered[i] = ranked[i - 1]
            /\ \A i \in k + 1 .. n : ordered[i] = ranked[i]
      <3>1. \E k \in 1 .. n :
              /\ ranked[k].priority = "background"
              /\ \A i \in 1 .. n : ranked[i].priority = "background" => k <= i
              /\ DOMAIN promote(ranked) = 1 .. n
              /\ promote(ranked)[1] = ranked[k]
              /\ \A i \in 2 .. k : promote(ranked)[i] = ranked[i - 1]
              /\ \A i \in k + 1 .. n : promote(ranked)[i] = ranked[i]
        BY <1>1, <2>2, PromoteLists
      <3> QED BY <2>1, <3>1
    <2>4. ordered = [i \in 1 .. n |-> ordered[i]]
      <3>1. promote(ranked) = [i \in DOMAIN ranked |-> promote(ranked)[i]]
        BY DEF promote
      <3> QED BY <1>1, <2>1, <3>1
    <2>5. \A i \in 1 .. n : i = 1 \/ i \in 2 .. k \/ i \in k + 1 .. n
      OBVIOUS
    <2>6. ordered \in [1 .. n -> jobs]
      <3>1. \A i \in 2 .. k : i - 1 \in 1 .. n
        BY <1>1
      <3>2. \A i \in 1 .. n : ordered[i] \in jobs
        BY <1>1, <2>3, <2>5, <3>1
      <3> QED BY <2>4, <3>2
    <2>7. ranked[k] \in Background(jobs) /\ Lowest(ranked[k], Background(jobs))
      <3>1. ranked[k] \in Background(jobs)
        BY <1>1, <2>3 DEF Background
      <3>2. ASSUME NEW v \in Background(jobs), v # ranked[k]
            PROVE  sort_key_before(ranked[k], v)
        <4>1. PICK j \in 1 .. n : ranked[j] = v
          BY <1>1 DEF Background
        <4>2. v.priority = "background" /\ k <= j /\ k # j
          BY <2>3, <3>2, <4>1 DEF Background
        <4>3. k < j
          BY <1>1, <4>2
        <4> QED BY <1>1, <4>1, <4>3
      <3> QED BY <3>1, <3>2 DEF Lowest
    <2>8. ASSUME NEW i \in 1 .. n PROVE AheadOf(ordered[i], jobs, run) = i - 1
      <3>1. CASE i = 1
        <4>1. ranked[k] \notin Interactive(jobs)
          BY <1>1, <2>7, KindsOfJobs
        <4> QED BY <1>6, <2>3, <2>7, <3>1, <4>1 DEF AheadOf
      <3>2. CASE i \in 2 .. k
        <4>1. i - 1 \in 1 .. n /\ ~(k <= i - 1) /\ (i - 1) - 1 + 1 = i - 1
          BY <1>1, <3>2
        <4>2. ranked[i - 1] \in Interactive(jobs)
          BY <1>1, <2>3, <4>1, KindsOfJobs
        <4>3. Count(ranked[i - 1], jobs) = (i - 1) - 1
          BY <1>2, <4>1
        <4> QED BY <1>6, <2>3, <3>2, <4>1, <4>2, <4>3 DEF AheadOf
      <3>3. CASE i \in k + 1 .. n
        <4>1. k < i
          BY <1>1, <3>3
        <4>2. sort_key_before(ranked[k], ranked[i])
          BY <1>1, <4>1
        <4>3. ranked[i] \notin Interactive(jobs)
          BY <1>1, <2>7, <4>2, KindsOfJobs
        <4>4. ~Lowest(ranked[i], Background(jobs))
          <5>1. ~sort_key_before(ranked[i], ranked[k]) /\ ranked[i] # ranked[k]
            BY <1>1, <4>2, SortKeyIsTotalOrder
          <5> QED BY <2>7, <5>1 DEF Lowest
        <4> QED BY <1>2, <1>6, <2>3, <3>3, <4>3, <4>4 DEF AheadOf
      <3> QED BY <2>5, <3>1, <3>2, <3>3
    <2>9. ASSUME NEW w \in jobs PROVE \E i \in 1 .. n : ordered[i] = w
      <3>1. PICK j \in 1 .. n : ranked[j] = w
        BY <1>1
      <3>2. CASE j < k
        <4>1. j + 1 \in 2 .. k /\ j + 1 \in 1 .. n /\ j + 1 - 1 = j
          BY <1>1, <3>2
        <4> QED BY <2>3, <3>1, <4>1
      <3>3. CASE j = k
        <4>1. 1 \in 1 .. n
          BY <1>1
        <4> QED BY <2>3, <3>1, <3>3, <4>1
      <3>4. CASE j > k
        <4>1. j \in k + 1 .. n
          BY <1>1, <3>4
        <4> QED BY <1>1, <2>3, <3>1, <4>1
      <3> QED BY <1>1, <3>2, <3>3, <3>4
    <2> QED BY <1>1, <2>3, <2>6, <2>8, <2>9
  <1> QED BY <1>5, <1>6

\* A position is what AheadOf counts, of as many as wait.
LEMMA PositionIs ==
  ASSUME NEW jobs \in SUBSET Job, IsFiniteSet(jobs), NEW run \in Nat, NEW w \in jobs,
         \A v \in jobs : v.job_id = w.job_id => v = w
  PROVE  /\ position_of(w.job_id, order(jobs, run))
              = QueuePosition(w.job_id, AheadOf(w, jobs, run), Cardinality(jobs))
         /\ AheadOf(w, jobs, run) \in 0 .. Cardinality(jobs) - 1
         /\ Cardinality(jobs) \in Nat
  <1> DEFINE n == Cardinality(jobs)
             ordered == order(jobs, run)
             found == {i \in DOMAIN ordered : ordered[i].job_id = w.job_id}
  <1>1. /\ n \in Nat /\ ordered \in Seq(jobs) /\ Len(ordered) = n /\ DOMAIN ordered = 1 .. n
        /\ \A i \in 1 .. n : AheadOf(ordered[i], jobs, run) = i - 1
        /\ \A v \in jobs : \E i \in 1 .. n : ordered[i] = v
    BY OrderPlaces
  <1>2. position_of(w.job_id, ordered)
          = IF found = {} THEN Nothing
            ELSE QueuePosition(w.job_id, (CHOOSE i \in found : TRUE) - 1, Len(ordered))
    BY DEF position_of
  <1> HIDE DEF ordered, n
  <1>3. PICK j \in 1 .. n : ordered[j] = w
    BY <1>1
  <1>4. j \in found
    BY <1>1, <1>3
  <1>5. \A i \in found : i \in 1 .. n /\ ordered[i] = w
    BY <1>1
  <1>6. \A i \in found : i = AheadOf(w, jobs, run) + 1
    BY <1>1, <1>5
  <1> HIDE DEF found
  <1>7. (CHOOSE i \in found : TRUE) = j /\ AheadOf(w, jobs, run) = j - 1
    BY <1>1, <1>3, <1>4, <1>6
  <1>8. position_of(w.job_id, ordered) = QueuePosition(w.job_id, AheadOf(w, jobs, run), n)
    BY <1>1, <1>2, <1>4, <1>7
  <1>9. AheadOf(w, jobs, run) \in 0 .. n - 1
    BY <1>1, <1>7
  <1> QED BY <1>1, <1>8, <1>9 DEF ordered, n

-----------------------------------------------------------------------------
(* The loop played to its end                                              *)

First(jobs, run) == next_to_start(order(jobs, run), jobs)

LEMMA FirstOfTurn ==
  ASSUME NEW jobs \in SUBSET Job, IsFiniteSet(jobs), NEW run \in Nat, jobs # {}
  PROVE  /\ First(jobs, run) \in jobs
         /\ ~Promotes(jobs, run) => Lowest(First(jobs, run), jobs)
         /\ Promotes(jobs, run) => /\ First(jobs, run) \in Background(jobs)
                                   /\ Lowest(First(jobs, run), Background(jobs))
  <1> DEFINE first == First(jobs, run)
  <1>1. /\ first \in jobs
        /\ \/ \A v \in jobs \ {first} : sort_key_before(first, v)
           \/ /\ run >= Bound
              /\ first \in Background(jobs)
              /\ \A v \in Background(jobs) \ {first} : sort_key_before(first, v)
        /\ run >= Bound =>
             \A b \in Background(jobs) \cap jobs :
               (\A v \in Background(jobs) \ {b} : sort_key_before(b, v)) => first = b
    <2>1. jobs \in SUBSET jobs
      OBVIOUS
    <2> QED BY <2>1, WhatStarts DEF First
  <1> HIDE DEF first
  <1>2. ASSUME Promotes(jobs, run)
        PROVE  first \in Background(jobs) /\ Lowest(first, Background(jobs))
    <2>1. Background(jobs) \in SUBSET jobs
      BY DEF Background
    <2>2. IsFiniteSet(Background(jobs)) /\ Background(jobs) # {}
      BY <1>2, <2>1, FS_Subset DEF Promotes
    <2>3. PICK b \in Background(jobs) :
            \A v \in Background(jobs) \ {b} : sort_key_before(b, v)
      BY <2>1, <2>2, FirstExists
    <2>4. first = b
      BY <1>1, <1>2, <2>1, <2>3 DEF Promotes
    <2> QED BY <2>3, <2>4 DEF Lowest
  <1> QED BY <1>1, <1>2 DEF Promotes, Lowest, first

\* What a turn leaves to the next.
After(last) ==
  [waiting |-> last.waiting \ {First(last.waiting, last.run)},
   run |-> interactive_run_after(First(last.waiting, last.run), last.run),
   started |-> Append(last.started, First(last.waiting, last.run).job_id)]

\* The states of n turns from here on.
Played(f, n) ==
  [i \in 0 .. n |->
     IF i = 0 THEN [waiting |-> waiting, run |-> interactive_run, started |-> <<>>]
     ELSE After(f[i - 1])]

Plays(f, n) == f = Played(f, n)

LEMMA PlayExists ==
  ASSUME NEW n \in Nat
  PROVE  \E f : Plays(f, n)
  <1> DEFINE P == {k \in 0 .. n : \E f : Plays(f, k)}
  <1>1. 0 \in P
    <2> DEFINE f == [i \in 0 .. 0 |-> [waiting |-> waiting, run |-> interactive_run,
                                       started |-> <<>>]]
    <2>1. \A i \in 0 .. 0 : i = 0
      OBVIOUS
    <2>2. Plays(f, 0)
      BY <2>1 DEF Plays, Played
    <2> HIDE DEF f
    <2> QED BY <2>2
  <1>2. ASSUME NEW k \in P, k < n PROVE k + 1 \in P
    <2>1. PICK f : Plays(f, k)
      OBVIOUS
    <2> DEFINE g == Played(f, k + 1)
    <2>2. \A i \in 0 .. k + 1 : i # 0 => i - 1 \in 0 .. k
      OBVIOUS
    <2>3. \A i \in 0 .. k : i \in 0 .. k + 1 /\ g[i] = f[i]
      BY <2>1 DEF Plays, Played
    <2>4. Plays(g, k + 1)
      BY <2>2, <2>3 DEF Plays, Played
    <2> HIDE DEF g
    <2>5. k + 1 \in 0 .. n
      BY <1>2
    <2> QED BY <2>4, <2>5
  <1>3. P = 0 .. n
    <2>1. P \in SUBSET (0 .. n)
      OBVIOUS
    <2> HIDE DEF P
    <2> QED BY <1>1, <1>2, <2>1, IntervalInduction
  <1>4. n \in P
    BY <1>3
  <1> QED BY <1>4

LEMMA UnattendedIsPlayed ==
  ASSUME Cardinality(waiting) \in Nat
  PROVE  \E f : /\ Plays(f, Cardinality(waiting))
                /\ Unattended = f[Cardinality(waiting)].started
  <1>1. \E f : Plays(f, Cardinality(waiting))
    BY PlayExists
  <1> QED BY <1>1 DEF Unattended, Plays, Played, After, First

\* What one turn does to the number of jobs before one that still waits.
LEMMA TurnMovesUp ==
  ASSUME NEW jobs \in SUBSET Job, IsFiniteSet(jobs), NEW run \in Nat, NEW w \in jobs,
         w # First(jobs, run)
  PROVE  LET first == First(jobs, run)
             left == Count(w, jobs \ {first})
         IN  /\ Count(w, jobs) \in Nat /\ left \in Nat
             /\ w \in Background(jobs) => left = Count(w, jobs) - 1
             /\ w \in Interactive(jobs) /\ ~Promotes(jobs, run) =>
                  left = Count(w, jobs) - 1 /\ first \in Interactive(jobs)
             /\ w \in Interactive(jobs) /\ Promotes(jobs, run) =>
                  left = Count(w, jobs) /\ first \in Background(jobs)
  <1> DEFINE first == First(jobs, run)
             before == {v \in jobs : sort_key_before(v, w)}
  <1>1. /\ first \in jobs
        /\ ~Promotes(jobs, run) => Lowest(first, jobs)
        /\ Promotes(jobs, run) => first \in Background(jobs) /\ Lowest(first, Background(jobs))
    BY FirstOfTurn
  <1>2. {v \in jobs \ {first} : sort_key_before(v, w)} = before \ {first}
    OBVIOUS
  <1>3. IsFiniteSet(before) /\ Cardinality(before) \in Nat
    <2>1. before \in SUBSET jobs
      OBVIOUS
    <2> HIDE DEF before
    <2> QED BY <2>1, FS_Subset, FS_CardinalityType
  <1>4. first \in before <=> sort_key_before(first, w)
    BY <1>1
  <1>5. Count(w, jobs) = Cardinality(before)
        /\ Count(w, jobs \ {first}) = Cardinality(before \ {first})
    BY <1>2 DEF Count
  <1> HIDE DEF first, before
  <1>6. /\ Count(w, jobs) \in Nat /\ Count(w, jobs \ {first}) \in Nat
        /\ sort_key_before(first, w) => Count(w, jobs \ {first}) = Count(w, jobs) - 1
        /\ ~sort_key_before(first, w) => Count(w, jobs \ {first}) = Count(w, jobs)
    <2>1. /\ IsFiniteSet(before \ {first})
          /\ Cardinality(before \ {first}) =
               IF first \in before THEN Cardinality(before) - 1 ELSE Cardinality(before)
      BY <1>3, FS_RemoveElement
    <2>2. Cardinality(before \ {first}) \in Nat
      BY <2>1, FS_CardinalityType
    <2> QED BY <1>3, <1>4, <1>5, <2>1, <2>2
  <1>7. /\ w \in Interactive(jobs) <=> w \notin Background(jobs)
        /\ first \in Interactive(jobs) <=> first \notin Background(jobs)
        /\ sort_key_before(first, w) /\ w \in Interactive(jobs) => first \in Interactive(jobs)
        /\ Background(jobs) \in SUBSET jobs
    BY <1>1, KindsOfJobs DEF Background
  <1>8. w \in Background(jobs) => sort_key_before(first, w)
    BY <1>1, <1>7 DEF Lowest, first
  <1>9. w \in Interactive(jobs) /\ ~Promotes(jobs, run) => sort_key_before(first, w)
    BY <1>1, <1>7 DEF Lowest, first
  <1>10. w \in Interactive(jobs) /\ Promotes(jobs, run) =>
           ~sort_key_before(first, w) /\ first \in Background(jobs)
    BY <1>1, <1>7
  <1> QED BY <1>6, <1>7, <1>8, <1>9, <1>10 DEF first

\* Each turn starts one of the jobs that are left, and none are left of as many turns as
\* there were jobs.
LEMMA PlayTurns ==
  ASSUME LoopInv, NEW n \in Nat, n = Cardinality(waiting), NEW f, Plays(f, n)
  PROVE  /\ \A t \in 0 .. n :
              /\ f[t].waiting \in SUBSET waiting /\ Cardinality(f[t].waiting) = n - t
              /\ f[t].run \in Nat
         /\ f[0].waiting = waiting /\ f[0].run = interactive_run
         /\ \A t \in 0 .. n - 1 :
              /\ f[t].waiting # {}
              /\ f[t + 1].waiting = f[t].waiting \ {First(f[t].waiting, f[t].run)}
              /\ f[t + 1].run = interactive_run_after(First(f[t].waiting, f[t].run), f[t].run)
              /\ t + 1 \in DOMAIN f[n].started
              /\ f[n].started[t + 1] = First(f[t].waiting, f[t].run).job_id
  <1> DEFINE first(t) == First(f[t].waiting, f[t].run)
             Sets(t) == f[t].waiting \in SUBSET waiting /\ Cardinality(f[t].waiting) = n - t
             Listed(t) == /\ f[t].started \in Seq(Nat) /\ Len(f[t].started) = t
                          /\ \A i \in 1 .. t : f[t].started[i] = first(i - 1).job_id
             P == {t \in 0 .. n : Sets(t) /\ f[t].run \in Nat /\ Listed(t)}
  <1>1. /\ f[0] = [waiting |-> waiting, run |-> interactive_run, started |-> <<>>]
        /\ \A t \in 0 .. n - 1 : f[t + 1] = After(f[t])
    <2>1. 0 \in 0 .. n
      OBVIOUS
    <2>2. \A t \in 0 .. n - 1 : t + 1 \in 0 .. n /\ t + 1 # 0 /\ t + 1 - 1 = t
      OBVIOUS
    <2> QED BY <2>1, <2>2 DEF Plays, Played
  <1>2. /\ f[0].waiting = waiting /\ f[0].run = interactive_run /\ f[0].started = <<>>
        /\ \A t \in 0 .. n - 1 :
             /\ f[t + 1].waiting = f[t].waiting \ {first(t)}
             /\ f[t + 1].run = interactive_run_after(first(t), f[t].run)
             /\ f[t + 1].started = Append(f[t].started, first(t).job_id)
    <2>1. ASSUME NEW t \in 0 .. n - 1
          PROVE  /\ f[t + 1].waiting = f[t].waiting \ {first(t)}
                 /\ f[t + 1].run = interactive_run_after(first(t), f[t].run)
                 /\ f[t + 1].started = Append(f[t].started, first(t).job_id)
      <3>1. f[t + 1] = After(f[t])
        BY <1>1
      <3> QED BY <3>1 DEF After
    <2> HIDE DEF first
    <2> QED BY <1>1, <2>1
  <1>3. waiting \in SUBSET Job /\ IsFiniteSet(waiting) /\ interactive_run \in Nat
    BY DEF LoopInv, TypeInv
  <1> HIDE DEF first
  <1>4. 0 \in P
    <2>1. Sets(0) /\ f[0].run \in Nat
      BY <1>2, <1>3
    <2>2. Listed(0)
      BY <1>2
    <2> QED BY <2>1, <2>2
  <1>5. ASSUME NEW t \in 0 .. n - 1, Sets(t), f[t].run \in Nat
        PROVE  /\ f[t].waiting # {} /\ first(t) \in f[t].waiting
               /\ IsFiniteSet(f[t].waiting) /\ f[t].waiting \in SUBSET Job
    <2>1. /\ IsFiniteSet(f[t].waiting) /\ f[t].waiting \in SUBSET Job
          /\ Cardinality(f[t].waiting) # 0
      BY <1>3, <1>5, FS_Subset
    <2>2. f[t].waiting # {}
      BY <2>1, FS_EmptySet
    <2> QED BY <1>5, <2>1, <2>2, FirstOfTurn DEF first
  <1>6. ASSUME NEW t \in P, t < n PROVE t + 1 \in P
    <2>1. t \in 0 .. n - 1 /\ t + 1 \in 0 .. n
      BY <1>6
    <2>2. /\ first(t) \in f[t].waiting /\ IsFiniteSet(f[t].waiting)
          /\ f[t].waiting \in SUBSET Job
      BY <1>5, <2>1
    <2>3. Sets(t + 1)
      <3>1. Cardinality(f[t].waiting \ {first(t)}) = Cardinality(f[t].waiting) - 1
        BY <2>2, FS_RemoveElement
      <3>2. n - t - 1 = n - (t + 1)
        BY <2>1
      <3> QED BY <1>2, <2>1, <3>1, <3>2
    <2>4. f[t + 1].run \in Nat
      BY <1>2, <2>1 DEF interactive_run_after
    <2>5. Listed(t + 1)
      <3>1. first(t).job_id \in Nat
        BY <2>2 DEF Job
      <3>2. /\ f[t].started \in Seq(Nat) /\ Len(f[t].started) = t
            /\ \A i \in 1 .. t : f[t].started[i] = first(i - 1).job_id
        OBVIOUS
      <3>3. f[t + 1].started = Append(f[t].started, first(t).job_id)
        BY <1>2, <2>1
      <3>4. f[t + 1].started \in Seq(Nat) /\ Len(f[t + 1].started) = t + 1
        BY <3>1, <3>2, <3>3
      <3>5. \A i \in 1 .. t : f[t + 1].started[i] = f[t].started[i]
        BY <3>1, <3>2, <3>3
      <3>6. f[t + 1].started[t + 1] = first(t).job_id /\ t + 1 - 1 = t
        BY <2>1, <3>1, <3>2, <3>3
      <3>7. \A i \in 1 .. t + 1 : i \in 1 .. t \/ i = t + 1
        BY <2>1
      <3> QED BY <3>2, <3>4, <3>5, <3>6, <3>7
    <2> QED BY <2>1, <2>3, <2>4, <2>5
  <1>7. P = 0 .. n
    <2>1. P \in SUBSET (0 .. n)
      OBVIOUS
    <2> HIDE DEF P
    <2> QED BY <1>4, <1>6, <2>1, IntervalInduction
  <1>8. \A t \in 0 .. n : Sets(t) /\ f[t].run \in Nat /\ Listed(t)
    BY <1>7
  <1>9. \A t \in 0 .. n - 1 : f[t].waiting # {}
    <2>1. \A t \in 0 .. n - 1 : t \in 0 .. n
      OBVIOUS
    <2> QED BY <1>5, <1>8, <2>1
  <1>10. ASSUME NEW t \in 0 .. n - 1
         PROVE  t + 1 \in DOMAIN f[n].started /\ f[n].started[t + 1] = first(t).job_id
    <2>1. t + 1 \in 1 .. n /\ t + 1 - 1 = t /\ n \in 0 .. n
      OBVIOUS
    <2>2. f[n].started \in Seq(Nat) /\ Len(f[n].started) = n
          /\ \A i \in 1 .. n : f[n].started[i] = first(i - 1).job_id
      BY <1>8, <2>1
    <2>3. DOMAIN f[n].started = 1 .. n
      BY <2>2
    <2> QED BY <2>1, <2>2, <2>3
  <1> QED BY <1>2, <1>8, <1>9, <1>10 DEF first

\* Every waiting job is the one that starts at some turn.
LEMMA EachHasATurn ==
  ASSUME LoopInv, NEW n \in Nat, n = Cardinality(waiting), NEW f, Plays(f, n),
         NEW w \in waiting
  PROVE  \E t \in 0 .. n - 1 : w \in f[t].waiting /\ w = First(f[t].waiting, f[t].run)
  <1> DEFINE P == {t \in 0 .. n : w \in f[t].waiting}
  <1> SUFFICES ASSUME \A t \in 0 .. n - 1 :
                        w \in f[t].waiting => w # First(f[t].waiting, f[t].run)
               PROVE  FALSE
    OBVIOUS
  <1>1. /\ \A t \in 0 .. n : f[t].waiting \in SUBSET waiting
                             /\ Cardinality(f[t].waiting) = n - t
        /\ f[0].waiting = waiting
        /\ \A t \in 0 .. n - 1 :
             f[t + 1].waiting = f[t].waiting \ {First(f[t].waiting, f[t].run)}
    BY PlayTurns
  <1>2. 0 \in P
    BY <1>1
  <1>3. ASSUME NEW t \in P, t < n PROVE t + 1 \in P
    <2>1. t \in 0 .. n - 1 /\ t + 1 \in 0 .. n /\ w \in f[t].waiting
      BY <1>3
    <2> QED BY <1>1, <2>1
  <1>4. P = 0 .. n
    <2>1. P \in SUBSET (0 .. n)
      OBVIOUS
    <2> HIDE DEF P
    <2> QED BY <1>2, <1>3, <2>1, IntervalInduction
  <1>5. w \in f[n].waiting /\ f[n].waiting \in SUBSET waiting /\ Cardinality(f[n].waiting) = 0
    <2>1. n \in 0 .. n /\ n - n = 0
      OBVIOUS
    <2> QED BY <1>1, <1>4, <2>1
  <1>6. IsFiniteSet(f[n].waiting)
    BY <1>5, FS_Subset DEF LoopInv, TypeInv
  <1> QED BY <1>5, <1>6, FS_EmptySet

\* The run as far as it matters: a longer one promotes like one at the bound.
Capped(run) == IF run < Bound THEN run ELSE Bound

\* How far a job has come after t turns. A background job has one job less before it for
\* each of them. Of an interactive one, the turns that left it where it was were
\* promotions, and each followed Bound turns that moved it up, or the run so far.
Progress(w, f, t) ==
  LET count == Count(w, waiting)
      left == Count(w, f[t].waiting)
      still == t - (count - left)
  IN  /\ left \in Nat /\ count \in Nat
      /\ t > 0 => w # First(waiting, interactive_run)
      /\ w \in Background(waiting) => still = 0
      /\ w \in Interactive(waiting) =>
           /\ still \in Nat
           /\ t > 0 /\ Promotes(waiting, interactive_run) => still > 0
           /\ Bound * still + Capped(f[t].run) <= count - left + Bound

LEMMA EveryTurnIsProgress ==
  ASSUME LoopInv, NEW n \in Nat, n = Cardinality(waiting), NEW f, Plays(f, n),
         NEW w \in waiting
  PROVE  \A t \in 0 .. n : w \in f[t].waiting => Progress(w, f, t)
  <1> DEFINE P == {t \in 0 .. n : w \in f[t].waiting => Progress(w, f, t)}
             first(t) == First(f[t].waiting, f[t].run)
  <1>1. /\ \A t \in 0 .. n : f[t].waiting \in SUBSET waiting /\ f[t].run \in Nat
        /\ f[0].waiting = waiting /\ f[0].run = interactive_run
        /\ \A t \in 0 .. n - 1 :
             /\ f[t].waiting # {}
             /\ f[t + 1].waiting = f[t].waiting \ {first(t)}
             /\ f[t + 1].run = interactive_run_after(first(t), f[t].run)
    BY PlayTurns
  <1>2. Bound \in Nat \ {0} /\ waiting \in SUBSET Job /\ IsFiniteSet(waiting)
    BY BoundAssumption DEF LoopInv, TypeInv
  <1>3. Count(w, waiting) \in Nat
    BY <1>2, RankingPlaces
  <1> HIDE DEF first
  <1>4. 0 \in P
    <2> DEFINE count == Count(w, waiting)
               e == Capped(f[0].run)
    <2>1. e \in Nat /\ e <= Bound
      BY <1>1, <1>2 DEF Capped
    <2>2. count \in Nat /\ Count(w, f[0].waiting) = count
      BY <1>1, <1>3
    <2> HIDE DEF count, e
    <2>3. /\ 0 - (count - count) = 0 /\ 0 \in Nat /\ Bound * 0 = 0 /\ ~(0 > 0)
          /\ Bound * 0 + e <= count - count + Bound
      BY <1>2, <2>1, <2>2
    <2>4. Progress(w, f, 0)
      BY <2>2, <2>3 DEF Progress, count, e
    <2> QED BY <2>4
  <1>5. ASSUME NEW t \in P, t < n PROVE t + 1 \in P
    <2>1. t \in 0 .. n - 1 /\ t \in 0 .. n /\ t + 1 \in 0 .. n /\ t + 1 > 0 /\ t \in Nat
      BY <1>5
    <2> SUFFICES ASSUME w \in f[t + 1].waiting PROVE Progress(w, f, t + 1)
      BY <2>1
    <2> DEFINE jobs == f[t].waiting
               run == f[t].run
               count == Count(w, waiting)
               left == Count(w, jobs)
               rest == Count(w, f[t + 1].waiting)
               still == t - (count - left)
               kept == t + 1 - (count - rest)
    <2>2. /\ w \in jobs /\ w # first(t) /\ jobs \in SUBSET Job /\ IsFiniteSet(jobs)
          /\ run \in Nat /\ f[t + 1].waiting = jobs \ {first(t)} /\ jobs \in SUBSET waiting
          /\ f[t + 1].run = interactive_run_after(first(t), run)
      <3>1. f[t].waiting \in SUBSET waiting /\ f[t].run \in Nat
        BY <1>1, <2>1
      <3>2. IsFiniteSet(f[t].waiting)
        BY <1>2, <3>1, FS_Subset
      <3> QED BY <1>1, <1>2, <2>1, <3>1, <3>2
    <2>3. Progress(w, f, t)
      BY <2>2
    <2>4. w # First(waiting, interactive_run)
      <3>1. CASE t = 0
        BY <1>1, <2>2, <3>1 DEF first
      <3>2. CASE t # 0
        <4>1. t > 0
          BY <2>1, <3>2
        <4> QED BY <2>3, <4>1 DEF Progress
      <3> QED BY <3>1, <3>2
    <2>5. /\ w \in Interactive(jobs) <=> w \in Interactive(waiting)
          /\ w \in Background(jobs) <=> w \in Background(waiting)
      BY <2>2 DEF Interactive, Background
    <2>6. /\ left \in Nat /\ rest \in Nat
          /\ w \in Background(jobs) => rest = left - 1
          /\ w \in Interactive(jobs) /\ ~Promotes(jobs, run) =>
               rest = left - 1 /\ first(t) \in Interactive(jobs)
          /\ w \in Interactive(jobs) /\ Promotes(jobs, run) =>
               rest = left /\ first(t) \in Background(jobs)
      BY <2>2, TurnMovesUp DEF first
    <2>7. w \in Background(waiting) => kept = 0
      <3> SUFFICES ASSUME w \in Background(waiting) PROVE kept = 0
        OBVIOUS
      <3>1. t - (count - left) = 0 /\ rest = left - 1 /\ left \in Nat /\ count \in Nat
        BY <1>3, <2>3, <2>5, <2>6 DEF Progress
      <3> HIDE DEF count, left, rest
      <3> QED BY <2>1, <3>1
    <2>8. ASSUME w \in Interactive(waiting)
          PROVE  /\ kept \in Nat
                 /\ Promotes(waiting, interactive_run) => kept > 0
                 /\ Bound * kept + Capped(f[t + 1].run) <= count - rest + Bound
      <3> DEFINE e == Capped(run)
                 d == Capped(f[t + 1].run)
      <3>1. /\ still \in Nat /\ count \in Nat
            /\ t > 0 /\ Promotes(waiting, interactive_run) => still > 0
            /\ Bound * still + e <= count - left + Bound
        BY <1>3, <2>3, <2>8 DEF Progress
      <3>2. CASE Promotes(jobs, run)
        <4>1. rest = left /\ first(t).priority = "background"
          BY <2>2, <2>5, <2>6, <2>8, <3>2 DEF Background
        <4>2. e = Bound /\ d = 0
          <5>1. run >= Bound /\ f[t + 1].run = 0
            BY <2>2, <3>2, <4>1 DEF Promotes, interactive_run_after
          <5> QED BY <1>2, <2>2, <5>1 DEF Capped
        <4> HIDE DEF count, left, rest, e, d
        <4>3. kept = still + 1
          BY <2>1, <2>6, <3>1, <4>1
        <4> HIDE DEF still, kept
        <4>4. Bound * (still + 1) = Bound * still + Bound /\ Bound * still \in Nat
          BY <1>2, <3>1
        <4>5. Bound * kept + d <= count - rest + Bound
          BY <1>2, <2>6, <3>1, <4>1, <4>2, <4>3, <4>4
        <4>6. kept \in Nat /\ kept > 0
          BY <3>1, <4>3
        <4> QED BY <4>5, <4>6 DEF d
      <3>3. CASE ~Promotes(jobs, run)
        <4>1. rest = left - 1 /\ first(t).priority = "interactive"
          BY <2>2, <2>5, <2>6, <2>8, <3>3 DEF Interactive
        <4>2. e \in Nat /\ d \in Nat /\ d <= e + 1
          <5>1. f[t + 1].run = run + 1
            BY <2>2, <4>1 DEF interactive_run_after
          <5> QED BY <1>2, <2>2, <5>1 DEF Capped
        <4>3. Promotes(waiting, interactive_run) => still > 0
          <5>1. CASE t = 0
            BY <1>1, <3>3, <5>1
          <5>2. CASE t # 0
            BY <2>1, <3>1, <5>2
          <5> QED BY <5>1, <5>2
        <4> HIDE DEF count, left, rest, e, d
        <4>4. kept = still
          BY <2>1, <2>6, <3>1, <4>1
        <4> HIDE DEF still, kept
        <4>5. Bound * still \in Nat
          BY <1>2, <3>1
        <4>6. Bound * kept + d <= count - rest + Bound
          BY <1>2, <2>6, <3>1, <4>1, <4>2, <4>4, <4>5
        <4> QED BY <3>1, <4>3, <4>4, <4>6 DEF d
      <3> QED BY <3>2, <3>3
    <2> QED BY <1>3, <2>4, <2>6, <2>7, <2>8 DEF Progress
  <1>6. P = 0 .. n
    <2>1. P \in SUBSET (0 .. n)
      OBVIOUS
    <2> HIDE DEF P
    <2> QED BY <1>4, <1>5, <2>1, IntervalInduction
  <1> QED BY <1>6

LEMMA LeastOfQuotients ==
  ASSUME NEW m \in Nat, NEW b \in Nat \ {0}, NEW k \in Int, b * k <= m
  PROVE  m \div b \in Nat /\ k <= m \div b
  OBVIOUS

\* A background job starts no later than its position says.
LEMMA BackgroundTurn ==
  ASSUME LoopInv, NEW w \in Background(waiting), NEW f, NEW t \in Nat, Progress(w, f, t)
  PROVE  t <= AheadOf(w, waiting, interactive_run)
  <1> DEFINE count == Count(w, waiting)
             left == Count(w, f[t].waiting)
             a == AheadOf(w, waiting, interactive_run)
  <1>1. waiting \in SUBSET Job /\ IsFiniteSet(waiting) /\ interactive_run \in Nat
        /\ w \in waiting /\ waiting # {}
    BY DEF LoopInv, TypeInv, Background
  <1>2. w \notin Interactive(waiting)
    BY <1>1, KindsOfJobs
  <1>3. /\ left \in Nat /\ count \in Nat /\ t - (count - left) = 0
        /\ t > 0 => w # First(waiting, interactive_run)
    BY DEF Progress
  <1>4. CASE Promotes(waiting, interactive_run) /\ Lowest(w, Background(waiting))
    <2> DEFINE first == First(waiting, interactive_run)
    <2>1. first \in Background(waiting) /\ Lowest(first, Background(waiting))
      BY <1>1, <1>4, FirstOfTurn
    <2> HIDE DEF first
    <2>2. w = first
      <3> SUFFICES ASSUME w # first PROVE FALSE
        OBVIOUS
      <3>1. sort_key_before(w, first) /\ sort_key_before(first, w)
        BY <1>4, <2>1 DEF Lowest
      <3>2. w \in Job /\ first \in Job
        BY <1>1, <2>1 DEF Background
      <3> QED BY <3>1, <3>2, SortKeyIsTotalOrder
    <2>3. ~(t > 0)
      BY <1>3, <2>2 DEF first
    <2>4. a = 0
      BY <1>2, <1>4 DEF AheadOf
    <2> QED BY <2>3, <2>4
  <1>5. CASE ~(Promotes(waiting, interactive_run) /\ Lowest(w, Background(waiting)))
    <2>1. a = count
      BY <1>2, <1>5 DEF AheadOf
    <2> HIDE DEF a, count, left
    <2>2. t <= a
      BY <1>3, <2>1
    <2> QED BY <2>2 DEF a
  <1> QED BY <1>4, <1>5

\* An interactive one starts no earlier than its position says, and later only by the
\* promotions there is room for.
LEMMA InteractiveTurn ==
  ASSUME LoopInv, NEW w \in Interactive(waiting), NEW f, NEW t \in Nat, Progress(w, f, t),
         f[t].waiting \in SUBSET waiting, f[t].run \in Nat,
         t = 0 => f[t].waiting = waiting /\ f[t].run = interactive_run,
         w \in f[t].waiting, w = First(f[t].waiting, f[t].run)
  PROVE  LET a == AheadOf(w, waiting, interactive_run)
         IN  a \in Nat => t \in a .. a + 1 + a \div Bound
  <1> DEFINE jobs == f[t].waiting
             run == f[t].run
             count == Count(w, waiting)
             left == Count(w, jobs)
             still == t - (count - left)
             e == Capped(run)
             a == AheadOf(w, waiting, interactive_run)
  <1>1. waiting \in SUBSET Job /\ IsFiniteSet(waiting) /\ Bound \in Nat \ {0}
    BY BoundAssumption DEF LoopInv, TypeInv
  <1>2. jobs \in SUBSET Job /\ IsFiniteSet(jobs) /\ jobs # {} /\ w \in jobs /\ run \in Nat
    BY <1>1, FS_Subset
  <1>3. w \in Interactive(jobs) /\ w \notin Background(jobs)
    BY <1>1, <1>2, KindsOfJobs DEF Interactive
  <1>4. ~Promotes(jobs, run) /\ Lowest(w, jobs)
    BY <1>2, <1>3, FirstOfTurn
  <1>5. left = 0
    <2>1. \A v \in jobs : ~sort_key_before(v, w)
      <3> SUFFICES ASSUME NEW v \in jobs, sort_key_before(v, w) PROVE FALSE
        OBVIOUS
      <3>1. v \in Job /\ w \in Job
        BY <1>2
      <3>2. v = w \/ sort_key_before(w, v)
        BY <1>4 DEF Lowest
      <3> QED BY <3>1, <3>2, SortKeyIsTotalOrder
    <2>2. {v \in jobs : sort_key_before(v, w)} = {}
      BY <2>1
    <2> QED BY <2>2, FS_EmptySet DEF Count
  <1>6. /\ count \in Nat /\ still \in Nat
        /\ t > 0 /\ Promotes(waiting, interactive_run) => still > 0
        /\ Bound * still + e <= count - left + Bound
    BY DEF Progress
  <1>7. e \in Nat
    BY <1>1, <1>2 DEF Capped
  <1>8. Promotes(waiting, interactive_run) => still > 0
    BY <1>4, <1>6
  <1>9. a = IF Promotes(waiting, interactive_run) THEN count + 1 ELSE count
    BY DEF AheadOf
  <1> HIDE DEF jobs, run, count, left, e, a
  <1>10. t = still + count
    BY <1>5, <1>6
  <1> HIDE DEF still
  <1>11. a <= t /\ count <= a
    BY <1>6, <1>8, <1>9, <1>10
  <1>12. a \in Nat => still - 1 <= a \div Bound /\ a \div Bound \in Nat
    <2> SUFFICES ASSUME a \in Nat PROVE still - 1 <= a \div Bound /\ a \div Bound \in Nat
      OBVIOUS
    <2>1. Bound * (still - 1) = Bound * still - Bound /\ Bound * still \in Nat
      BY <1>1, <1>6
    <2>2. Bound * (still - 1) <= a /\ still - 1 \in Int
      BY <1>1, <1>5, <1>6, <1>7, <1>11, <2>1
    <2> QED BY <1>1, <2>2, LeastOfQuotients
  <1>13. a \in Nat => t \in a .. a + 1 + a \div Bound
    BY <1>6, <1>10, <1>11, <1>12
  <1> QED BY <1>13 DEF a

\* Played to its end with nothing else accepted, the loop starts each waiting job within
\* what its position says (position_of, ordering.py:233-243), whatever was accepted and
\* started before and whatever the bound.
THEOREM PositionsComeTrue == Spec => []PositionForetells
  <1>1. ASSUME LoopInv PROVE PositionForetells
    <2> DEFINE n == Cardinality(waiting)
               ordered == order(waiting, interactive_run)
               a(w) == AheadOf(w, waiting, interactive_run)
               Within(w, i) == IF \E v \in Background(waiting) : v.job_id = w.job_id
                                 THEN i - 1 <= a(w)
                                 ELSE i - 1 \in a(w) .. a(w) + 1 + a(w) \div Bound
    <2>1. /\ waiting \in SUBSET Job /\ IsFiniteSet(waiting) /\ interactive_run \in Nat
          /\ \A w, v \in waiting : w.job_id = v.job_id => w = v
      BY <1>1 DEF LoopInv, TypeInv, IdentInv
    <2>2. n \in Nat
      BY <2>1, FS_CardinalityType
    <2>3. PICK f : Plays(f, n) /\ Unattended = f[n].started
      BY <2>2, UnattendedIsPlayed
    <2> HIDE DEF n
    <2>4. /\ \A t \in 0 .. n : f[t].waiting \in SUBSET waiting /\ f[t].run \in Nat
          /\ f[0].waiting = waiting /\ f[0].run = interactive_run
          /\ \A t \in 0 .. n - 1 :
               /\ t + 1 \in DOMAIN f[n].started
               /\ f[n].started[t + 1] = First(f[t].waiting, f[t].run).job_id
      <3>1. n = Cardinality(waiting)
        BY DEF n
      <3>2. Plays(f, n)
        BY <2>3
      <3> QED BY <1>1, <2>2, <3>1, <3>2, PlayTurns
    <2>5. ASSUME NEW w \in waiting
          PROVE  /\ position_of(w.job_id, ordered) = QueuePosition(w.job_id, a(w), n)
                 /\ a(w) \in 0 .. n - 1
      <3>1. \A v \in waiting : v.job_id = w.job_id => v = w
        BY <2>1
      <3> QED BY <2>1, <3>1, PositionIs DEF n
    <2>6. ASSUME NEW w \in waiting
          PROVE  \E i \in DOMAIN Unattended : Unattended[i] = w.job_id /\ Within(w, i)
      <3>1. PICK t \in 0 .. n - 1 : w \in f[t].waiting /\ w = First(f[t].waiting, f[t].run)
        BY <1>1, <2>2, <2>3, EachHasATurn DEF n
      <3>2. t \in 0 .. n /\ t \in Nat /\ t + 1 - 1 = t
        BY <2>2, <3>1
      <3>3. Progress(w, f, t)
        BY <1>1, <2>2, <2>3, <3>1, <3>2, EveryTurnIsProgress DEF n
      <3>4. t + 1 \in DOMAIN Unattended /\ Unattended[t + 1] = w.job_id
        BY <2>3, <2>4, <3>1
      <3>5. Within(w, t + 1)
        <4>1. CASE w \in Background(waiting)
          <5>1. t <= a(w)
            BY <1>1, <3>2, <3>3, <4>1, BackgroundTurn
          <5> QED BY <3>2, <4>1, <5>1
        <4>2. CASE w \notin Background(waiting)
          <5>1. w \in Interactive(waiting) /\ ~\E v \in Background(waiting) : v.job_id = w.job_id
            BY <2>1, <4>2, KindsOfJobs DEF Background
          <5>2. /\ f[t].waiting \in SUBSET waiting /\ f[t].run \in Nat
                /\ t = 0 => f[t].waiting = waiting /\ f[t].run = interactive_run
            BY <2>4, <3>2
          <5>3. a(w) \in Nat
            BY <2>5
          <5>4. t \in a(w) .. a(w) + 1 + a(w) \div Bound
            BY <1>1, <3>1, <3>2, <3>3, <5>1, <5>2, <5>3, InteractiveTurn
          <5> QED BY <3>2, <5>1, <5>4
        <4> QED BY <4>1, <4>2
      <3> QED BY <3>4, <3>5
    <2>7. ASSUME NEW id, ~\E w \in waiting : w.job_id = id
          PROVE  position_of(id, ordered) = Nothing
      <3>1. DOMAIN ordered = 1 .. Len(ordered) /\ \A i \in DOMAIN ordered : ordered[i] \in waiting
        BY <2>1, OrderPlaces
      <3>2. {i \in DOMAIN ordered : ordered[i].job_id = id} = {}
        BY <2>7, <3>1
      <3> QED BY <3>2 DEF position_of
    <2>8. \A id, b, m : /\ QueuePosition(id, b, m) # Nothing
                        /\ QueuePosition(id, b, m).ahead = b
                        /\ QueuePosition(id, b, m).total_waiting = m
      BY DEF QueuePosition, Nothing, Waiting
    <2> SUFFICES ASSUME NEW id \in JobId
                 PROVE  LET position == position_of(id, ordered)
                        IN  /\ (\E w \in waiting : w.job_id = id) <=> position # Nothing
                            /\ position # Nothing =>
                                 /\ position.ahead < position.total_waiting
                                 /\ \E i \in DOMAIN Unattended :
                                      /\ Unattended[i] = id
                                      /\ IF \E w \in Background(waiting) : w.job_id = id
                                           THEN i - 1 <= position.ahead
                                           ELSE i - 1 \in position.ahead ..
                                                  position.ahead + 1 + position.ahead \div Bound
      BY DEF PositionForetells
    <2>9. CASE ~\E w \in waiting : w.job_id = id
      BY <2>7, <2>9
    <2>10. CASE \E w \in waiting : w.job_id = id
      <3>1. PICK w \in waiting : w.job_id = id
        BY <2>10
      <3> DEFINE position == position_of(id, ordered)
      <3>2. /\ position # Nothing /\ position.ahead = a(w) /\ position.total_waiting = n
            /\ a(w) < n
        BY <2>2, <2>5, <2>8, <3>1
      <3>3. PICK i \in DOMAIN Unattended : Unattended[i] = w.job_id /\ Within(w, i)
        BY <2>6
      <3> HIDE DEF position, a
      <3>4. IF \E v \in Background(waiting) : v.job_id = id
              THEN i - 1 <= position.ahead
              ELSE i - 1 \in position.ahead .. position.ahead + 1 + position.ahead \div Bound
        BY <3>1, <3>2, <3>3
      <3> QED BY <2>10, <3>1, <3>2, <3>3, <3>4 DEF position
    <2> QED BY <2>9, <2>10
  <1> QED BY <1>1, AlwaysLoopInv, PTL
=============================================================================
