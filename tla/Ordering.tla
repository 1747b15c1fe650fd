------------------------------ MODULE Ordering -----------------------------
(***************************************************************************)
(* Which waiting job is considered next: src/src/retusche/queue/ordering.py*)
(* and the loop that drives it.  The module's functions are stateless; the *)
(* loop that keeps the waiting set and the counter between them is not in  *)
(* the tree yet and is modelled from the one in                            *)
(* src/tests/test_queue_ordering.py.                                       *)
(***************************************************************************)
EXTENDS DeviceBudget, FiniteSetsExt, Sequences

CONSTANTS Bound,      \* INTERACTIVE_BEFORE_BACKGROUND
          Ident,      \* the identifiers of the jobs, in the order they are accepted
          Peak,       \* each job's estimated peak
          Budgets     \* the budgets the loop may read when it asks what can start

VARIABLES waiting,          \* the jobs in the queue
          interactive_run,  \* interactive starts since the last background one
          accepted,         \* how many jobs have been accepted
          clock,            \* the last arrival ordinal given out
          streak,           \* history: see StarvationBound
          background_streak,\* history: see OneBackgroundAtATime
          passed,           \* history: see EachHasItsTurn
          ahead             \* history: see EachHasItsTurn

vars == <<waiting, interactive_run, accepted, clock,
          streak, background_streak, passed, ahead>>

ASSUME BoundAssumption == Bound \in Nat \ {0}
ASSUME IdentAssumption ==
  /\ Ident \in Seq(Nat)
  /\ \A i, j \in DOMAIN Ident : Ident[i] = Ident[j] => i = j

JobId == {Ident[i] : i \in DOMAIN Ident}

Priority == {"interactive", "background"}

\* Lowest first.
RANK == [p \in Priority |-> IF p = "interactive" THEN 0 ELSE 1]

Waiting(id, priority, arrival) ==
  [job_id |-> id, priority |-> priority, arrival |-> arrival]

QueuePosition(id, before, total) ==
  [job_id |-> id, ahead |-> before, total_waiting |-> total]

\* Python's None where a job or a position is expected.
Nothing == Waiting(0, "none", 0)

\* Mutant: of two jobs that arrived at once, the one with the greater identifier.
sort_key_beforeBackwards(w, v) ==
  \/ RANK[w.priority] < RANK[v.priority]
  \/ /\ w.priority = v.priority
     /\ \/ w.arrival < v.arrival
        \/ w.arrival = v.arrival /\ w.job_id > v.job_id

\* Priority, then arrival, then the identifier.
sort_key_before(w, v) ==
  \/ RANK[w.priority] < RANK[v.priority]
  \/ /\ w.priority = v.priority
     /\ \/ w.arrival < v.arrival
        \/ w.arrival = v.arrival /\ w.job_id < v.job_id

\* What is promised of two jobs of one priority, said apart from the key for the properties.
Older(w, v) ==
  \/ w.arrival < v.arrival
  \/ w.arrival = v.arrival /\ w.job_id < v.job_id

Background(jobs) == {w \in jobs : w.priority = "background"}
Interactive(jobs) == {w \in jobs : w.priority = "interactive"}

\* sorted by the key: the w with i - 1 others before it comes i-th.
ranking(jobs) ==
  [i \in 1 .. Cardinality(jobs) |->
     CHOOSE w \in jobs :
       Cardinality({v \in jobs : sort_key_before(v, w)}) = i - 1]

\* The first background job goes to the front; those before it keep their own order.
promote(ranked) ==
  LET k == Min({i \in DOMAIN ranked : ranked[i].priority = "background"})
  IN  [i \in DOMAIN ranked |-> CASE i = 1 -> ranked[k]
                                 [] i \in 2 .. k -> ranked[i - 1]
                                 [] OTHER -> ranked[i]]

\* Mutants of order: strict priority, and an interactive start too many.
orderStrict(jobs, run) == ranking(jobs)

orderLate(jobs, run) ==
  IF run <= Bound \/ Background(jobs) = {} THEN ranking(jobs) ELSE promote(ranking(jobs))

\* The waiting jobs in the order they are considered; the oldest background job
\* goes to the front once the run has reached the bound.
order(jobs, run) ==
  IF run < Bound \/ Background(jobs) = {} THEN ranking(jobs) ELSE promote(ranking(jobs))

\* The first in the order that can start, the jobs can_start answers for given as a set.
next_to_start(ordered, startable) ==
  LET able == {i \in DOMAIN ordered : ordered[i] \in startable}
  IN  IF able = {} THEN Nothing ELSE ordered[Min(able)]

\* Mutant of interactive_run_after: a counter that is never reset.
interactive_run_afterKeeps(started, run) ==
  IF started.priority = "background" THEN run ELSE run + 1

interactive_run_after(started, run) ==
  IF started.priority = "background" THEN 0 ELSE run + 1

\* Mutant of position_of: the first is told that one is ahead of it.
position_ofCountsItself(job_id, ordered) ==
  LET found == {i \in DOMAIN ordered : ordered[i].job_id = job_id}
  IN  IF found = {} THEN Nothing
      ELSE QueuePosition(job_id, CHOOSE i \in found : TRUE, Len(ordered))

\* Where a job sits in the order, or nothing if it is not waiting.
position_of(job_id, ordered) ==
  LET found == {i \in DOMAIN ordered : ordered[i].job_id = job_id}
  IN  IF found = {} THEN Nothing
      ELSE QueuePosition(job_id, (CHOOSE i \in found : TRUE) - 1, Len(ordered))

-----------------------------------------------------------------------------
Init == /\ waiting = {}
        /\ interactive_run = 0
        /\ accepted = 0
        /\ clock = 0
        /\ streak = 0
        /\ background_streak = 0
        /\ passed = [j \in JobId |-> 0]
        /\ ahead = [j \in JobId |-> 0]

\* A job joins the queue.  Nothing says ordinals are unique (ordering.py:249-254),
\* so it may share the last one given out.
Accept(priority, arrival) ==
  /\ accepted < Len(Ident)
  /\ arrival \in {clock, clock + 1}
  /\ LET new == Waiting(Ident[accepted + 1], priority, arrival)
         before(w) == {v \in Background(waiting \cup {new}) :
                         v.priority = w.priority /\ Older(v, w)}
     IN  /\ waiting' = waiting \cup {new}
         /\ ahead' = [j \in JobId |->
              IF j = new.job_id THEN Cardinality(before(new))
              ELSE IF \E w \in waiting : w.job_id = j /\ new \in before(w)
                     THEN ahead[j] + 1 ELSE ahead[j]]
  /\ accepted' = accepted + 1
  /\ clock' = arrival
  /\ UNCHANGED <<interactive_run, streak, background_streak, passed>>

\* One turn of the loop: order, ask in that order, start, move the counter.
Start(budget) ==
  LET startable == {w \in waiting : fits(Peak[w.job_id], budget) = "now"}
      ordered == order(waiting, interactive_run)
      started == next_to_start(ordered, startable)
      background == started.priority = "background"
  IN  /\ started # Nothing
      /\ waiting' = waiting \ {started}
      /\ interactive_run' = interactive_run_after(started, interactive_run)
      /\ streak' = IF ~background /\ Background(startable) # {}
                     THEN streak + 1 ELSE 0
      /\ background_streak' =
           IF background /\ Interactive(startable) # {}
             THEN background_streak + 1 ELSE 0
      /\ passed' = [j \in JobId |->
           IF ~background /\ \E w \in Background(waiting) : w.job_id = j
             THEN passed[j] + 1 ELSE passed[j]]
      /\ UNCHANGED <<accepted, clock, ahead>>

\* Every job was accepted and started.
Drained == /\ accepted = Len(Ident)
           /\ waiting = {}
           /\ UNCHANGED vars

Next == \/ \E p \in Priority, arrival \in {clock, clock + 1} : Accept(p, arrival)
        \/ \E budget \in Budgets : Start(budget)
        \/ Drained

Spec == Init /\ [][Next]_vars

-----------------------------------------------------------------------------
(* Properties                                                              *)

\* While a background job that could start is waiting, at most Bound interactive
\* jobs start in a row (ordering.py:16-17).  streak counts them.
StarvationBound == streak <= Bound

\* A promotion moves one job and not the whole class: two background jobs never
\* start in a row past an interactive job that could start (ordering.py:183-187).
OneBackgroundAtATime == background_streak <= 1

\* A background job with k older ones beside it in the queue waits for at most
\* Bound * (k + 1) interactive starts (ordering.py:24-30), and of two that arrived at
\* once it is the identifier that says which is older (ordering.py:179-181).  passed
\* counts the starts since it arrived, ahead the older background jobs it has met.
EachHasItsTurn ==
  \A w \in Background(waiting) :
    passed[w.job_id] <= Bound * (ahead[w.job_id] + 1)

\* The loop left to itself, where every job can start: what is waiting and the counter
\* after each turn, and the jobs in the order they started.
Unattended ==
  LET turn[i \in 0 .. Cardinality(waiting)] ==
        IF i = 0 THEN [waiting |-> waiting, run |-> interactive_run, started |-> <<>>]
        ELSE LET last == turn[i - 1]
                 first == next_to_start(order(last.waiting, last.run), last.waiting)
             IN  [waiting |-> last.waiting \ {first},
                  run |-> interactive_run_after(first, last.run),
                  started |-> Append(last.started, first.job_id)]
  IN  turn[Cardinality(waiting)].started

\* What a position tells a caller while nothing else is accepted: no more jobs start
\* before a background job than it says are ahead, and no fewer before an interactive
\* one, which one background job may overtake for every Bound ahead of it and once
\* more.  Only a job that waits has a position (position_of, ordering.py:233-243).
PositionForetells ==
  LET ordered == order(waiting, interactive_run)
      started == Unattended
  IN  \A id \in JobId :
        LET position == position_of(id, ordered)
        IN  /\ (\E w \in waiting : w.job_id = id) <=> position # Nothing
            /\ position # Nothing =>
                 /\ position.ahead < position.total_waiting
                 /\ \E i \in DOMAIN started :
                      /\ started[i] = id
                      /\ IF \E w \in Background(waiting) : w.job_id = id
                           THEN i - 1 <= position.ahead
                           ELSE i - 1 \in position.ahead ..
                                            position.ahead + 1 + position.ahead \div Bound
=============================================================================
