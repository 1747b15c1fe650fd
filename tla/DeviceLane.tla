----------------------------- MODULE DeviceLane ----------------------------
(***************************************************************************)
(* The device lane of src/src/retusche/queue/lane.py: a fixed number of    *)
(* seats behind one condition variable, and serve, which admits, prepares  *)
(* and then holds a seat for the engine call.                              *)
(*                                                                         *)
(* A dispatch is one call of serve on a thread of its own.  Each block     *)
(* under the condition's lock is one step; a wait ends the step, and the   *)
(* woken thread decides again in a later one, after any thread that took   *)
(* the lock in between.  notify wakes the waiter that has waited longest.  *)
(***************************************************************************)
EXTENDS DeviceBudget, FiniteSets, Sequences

CONSTANTS Dispatch,    \* calls of serve
          Job,         \* job identifiers
          JobOf,       \* the job each call is for; two calls may share one
          Limit,       \* the lane's number of seats
          Peak,        \* each job's estimated peak, in units of memory
          Budgets      \* the budgets callers read off and hand in

VARIABLES on_the_device,  \* the jobs that hold a seat
          waiters,        \* dispatches asleep on the condition, oldest first
          pc              \* where each dispatch is in serve

vars == <<on_the_device, waiters, pc>>

ASSUME LimitAssumption == Limit \in Nat \ {0}

ASSUME DispatchAssumption ==
  /\ IsFiniteSet(Dispatch)
  /\ JobOf \in [Dispatch -> Job]

ASSUME MemoryAssumption ==
  /\ Peak \in [Job -> Nat]
  /\ Budgets \subseteq DeviceMemoryBudget(Nat)

\* Mutant of full: one seat too many.
fullLate == Cardinality(on_the_device) > Limit

full == Cardinality(on_the_device) >= Limit

\* In the body of occupied_by: the engine is running, or has just ended.
OnDevice == {"running", "returned", "raised"}

Ended == {"refused", "unprepared", "refused_twice", "done"}

Holders == {d \in Dispatch : pc[d] \in OnDevice}

Waiting == {d \in Dispatch : pc[d] = "waiting"}

Woken == {d \in Dispatch : pc[d] = "woken"}

RefusedTwice == {d \in Dispatch : pc[d] = "refused_twice"}

Goto(d, place) == pc' = [pc EXCEPT ![d] = place]

-----------------------------------------------------------------------------
Init == /\ on_the_device = {}
        /\ waiters = <<>>
        /\ pc = [d \in Dispatch |-> "called"]

\* admit: the engine refuses the job, or the budget does, or it goes on.  serve
\* drops the answer, so a job that is to wait for room goes on like any other.
admit(d) ==
  /\ pc[d] = "called"
  /\ \/ Goto(d, "refused")
     \/ \E budget \in Budgets :
          Goto(d, IF fits(Peak[JobOf[d]], budget) = "OverBudgetError" THEN "refused"
                                                                      ELSE "admitted")
  /\ UNCHANGED <<on_the_device, waiters>>

\* prepare, outside the lane: it makes the request or raises.
prepare(d) ==
  /\ pc[d] = "admitted"
  /\ Goto(d, "prepared") \/ Goto(d, "unprepared")
  /\ UNCHANGED <<on_the_device, waiters>>

\* A dispatch that holds the lock and asks whether the lane is full.
AtTheDoor(d) == pc[d] \in {"prepared", "woken"}

Wait(d) ==
  /\ AtTheDoor(d)
  /\ full
  /\ waiters' = Append(waiters, d)
  /\ Goto(d, "waiting")
  /\ UNCHANGED on_the_device

RefuseSecond(d) ==
  /\ AtTheDoor(d)
  /\ ~full
  /\ JobOf[d] \in on_the_device
  /\ Goto(d, "refused_twice")
  /\ UNCHANGED <<on_the_device, waiters>>

\* Mutant of TakeSeat: no look at who is on the device already.
TakeSeatTwice(d) ==
  /\ AtTheDoor(d)
  /\ ~full
  /\ on_the_device' = on_the_device \cup {JobOf[d]}
  /\ Goto(d, "running")
  /\ UNCHANGED waiters

TakeSeat(d) ==
  /\ AtTheDoor(d)
  /\ ~full
  /\ JobOf[d] \notin on_the_device
  /\ on_the_device' = on_the_device \cup {JobOf[d]}
  /\ Goto(d, "running")
  /\ UNCHANGED waiters

\* engine.run gives an image back, or raises whatever it raises.
EngineEnds(d) ==
  /\ pc[d] = "running"
  /\ Goto(d, "returned") \/ Goto(d, "raised")
  /\ UNCHANGED <<on_the_device, waiters>>

\* Mutants of LeaveSeat: no notify, a notify that leaves the woken thread in the
\* queue, and no finally around the yield.
LeaveSeatSilently(d) ==
  /\ pc[d] \in {"returned", "raised"}
  /\ on_the_device' = on_the_device \ {JobOf[d]}
  /\ Goto(d, "done")
  /\ UNCHANGED waiters

LeaveSeatStillQueued(d) ==
  /\ pc[d] \in {"returned", "raised"}
  /\ on_the_device' = on_the_device \ {JobOf[d]}
  /\ pc' = [e \in Dispatch |-> CASE e = d -> "done"
                               [] waiters # <<>> /\ e = Head(waiters) -> "woken"
                               [] OTHER -> pc[e]]
  /\ UNCHANGED waiters

LeaveSeatOnSuccess(d) ==
  /\ pc[d] \in {"returned", "raised"}
  /\ IF pc[d] = "raised"
       THEN /\ Goto(d, "done")
            /\ UNCHANGED <<on_the_device, waiters>>
       ELSE /\ on_the_device' = on_the_device \ {JobOf[d]}
            /\ IF waiters = <<>>
                 THEN Goto(d, "done") /\ UNCHANGED waiters
                 ELSE /\ pc' = [pc EXCEPT ![d] = "done",
                                          ![Head(waiters)] = "woken"]
                      /\ waiters' = Tail(waiters)

\* The way out of occupied_by, however the engine ended.
LeaveSeat(d) ==
  /\ pc[d] \in {"returned", "raised"}
  /\ on_the_device' = on_the_device \ {JobOf[d]}
  /\ IF waiters = <<>>
       THEN /\ Goto(d, "done")
            /\ UNCHANGED waiters
       ELSE /\ pc' = [pc EXCEPT ![d] = "done", ![Head(waiters)] = "woken"]
            /\ waiters' = Tail(waiters)

Serve(d) == \/ admit(d)
            \/ prepare(d)
            \/ Wait(d)
            \/ RefuseSecond(d)
            \/ TakeSeat(d)
            \/ EngineEnds(d)
            \/ LeaveSeat(d)

\* Nothing is left to do once every call has ended.
AllEnded == /\ \A d \in Dispatch : pc[d] \in Ended
            /\ UNCHANGED vars

Next == AllEnded \/ \E d \in Dispatch : Serve(d)

Spec == Init /\ [][Next]_vars

\* Every thread gets to run, and every engine call and preparation ends.
FairSpec == Spec /\ \A d \in Dispatch : WF_vars(Serve(d))

-----------------------------------------------------------------------------
(* Properties                                                              *)

\* The types, and that the queue holds each sleeping dispatch once.
TypeOK ==
  /\ on_the_device \subseteq Job
  /\ waiters \in Seq(Dispatch)
  /\ {waiters[i] : i \in DOMAIN waiters} = Waiting
  /\ \A i, j \in DOMAIN waiters : waiters[i] = waiters[j] => i = j
  /\ pc \in [Dispatch -> {"called", "admitted", "prepared", "waiting", "woken"}
                          \cup OnDevice \cup Ended]

\* No more engine calls run at once than the lane has seats, however threads
\* arrive while others are being woken (lane.py:4-12, 227-232).
NeverOverOccupied == Cardinality(Holders) <= Limit

\* The occupancy is the truth about the device: a seat for every engine call, of
\* its own job, no two calls for one job, and no seat left behind by a call that
\* failed (lane.py:112-119, 222-225).
SeatsAreHeld ==
  /\ on_the_device = {JobOf[d] : d \in Holders}
  /\ \A d, e \in Holders : JobOf[d] = JobOf[e] => d = e

\* A dispatch sleeps only while the lane is full: when a seat is free beside one
\* that waits, a woken dispatch is already on its way to it (lane.py:219-220).
NoStrandedWaiter ==
  Waiting # {} => Cardinality(on_the_device) + Cardinality(Woken) >= Limit

\* Only a refused second dispatch uses up a wake-up without taking the seat it was
\* sent to, and it uses up one: nothing else that happens at the door, on the
\* device or on the way out leaves a dispatch asleep beside a free seat.
OneWakeUpPerRefusal ==
  Waiting # {} =>
    Cardinality(on_the_device) + Cardinality(Woken) + Cardinality(RefusedTwice) >= Limit

\* Every call ends: no wake-up is lost for good and no failure costs a seat that
\* a later call would have had (lane.py:222-225).
EveryDispatchEnds == \A d \in Dispatch : <>(pc[d] \in Ended)
=============================================================================
