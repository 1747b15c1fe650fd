-------------------------- MODULE DeviceLaneProofs --------------------------
(***************************************************************************)
(* Proofs about the device lane, for any number of dispatches and seats.   *)
(***************************************************************************)
EXTENDS DeviceLane, FiniteSetTheorems, SequenceTheorems, TLAPS

(***************************************************************************)
(* Type correctness, with the queue of sleeping dispatches                 *)
(***************************************************************************)

LEMMA TypeInit == Init => TypeOK
  <1> SUFFICES ASSUME Init PROVE TypeOK
    OBVIOUS
  <1>1. /\ waiters = <<>> /\ waiters \in Seq(Dispatch)
        /\ DOMAIN waiters = {}
    BY DEF Init
  <1> QED BY <1>1 DEF Init, TypeOK, Waiting

\* A step that moves one dispatch, neither to sleep nor from sleep.
LEMMA TypeAwake ==
  ASSUME TypeOK, NEW d \in Dispatch, NEW place, Goto(d, place),
         pc[d] # "waiting", place # "waiting",
         place \in {"called", "admitted", "prepared", "woken"} \cup OnDevice \cup Ended,
         on_the_device' \subseteq Job, UNCHANGED waiters
  PROVE  TypeOK'
  <1>1. Waiting' = Waiting
    BY DEF TypeOK, Goto, Waiting
  <1> QED BY <1>1 DEF TypeOK, Goto

LEMMA TypeWait ==
  ASSUME TypeOK, NEW d \in Dispatch, Wait(d)
  PROVE  TypeOK'
  <1>1. /\ waiters \in Seq(Dispatch) /\ waiters' = Append(waiters, d)
        /\ pc' = [pc EXCEPT ![d] = "waiting"]
        /\ d \notin Waiting
    BY DEF TypeOK, Wait, Goto, AtTheDoor, Waiting
  <1>2. /\ waiters' \in Seq(Dispatch)
        /\ Len(waiters) \in Nat /\ Len(waiters') = Len(waiters) + 1
        /\ DOMAIN waiters = 1 .. Len(waiters)
        /\ DOMAIN waiters' = 1 .. Len(waiters) + 1
        /\ \A i \in 1 .. Len(waiters) : waiters'[i] = waiters[i]
        /\ waiters'[Len(waiters) + 1] = d
    BY <1>1, AppendProperties, LenProperties
  <1>3. Waiting' = Waiting \cup {d}
    BY <1>1 DEF TypeOK, Waiting
  <1>4. {waiters'[i] : i \in DOMAIN waiters'} = Waiting'
    BY <1>2, <1>3 DEF TypeOK
  <1>5. \A i \in 1 .. Len(waiters) : waiters[i] # d
    BY <1>1, <1>2 DEF TypeOK
  <1>6. \A i, j \in DOMAIN waiters' : waiters'[i] = waiters'[j] => i = j
    BY <1>2, <1>5 DEF TypeOK
  <1> QED BY <1>1, <1>2, <1>4, <1>6 DEF TypeOK, Wait

LEMMA TypeLeave ==
  ASSUME TypeOK, NEW d \in Dispatch, LeaveSeat(d)
  PROVE  TypeOK'
  <1>1. CASE waiters = <<>>
    BY <1>1, TypeAwake DEF LeaveSeat, Ended, TypeOK
  <1>2. CASE waiters # <<>>
    <2>1. /\ waiters \in Seq(Dispatch) /\ waiters' = Tail(waiters)
          /\ pc' = [pc EXCEPT ![d] = "done", ![Head(waiters)] = "woken"]
          /\ pc[d] # "waiting"
      BY <1>2 DEF TypeOK, LeaveSeat
    <2>2. /\ Len(waiters) \in Nat \ {0}
          /\ DOMAIN waiters = 1 .. Len(waiters)
          /\ Head(waiters) = waiters[1]
          /\ waiters' \in Seq(Dispatch)
          /\ DOMAIN waiters' = 1 .. Len(waiters) - 1
          /\ \A i \in 1 .. Len(waiters) - 1 : waiters'[i] = waiters[i + 1]
      BY <1>2, <2>1, EmptySeq, LenProperties, HeadTailProperties
    <2>3. waiters[1] \in Waiting /\ d # waiters[1]
      BY <2>1, <2>2 DEF TypeOK, Waiting
    <2>4. Waiting' = Waiting \ {waiters[1]}
      BY <2>1, <2>2, <2>3 DEF TypeOK, Waiting
    <2>5. \A i, j \in DOMAIN waiters' : waiters'[i] = waiters'[j] => i = j
      <3> SUFFICES ASSUME NEW i \in 1 .. Len(waiters) - 1, NEW j \in 1 .. Len(waiters) - 1,
                          waiters[i + 1] = waiters[j + 1]
                   PROVE  i = j
        BY <2>2
      <3>1. i + 1 \in 1 .. Len(waiters) /\ j + 1 \in 1 .. Len(waiters)
        BY <2>2
      <3>2. i + 1 = j + 1
        BY <2>2, <3>1 DEF TypeOK
      <3> QED BY <3>2
    <2>6. {waiters'[i] : i \in DOMAIN waiters'} = Waiting \ {waiters[1]}
      <3>1. ASSUME NEW i \in DOMAIN waiters'
            PROVE  waiters'[i] \in Waiting \ {waiters[1]}
        <4>1. i + 1 \in 1 .. Len(waiters) /\ 1 \in 1 .. Len(waiters) /\ i + 1 # 1
          BY <2>2
        <4>2. waiters[i + 1] \in Waiting /\ waiters[i + 1] # waiters[1]
          BY <2>2, <4>1 DEF TypeOK
        <4> QED BY <2>2, <4>2
      <3>2. ASSUME NEW e \in Waiting \ {waiters[1]}
            PROVE  \E i \in DOMAIN waiters' : e = waiters'[i]
        <4>1. PICK k \in 1 .. Len(waiters) : e = waiters[k]
          BY <2>2 DEF TypeOK
        <4>2. k - 1 \in 1 .. Len(waiters) - 1
          BY <2>2, <4>1
        <4>3. waiters'[k - 1] = waiters[k]
          BY <2>2, <4>1, <4>2
        <4> QED BY <2>2, <4>1, <4>2, <4>3
      <3> QED BY <3>1, <3>2
    <2>7. on_the_device' \subseteq Job
      BY DEF TypeOK, LeaveSeat
    <2> QED BY <2>1, <2>2, <2>4, <2>5, <2>6, <2>7 DEF TypeOK, OnDevice, Ended
  <1> QED BY <1>1, <1>2

LEMMA TypeNext == TypeOK /\ [Next]_vars => TypeOK'
  <1> SUFFICES ASSUME TypeOK, [Next]_vars PROVE TypeOK'
    OBVIOUS
  <1>1. CASE UNCHANGED vars
    BY <1>1 DEF vars, TypeOK, Waiting
  <1>2. ASSUME NEW d \in Dispatch, Serve(d) PROVE TypeOK'
    <2>1. CASE admit(d)
      BY <2>1, TypeAwake DEF admit, TypeOK, Ended
    <2>2. CASE prepare(d)
      BY <2>2, TypeAwake DEF prepare, TypeOK, Ended
    <2>3. CASE Wait(d)
      BY <2>3, TypeWait
    <2>4. CASE RefuseSecond(d)
      BY <2>4, TypeAwake DEF RefuseSecond, AtTheDoor, TypeOK, Ended
    <2>5. CASE TakeSeat(d)
      <3>1. on_the_device' \subseteq Job
        BY <2>5, DispatchAssumption DEF TakeSeat, TypeOK
      <3> QED BY <2>5, <3>1, TypeAwake DEF TakeSeat, AtTheDoor, TypeOK, OnDevice
    <2>6. CASE EngineEnds(d)
      BY <2>6, TypeAwake DEF EngineEnds, TypeOK, OnDevice
    <2>7. CASE LeaveSeat(d)
      BY <2>7, TypeLeave
    <2> QED BY <1>2, <2>1, <2>2, <2>3, <2>4, <2>5, <2>6, <2>7 DEF Serve
  <1> QED BY <1>1, <1>2 DEF Next, AllEnded

\* Every variable keeps its type, and the queue holds each sleeping dispatch once.
THEOREM TypeCorrect == Spec => []TypeOK
  <1> QED BY TypeInit, TypeNext, PTL DEF Spec

(***************************************************************************)
(* Seats                                                                   *)
(***************************************************************************)

\* What seats have to do with engine calls, strong enough to be inductive: the
\* count of one is the count of the other, and within the limit.
SeatsCounted == /\ IsFiniteSet(on_the_device)
                /\ Cardinality(on_the_device) = Cardinality(Holders)
                /\ Cardinality(on_the_device) <= Limit

SeatInv == TypeOK /\ SeatsAreHeld /\ SeatsCounted

LEMMA DispatchesAreFinite ==
  ASSUME NEW S \in SUBSET Dispatch
  PROVE  IsFiniteSet(S) /\ Cardinality(S) \in Nat
  BY DispatchAssumption, FS_Subset, FS_CardinalityType

LEMMA SeatInit == Init => SeatInv
  <1> SUFFICES ASSUME Init PROVE SeatInv
    OBVIOUS
  <1>1. TypeOK
    BY TypeInit
  <1>2. on_the_device = {} /\ Holders = {}
    BY DEF Init, Holders, OnDevice
  <1> QED BY <1>1, <1>2, FS_EmptySet, LimitAssumption
       DEF SeatInv, SeatsAreHeld, SeatsCounted

\* A step that moves no engine call keeps the seats.
LEMMA SeatIdle ==
  ASSUME SeatInv, TypeOK', UNCHANGED on_the_device, Holders' = Holders
  PROVE  SeatInv'
  BY DEF SeatInv, SeatsAreHeld, SeatsCounted

LEMMA SeatTake ==
  ASSUME SeatInv, TypeOK', NEW d \in Dispatch, TakeSeat(d)
  PROVE  SeatInv'
  <1>1. /\ on_the_device' = on_the_device \cup {JobOf[d]}
        /\ JobOf[d] \notin on_the_device
        /\ ~ Cardinality(on_the_device) >= Limit
    BY DEF TakeSeat, full
  <1>2. Holders' = Holders \cup {d} /\ d \notin Holders
    BY DEF SeatInv, TypeOK, TakeSeat, AtTheDoor, Goto, Holders, OnDevice
  <1>3. SeatsAreHeld'
    BY <1>1, <1>2 DEF SeatInv, SeatsAreHeld
  <1>4. SeatsCounted'
    <2>1. /\ IsFiniteSet(on_the_device) /\ IsFiniteSet(Holders)
          /\ Cardinality(on_the_device) \in Nat
      BY DispatchesAreFinite, FS_CardinalityType DEF SeatInv, SeatsCounted, Holders
    <2>2. /\ IsFiniteSet(on_the_device')
          /\ Cardinality(on_the_device') = Cardinality(on_the_device) + 1
      BY <1>1, <2>1, FS_AddElement
    <2>3. Cardinality(Holders') = Cardinality(Holders) + 1
      BY <1>2, <2>1, FS_AddElement
    <2> QED BY <1>1, <2>1, <2>2, <2>3, LimitAssumption DEF SeatInv, SeatsCounted
  <1> QED BY <1>3, <1>4 DEF SeatInv

LEMMA SeatLeave ==
  ASSUME SeatInv, TypeOK', NEW d \in Dispatch, LeaveSeat(d)
  PROVE  SeatInv'
  <1>1. on_the_device' = on_the_device \ {JobOf[d]} /\ d \in Holders
    BY DEF LeaveSeat, Holders, OnDevice
  <1>2. Holders' = Holders \ {d}
    <2>1. CASE waiters = <<>>
      BY <2>1 DEF SeatInv, TypeOK, LeaveSeat, Goto, Holders, OnDevice
    <2>2. CASE waiters # <<>>
      <3>1. Head(waiters) \in Waiting
        <4>1. 1 \in DOMAIN waiters /\ Head(waiters) = waiters[1]
          BY <2>2, EmptySeq, LenProperties DEF SeatInv, TypeOK
        <4> QED BY <4>1 DEF SeatInv, TypeOK
      <3> QED BY <2>2, <3>1
           DEF SeatInv, TypeOK, LeaveSeat, Waiting, Holders, OnDevice
    <2> QED BY <2>1, <2>2
  <1>3. JobOf[d] \in on_the_device
    BY <1>1 DEF SeatInv, SeatsAreHeld
  <1>4. SeatsAreHeld'
    BY <1>1, <1>2 DEF SeatInv, SeatsAreHeld
  <1>5. SeatsCounted'
    <2>1. /\ IsFiniteSet(on_the_device) /\ IsFiniteSet(Holders)
          /\ Cardinality(on_the_device) \in Nat
      BY DispatchesAreFinite, FS_CardinalityType DEF SeatInv, SeatsCounted, Holders
    <2>2. /\ IsFiniteSet(on_the_device')
          /\ Cardinality(on_the_device') = Cardinality(on_the_device) - 1
      BY <1>1, <1>3, <2>1, FS_RemoveElement
    <2>3. Cardinality(Holders') = Cardinality(Holders) - 1
      BY <1>1, <1>2, <2>1, FS_RemoveElement
    <2> QED BY <2>1, <2>2, <2>3, LimitAssumption DEF SeatInv, SeatsCounted
  <1> QED BY <1>4, <1>5 DEF SeatInv

LEMMA SeatNext == SeatInv /\ [Next]_vars => SeatInv'
  <1> SUFFICES ASSUME SeatInv, [Next]_vars PROVE SeatInv'
    OBVIOUS
  <1>1. TypeOK'
    BY TypeNext DEF SeatInv
  <1>2. CASE UNCHANGED vars
    BY <1>1, <1>2, SeatIdle DEF vars, Holders
  <1>3. ASSUME NEW d \in Dispatch, Serve(d) PROVE SeatInv'
    <2>1. CASE \/ admit(d) \/ prepare(d) \/ Wait(d) \/ RefuseSecond(d) \/ EngineEnds(d)
      <3>1. Holders' = Holders /\ UNCHANGED on_the_device
        BY <2>1 DEF SeatInv, TypeOK, admit, prepare, Wait, RefuseSecond, EngineEnds,
                    AtTheDoor, Goto, Holders, OnDevice
      <3> QED BY <1>1, <3>1, SeatIdle
    <2>2. CASE TakeSeat(d)
      BY <1>1, <2>2, SeatTake
    <2>3. CASE LeaveSeat(d)
      BY <1>1, <2>3, SeatLeave
    <2> QED BY <1>3, <2>1, <2>2, <2>3 DEF Serve
  <1> QED BY <1>2, <1>3 DEF Next, AllEnded

\* No more engine calls run at once than the lane has seats (lane.py:4-12).
THEOREM LaneIsNeverOverOccupied == Spec => []NeverOverOccupied
  <1>1. SeatInv => NeverOverOccupied
    BY DEF SeatInv, SeatsCounted, NeverOverOccupied
  <1> QED BY <1>1, SeatInit, SeatNext, PTL DEF Spec

\* The seats taken are the jobs whose engine calls are running, each once
\* (lane.py:112-119, 222-225).
THEOREM SeatsAreAlwaysHeld == Spec => []SeatsAreHeld
  <1>1. SeatInv => SeatsAreHeld
    BY DEF SeatInv
  <1> QED BY <1>1, SeatInit, SeatNext, PTL DEF Spec

(***************************************************************************)
(* Waking: where the code strands nobody                                   *)
(***************************************************************************)

\* Every job is dispatched once.
OneDispatchPerJob ==
  \A d, e \in Dispatch : JobOf[d] = JobOf[e] => d = e

WakeInv == SeatInv /\ OneWakeUpPerRefusal

\* A lane of one seat, and one whose jobs are dispatched once, never refuses a
\* dispatch at its door: that refusal is the one way a wake-up is used up
\* without a seat being taken.
LEMMA NobodyIsRefusedAtTheDoor ==
  ASSUME Limit = 1 \/ OneDispatchPerJob, SeatInv, NEW d \in Dispatch
  PROVE  ~RefuseSecond(d)
  <1> SUFFICES ASSUME RefuseSecond(d) PROVE FALSE
    OBVIOUS
  <1>1. CASE Limit = 1
    <2>1. Cardinality(on_the_device) \in Nat /\ IsFiniteSet(on_the_device)
      BY FS_CardinalityType DEF SeatInv, SeatsCounted
    <2>2. Cardinality(on_the_device) = 0
      BY <1>1, <2>1 DEF RefuseSecond, full
    <2>3. on_the_device = {}
      BY <2>1, <2>2, FS_EmptySet
    <2> QED BY <2>3 DEF RefuseSecond
  <1>2. CASE OneDispatchPerJob
    <2>1. PICK e \in Holders : JobOf[d] = JobOf[e]
      BY DEF RefuseSecond, SeatInv, SeatsAreHeld
    <2>2. d \in Holders
      BY <1>2, <2>1 DEF OneDispatchPerJob, Holders
    <2> QED BY <2>2 DEF RefuseSecond, AtTheDoor, Holders, OnDevice
  <1> QED BY <1>1, <1>2

\* A step that puts nobody to sleep and takes neither a seat nor a wake-up away.
LEMMA WakeIdle ==
  ASSUME WakeInv, SeatInv', UNCHANGED <<on_the_device, Woken, RefusedTwice>>,
         Waiting' \subseteq Waiting
  PROVE  WakeInv'
  BY DEF WakeInv, OneWakeUpPerRefusal

LEMMA RefusalsAreCounted ==
  ASSUME SeatInv
  PROVE  /\ IsFiniteSet(Woken) /\ Cardinality(Woken) \in Nat
         /\ IsFiniteSet(RefusedTwice) /\ Cardinality(RefusedTwice) \in Nat
         /\ IsFiniteSet(on_the_device) /\ Cardinality(on_the_device) \in Nat
  <1>1. IsFiniteSet(Woken) /\ Cardinality(Woken) \in Nat
    BY DispatchesAreFinite DEF Woken
  <1>2. IsFiniteSet(RefusedTwice) /\ Cardinality(RefusedTwice) \in Nat
    BY DispatchesAreFinite DEF RefusedTwice
  <1>3. IsFiniteSet(on_the_device) /\ Cardinality(on_the_device) \in Nat
    BY FS_CardinalityType DEF SeatInv, SeatsCounted
  <1> QED BY <1>1, <1>2, <1>3

\* The refused dispatch stops being a woken one and is counted as refused.
LEMMA WakeRefuse ==
  ASSUME WakeInv, SeatInv', NEW d \in Dispatch, RefuseSecond(d)
  PROVE  WakeInv'
  <1> USE DEF WakeInv, SeatInv
  <1>1. /\ Waiting' = Waiting /\ UNCHANGED on_the_device
        /\ Woken' = Woken \ {d}
        /\ RefusedTwice' = RefusedTwice \cup {d} /\ d \notin RefusedTwice
    BY DEF TypeOK, RefuseSecond, AtTheDoor, Goto, Waiting, Woken, RefusedTwice
  <1>2. Cardinality(Woken') = IF d \in Woken THEN Cardinality(Woken) - 1
                                            ELSE Cardinality(Woken)
    BY <1>1, RefusalsAreCounted, FS_RemoveElement
  <1>3. Cardinality(RefusedTwice') = Cardinality(RefusedTwice) + 1
    BY <1>1, RefusalsAreCounted, FS_AddElement
  <1>4. OneWakeUpPerRefusal'
    BY <1>1, <1>2, <1>3, RefusalsAreCounted, LimitAssumption DEF OneWakeUpPerRefusal
  <1> QED BY <1>4

LEMMA WakeTake ==
  ASSUME WakeInv, SeatInv', NEW d \in Dispatch, TakeSeat(d)
  PROVE  WakeInv'
  <1> USE DEF WakeInv, SeatInv
  <1>1. Waiting' = Waiting /\ Woken' = Woken \ {d} /\ UNCHANGED RefusedTwice
    BY DEF TypeOK, TakeSeat, AtTheDoor, Goto, Waiting, Woken, RefusedTwice
  <1>2. /\ IsFiniteSet(Woken) /\ Cardinality(Woken) \in Nat
        /\ Cardinality(Woken') \in Nat
        /\ Cardinality(Woken') >= Cardinality(Woken) - 1
    <2>1. IsFiniteSet(Woken) /\ Cardinality(Woken) \in Nat
      BY DispatchesAreFinite DEF Woken
    <2>2. Cardinality(Woken') = IF d \in Woken THEN Cardinality(Woken) - 1
                                              ELSE Cardinality(Woken)
      BY <1>1, <2>1, FS_RemoveElement
    <2>3. IsFiniteSet(Woken') /\ Cardinality(Woken') \in Nat
      BY <1>1, <2>1, FS_RemoveElement, FS_CardinalityType
    <2> QED BY <2>1, <2>2, <2>3
  <1>3. /\ Cardinality(on_the_device) \in Nat
        /\ Cardinality(on_the_device') = Cardinality(on_the_device) + 1
    <2>1. IsFiniteSet(on_the_device) /\ Cardinality(on_the_device) \in Nat
      BY FS_CardinalityType DEF SeatsCounted
    <2> QED BY <2>1, FS_AddElement DEF TakeSeat
  <1>4. OneWakeUpPerRefusal'
    BY <1>1, <1>2, <1>3, RefusalsAreCounted, LimitAssumption DEF OneWakeUpPerRefusal
  <1> QED BY <1>4

LEMMA WakeLeave ==
  ASSUME WakeInv, SeatInv', NEW d \in Dispatch, LeaveSeat(d)
  PROVE  WakeInv'
  <1> USE DEF WakeInv, SeatInv
  <1>1. CASE waiters = <<>>
    <2>1. Waiting = {}
      BY <1>1 DEF TypeOK
    <2>2. Waiting' = {}
      BY <1>1, <2>1 DEF TypeOK, LeaveSeat, Goto, Waiting
    <2> QED BY <2>2 DEF OneWakeUpPerRefusal
  <1>2. CASE waiters # <<>>
    <2>1. Head(waiters) \in Waiting
      <3>1. 1 \in DOMAIN waiters /\ Head(waiters) = waiters[1]
        BY <1>2, EmptySeq, LenProperties DEF TypeOK
      <3> QED BY <3>1 DEF TypeOK
    <2>2. /\ Woken' = Woken \cup {Head(waiters)} /\ Head(waiters) \notin Woken
          /\ UNCHANGED RefusedTwice
      <3>1. /\ pc' = [pc EXCEPT ![d] = "done", ![Head(waiters)] = "woken"]
            /\ pc[d] \in {"returned", "raised"} /\ pc[Head(waiters)] = "waiting"
        BY <1>2, <2>1 DEF LeaveSeat, Waiting
      <3>2. Woken' = Woken \cup {Head(waiters)} /\ Head(waiters) \notin Woken
        BY <2>1, <3>1 DEF TypeOK, Waiting, Woken
      <3>3. UNCHANGED RefusedTwice
        BY <2>1, <3>1 DEF TypeOK, Waiting, RefusedTwice
      <3> QED BY <3>2, <3>3
    <2>3. /\ Cardinality(Woken) \in Nat
          /\ Cardinality(Woken') = Cardinality(Woken) + 1
      <3>1. IsFiniteSet(Woken) /\ Cardinality(Woken) \in Nat
        BY DispatchesAreFinite DEF Woken
      <3> QED BY <2>2, <3>1, FS_AddElement
    <2>4. /\ Cardinality(on_the_device) \in Nat
          /\ Cardinality(on_the_device') = Cardinality(on_the_device) - 1
      <3>1. IsFiniteSet(on_the_device) /\ Cardinality(on_the_device) \in Nat
        BY FS_CardinalityType DEF SeatsCounted
      <3>2. JobOf[d] \in on_the_device
        BY DEF SeatsAreHeld, LeaveSeat, Holders, OnDevice
      <3> QED BY <3>1, <3>2, FS_RemoveElement DEF LeaveSeat
    <2>5. Cardinality(on_the_device) + Cardinality(Woken) + Cardinality(RefusedTwice)
            >= Limit
      BY <2>1 DEF OneWakeUpPerRefusal
    <2>6. OneWakeUpPerRefusal'
      BY <2>2, <2>3, <2>4, <2>5, RefusalsAreCounted, LimitAssumption
         DEF OneWakeUpPerRefusal
    <2> QED BY <2>6
  <1> QED BY <1>1, <1>2

LEMMA WakeWait ==
  ASSUME WakeInv, SeatInv', NEW d \in Dispatch, Wait(d)
  PROVE  WakeInv'
  <1> USE DEF WakeInv, SeatInv
  <1>1. Cardinality(on_the_device) >= Limit /\ UNCHANGED on_the_device
    BY DEF Wait, full
  <1>2. Cardinality(on_the_device) \in Nat
    BY FS_CardinalityType DEF SeatsCounted
  <1>3. Cardinality(Woken') \in Nat /\ Cardinality(RefusedTwice') \in Nat
    BY DispatchesAreFinite DEF Woken, RefusedTwice
  <1> QED BY <1>1, <1>2, <1>3, LimitAssumption DEF OneWakeUpPerRefusal

LEMMA WakeInit == Init => WakeInv
  <1> SUFFICES ASSUME Init PROVE WakeInv
    OBVIOUS
  <1>1. Waiting = {}
    BY DEF Init, Waiting
  <1> QED BY <1>1, SeatInit DEF WakeInv, OneWakeUpPerRefusal

\* The steps of serve that do not touch who is at the door of the lane.
LEMMA AwayFromTheDoor ==
  ASSUME SeatInv, NEW d \in Dispatch, admit(d) \/ prepare(d) \/ EngineEnds(d)
  PROVE  Waiting' = Waiting /\ UNCHANGED <<on_the_device, Woken, RefusedTwice>>
  BY DEF SeatInv, TypeOK, admit, prepare, EngineEnds, Goto, Waiting, Woken, RefusedTwice

LEMMA WakeNext == WakeInv /\ [Next]_vars => WakeInv'
  <1> SUFFICES ASSUME WakeInv, [Next]_vars PROVE WakeInv'
    OBVIOUS
  <1>1. SeatInv'
    BY SeatNext DEF WakeInv
  <1>2. CASE UNCHANGED vars
    BY <1>1, <1>2, WakeIdle DEF vars, Waiting, Woken, RefusedTwice
  <1>3. ASSUME NEW d \in Dispatch, Serve(d) PROVE WakeInv'
    <2>1. CASE admit(d) \/ prepare(d) \/ EngineEnds(d)
      BY <1>1, <2>1, AwayFromTheDoor, WakeIdle DEF WakeInv
    <2>2. CASE Wait(d)
      BY <1>1, <2>2, WakeWait
    <2>3. CASE RefuseSecond(d)
      BY <1>1, <2>3, WakeRefuse
    <2>4. CASE TakeSeat(d)
      BY <1>1, <2>4, WakeTake
    <2>5. CASE LeaveSeat(d)
      BY <1>1, <2>5, WakeLeave
    <2> QED BY <1>3, <2>1, <2>2, <2>3, <2>4, <2>5 DEF Serve
  <1> QED BY <1>2, <1>3 DEF Next, AllEnded

\* While a dispatch sleeps, the seats taken, the wake-ups under way and the second
\* dispatches refused so far make up the lane's seats (lane.py:217-232).
THEOREM SleepersAreAccountedFor == Spec => []OneWakeUpPerRefusal
  <1>1. WakeInv => OneWakeUpPerRefusal
    BY DEF WakeInv
  <1> QED BY <1>1, WakeInit, WakeNext, PTL DEF Spec

\* A lane of one seat, and any lane whose jobs are dispatched once, leaves no
\* dispatch asleep beside a free seat (lane.py:219-220).
THEOREM NobodyIsStranded ==
  ASSUME Limit = 1 \/ OneDispatchPerJob
  PROVE  Spec => []NoStrandedWaiter
  <1> DEFINE Inv == WakeInv /\ RefusedTwice = {}
  <1>1. Init => Inv
    BY WakeInit DEF Init, RefusedTwice
  <1>2. Inv /\ [Next]_vars => Inv'
    <2> SUFFICES ASSUME Inv, [Next]_vars PROVE RefusedTwice' = {}
      BY WakeNext
    <2> USE DEF WakeInv, SeatInv
    <2>1. CASE UNCHANGED vars
      BY <2>1 DEF vars, RefusedTwice
    <2>2. ASSUME NEW d \in Dispatch, Serve(d) PROVE RefusedTwice' = {}
      <3>1. CASE admit(d) \/ prepare(d) \/ EngineEnds(d)
        BY <3>1, AwayFromTheDoor
      <3>2. CASE Wait(d) \/ TakeSeat(d) \/ LeaveSeat(d)
        BY <3>2 DEF TypeOK, Wait, TakeSeat, LeaveSeat, Goto, RefusedTwice
      <3>3. CASE RefuseSecond(d)
        BY <3>3, NobodyIsRefusedAtTheDoor
      <3> QED BY <2>2, <3>1, <3>2, <3>3 DEF Serve
    <2> QED BY <2>1, <2>2 DEF Next, AllEnded
  <1>3. Inv => NoStrandedWaiter
    <2> SUFFICES ASSUME Inv PROVE NoStrandedWaiter
      OBVIOUS
    <2>1. Cardinality(RefusedTwice) = 0
      BY FS_EmptySet
    <2> QED BY <2>1, RefusalsAreCounted DEF WakeInv, OneWakeUpPerRefusal, NoStrandedWaiter
  <1> QED BY <1>1, <1>2, <1>3, PTL DEF Spec
=============================================================================
