-------------------------- MODULE EngineRunProofs --------------------------
(***************************************************************************)
(* Proofs about the fake engine, for any number of runs, any scripts and   *)
(* any requests, and that it implements the contract of an engine.         *)
(***************************************************************************)
EXTENDS EngineRun, TLAPS

InLoop == {"unasked", "called", "holding", "checking", "working"}

\* The loop's own variables: at a place before a step's end the steps before it are
\* the completed ones, and whoever has left the loop has left it with a reason.
LoopInv ==
  \A r \in Run :
    /\ pc[r] \in InLoop => completed[r] = step[r] - 1
    /\ pc[r] = "finishing" \/ outcome[r] = "image" => completed[r] = script.steps
    /\ pc[r] = "finishing" => step[r] = script.steps
    /\ pc[r] = "ended" <=> outcome[r] # "none"

\* No step before the one in hand was the one to fail, and memory runs out there only
\* where the script says so.
FailInv ==
  \A r \in Run :
    /\ script.fail_at_step \notin 1 .. completed[r]
    /\ outcome[r] = "OutOfDeviceMemory" => completed[r] + 1 = script.fail_at_step

\* A token that is heeded: the first step it came in time for is not begun, and of
\* the steps after it was set only the one under way is completed.
Heeded(r) ==
  /\ pc[r] # "unasked"
  /\ completed[r] < first_lost[r]
  /\ pc[r] \in {"called", "holding", "checking"} => first_lost[r] <= step[r]
  /\ pc[r] = "finishing" \/ outcome[r] = "image" => first_lost[r] > script.steps
  /\ pc[r] = "working" => first_lost[r] = step[r] + 1 /\ done_then[r] = completed[r]
  /\ completed[r] \in {done_then[r], done_then[r] + 1}

TokenInv == script.honours_cancellation => \A r \in Run : cancelled[r] => Heeded(r)

\* A refusal for what the description of the job says was foretold.
RefusalInv ==
  \A r \in Run :
    /\ pc[r] # "unasked" => answer[r] = estimate_device_memory(request[r])
    /\ outcome[r] = "UnsupportedRequest" =>
         \/ undeclared(request[r]) \/ incoherent(request[r]) \/ other_step_count(request[r])
         \/ script.failure = "UnsupportedRequest"

ImageInv ==
  /\ result \in [Run -> {NoResult} \cup {synthesise(edit) : edit \in Requests}]
  /\ \A r \in Run : outcome[r] = "image" => result[r] = synthesise(request[r])

ScriptInv == script \in Scripts /\ accepts(script)

HistoryOK == first_lost \in [Run -> Nat] /\ done_then \in [Run -> Nat]

IInv == ScriptInv /\ TypeOK /\ HistoryOK /\ LoopInv /\ FailInv /\ TokenInv

-----------------------------------------------------------------------------
(* The inductive invariant                                                 *)

LEMMA InitIInv == Init => IInv
  <1> SUFFICES ASSUME Init PROVE IInv
    OBVIOUS
  <1>1. ScriptInv /\ script.steps \in Nat /\ script.steps >= 1
    BY ScriptsAssumption DEF Init, ScriptInv, accepts
  <1>2. TypeOK
    <2>1. released \in BOOLEAN /\ cancelled \in [Run -> BOOLEAN]
      BY Zenon DEF Init
    <2>2. /\ step \in [Run -> 1 .. script.steps]
          /\ completed \in [Run -> 0 .. script.steps]
      BY <1>1 DEF Init
    <2> QED BY <2>1, <2>2 DEF Init, TypeOK
  <1>3. 1 .. 0 = {}
    OBVIOUS
  <1> QED BY <1>1, <1>2, <1>3
             DEF Init, IInv, HistoryOK, LoopInv, FailInv, TokenInv, Heeded, InLoop

\* A step of one run that leaves its loop variables and its token alone.
LEMMA StepOfOne ==
  ASSUME IInv, NEW r \in Run, Advance(r)
  PROVE  IInv'
  <1> USE DEF Failures
  <1>1. /\ script.steps \in Nat /\ script.failure \in Failures /\ script' = script
        /\ script.steps >= 1 /\ ScriptInv'
    BY ScriptsAssumption
       DEF IInv, ScriptInv, accepts, Advance, Ask, run, Hold, TimeOut, Check, Work,
           ProgressRaises, Return, vars
  <1>2. TypeOK'
    <2>1. CASE Ask(r)
      BY <1>1, <2>1 DEF IInv, TypeOK, HistoryOK, Ask, Goto, estimate_device_memory
    <2>2. CASE run(r) \/ TimeOut(r) \/ Check(r) \/ Hold(r) \/ Return(r)
      BY <1>1, <2>2
         DEF IInv, TypeOK, HistoryOK, run, TimeOut, Check, Hold, Return, Goto, Raise
    <2>3. CASE Work(r)
      <3>1. step[r] \in 1 .. script.steps
        BY DEF IInv, TypeOK, HistoryOK
      <3> QED BY <1>1, <2>3, <3>1 DEF IInv, TypeOK, HistoryOK, Work, Goto, Raise
    <2>4. CASE ProgressRaises(r)
      <3>1. step[r] \in 1 .. script.steps
        BY DEF IInv, TypeOK, HistoryOK
      <3> QED BY <1>1, <2>4, <3>1 DEF IInv, TypeOK, HistoryOK, ProgressRaises, Goto, Raise
    <2> QED BY <2>1, <2>2, <2>3, <2>4 DEF Advance
  <1>3. LoopInv'
    BY <1>1, <1>2
       DEF IInv, TypeOK, HistoryOK, LoopInv, InLoop, Advance, Ask, run, Hold, TimeOut, Check,
                      Work, ProgressRaises, Return, Goto, Raise
  <1>4. FailInv'
    BY <1>1, <1>2
       DEF IInv, TypeOK, HistoryOK, LoopInv, InLoop, FailInv, Advance, Ask, run, Hold, TimeOut,
                      Check, Work, ProgressRaises, Return, Goto, Raise
  <1>5. TokenInv'
    <2>1. ASSUME script.honours_cancellation
          PROVE  Work(r) \/ ProgressRaises(r) => TokenInv'
      BY <1>1, <2>1
         DEF IInv, TypeOK, HistoryOK, LoopInv, InLoop, TokenInv, Heeded, Work,
             ProgressRaises, Goto, Raise
    <2>2. Ask(r) \/ run(r) \/ Hold(r) \/ TimeOut(r) => TokenInv'
      BY <1>1
         DEF IInv, TypeOK, HistoryOK, LoopInv, InLoop, TokenInv, Heeded, Ask, run, Hold,
             TimeOut, Goto, Raise
    <2>3. Check(r) \/ Return(r) => TokenInv'
      BY <1>1
         DEF IInv, TypeOK, HistoryOK, LoopInv, InLoop, TokenInv, Heeded, Check, Return,
             Goto, Raise
    <2> QED BY <1>1, <2>1, <2>2, <2>3 DEF Advance, TokenInv
  <1>6. HistoryOK'
    BY DEF IInv, HistoryOK, Advance, Ask, run, Hold, TimeOut, Check, Work, ProgressRaises,
           Return
  <1> QED BY <1>1, <1>2, <1>3, <1>4, <1>5, <1>6 DEF IInv

LEMMA StepOfOthers ==
  ASSUME IInv, Release \/ AllEnded \/ (\E r \in Run : Cancel(r)) \/ UNCHANGED vars
  PROVE  IInv'
  <1>1. CASE UNCHANGED vars \/ AllEnded
    BY <1>1
       DEF vars, AllEnded, IInv, ScriptInv, TypeOK, HistoryOK, LoopInv, FailInv, TokenInv,
                   Heeded
  <1>2. CASE Release
    BY <1>2
       DEF Release, IInv, ScriptInv, TypeOK, HistoryOK, LoopInv, FailInv, TokenInv, Heeded
  <1>3. ASSUME NEW r \in Run, Cancel(r) PROVE IInv'
    <2>1. /\ script.steps \in Nat /\ script' = script
          /\ cancelled' = [cancelled EXCEPT ![r] = TRUE]
          /\ UNCHANGED <<script, released, request, answer, pc, step, completed, outcome>>
      BY <1>3, ScriptsAssumption DEF IInv, ScriptInv, Cancel
    <2>2. TypeOK' /\ HistoryOK'
      BY <1>3, <2>1 DEF IInv, TypeOK, HistoryOK, Cancel
    <2>3. ScriptInv' /\ LoopInv' /\ FailInv'
      BY <2>1 DEF IInv, ScriptInv, LoopInv, FailInv
    <2>4. TokenInv'
      <3> SUFFICES ASSUME script.honours_cancellation, NEW s \in Run, cancelled'[s]
                   PROVE  Heeded(s)'
        BY <2>1 DEF TokenInv
      <3>1. CASE s # r
        BY <1>3, <2>1, <3>1 DEF IInv, TypeOK, HistoryOK, TokenInv, Heeded, Cancel
      <3>2. CASE s = r
        <4>1. /\ step[r] \in Nat /\ completed[r] \in Nat
              /\ completed[r] = step[r] - 1 \/ pc[r] = "finishing"
              /\ first_lost'[r] = IF pc[r] \in {"working", "finishing"} THEN step[r] + 1 ELSE step[r]
              /\ done_then'[r] = completed[r]
          BY <1>3 DEF IInv, TypeOK, HistoryOK, LoopInv, InLoop, Cancel
        <4> QED BY <1>3, <2>1, <3>2, <4>1
                   DEF IInv, TypeOK, HistoryOK, LoopInv, InLoop, Heeded, Cancel
      <3> QED BY <3>1, <3>2
    <2> QED BY <2>2, <2>3, <2>4 DEF IInv
  <1> QED BY <1>1, <1>2, <1>3

LEMMA NextIInv == IInv /\ [Next]_vars => IInv'
  BY StepOfOne, StepOfOthers DEF Next

LEMMA AlwaysIInv == Spec => []IInv
  BY InitIInv, NextIInv, PTL DEF Spec

\* Every variable of the runs keeps its type: no step beyond the count the engine
\* declares is begun or completed (fake_engine.py:235).
THEOREM TypeCorrect == Spec => []TypeOK
  BY AlwaysIInv, PTL DEF IInv

\* A step whose boundary comes after the token was set is never completed, and only a
\* token set behind the last boundary leaves the run its image (fake_engine.py:237-246).
THEOREM TokensAreHeeded == Spec => []CancelledInTime
  <1>1. IInv => CancelledInTime
    BY DEF IInv, TokenInv, Heeded, CancelledInTime
  <1> QED BY <1>1, AlwaysIInv, PTL

\* Progress for a step means it did not fail, and memory runs out at the scripted step
\* only (fake_engine.py:247-253).
THEOREM FailuresAreScripted == Spec => []FailsWhereScripted
  <1>1. IInv => FailsWhereScripted
    <2> SUFFICES ASSUME IInv, NEW r \in Run PROVE FailsWhereScripted!(r)
      BY DEF FailsWhereScripted
    <2>1. /\ script.steps \in Nat /\ completed[r] \in Nat
          /\ script.fail_at_step \notin 1 .. completed[r]
          /\ outcome[r] = "image" => completed[r] = script.steps
          /\ outcome[r] = "OutOfDeviceMemory" => completed[r] + 1 = script.fail_at_step
      BY ScriptsAssumption DEF IInv, ScriptInv, TypeOK, LoopInv, FailInv
    <2> QED BY <2>1
  <1> QED BY <1>1, AlwaysIInv, PTL

-----------------------------------------------------------------------------
(* What is refused, and what is returned                                   *)

LEMMA AlwaysRefusalInv == Spec => []RefusalInv
  <1>1. Init => RefusalInv
    BY DEF Init, RefusalInv
  <1>2. IInv /\ RefusalInv /\ [Next]_vars => RefusalInv'
    <2> SUFFICES ASSUME IInv, RefusalInv, [Next]_vars, NEW s \in Run
                 PROVE  RefusalInv!(s)'
      BY DEF RefusalInv
    <2> USE DEF estimate_device_memory, undeclared, incoherent, other_step_count
    <2>1. ASSUME NEW r \in Run, Advance(r) PROVE RefusalInv!(s)'
      BY <2>1 DEF IInv, TypeOK, RefusalInv, Advance, Ask, run, Hold, TimeOut, Check, Work,
                  ProgressRaises, Return, Goto, Raise
    <2>2. CASE Release \/ AllEnded \/ (\E r \in Run : Cancel(r)) \/ UNCHANGED vars
      BY <2>2 DEF RefusalInv, Release, AllEnded, Cancel, vars
    <2> QED BY <2>1, <2>2 DEF Next
  <1> QED BY <1>1, <1>2, AlwaysIInv, PTL DEF Spec

\* Unless the script itself fails a step with UnsupportedRequest, what a run refuses
\* over anything the job's description says but the step count, the estimate has refused
\* before (fake_engine.py:205, engine.py:296-297).
THEOREM RefusalsAreForetold ==
  ASSUME \A s \in Scripts : s.failure # "UnsupportedRequest"
  PROVE  Spec => []EstimateForetells
  <1>1. IInv /\ RefusalInv => EstimateForetells
    BY DEF IInv, ScriptInv, LoopInv, RefusalInv, EstimateForetells, estimate_device_memory
  <1> QED BY <1>1, AlwaysIInv, AlwaysRefusalInv, PTL

LEMMA AlwaysImageInv == Spec => []ImageInv
  <1>1. Init => ImageInv
    BY DEF Init, ImageInv
  <1>2. IInv /\ ImageInv /\ [Next]_vars => ImageInv'
    <2> SUFFICES ASSUME IInv, ImageInv, [Next]_vars
                 PROVE  ImageInv'
      OBVIOUS
    <2>1. ASSUME NEW r \in Run, Advance(r) PROVE ImageInv'
      <3>1. CASE Return(r)
        BY <3>1 DEF IInv, TypeOK, ImageInv, Return, Raise
      <3>2. script.failure # "image"
        BY ScriptsAssumption DEF IInv, ScriptInv, Failures
      <3>3. CASE ~Return(r)
        BY <2>1, <3>2, <3>3
           DEF IInv, TypeOK, ImageInv, Advance, Ask, run, Hold, TimeOut, Check,
                                Work, ProgressRaises, Goto, Raise
      <3> QED BY <3>1, <3>3
    <2>2. CASE Release \/ AllEnded \/ (\E r \in Run : Cancel(r)) \/ UNCHANGED vars
      BY <2>2 DEF ImageInv, Release, AllEnded, Cancel, vars
    <2> QED BY <2>1, <2>2 DEF Next
  <1> QED BY <1>1, <1>2, AlwaysIInv, PTL DEF Spec

-----------------------------------------------------------------------------
(* Rows and columns                                                        *)

LEMMA RowsDoNotOverlap ==
  ASSUME NEW width \in Nat, NEW a \in Nat, NEW b \in Nat, NEW c \in Nat, NEW d \in Nat,
         c < width, a < b
  PROVE  a * width + c < b * width + d
  <1>1. PICK k \in Nat : b = a + 1 + k
    <2>1. b - a - 1 \in Nat /\ b = a + 1 + (b - a - 1)
      OBVIOUS
    <2> QED BY <2>1
  <1>2. b * width = a * width + width + k * width
    BY <1>1
  <1>3. k * width \in Nat /\ a * width \in Nat
    OBVIOUS
  <1> QED BY <1>2, <1>3

\* An index names one row and one column.
LEMMA IndexIsUnique ==
  ASSUME NEW width \in Nat, NEW a \in Nat, NEW b \in Nat, NEW c \in Nat, NEW d \in Nat,
         c < width, d < width, a * width + c = b * width + d
  PROVE  a = b /\ c = d
  <1>1. ~(a < b)
    <2> SUFFICES ASSUME a < b PROVE FALSE
      OBVIOUS
    <2>1. a * width + c < b * width + d
      BY RowsDoNotOverlap
    <2>2. a * width + c \in Nat
      OBVIOUS
    <2> QED BY <2>1, <2>2
  <1>2. ~(b < a)
    <2> SUFFICES ASSUME b < a PROVE FALSE
      OBVIOUS
    <2>1. b * width + d < a * width + c
      BY RowsDoNotOverlap
    <2>2. a * width + c \in Nat
      OBVIOUS
    <2> QED BY <2>1, <2>2
  <1>3. a = b
    BY <1>1, <1>2
  <1>4. a * width \in Nat
    OBVIOUS
  <1> QED BY <1>3, <1>4

LEMMA IndexIsInside ==
  ASSUME NEW width \in Nat, NEW height \in Nat,
         NEW row \in 0 .. height - 1, NEW column \in 0 .. width - 1
  PROVE  row * width + column \in 0 .. width * height - 1
  <1>1. row \in Nat /\ column \in Nat /\ column < width /\ row < height
    OBVIOUS
  <1>2. row * width + column < height * width + 0
    BY <1>1, RowsDoNotOverlap
  <1>3. row * width \in Nat /\ height * width = width * height /\ height * width \in Nat
    BY <1>1
  <1> QED BY <1>1, <1>2, <1>3

\* What synthesise lays out: the frame in the middle of the canvas, where the mask is
\* zero, and nothing else.
LEMMA SynthesiseLaysOut ==
  ASSUME NEW edit \in Requests, NEW border \in Nat, NEW column \in Nat, NEW row \in Nat,
         border = IF edit.operation = "extend" THEN Border ELSE 0,
         row < edit.height + 2 * border, column < edit.width + 2 * border
  PROVE  LET image == synthesise(edit)
             at == (row - border) * edit.width + (column - border)
             inside == /\ row - border \in 0 .. edit.height - 1
                       /\ column - border \in 0 .. edit.width - 1
         IN  /\ image.width = edit.width + 2 * border
             /\ image.height = edit.height + 2 * border
             /\ image.data[row * image.width + column] =
                  IF inside /\ at \notin edit.mask THEN Pixel(at) ELSE Derived
  <1> DEFINE width  == edit.width + 2 * border
             height == edit.height + 2 * border
             kept   == {p \in (0 .. edit.height - 1) \X (0 .. edit.width - 1) :
                          p[1] * edit.width + p[2] \notin edit.mask}
             target(p) == (p[1] + border) * width + border + p[2]
             i == row * width + column
             at == (row - border) * edit.width + (column - border)
             inside == /\ row - border \in 0 .. edit.height - 1
                       /\ column - border \in 0 .. edit.width - 1
  <1>1. edit.width \in Nat /\ edit.height \in Nat /\ width \in Nat /\ height \in Nat
    BY SizesAssumption
  <1>2. i \in 0 .. width * height - 1
    <2>1. row \in 0 .. height - 1 /\ column \in 0 .. width - 1
      BY <1>1
    <2> HIDE DEF width, height
    <2> QED BY <1>1, <2>1, IndexIsInside
  <1>3. ASSUME NEW p \in kept, target(p) = i
        PROVE  p = <<row - border, column - border>>
    <2>1. /\ p = <<p[1], p[2]>> /\ p[1] \in 0 .. edit.height - 1 /\ p[2] \in 0 .. edit.width - 1
      BY <1>3
    <2>2. /\ p[1] + border \in Nat /\ border + p[2] \in Nat /\ border + p[2] < width
      BY <1>1, <2>1
    <2>3. (p[1] + border) * width + (border + p[2]) = row * width + column
      <3>1. (p[1] + border) * width \in Nat
        BY <1>1, <2>2
      <3> QED BY <1>3, <2>1, <3>1
    <2>4. p[1] + border = row /\ border + p[2] = column
      <3>1. column < width
        OBVIOUS
      <3> DEFINE a == p[1] + border
                 c == border + p[2]
      <3>2. a \in Nat /\ c \in Nat /\ c < width /\ a * width + c = row * width + column
        BY <2>2, <2>3
      <3> HIDE DEF width, a, c
      <3>3. a = row /\ c = column
        BY <1>1, <3>1, <3>2, IndexIsUnique
      <3> QED BY <3>3 DEF a, c
    <2>5. p[1] = row - border /\ p[2] = column - border
      BY <2>1, <2>4
    <2> QED BY <2>1, <2>5
  <1>4. ASSUME inside, at \notin edit.mask
        PROVE  /\ <<row - border, column - border>> \in kept
               /\ target(<<row - border, column - border>>) = i
    <2>1. <<row - border, column - border>> \in kept
      BY <1>4
    <2>2. row - border + border = row /\ border + (column - border) = column
      OBVIOUS
    <2>3. row * width \in Nat
      BY <1>1
    <2>4. (row - border + border) * width + border + (column - border) = row * width + column
      BY <2>2, <2>3
    <2> QED BY <2>1, <2>4
  <1>5. synthesise(edit).data[i] =
          IF \E p \in kept : target(p) = i
            THEN LET p == CHOOSE p \in kept : target(p) = i
                 IN  Pixel(p[1] * edit.width + p[2])
            ELSE Derived
    BY <1>2 DEF synthesise
  <1>6. synthesise(edit).width = width /\ synthesise(edit).height = height
    BY DEF synthesise
  <1>7. CASE inside /\ at \notin edit.mask
    <2> DEFINE chosen == CHOOSE p \in kept : target(p) = i
    <2>1. chosen \in kept /\ target(chosen) = i
      BY <1>4, <1>7
    <2>2. chosen = <<row - border, column - border>>
      <3> HIDE DEF chosen
      <3> QED BY <1>3, <2>1
    <2>3. chosen[1] * edit.width + chosen[2] = at
      <3> HIDE DEF chosen
      <3>1. chosen[1] = row - border /\ chosen[2] = column - border
        BY <2>2
      <3> QED BY <3>1
    <2>4. synthesise(edit).data[i] = Pixel(at)
      BY <1>4, <1>5, <1>7, <2>3
    <2> QED BY <1>6, <1>7, <2>4
  <1>8. CASE ~(inside /\ at \notin edit.mask)
    <2>1. ~ \E p \in kept : target(p) = i
      <3> SUFFICES ASSUME NEW p \in kept, target(p) = i PROVE FALSE
        OBVIOUS
      <3>1. p = <<row - border, column - border>>
        BY <1>3
      <3> QED BY <1>8, <3>1
    <2>2. synthesise(edit).data[i] = Derived
      BY <1>5, <2>1
    <2> QED BY <1>6, <1>8, <2>2
  <1> QED BY <1>7, <1>8

LEMMA MarginIsBorder ==
  ASSUME NEW width \in Nat, NEW border \in Nat
  PROVE  ((width + 2 * border) - width) \div 2 = border
  <1>1. (width + 2 * border) - width = 2 * border
    OBVIOUS
  <1>2. (2 * border) \div 2 = border
    OBVIOUS
  <1> QED BY <1>1, <1>2

\* Where the mask is zero the result of every run holds the pixel of the request at the
\* same place of the frame, and nowhere else does it hold one, for canvases of any size
\* (fake_engine.py:371-376).
THEOREM UnmaskedPixelsArePreserved == Spec => []UnmaskedPixelsStay
  <1>1. IInv /\ ImageInv => UnmaskedPixelsStay
    <2> SUFFICES ASSUME IInv, ImageInv, NEW r \in Run, outcome[r] = "image"
                 PROVE  UnmaskedPixelsStay!(r)
      BY DEF UnmaskedPixelsStay
    <2> DEFINE edit   == request[r]
               before == [p \in (0 .. edit.width - 1) \X (0 .. edit.height - 1) |->
                            p[2] * edit.width + p[1]]
               margin == (result[r].width - edit.width) \div 2
               Inside(p) == <<p[1] - margin, p[2] - margin>> \in DOMAIN before
               border == IF edit.operation = "extend" THEN Border ELSE 0
    <2>1. /\ edit \in Requests /\ edit.width \in Nat /\ edit.height \in Nat /\ border \in Nat
          /\ result[r] = synthesise(edit)
      BY SizesAssumption DEF IInv, TypeOK, ImageInv
    <2>2. /\ result[r].width = edit.width + 2 * border
          /\ result[r].height = edit.height + 2 * border
      BY <2>1 DEF synthesise
    <2>3. margin = border
      <3> HIDE DEF border, edit
      <3> QED BY <2>1, <2>2, MarginIsBorder
    <2> SUFFICES
          ASSUME NEW p \in (0 .. result[r].width - 1) \X (0 .. result[r].height - 1)
          PROVE  result[r].data[p[2] * result[r].width + p[1]] =
                   IF Inside(p) /\ before[<<p[1] - margin, p[2] - margin>>] \notin edit.mask
                     THEN Pixel(before[<<p[1] - margin, p[2] - margin>>])
                     ELSE Derived
      OBVIOUS
    <2>4. /\ p[1] \in Nat /\ p[1] < edit.width + 2 * border
          /\ p[2] \in Nat /\ p[2] < edit.height + 2 * border
      <3> HIDE DEF border, edit
      <3> QED BY <2>1, <2>2
    <2> DEFINE column == p[1]
               row    == p[2]
               at     == (row - border) * edit.width + (column - border)
               inside == /\ row - border \in 0 .. edit.height - 1
                         /\ column - border \in 0 .. edit.width - 1
    <2>5. result[r].data[row * result[r].width + column] =
            IF inside /\ at \notin edit.mask THEN Pixel(at) ELSE Derived
      BY <2>1, <2>4, SynthesiseLaysOut
    <2>6. Inside(p) <=> inside
      <3> HIDE DEF margin, border, edit
      <3> QED BY <2>3
    <2>7. inside => before[<<p[1] - margin, p[2] - margin>>] = at
      <3> SUFFICES ASSUME inside PROVE before[<<column - border, row - border>>] = at
        BY <2>3
      <3> DEFINE q == <<column - border, row - border>>
      <3>1. q \in (0 .. edit.width - 1) \X (0 .. edit.height - 1)
        OBVIOUS
      <3>2. before[q] = q[2] * edit.width + q[1]
        BY <3>1
      <3> QED BY <3>2
    <2> HIDE DEF margin, border, edit, at, inside, before
    <2> QED BY <2>5, <2>6, <2>7
  <1> QED BY <1>1, AlwaysIInv, AlwaysImageInv, PTL

-----------------------------------------------------------------------------
(* The contract                                                            *)

LEMMA InitImplements == Init => Contract!Init
  <1> SUFFICES ASSUME Init PROVE Contract!Init
    OBVIOUS
  <1>1. script.steps \in Nat \ {0}
    BY ScriptsAssumption DEF Init, accepts
  <1>2. [r \in Run |-> cancelled[r] /\ script.honours_cancellation] = [r \in Run |-> FALSE]
    BY Zenon DEF Init
  <1>3. [r \in Run |-> IF cancelled[r] /\ script.honours_cancellation
                        THEN completed[r] - done_then[r] ELSE 0] = [r \in Run |-> 0]
    BY DEF Init
  <1> QED BY <1>1, <1>2, <1>3 DEF Init, Contract!Init

\* What a step of one run is to the contract: progress, an end, or nothing.
LEMMA AdvanceImplements ==
  ASSUME \A s \in Scripts : s.failure # "Cancelled",
         IInv, NEW r \in Run, Advance(r)
  PROVE  Contract!Next \/ UNCHANGED Contract!vars
  <1> DEFINE seen == [s \in Run |-> cancelled[s] /\ script.honours_cancellation]
             over == [s \in Run |-> IF cancelled[s] /\ script.honours_cancellation
                                      THEN completed[s] - done_then[s] ELSE 0]
  <1>1. /\ script.steps \in Nat /\ script' = script
        /\ script.failure \in Contract!EngineError \ {"Cancelled"}
        /\ UNCHANGED <<cancelled, done_then>>
    BY ScriptsAssumption
       DEF IInv, ScriptInv, Failures, Contract!EngineError, Advance, Ask, run, Hold, TimeOut,
           Check, Work, ProgressRaises, Return, vars
  <1>2. seen' = seen
    BY <1>1
  <1>3. CASE Ask(r) \/ Hold(r)
    <2>1. UNCHANGED <<completed, outcome>>
      BY <1>3 DEF Ask, Hold
    <2>2. over' = over
      BY <1>1, <2>1
    <2> QED BY <1>1, <1>2, <2>1, <2>2 DEF Contract!vars
  <1>4. CASE run(r) \/ TimeOut(r) \/ Check(r) \/ (Work(r) /\ completed' = completed)
    <2>1. completed' = completed /\ over' = over
      BY <1>1, <1>4 DEF run, TimeOut, Check
    <2>2. CASE outcome' = outcome
      BY <1>1, <1>2, <2>1, <2>2 DEF Contract!vars
    <2>3. CASE outcome' # outcome
      <3>1. outcome[r] = "none"
        BY <1>4 DEF IInv, TypeOK, LoopInv, run, TimeOut, Check, Work
      <3>2. \E error \in Contract!EngineError :
               /\ error = "Cancelled" => seen[r]
               /\ outcome' = [outcome EXCEPT ![r] = error]
        BY <1>1, <1>4, <2>3 DEF run, TimeOut, Check, Work, Raise, Contract!EngineError
      <3> QED BY <1>1, <1>2, <2>1, <3>1, <3>2 DEF Contract!Next, Contract!Raise
    <2> QED BY <2>2, <2>3
  <1>5. CASE (Work(r) /\ completed' # completed) \/ ProgressRaises(r)
    <2>1. /\ pc[r] = "working" /\ outcome[r] = "none"
          /\ step[r] \in 1 .. script.steps /\ completed[r] = step[r] - 1
          /\ completed' = [completed EXCEPT ![r] = completed[r] + 1]
          /\ completed \in [Run -> Nat]
      BY <1>1, <1>5 DEF IInv, TypeOK, LoopInv, InLoop, Work, ProgressRaises
    <2>2. outcome' \in {outcome, [outcome EXCEPT ![r] = "ProgressError"]}
      BY <1>5 DEF Work, ProgressRaises, Raise
    <2>3. seen[r] => completed[r] = done_then[r]
      BY <2>1 DEF IInv, TokenInv, Heeded
    <2>4. over[r] = 0
      <3>1. completed[r] \in Nat /\ completed[r] - completed[r] = 0
        BY <2>1
      <3> QED BY <2>3, <3>1
    <2>5. over' = [over EXCEPT ![r] = IF seen[r] THEN 1 ELSE 0]
      <3> SUFFICES ASSUME NEW s \in Run
                   PROVE  over'[s] = [over EXCEPT ![r] = IF seen[r] THEN 1 ELSE 0][s]
        OBVIOUS
      <3>1. CASE s = r
        <4>1. /\ completed[r] \in Nat /\ completed'[r] = completed[r] + 1
              /\ completed[r] + 1 - completed[r] = 1
          BY <2>1
        <4>2. over'[r] = IF seen[r] THEN completed'[r] - done_then[r] ELSE 0
          BY <1>1
        <4>3. over'[r] = IF seen[r] THEN 1 ELSE 0
          BY <2>3, <4>1, <4>2
        <4> HIDE DEF over, seen
        <4> QED BY <3>1, <4>3 DEF over
      <3>2. CASE s # r
        BY <1>1, <2>1, <3>2
      <3> QED BY <3>1, <3>2
    <2>6. completed[r] < script.steps
      BY <1>1, <2>1
    <2>7. Contract!Progress(r)
      <3>1. seen[r] = (cancelled[r] /\ script.honours_cancellation)
        OBVIOUS
      <3> HIDE DEF over
      <3> QED BY <1>1, <1>2, <2>1, <2>2, <2>4, <2>5, <2>6 DEF Contract!Progress, over
    <2> QED BY <2>7 DEF Contract!Next
  <1>6. CASE Return(r)
    <2>1. outcome[r] = "none" /\ completed[r] = script.steps
      BY <1>6 DEF IInv, LoopInv, Return
    <2>2. over' = over /\ completed' = completed /\ outcome' = [outcome EXCEPT ![r] = "image"]
      BY <1>1, <1>6 DEF Return, Raise
    <2> QED BY <1>1, <1>2, <2>1, <2>2 DEF Contract!Next, Contract!Return
  <1> QED BY <1>3, <1>4, <1>5, <1>6 DEF Advance

\* A token that is set is a set token of the contract, unless the script ignores it.
LEMMA CancelImplements ==
  ASSUME IInv, NEW r \in Run, Cancel(r)
  PROVE  Contract!Next \/ UNCHANGED Contract!vars
  <1> DEFINE seen == [s \in Run |-> cancelled[s] /\ script.honours_cancellation]
             over == [s \in Run |-> IF cancelled[s] /\ script.honours_cancellation
                                      THEN completed[s] - done_then[s] ELSE 0]
  <1>1. /\ script' = script /\ UNCHANGED <<completed, outcome>> /\ outcome[r] = "none"
        /\ cancelled \in [Run -> BOOLEAN] /\ completed \in [Run -> Nat]
        /\ cancelled' = [cancelled EXCEPT ![r] = TRUE] /\ ~cancelled[r]
        /\ done_then' = [done_then EXCEPT ![r] = completed[r]] /\ done_then \in [Run -> Nat]
    <2>1. completed \in [Run -> Nat]
      BY ScriptsAssumption DEF IInv, ScriptInv, TypeOK
    <2> QED BY <2>1 DEF IInv, TypeOK, HistoryOK, LoopInv, Cancel
  <1>2. over' = over
    <2> SUFFICES ASSUME NEW s \in Run PROVE over'[s] = over[s]
      OBVIOUS
    <2> QED BY <1>1
  <1>3. CASE script.honours_cancellation
    <2>1. seen' = [seen EXCEPT ![r] = TRUE]
      BY <1>1, <1>3, Zenon
    <2> QED BY <1>1, <1>2, <2>1 DEF Contract!Next, Contract!Cancel
  <1>4. CASE ~script.honours_cancellation
    <2>1. seen' = seen
      BY <1>1, <1>4
    <2> QED BY <1>1, <1>2, <2>1 DEF Contract!vars
  <1> QED BY <1>3, <1>4

\* An engine whose script does not itself fail a step with Cancelled is an engine of the
\* contract: progress one step at a time, at most one step after a token was set, and an
\* end that is an image, a failure of the closed set or the callback's own
\* (engine.py:22-33, 293-316).
THEOREM EngineImplementsContract ==
  ASSUME \A s \in Scripts : s.failure # "Cancelled"
  PROVE  Spec => ImplementsContract
  <1>1. IInv /\ [Next]_vars => [Contract!Next]_(Contract!vars)
    <2> SUFFICES ASSUME IInv, [Next]_vars
                 PROVE  Contract!Next \/ UNCHANGED Contract!vars
      OBVIOUS
    <2>1. CASE Release \/ AllEnded \/ UNCHANGED vars
      BY <2>1 DEF Release, AllEnded, vars, Contract!vars
    <2>2. ASSUME NEW r \in Run, Advance(r) PROVE Contract!Next \/ UNCHANGED Contract!vars
      BY <2>2, AdvanceImplements
    <2>3. ASSUME NEW r \in Run, Cancel(r) PROVE Contract!Next \/ UNCHANGED Contract!vars
      BY <2>3, CancelImplements
    <2> QED BY <2>1, <2>2, <2>3 DEF Next
  <1> QED BY <1>1, InitImplements, AlwaysIInv, PTL
             DEF Spec, ImplementsContract, Contract!Spec

=============================================================================
