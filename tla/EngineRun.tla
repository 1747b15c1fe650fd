----------------------------- MODULE EngineRun -----------------------------
(***************************************************************************)
(* The engine that every test of the queue is driven with,                 *)
(* src/src/retusche/testing/fake_engine.py: what it declares, estimates    *)
(* and refuses, and the step loop of run, with callers that cancel and     *)
(* release while it runs.                                                  *)
(*                                                                         *)
(* An image is a function from positions to pixels, row after row, and a   *)
(* pixel stands for all of its channels.                                   *)
(***************************************************************************)
EXTENDS Naturals

CONSTANTS Run,        \* calls of run on one engine
          Scripts,    \* scripts somebody writes
          Requests,   \* requests callers make
          Border,     \* how far an extend grows the canvas
          NoSteps     \* a request that leaves the step count to the engine

VARIABLES script,     \* what this engine was built with
          released,   \* the event a blocked step waits for
          request,    \* what each caller asks for
          answer,     \* what the estimate said of the job, or "unasked"
          pc,         \* where each call is
          step,       \* the step of the loop it is at
          completed,  \* the last step it reported
          cancelled,  \* its caller's token
          first_lost, \* history: the first step the token came in time for
          done_then,  \* history: steps completed when the token was set
          outcome,    \* how the call ended
          result      \* the image it returned

vars == <<script, released, request, answer, pc, step, completed, cancelled,
          first_lost, done_then, outcome, result>>

\* What a script may raise: every member of the contract's closed set.
Failures == {"UnsupportedRequest", "OutOfDeviceMemory", "ModelNotAvailable", "Cancelled",
             "EngineFailure"}

ASSUME StepsAssumption == NoSteps \notin Nat
ASSUME ScriptsAssumption ==
  \A s \in Scripts : /\ s.steps \in Nat /\ s.failure \in Failures
                    /\ s.honours_cancellation \in BOOLEAN
ASSUME SizesAssumption ==
  Border \in Nat /\ \A edit \in Requests : edit.width \in Nat /\ edit.height \in Nat

-----------------------------------------------------------------------------
(* Scripts and refusals                                                    *)

\* What Script refuses where it is written.
accepts(s) == s.steps >= 1 /\ (s.block_at_step # 0 => s.has_event)

Accepted(sizes, side) == /\ sizes.min_side <= side
                         /\ side <= sizes.max_side
                         /\ side % sizes.multiple_of = 0

undeclared(job) ==
  \/ job.operation \notin script.operations
  \/ job.has_prompt /\ ~script.uses_prompt
  \/ ~Accepted(script.sizes, job.width)
  \/ ~Accepted(script.sizes, job.height)

\* Buffers whose shapes and lengths disagree, and parameters nobody declared.
incoherent(edit) ==
  \/ ~edit.image_whole
  \/ <<edit.mask_width, edit.mask_height>> # <<edit.width, edit.height>>
  \/ ~edit.mask_whole
  \/ ~(edit.parameters \subseteq script.known_parameters)

other_step_count(edit) == edit.steps # NoSteps /\ edit.steps # script.steps

\* Mutant of estimate_device_memory: it only computes.
estimate_device_memoryOnly(job) == "peak_bytes"

estimate_device_memory(job) ==
  IF undeclared(job) THEN "UnsupportedRequest" ELSE "peak_bytes"

-----------------------------------------------------------------------------
(* The result                                                              *)

Pixel(position) == <<position>>
Derived == <<>>

\* Mutant of synthesise: rows are laid out by the width of the request.
synthesiseNarrow(edit) ==
  LET border == IF edit.operation = "extend" THEN Border ELSE 0
      width  == edit.width + 2 * border
      height == edit.height + 2 * border
      kept   == {p \in (0 .. edit.height - 1) \X (0 .. edit.width - 1) :
                   p[1] * edit.width + p[2] \notin edit.mask}
      target(p) == (p[1] + border) * edit.width + border + p[2]
  IN  [width  |-> width,
       height |-> height,
       data   |-> [i \in 0 .. width * height - 1 |->
                     IF \E p \in kept : target(p) = i
                       THEN LET p == CHOOSE p \in kept : target(p) = i
                            IN  Pixel(p[1] * edit.width + p[2])
                       ELSE Derived]]

\* Derived pixels everywhere, and over them every pixel the mask leaves alone, in
\* the middle of the grown canvas.  A pixel of the request is known by its position.
synthesise(edit) ==
  LET border == IF edit.operation = "extend" THEN Border ELSE 0
      width  == edit.width + 2 * border
      height == edit.height + 2 * border
      kept   == {p \in (0 .. edit.height - 1) \X (0 .. edit.width - 1) :
                   p[1] * edit.width + p[2] \notin edit.mask}
      target(p) == (p[1] + border) * width + border + p[2]
  IN  [width  |-> width,
       height |-> height,
       data   |-> [i \in 0 .. width * height - 1 |->
                     IF \E p \in kept : target(p) = i
                       THEN LET p == CHOOSE p \in kept : target(p) = i
                            IN  Pixel(p[1] * edit.width + p[2])
                       ELSE Derived]]

NoResult == [width |-> 0, height |-> 0, data |-> <<>>]

-----------------------------------------------------------------------------
Init == /\ script \in {s \in Scripts : accepts(s)}
        /\ released = FALSE
        /\ request \in [Run -> Requests]
        /\ answer = [r \in Run |-> "unasked"]
        /\ pc = [r \in Run |-> "unasked"]
        /\ step = [r \in Run |-> 1]
        /\ completed = [r \in Run |-> 0]
        /\ cancelled = [r \in Run |-> FALSE]
        /\ first_lost = [r \in Run |-> 0]
        /\ done_then = [r \in Run |-> 0]
        /\ outcome = [r \in Run |-> "none"]
        /\ result = [r \in Run |-> NoResult]

Goto(r, place) == pc' = [pc EXCEPT ![r] = place]

Raise(r, error) == /\ Goto(r, "ended")
                   /\ outcome' = [outcome EXCEPT ![r] = error]

\* The caller asks about the job before it runs it.
Ask(r) ==
  /\ pc[r] = "unasked"
  /\ answer' = [answer EXCEPT ![r] = estimate_device_memory(request[r])]
  /\ Goto(r, "called")
  /\ UNCHANGED <<script, released, request, step, completed, cancelled, first_lost,
                 done_then, outcome, result>>

\* The refusals before the first step.
run(r) ==
  /\ pc[r] = "called"
  /\ IF undeclared(request[r]) \/ incoherent(request[r]) \/ other_step_count(request[r])
       THEN Raise(r, "UnsupportedRequest")
       ELSE Goto(r, "holding") /\ UNCHANGED outcome
  /\ UNCHANGED <<script, released, request, answer, step, completed, cancelled,
                 first_lost, done_then, result>>

Blocks(r) == step[r] = script.block_at_step

Hold(r) ==
  /\ pc[r] = "holding"
  /\ Blocks(r) => released
  /\ Goto(r, "checking")
  /\ UNCHANGED <<script, released, request, answer, step, completed, cancelled,
                 first_lost, done_then, outcome, result>>

\* Mutant of TimeOut: the wait has no timeout.
TimeOutNever(r) == FALSE /\ UNCHANGED vars

\* Nobody released the step in time.
TimeOut(r) ==
  /\ pc[r] = "holding"
  /\ Blocks(r)
  /\ ~released
  /\ Raise(r, "EngineFailure")
  /\ UNCHANGED <<script, released, request, answer, step, completed, cancelled,
                 first_lost, done_then, result>>

\* Mutant of Check: the token is read at the first step only.
CheckOnce(r) ==
  /\ pc[r] = "checking"
  /\ IF script.honours_cancellation /\ cancelled[r] /\ step[r] = 1
       THEN Raise(r, "Cancelled")
       ELSE Goto(r, "working") /\ UNCHANGED outcome
  /\ UNCHANGED <<script, released, request, answer, step, completed, cancelled,
                 first_lost, done_then, result>>

Check(r) ==
  /\ pc[r] = "checking"
  /\ IF script.honours_cancellation /\ cancelled[r]
       THEN Raise(r, "Cancelled")
       ELSE Goto(r, "working") /\ UNCHANGED outcome
  /\ UNCHANGED <<script, released, request, answer, step, completed, cancelled,
                 first_lost, done_then, result>>

\* Mutants of Work: a loop that ends one step early or one late, and a step that
\* is reported before it fails.
WorkLong(r) ==
  /\ pc[r] = "working"
  /\ IF step[r] = script.fail_at_step
       THEN Raise(r, script.failure) /\ UNCHANGED <<step, completed>>
       ELSE /\ completed' = [completed EXCEPT ![r] = step[r]]
            /\ IF step[r] < script.steps + 1
                 THEN Goto(r, "holding") /\ step' = [step EXCEPT ![r] = @ + 1]
                 ELSE Goto(r, "finishing") /\ UNCHANGED step
            /\ UNCHANGED outcome
  /\ UNCHANGED <<script, released, request, answer, cancelled, first_lost, done_then,
                 result>>

WorkShort(r) ==
  /\ pc[r] = "working"
  /\ IF step[r] = script.fail_at_step
       THEN Raise(r, script.failure) /\ UNCHANGED <<step, completed>>
       ELSE /\ completed' = [completed EXCEPT ![r] = step[r]]
            /\ IF step[r] + 1 < script.steps
                 THEN Goto(r, "holding") /\ step' = [step EXCEPT ![r] = @ + 1]
                 ELSE Goto(r, "finishing") /\ UNCHANGED step
            /\ UNCHANGED outcome
  /\ UNCHANGED <<script, released, request, answer, cancelled, first_lost, done_then,
                 result>>

WorkReported(r) ==
  /\ pc[r] = "working"
  /\ completed' = [completed EXCEPT ![r] = step[r]]
  /\ IF step[r] = script.fail_at_step
       THEN Raise(r, script.failure) /\ UNCHANGED step
       ELSE /\ IF step[r] < script.steps
                 THEN Goto(r, "holding") /\ step' = [step EXCEPT ![r] = @ + 1]
                 ELSE Goto(r, "finishing") /\ UNCHANGED step
            /\ UNCHANGED outcome
  /\ UNCHANGED <<script, released, request, answer, cancelled, first_lost, done_then,
                 result>>

\* The step fails, or it is complete and reported.
Work(r) ==
  /\ pc[r] = "working"
  /\ IF step[r] = script.fail_at_step
       THEN Raise(r, script.failure) /\ UNCHANGED <<step, completed>>
       ELSE /\ completed' = [completed EXCEPT ![r] = step[r]]
            /\ IF step[r] < script.steps
                 THEN Goto(r, "holding") /\ step' = [step EXCEPT ![r] = @ + 1]
                 ELSE Goto(r, "finishing") /\ UNCHANGED step
            /\ UNCHANGED outcome
  /\ UNCHANGED <<script, released, request, answer, cancelled, first_lost, done_then,
                 result>>

\* The step is complete, and the callback that is told of it raises.
ProgressRaises(r) ==
  /\ pc[r] = "working"
  /\ step[r] # script.fail_at_step
  /\ completed' = [completed EXCEPT ![r] = step[r]]
  /\ Raise(r, "ProgressError")
  /\ UNCHANGED <<script, released, request, answer, step, cancelled, first_lost, done_then,
                 result>>

Return(r) ==
  /\ pc[r] = "finishing"
  /\ Raise(r, "image")
  /\ result' = [result EXCEPT ![r] = synthesise(request[r])]
  /\ UNCHANGED <<script, released, request, answer, step, completed, cancelled,
                 first_lost, done_then>>

\* The caller sets the token: at its leisure, or from the progress callback.
Cancel(r) ==
  /\ pc[r] \notin {"unasked", "ended"}
  /\ ~cancelled[r]
  /\ cancelled' = [cancelled EXCEPT ![r] = TRUE]
  /\ first_lost' = [first_lost EXCEPT ![r] =
                      IF pc[r] \in {"working", "finishing"} THEN step[r] + 1 ELSE step[r]]
  /\ done_then' = [done_then EXCEPT ![r] = completed[r]]
  /\ UNCHANGED <<script, released, request, answer, pc, step, completed, outcome, result>>

\* The event is shared by every run of the engine and stays set.
Release ==
  /\ script.has_event
  /\ ~released
  /\ released' = TRUE
  /\ UNCHANGED <<script, request, answer, pc, step, completed, cancelled, first_lost,
                 done_then, outcome, result>>

Advance(r) == \/ Ask(r)
              \/ run(r)
              \/ Hold(r)
              \/ TimeOut(r)
              \/ Check(r)
              \/ Work(r)
              \/ ProgressRaises(r)
              \/ Return(r)

\* Nothing is left to do once every call has ended.
AllEnded == (\A r \in Run : pc[r] = "ended") /\ UNCHANGED vars

Next == AllEnded \/ Release \/ \E r \in Run : Advance(r) \/ Cancel(r)

Spec == Init /\ [][Next]_vars

\* Every run's thread gets to run, and a wait ends when its timeout has passed.
\* Nobody is obliged to cancel or to release.
FairSpec == Spec /\ \A r \in Run : WF_vars(Advance(r))

-----------------------------------------------------------------------------
(* Properties                                                              *)

TypeOK ==
  /\ released \in BOOLEAN
  /\ request \in [Run -> Requests]
  /\ answer \in [Run -> {"unasked", "UnsupportedRequest", "peak_bytes"}]
  /\ pc \in [Run -> {"unasked", "called", "holding", "checking", "working",
                     "finishing", "ended"}]
  /\ step \in [Run -> 1 .. script.steps]
  /\ completed \in [Run -> 0 .. script.steps]
  /\ cancelled \in [Run -> BOOLEAN]
  /\ outcome \in [Run -> {"none", "image", "ProgressError"} \cup Failures]

\* A step whose boundary comes after the token was set is never completed, held on
\* the device or not, and only a token set behind the last boundary leaves the run
\* its image (engine.py:22-33, fake_engine.py:141-144).
CancelledInTime ==
  script.honours_cancellation =>
    \A r \in Run : cancelled[r] =>
      /\ completed[r] < first_lost[r]
      /\ outcome[r] = "image" => first_lost[r] > script.steps

\* Progress for a step means that the step did not fail, and a failure is the
\* script's own one, at its own step (fake_engine.py:125-128).
FailsWhereScripted ==
  \A r \in Run :
    /\ script.fail_at_step \in 1 .. script.steps =>
         completed[r] < script.fail_at_step /\ outcome[r] # "image"
    /\ outcome[r] = "OutOfDeviceMemory" => completed[r] + 1 = script.fail_at_step

\* What a run refuses over anything the job's description says but the step count,
\* the estimate has refused before (engine.py:296-297).
EstimateForetells ==
  \A r \in Run :
    /\ outcome[r] = "UnsupportedRequest"
    /\ ~incoherent(request[r])
    /\ ~other_step_count(request[r])
    => answer[r] = "UnsupportedRequest"

\* Where the mask is zero the result holds the pixel of the request, at the same
\* place of the frame, and nowhere else does it hold one (fake_engine.py:371-376).
UnmaskedPixelsStay ==
  \A r \in Run : outcome[r] = "image" =>
    LET edit   == request[r]
        before == [p \in (0 .. edit.width - 1) \X (0 .. edit.height - 1) |->
                     p[2] * edit.width + p[1]]
        margin == (result[r].width - edit.width) \div 2
        Inside(p) == <<p[1] - margin, p[2] - margin>> \in DOMAIN before
    IN  \A p \in (0 .. result[r].width - 1) \X (0 .. result[r].height - 1) :
          result[r].data[p[2] * result[r].width + p[1]] =
            IF Inside(p) /\ before[<<p[1] - margin, p[2] - margin>>] \notin edit.mask
              THEN Pixel(before[<<p[1] - margin, p[2] - margin>>])
              ELSE Derived

\* What the queue sees of the runs is what the contract promises of them.  An
\* engine scripted to ignore the token is one whose token the contract never sees.
Contract == INSTANCE EngineContract WITH
  total     <- script.steps,
  cancelled <- [r \in Run |-> cancelled[r] /\ script.honours_cancellation],
  overrun   <- [r \in Run |-> IF cancelled[r] /\ script.honours_cancellation
                                THEN completed[r] - done_then[r] ELSE 0]

ImplementsContract == Contract!Spec

\* Every run ends, held or not: a step nobody releases fails when its time is up
\* (fake_engine.py:149-152).
EveryRunEnds == \A r \in Run : <>(pc[r] = "ended")
=============================================================================
