---------------------------- MODULE MCEngineRun ----------------------------
(* A small engine for TLC: two calls, eleven scripts and five requests. *)
EXTENDS EngineRun

CONSTANTS r1, r2

Base == [operations |-> {"erase", "extend"}, uses_prompt |-> FALSE,
         sizes |-> [min_side |-> 1, max_side |-> 4, multiple_of |-> 1],
         known_parameters |-> {"strength"}, steps |-> 2, fail_at_step |-> 0,
         failure |-> "EngineFailure", honours_cancellation |-> TRUE,
         block_at_step |-> 0, has_event |-> FALSE]

\* Every place of a block and of a failure over two steps, an engine of one step, one
\* that takes even sides only, and scripts that contradict themselves.
MCScripts ==
  {[Base EXCEPT !.fail_at_step = f, !.failure = "OutOfDeviceMemory",
                !.block_at_step = b, !.has_event = TRUE] : f \in {0, 2}, b \in {1, 2}}
  \cup {[Base EXCEPT !.honours_cancellation = h, !.steps = s] : h \in BOOLEAN, s \in {1, 3}}
  \cup {[Base EXCEPT !.sizes.multiple_of = 2, !.uses_prompt = TRUE],
        [Base EXCEPT !.steps = 0], [Base EXCEPT !.block_at_step = 1]}

Plain == [operation |-> "erase", width |-> 2, height |-> 2, has_prompt |-> FALSE,
          image_whole |-> TRUE, mask_width |-> 2, mask_height |-> 2, mask_whole |-> TRUE,
          mask |-> {1}, parameters |-> {}, steps |-> NoSteps]

\* An ordinary erase, an extend of a frame that is not square, and requests that are
\* refused: for a prompt, for a mask of another size, and for another step count.
MCRequests ==
  {Plain,
   [Plain EXCEPT !.operation = "extend", !.height = 3, !.mask_height = 3, !.mask = {0, 3}],
   [Plain EXCEPT !.has_prompt = TRUE, !.parameters = {"strength"}],
   [Plain EXCEPT !.mask_width = 1],
   [Plain EXCEPT !.steps = 2]}
=============================================================================
