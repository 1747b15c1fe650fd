--------------------------- MODULE JobStoreProofs --------------------------
(***************************************************************************)
(* Proofs about the job store, for any set of jobs, connections, requests  *)
(* and rows found in the file.                                             *)
(***************************************************************************)
EXTENDS JobStore, TLAPS

(***************************************************************************)
(* Type correctness                                                        *)
(***************************************************************************)

LEMMA CallsAreTyped ==
  ASSUME NEW request \in Call
  PROVE  /\ request.op \in {"accept", "move", "recover"}
         /\ [state |-> request.target, reason |-> request.reason] \in Row
  <1>1. CASE request \in [op : {"accept"}, target : {"accepted"}, reason : {NoReason}]
    BY <1>1 DEF Row, JobState, NoReason
  <1>2. CASE request \in [op : {"recover"}, target : {"interrupted"},
                          reason : {"interrupted-by-shutdown"}]
    BY <1>2 DEF Row, JobState, TerminalReason
  <1>3. CASE request \in {[op |-> "move", target |-> r.target, reason |-> r.reason] :
                            r \in Request}
    BY <1>3, RequestAssumption DEF Row
  <1> QED BY <1>1, <1>2, <1>3 DEF Call

LEMMA RefusalsAreTyped ==
  ASSUME NEW op \in {"none", "accept", "move", "recover", "read"},
         NEW error \in {"ok", "DuplicateJobError", "UnknownJobError",
                        "CorruptJobStoreError", "IllegalTransitionError",
                        "TerminalReasonError", "OperationalError",
                        "KeyboardInterrupt"}
  PROVE  Refusal(op, error) \in Answer
  BY DEF Refusal, Answer, NothingTold

LEMMA TypeInit == Init => TypeOK
  <1> SUFFICES ASSUME Init PROVE TypeOK
    OBVIOUS
  <1>1. NoAnswer \in Answer
    BY RefusalsAreTyped DEF NoAnswer
  <1>2. rows \in [Job -> Row \cup {NoRow}]
    BY FileRowAssumption DEF Init, Row, NoRow
  <1> QED BY <1>1, <1>2 DEF Init, TypeOK, NothingTold, Clean, NoRow

LEMMA VerdictsAreTyped ==
  ASSUME NEW c \in Connection, NEW j \in Job
  PROVE  Verdict(c, j) \in {"ok", "DuplicateJobError", "UnknownJobError",
                            "CorruptJobStoreError", "IllegalTransitionError",
                            "TerminalReasonError"}
  <1>1. record(seen[c][j]) \in {"ok", "UnknownJobError", "CorruptJobStoreError"}
    BY DEF record
  <1>2. check_transition(seen[c][j].state, call[c].target, call[c].reason)
          \in {"ok", "IllegalTransitionError", "TerminalReasonError"}
    BY DEF check_transition
  <1> QED BY <1>1, <1>2 DEF Verdict

LEMMA RollbackIsTyped ==
  ASSUME TypeOK, NEW c \in Connection, call[c] \in Call,
         NEW error \in {"ok", "DuplicateJobError", "UnknownJobError",
                        "CorruptJobStoreError", "IllegalTransitionError",
                        "TerminalReasonError", "OperationalError",
                        "KeyboardInterrupt"},
         Rollback(c, error)
  PROVE  TypeOK'
  <1>1. Refusal(call[c].op, error) \in Answer
    BY CallsAreTyped, RefusalsAreTyped
  <1> QED BY <1>1 DEF TypeOK, Rollback, Finish, Clean, NothingTold

(***************************************************************************)
(* The inductive invariant                                                 *)
(***************************************************************************)

\* A connection that is inside a call has one.
CallInProgress ==
  \A c \in Connection :
    pc[c] \in {"begun", "writing", "committed"} => call[c] \in Call

\* An open transaction holds the write lock, so there is at most one.
OneWriter == \A c \in Connection : pc[c] \in InTransaction => lock = c

\* Uncommitted rows exist only between the first write and the answer.
NoStrayDraft ==
  \A c \in Connection : pc[c] \notin {"writing", "committed"} => draft[c] = Clean

\* While the lock is held the table is the one the transaction read.
ReadIsCurrent == \A c \in Connection : pc[c] = "writing" => seen[c] = rows

\* Every uncommitted row is the call's row, decided and not to be decided again.
DraftsDecided ==
  \A c \in Connection, j \in Job :
    pc[c] = "writing" /\ draft[c][j] # Untouched =>
      /\ j \notin todo[c]
      /\ draft[c][j] = [state |-> call[c].target, reason |-> call[c].reason]
      /\ Verdict(c, j) = "ok"

\* A recovery still has to write, or has written, exactly the running jobs.
RecoversTheRunning ==
  \A c \in Connection, j \in Job :
    pc[c] = "writing" /\ call[c].op = "recover" =>
      (j \in InState(rows, "running") <=> j \in todo[c] \/ draft[c][j] # Untouched)

\* The other writes are about one job.
OneJob ==
  \A c \in Connection : pc[c] \in InTransaction /\ call[c].op # "recover" =>
    \E j \in Job : /\ todo[c] \subseteq {j}
                   /\ \A k \in Job : k # j => draft[c][k] = Untouched

IInv == /\ TypeOK
        /\ CallInProgress
        /\ OneWriter
        /\ NoStrayDraft
        /\ ReadIsCurrent
        /\ DraftsDecided
        /\ RecoversTheRunning
        /\ OneJob

LEMMA IInvInit == Init => IInv
  <1> SUFFICES ASSUME Init PROVE IInv
    OBVIOUS
  <1>1. TypeOK
    BY TypeInit
  <1> QED BY <1>1 DEF Init, IInv, CallInProgress, OneWriter, NoStrayDraft,
       ReadIsCurrent, DraftsDecided, RecoversTheRunning, OneJob, InTransaction

\* Any way out of a call that leaves the file alone keeps the invariant.
LEMMA RollbackKeeps ==
  ASSUME IInv, NEW c \in Connection, pc[c] \in InTransaction,
         NEW error \in {"ok", "DuplicateJobError", "UnknownJobError",
                        "CorruptJobStoreError", "IllegalTransitionError",
                        "TerminalReasonError", "OperationalError",
                        "KeyboardInterrupt"},
         Rollback(c, error)
  PROVE  IInv'
  <1>1. TypeOK'
    BY RollbackIsTyped DEF IInv, CallInProgress, InTransaction
  <1>2. \A d \in Connection : d # c =>
           UNCHANGED <<pc[d], call[d], todo[d], seen[d], draft[d], rows>>
    BY DEF IInv, TypeOK, Rollback, Finish
  <1>3. /\ pc'[c] = "idle"
        /\ draft'[c] = Clean
        /\ lock = c
    BY DEF IInv, TypeOK, Rollback, Finish, OneWriter
  <1>4. \A d \in Connection : d # c => pc[d] \notin InTransaction
    BY <1>3 DEF IInv, OneWriter
  <1> QED BY <1>1, <1>2, <1>3, <1>4 DEF IInv, CallInProgress, OneWriter, NoStrayDraft,
       ReadIsCurrent, DraftsDecided, RecoversTheRunning, OneJob, InTransaction

LEMMA BeginKeeps ==
  ASSUME IInv, NEW c \in Connection, NEW request \in Call, NEW jobs \in SUBSET Job,
         request.op # "recover" => \E j \in Job : jobs \subseteq {j},
         Begin(c, request, jobs)
  PROVE  IInv'
  <1>1. TypeOK'
    <2>1. NoAnswer \in Answer
      BY RefusalsAreTyped DEF NoAnswer
    <2> QED BY <2>1 DEF IInv, TypeOK, Begin
  <1>2. \A d \in Connection : d # c =>
           /\ UNCHANGED <<pc[d], call[d], todo[d], seen[d], draft[d], rows>>
           /\ pc[d] \notin InTransaction
    BY ConnectionAssumption DEF IInv, TypeOK, Begin, OneWriter
  <1>3. /\ pc'[c] = "begun"
        /\ call'[c] = request
        /\ todo'[c] = jobs
        /\ draft'[c] = Clean
        /\ lock' = c
    BY DEF IInv, TypeOK, Begin, NoStrayDraft
  <1> QED BY <1>1, <1>2, <1>3 DEF IInv, CallInProgress, OneWriter, NoStrayDraft,
       ReadIsCurrent, DraftsDecided, RecoversTheRunning, OneJob, InTransaction, Clean

LEMMA SelectKeeps ==
  ASSUME IInv, NEW c \in Connection, Select(c)
  PROVE  IInv'
  <1>1. TypeOK'
    BY DEF IInv, TypeOK, Select, InState
  <1>2. \A d \in Connection : d # c =>
           /\ UNCHANGED <<pc[d], call[d], todo[d], seen[d], draft[d]>>
           /\ pc[d] \notin InTransaction
    BY DEF IInv, TypeOK, Select, OneWriter, InTransaction
  <1>3. /\ pc[c] = "begun" /\ pc'[c] = "writing"
        /\ UNCHANGED <<rows, lock, call[c], draft[c]>>
        /\ draft[c] = Clean
        /\ seen'[c] = rows
        /\ call[c].op = "recover" => todo'[c] = InState(rows, "running")
        /\ call[c].op # "recover" => todo'[c] = todo[c]
    BY DEF IInv, TypeOK, Select, NoStrayDraft
  <1> QED BY <1>1, <1>2, <1>3 DEF IInv, CallInProgress, OneWriter, NoStrayDraft,
       ReadIsCurrent, DraftsDecided, RecoversTheRunning, OneJob, InTransaction, Clean

LEMMA WriteKeeps ==
  ASSUME IInv, NEW c \in Connection, NEW j \in Job, Write(c, j)
  PROVE  IInv'
  <1>1. call[c] \in Call
    BY DEF IInv, CallInProgress, Write
  <1>2. TypeOK'
    BY <1>1, CallsAreTyped DEF IInv, TypeOK, Write
  <1>3. \A d \in Connection : d # c =>
           /\ UNCHANGED <<pc[d], call[d], todo[d], seen[d], draft[d]>>
           /\ pc[d] \notin InTransaction
    BY DEF IInv, TypeOK, Write, OneWriter, InTransaction
  <1>4. /\ pc[c] = "writing" /\ j \in todo[c]
        /\ UNCHANGED <<rows, lock, pc[c], call[c], seen[c]>>
        /\ todo'[c] = todo[c] \ {j}
        /\ draft'[c][j] = [state |-> call[c].target, reason |-> call[c].reason]
        /\ \A k \in Job : k # j => draft'[c][k] = draft[c][k]
        /\ Verdict(c, j) = "ok"
    BY DEF IInv, TypeOK, Write
  <1>5. draft'[c][j] # Untouched
    BY <1>1, <1>4, CallsAreTyped
       DEF Untouched, Row, JobState, Undeclared
  <1>6. \A k \in Job : Verdict(c, k)' = Verdict(c, k)
    BY <1>4 DEF Verdict
  <1>7. DraftsDecided'
    <2> SUFFICES ASSUME NEW d \in Connection, NEW k \in Job,
                        pc'[d] = "writing", draft'[d][k] # Untouched
                 PROVE  /\ k \notin todo'[d]
                        /\ draft'[d][k] = [state |-> call'[d].target,
                                          reason |-> call'[d].reason]
                        /\ Verdict(d, k)' = "ok"
      BY DEF DraftsDecided
    <2>1. d = c
      BY <1>3 DEF InTransaction
    <2>2. CASE k = j
      BY <2>1, <2>2, <1>4, <1>6
    <2>3. CASE k # j
      BY <2>1, <2>3, <1>4, <1>6 DEF IInv, DraftsDecided
    <2> QED BY <2>2, <2>3
  <1>8. RecoversTheRunning'
    BY <1>3, <1>4, <1>5 DEF IInv, RecoversTheRunning, InTransaction
  <1>9. OneJob'
    <2> SUFFICES ASSUME NEW d \in Connection, pc'[d] \in InTransaction,
                        call'[d].op # "recover"
                 PROVE  \E k \in Job : /\ todo'[d] \subseteq {k}
                                       /\ \A l \in Job : l # k => draft'[d][l] = Untouched
      BY DEF OneJob
    <2>1. d = c
      BY <1>3
    <2>2. /\ todo[c] \subseteq {j}
          /\ \A l \in Job : l # j => draft[c][l] = Untouched
      BY <2>1, <1>4 DEF IInv, OneJob
    <2> QED BY <2>1, <2>2, <1>4
  <1> QED BY <1>2, <1>3, <1>4, <1>7, <1>8, <1>9 DEF IInv, CallInProgress, OneWriter,
       NoStrayDraft, ReadIsCurrent, InTransaction

LEMMA CommitKeeps ==
  ASSUME IInv, NEW c \in Connection, Commit(c)
  PROVE  IInv'
  <1>1. TypeOK'
    BY DEF IInv, TypeOK, Commit
  <1>2. \A d \in Connection : d # c =>
           /\ UNCHANGED <<pc[d], call[d], todo[d], seen[d], draft[d]>>
           /\ pc[d] \notin InTransaction
    BY DEF IInv, TypeOK, Commit, OneWriter, InTransaction
  <1>3. /\ pc[c] = "writing" /\ pc'[c] = "committed"
        /\ UNCHANGED <<call[c], draft[c]>>
    BY DEF IInv, TypeOK, Commit
  <1> QED BY <1>1, <1>2, <1>3 DEF IInv, CallInProgress, OneWriter, NoStrayDraft,
       ReadIsCurrent, DraftsDecided, RecoversTheRunning, OneJob, InTransaction

\* The end of a call that holds no transaction: the answer, or a lost answer.
LEMMA FinishKeeps ==
  ASSUME IInv, NEW c \in Connection, NEW answer \in Answer,
         \/ pc[c] = "committed" /\ draft' = [draft EXCEPT ![c] = Clean]
         \/ pc[c] = "begun" /\ UNCHANGED draft,
         Finish(c, answer), UNCHANGED <<rows, lock>>
  PROVE  IInv'
  <1>1. TypeOK'
    <2>1. Clean \in [Job -> Row \cup {Untouched}]
      BY DEF Clean
    <2>2. draft' \in [Connection -> [Job -> Row \cup {Untouched}]]
      BY <2>1 DEF IInv, TypeOK
    <2>3. NothingTold \in [Job -> Row \cup {NoRow}]
      BY DEF NothingTold
    <2> QED BY <2>2, <2>3 DEF IInv, TypeOK, Finish
  <1>2. \A d \in Connection : d # c =>
           UNCHANGED <<pc[d], call[d], todo[d], seen[d], draft[d]>>
    BY DEF IInv, TypeOK, Finish
  <1>3. /\ pc'[c] = "idle"
        /\ draft'[c] = Clean
    BY DEF IInv, TypeOK, Finish, NoStrayDraft
  <1>4. \A d \in Connection, k \in Job : d # c => Verdict(d, k)' = Verdict(d, k)
    BY <1>2 DEF Verdict
  <1> QED BY <1>1, <1>2, <1>3, <1>4 DEF IInv, CallInProgress, OneWriter, NoStrayDraft,
       ReadIsCurrent, DraftsDecided, RecoversTheRunning, OneJob, InTransaction

\* A step that touches neither the file nor anything of a call in progress.
LEMMA IdleKeeps ==
  ASSUME IInv, NEW c \in Connection, TypeOK',
         pc[c] \in {"closed", "idle"}, pc'[c] \in {"closed", "idle"},
         \A d \in Connection : d # c => pc'[d] = pc[d],
         lock' = lock \/ lock = c,
         UNCHANGED <<rows, call, todo, seen, draft>>
  PROVE  IInv'
  <1>1. \A d \in Connection : pc'[d] \in InTransaction => lock = d /\ d # c
    BY DEF IInv, OneWriter, InTransaction
  <1>2. \A d \in Connection, k \in Job : Verdict(d, k)' = Verdict(d, k)
    BY DEF Verdict
  <1> QED BY <1>1, <1>2 DEF IInv, CallInProgress, OneWriter, NoStrayDraft,
       ReadIsCurrent, DraftsDecided, RecoversTheRunning, OneJob, InTransaction

LEMMA CrashKeeps == IInv /\ Crash => IInv'
  <1> SUFFICES ASSUME IInv, Crash PROVE IInv'
    OBVIOUS
  <1>1. TypeOK'
    BY DEF IInv, TypeOK, Crash, Clean, NothingTold
  <1> QED BY <1>1 DEF Crash, IInv, CallInProgress, OneWriter, NoStrayDraft,
       ReadIsCurrent, DraftsDecided, RecoversTheRunning, OneJob, InTransaction

LEMMA Inductive == IInv /\ [Next]_vars => IInv'
  <1> SUFFICES ASSUME IInv, [Next]_vars PROVE IInv'
    OBVIOUS
  <1> USE DEF IInv
  <1>1. CASE Crash
    BY <1>1, CrashKeeps
  <1>2. CASE UNCHANGED vars
    <2>1. TypeOK'
      BY <1>2 DEF vars, TypeOK
    <2>2. \A d \in Connection, k \in Job : Verdict(d, k)' = Verdict(d, k)
      BY <1>2 DEF vars, Verdict
    <2> QED BY <1>2, <2>1, <2>2 DEF vars, CallInProgress, OneWriter, NoStrayDraft,
         ReadIsCurrent, DraftsDecided, RecoversTheRunning, OneJob
  <1>3. ASSUME NEW c \in Connection, Step(c) PROVE IInv'
    <2>1. CASE Open(c)
      <3>1. TypeOK'
        BY <2>1 DEF Open, TypeOK
      <3> QED BY <2>1, <3>1, IdleKeeps DEF Open, TypeOK
    <2>2. CASE Close(c)
      <3>1. TypeOK'
        BY <2>2 DEF Close, TypeOK
      <3> QED BY <2>2, <3>1, IdleKeeps DEF Close, TypeOK
    <2>3. ASSUME NEW request \in Call, Locked(c, request) PROVE IInv'
      <3>1. Refusal(request.op, "OperationalError") \in Answer
        BY CallsAreTyped, RefusalsAreTyped
      <3>2. TypeOK'
        BY <2>3, <3>1 DEF Locked, TypeOK
      <3> QED BY <2>3, <3>2, IdleKeeps DEF Locked
    <2>4. ASSUME NEW j \in Job, accept(c, j) PROVE IInv'
      <3>1. [op |-> "accept", target |-> "accepted", reason |-> NoReason] \in Call
        BY DEF Call
      <3> QED BY <2>4, <2>3, <3>1, BeginKeeps DEF accept
    <2>5. ASSUME NEW j \in Job, NEW r \in Request, move(c, j, r) PROVE IInv'
      <3>1. [op |-> "move", target |-> r.target, reason |-> r.reason] \in Call
        BY DEF Call
      <3> QED BY <2>5, <2>3, <3>1, BeginKeeps DEF move
    <2>6. CASE recover_after_restart(c)
      <3>1. [op |-> "recover", target |-> "interrupted",
             reason |-> "interrupted-by-shutdown"] \in Call
        BY DEF Call
      <3> QED BY <2>6, <2>3, <3>1, BeginKeeps DEF recover_after_restart
    <2>7. CASE Select(c)
      BY <2>7, SelectKeeps
    <2>8. ASSUME NEW j \in Job, Write(c, j) PROVE IInv'
      BY <2>8, WriteKeeps
    <2>9. ASSUME NEW j \in Job, Refuse(c, j) PROVE IInv'
      BY <2>9, VerdictsAreTyped, RollbackKeeps DEF Refuse, InTransaction
    <2>10. CASE StorageFails(c)
      BY <2>10, RollbackKeeps DEF StorageFails
    <2>11. CASE Commit(c)
      BY <2>11, CommitKeeps
    <2>12. CASE Return(c)
      <3>1. call[c] \in Call
        BY <2>12 DEF Return, CallInProgress
      <3>2. [op |-> call[c].op, outcome |-> "ok",
             told |-> [j \in Job |-> IF draft[c][j] = Untouched
                                       THEN NoRow ELSE draft[c][j]]] \in Answer
        <4>1. [j \in Job |-> IF draft[c][j] = Untouched THEN NoRow ELSE draft[c][j]]
                \in [Job -> Row \cup {NoRow}]
          BY DEF TypeOK
        <4>2. call[c].op \in {"accept", "move", "recover"}
          BY <3>1, CallsAreTyped
        <4> QED BY <4>1, <4>2 DEF Answer
      <3> QED BY <2>12, <3>2, FinishKeeps DEF Return
    <2>13. CASE InterruptCall(c)
      <3>1. CASE pc[c] \in InTransaction /\ Rollback(c, "KeyboardInterrupt")
        BY <3>1, RollbackKeeps
      <3>2. CASE /\ pc[c] = "committed"
                 /\ draft' = [draft EXCEPT ![c] = Clean]
                 /\ Finish(c, Refusal(call[c].op, "KeyboardInterrupt"))
                 /\ UNCHANGED <<rows, lock>>
        <4>1. Refusal(call[c].op, "KeyboardInterrupt") \in Answer
          BY <3>2, CallsAreTyped, RefusalsAreTyped DEF CallInProgress
        <4> QED BY <3>2, <4>1, FinishKeeps
      <3> QED BY <2>13, <3>1, <3>2 DEF InterruptCall
    <2>14. CASE InterruptBegin(c)
      <3>1. Refusal(call[c].op, "KeyboardInterrupt") \in Answer
        BY <2>14, CallsAreTyped, RefusalsAreTyped DEF InterruptBegin, CallInProgress
      <3> QED BY <2>14, <3>1, FinishKeeps DEF InterruptBegin
    <2>15. ASSUME NEW j \in Job, read(c, j) PROVE IInv'
      <3>1. record(rows[j]) \in {"ok", "UnknownJobError", "CorruptJobStoreError"}
        BY DEF record
      <3>2. reply' \in [Connection -> Answer]
        <4>1. [op |-> "read", outcome |-> record(rows[j]),
               told |-> IF record(rows[j]) = "ok" THEN [NothingTold EXCEPT ![j] = rows[j]]
                                                  ELSE NothingTold] \in Answer
          BY <3>1 DEF TypeOK, Answer, NothingTold
        <4> QED BY <2>15, <4>1 DEF read, TypeOK
      <3>3. TypeOK'
        BY <2>15, <3>2 DEF read, TypeOK
      <3> QED BY <2>15, <3>3, IdleKeeps DEF read
    <2>16. ASSUME NEW s \in Listed, in_state(c, s) PROVE IInv'
      <3> DEFINE listed == InState(rows, s)
                 sound == \A j \in listed : record(rows[j]) = "ok"
      <3>1. [op |-> "read", outcome |-> IF sound THEN "ok" ELSE "CorruptJobStoreError",
             told |-> IF sound
                        THEN [j \in Job |-> IF j \in listed THEN rows[j] ELSE NoRow]
                        ELSE NothingTold] \in Answer
        BY DEF TypeOK, Answer, NothingTold
      <3>2. reply' \in [Connection -> Answer]
        BY <2>16, <3>1 DEF in_state, TypeOK
      <3>3. TypeOK'
        BY <2>16, <3>2 DEF in_state, TypeOK
      <3> QED BY <2>16, <3>3, IdleKeeps DEF in_state
    <2> QED BY <1>3, <2>1, <2>2, <2>4, <2>5, <2>6, <2>7, <2>8, <2>9, <2>10, <2>11,
         <2>12, <2>13, <2>14, <2>15, <2>16 DEF Step
  <1> QED BY <1>1, <1>2, <1>3 DEF Next

\* Every variable keeps its type, in every reachable state of the store.
THEOREM TypeCorrect == Spec => []TypeOK
  <1>1. Init => IInv
    BY IInvInit
  <1>2. IInv /\ [Next]_vars => IInv'
    BY Inductive
  <1>3. IInv => TypeOK
    BY DEF IInv
  <1> QED BY <1>1, <1>2, <1>3, PTL DEF Spec

(***************************************************************************)
(* What a commit does to the file                                          *)
(***************************************************************************)

LEMMA TransitionsAdvance ==
  ASSUME NEW current \in JobState \cup {Undeclared}, current # Undeclared,
         NEW target, NEW reason,
         check_transition(current, target, reason) = "ok"
  PROVE  /\ target \in JobState
         /\ current \notin TERMINAL_STATES
         /\ ~reason_problem(target, reason)
         /\ Progress(current) \in Nat /\ Progress(target) \in Nat
         /\ Progress(target) > Progress(current)
  <1>1. current \in JobState
    OBVIOUS
  <1>2. target \in LEGAL_TRANSITIONS[current] /\ ~reason_problem(target, reason)
    BY DEF check_transition
  <1> QED BY <1>1, <1>2 DEF JobState, LEGAL_TRANSITIONS, TERMINAL_STATES, REASONS, Progress

\* Every decided row follows from the row in the file, for the call at hand.
LEMMA DraftsFollow ==
  ASSUME IInv, NEW c \in Connection, NEW j \in Job,
         pc[c] = "writing", draft[c][j] # Untouched
  PROVE  /\ draft[c][j] = [state |-> call[c].target, reason |-> call[c].reason]
         /\ call[c].op = "accept" => rows[j] = NoRow
         /\ call[c].op # "accept" =>
              /\ record(rows[j]) = "ok"
              /\ check_transition(rows[j].state, draft[c][j].state,
                                  draft[c][j].reason) = "ok"
  <1>1. /\ draft[c][j] = [state |-> call[c].target, reason |-> call[c].reason]
        /\ Verdict(c, j) = "ok"
        /\ seen[c] = rows
    BY DEF IInv, DraftsDecided, ReadIsCurrent
  <1>2. draft[c][j].state = call[c].target /\ draft[c][j].reason = call[c].reason
    BY <1>1
  <1>3. call[c].op # "accept" =>
          /\ record(rows[j]) = "ok"
          /\ check_transition(rows[j].state, call[c].target, call[c].reason) = "ok"
    BY <1>1 DEF Verdict
  <1>4. call[c].op = "accept" => rows[j] = NoRow
    BY <1>1 DEF Verdict
  <1> QED BY <1>1, <1>2, <1>3, <1>4, Zenon

\* A transaction's decisions follow from the file for as long as it is open.
THEOREM DecisionsAlwaysStand == Spec => []DecisionsStand
  <1>1. IInv => DecisionsStand
    <2> SUFFICES ASSUME IInv, NEW c \in Connection, NEW j \in Job,
                        pc[c] = "writing", draft[c][j] # Untouched
                 PROVE  IF call[c].op = "accept" THEN rows[j] = NoRow
                        ELSE /\ record(rows[j]) = "ok"
                             /\ check_transition(rows[j].state, draft[c][j].state,
                                                 draft[c][j].reason) = "ok"
      BY DEF DecisionsStand
    <2> QED BY DraftsFollow
  <1> QED BY <1>1, IInvInit, Inductive, PTL DEF Spec

\* Only a commit changes the file.
LEMMA OnlyCommitsWrite ==
  ASSUME [Next]_vars, rows' # rows
  PROVE  \E c \in Connection : Commit(c)
  BY DEF Next, vars, Crash, Step, Open, Close, accept, move, recover_after_restart,
     Begin, Locked, Select, Write, Refuse, StorageFails, Rollback, Return,
     InterruptCall, InterruptBegin, read, in_state

\* A row changes only from nothing to accepted, or by a legal move of a row the
\* state machine knows.
LEMMA RowsMoveLegally ==
  ASSUME IInv, NEW c \in Connection, Commit(c), NEW j \in Job, rows'[j] # rows[j]
  PROVE  \/ rows[j] = NoRow /\ rows'[j] = NewRow
         \/ /\ record(rows[j]) = "ok"
            /\ check_transition(rows[j].state, rows'[j].state, rows'[j].reason) = "ok"
  <1>1. pc[c] = "writing" /\ draft[c][j] # Untouched /\ rows'[j] = draft[c][j]
    BY DEF Commit
  <1>2. call[c] \in Call
    BY <1>1 DEF IInv, CallInProgress
  <1>3. call[c].op = "accept" => rows'[j] = NewRow
    BY <1>1, <1>2, DraftsFollow DEF Call, NewRow
  <1>4. call[c].op # "accept" =>
          /\ record(rows[j]) = "ok"
          /\ check_transition(rows[j].state, rows'[j].state, rows'[j].reason) = "ok"
    BY <1>1, DraftsFollow, Zenon
  <1>5. call[c].op = "accept" => rows[j] = NoRow
    BY <1>1, DraftsFollow
  <1> QED BY <1>3, <1>4, <1>5, Zenon

\* A finished job, and a row the state machine does not know, are never changed.
THEOREM FinishedIsForever == Spec => FinishedStaysFinished
  <1>1. IInv /\ [Next]_vars =>
          [\A j \in Job :
             (rows[j] # NoRow /\ (\/ record(rows[j]) # "ok"
                                  \/ rows[j].state \in TERMINAL_STATES))
             => rows'[j] = rows[j]]_vars
    <2> SUFFICES ASSUME IInv, [Next]_vars, NEW j \in Job,
                        rows[j] # NoRow,
                        \/ record(rows[j]) # "ok"
                        \/ rows[j].state \in TERMINAL_STATES,
                        rows'[j] # rows[j]
                 PROVE  FALSE
      OBVIOUS
    <2>1. PICK c \in Connection : Commit(c)
      BY OnlyCommitsWrite
    <2>2. /\ record(rows[j]) = "ok"
          /\ check_transition(rows[j].state, rows'[j].state, rows'[j].reason) = "ok"
      BY <2>1, RowsMoveLegally
    <2>3. rows[j].state \in JobState \cup {Undeclared} /\ rows[j].state # Undeclared
      BY <2>2 DEF IInv, TypeOK, Row, record
    <2> QED BY <2>2, <2>3, TransitionsAdvance
  <1> QED BY <1>1, IInvInit, Inductive, PTL DEF Spec, FinishedStaysFinished

\* Recovery is all or nothing.
THEOREM RecoveryIsAlwaysWhole == Spec => RecoveryIsWhole
  <1>1. IInv /\ [Next]_vars =>
          [\A c \in Connection :
             /\ pc[c] = "writing"
             /\ call[c].op = "recover"
             /\ rows' # rows
             => InState(rows', "running") = {}]_vars
    <2> SUFFICES ASSUME IInv, [Next]_vars, NEW c \in Connection,
                        pc[c] = "writing", call[c].op = "recover", rows' # rows,
                        NEW j \in InState(rows', "running")
                 PROVE  FALSE
      OBVIOUS
    <2>1. PICK d \in Connection : Commit(d)
      BY OnlyCommitsWrite
    <2>2. d = c
      BY <2>1 DEF IInv, OneWriter, InTransaction, Commit
    <2>3. j \in Job /\ rows'[j].state = "running" /\ todo[c] = {}
      BY <2>1, <2>2 DEF InState, Commit
    <2>4. CASE draft[c][j] = Untouched
      <3>1. rows[j].state = "running"
        BY <2>1, <2>2, <2>3, <2>4 DEF Commit
      <3>2. j \in InState(rows, "running")
        BY <2>3, <3>1 DEF IInv, TypeOK, InState
      <3> QED BY <2>3, <2>4, <3>2 DEF IInv, RecoversTheRunning
    <2>5. CASE draft[c][j] # Untouched
      <3>1. call[c].target = "interrupted"
        BY DEF IInv, CallInProgress, Call
      <3>2. rows'[j] = [state |-> call[c].target, reason |-> call[c].reason]
        BY <2>1, <2>2, <2>3, <2>5, DraftsFollow DEF Commit
      <3> QED BY <2>3, <3>1, <3>2
    <2> QED BY <2>4, <2>5
  <1> QED BY <1>1, IInvInit, Inductive, PTL DEF Spec, RecoveryIsWhole

(***************************************************************************)
(* The store implements the ledger                                         *)
(***************************************************************************)

\* The ledger's copy of the row and state definitions is the store's.
LEMMA SameRows ==
  /\ Ledger!NoRow = NoRow
  /\ Ledger!NewRow = NewRow
  /\ Ledger!InterruptedRow = InterruptedRow
  /\ Ledger!JobState = JobState
  /\ Ledger!TerminalReason \cup {Ledger!NoReason} = TerminalReason \cup {NoReason}
  /\ \A table : Ledger!InState(table, "running") = InState(table, "running")
  BY DEF Ledger!NoRow, NoRow, Ledger!NoReason, NoReason, Ledger!NewRow, NewRow,
     Ledger!InterruptedRow, InterruptedRow, Ledger!JobState, JobState,
     Ledger!TerminalReason, TerminalReason, Ledger!InState, InState

LEMMA SameProblems ==
  ASSUME NEW state, NEW reason
  PROVE  Ledger!reason_problem(state, reason) <=> reason_problem(state, reason)
  BY DEF Ledger!reason_problem, reason_problem, Ledger!TERMINAL_STATES, TERMINAL_STATES,
     Ledger!REASONS, REASONS, Ledger!NoReason, NoReason

LEMMA SameRecord ==
  ASSUME NEW row
  PROVE  Ledger!record(row) = "ok" <=> record(row) = "ok"
  BY SameRows, SameProblems DEF Ledger!record, record, Ledger!Undeclared, Undeclared

LEMMA SameTransitions ==
  ASSUME NEW current, NEW target, NEW reason
  PROVE  Ledger!check_transition(current, target, reason) = "ok"
           <=> check_transition(current, target, reason) = "ok"
  <1>1. Ledger!LEGAL_TRANSITIONS = LEGAL_TRANSITIONS
    BY DEF Ledger!LEGAL_TRANSITIONS, LEGAL_TRANSITIONS, Ledger!JobState, JobState
  <1> QED BY <1>1, SameProblems DEF Ledger!check_transition, check_transition

LEMMA CommitRefines ==
  ASSUME IInv, NEW c \in Connection, Commit(c)
  PROVE  [Ledger!Next]_rows
  <1>1. /\ pc[c] = "writing" /\ todo[c] = {}
        /\ rows' = [j \in Job |-> IF draft[c][j] = Untouched THEN rows[j]
                                                             ELSE draft[c][j]]
    BY DEF Commit
  <1>2. call[c] \in Call /\ rows = [j \in Job |-> rows[j]]
    BY <1>1 DEF IInv, CallInProgress, TypeOK
  <1>3. CASE call[c].op = "recover"
    <2>1. \A j \in Job : j \in InState(rows, "running") <=> draft[c][j] # Untouched
      BY <1>1, <1>3 DEF IInv, RecoversTheRunning
    <2>2. \A j \in Job : draft[c][j] # Untouched => draft[c][j] = InterruptedRow
      BY <1>1, <1>2, <1>3, DraftsFollow DEF Call, InterruptedRow
    <2>3. \A j \in InState(rows, "running") : record(rows[j]) = "ok"
      BY <1>1, <1>3, <2>1, DraftsFollow DEF IInv, TypeOK, InState
    <2>4. rows' = [j \in Job |-> IF j \in InState(rows, "running")
                                   THEN InterruptedRow ELSE rows[j]]
      BY <1>1, <2>1, <2>2
    <2>5. Ledger!Settle
      BY <2>3, <2>4, SameRows, SameRecord DEF Ledger!Settle
    <2> QED BY <2>5 DEF Ledger!Next
  <1>4. CASE call[c].op # "recover"
    <2>1. PICK j \in Job : \A k \in Job : k # j => draft[c][k] = Untouched
      BY <1>1, <1>4 DEF IInv, OneJob, InTransaction
    <2>2. CASE draft[c][j] = Untouched
      <3>1. rows' = rows
        BY <1>1, <1>2, <2>1, <2>2
      <3> QED BY <3>1
    <2>3. CASE draft[c][j] # Untouched
      <3>1. rows' = [rows EXCEPT ![j] = draft[c][j]]
        BY <1>1, <1>2, <2>1, <2>3
      <3>2. CASE call[c].op = "accept"
        <4>1. draft[c][j] = NewRow /\ rows[j] = NoRow
          BY <1>1, <1>2, <2>3, <3>2, DraftsFollow DEF Call, NewRow
        <4>2. Ledger!Accept(j)
          BY <3>1, <4>1, SameRows DEF Ledger!Accept
        <4> QED BY <4>2 DEF Ledger!Next
      <3>3. CASE call[c].op # "accept"
        <4> DEFINE target == draft[c][j].state
                   reason == draft[c][j].reason
        <4>1. /\ draft[c][j] = [state |-> call[c].target, reason |-> call[c].reason]
              /\ record(rows[j]) = "ok"
              /\ check_transition(rows[j].state, target, reason) = "ok"
          BY <1>1, <2>3, <3>3, DraftsFollow
        <4>2. target = call[c].target /\ reason = call[c].reason
          BY <4>1
        <4>3. target \in JobState /\ reason \in TerminalReason \cup {NoReason}
          <5>1. call[c].target \in JobState /\ call[c].reason \in TerminalReason \cup {NoReason}
            BY <1>2, RequestAssumption DEF Call, JobState, TerminalReason
          <5> QED BY <4>2, <5>1
        <4>4. rows' = [rows EXCEPT ![j] = [state |-> target, reason |-> reason]]
          BY <3>1, <4>1, <4>2
        <4>5. /\ Ledger!record(rows[j]) = "ok"
              /\ Ledger!check_transition(rows[j].state, target, reason) = "ok"
          BY <4>1, SameRecord, SameTransitions
        <4>6. Ledger!Move(j, target, reason)
          BY <4>4, <4>5 DEF Ledger!Move
        <4> HIDE DEF target, reason
        <4> QED BY <4>3, <4>6, SameRows DEF Ledger!Next
      <3> QED BY <3>2, <3>3
    <2> QED BY <2>2, <2>3
  <1> QED BY <1>3, <1>4

\* Whatever connections, interrupts and crashes do, the file changes only as the
\* ledger says.
THEOREM StoreImplementsLedger == Spec => ImplementsLedger
  <1>1. Init => Ledger!Init
    BY SameRows DEF Init, Ledger!Init
  <1>2. IInv /\ [Next]_vars => [Ledger!Next]_rows
    <2> SUFFICES ASSUME IInv, [Next]_vars, rows' # rows PROVE [Ledger!Next]_rows
      OBVIOUS
    <2>1. PICK c \in Connection : Commit(c)
      BY OnlyCommitsWrite
    <2> QED BY <2>1, CommitRefines
  <1> QED BY <1>1, <1>2, IInvInit, Inductive, PTL DEF Spec, ImplementsLedger, Ledger!Spec

(***************************************************************************)
(* Answers: what a caller was told stays true, and one caller wins         *)
(***************************************************************************)

\* What the file already owes a connection's caller: the answer it gave, or the
\* one a committed call is about to give.
Owed(c, j) == IF pc[c] = "committed"
                THEN IF draft[c][j] = Untouched THEN NoRow ELSE draft[c][j]
                ELSE reply[c].told[j]

OwedFor(c) == IF pc[c] = "committed" THEN call[c].op ELSE reply[c].op

Writes == {"accept", "move", "recover"}

OwedHolds ==
  \A c \in Connection, j \in Job :
    Owed(c, j) # NoRow =>
      /\ record(Owed(c, j)) = "ok"
      /\ AtOrBeyond(Owed(c, j), rows[j])

OwedOnce ==
  \A c, d \in Connection, j \in Job :
    c # d /\ {OwedFor(c), OwedFor(d)} \subseteq Writes /\ Owed(c, j) # NoRow
      => Owed(c, j).state # Owed(d, j).state

\* A call in progress has taken its connection's last answer away.
NoOldAnswer ==
  \A c \in Connection : pc[c] \in {"begun", "writing", "committed"} => reply[c] = NoAnswer

AInv == IInv /\ OwedHolds /\ OwedOnce /\ NoOldAnswer

LEMMA NoRowHasNoState == NoRow.state \notin JobState
  BY DEF NoRow, JobState

LEMMA OwedAreRows ==
  ASSUME IInv, NEW c \in Connection, NEW j \in Job
  PROVE  /\ Owed(c, j) \in Row \cup {NoRow}
         /\ record(Owed(c, j)) = "ok" => Owed(c, j).state \in JobState
  <1>1. Owed(c, j) \in Row \cup {NoRow}
    <2>1. draft[c][j] \in Row \cup {Untouched} /\ reply[c].told[j] \in Row \cup {NoRow}
      BY DEF IInv, TypeOK, Answer
    <2> QED BY <2>1 DEF Owed
  <1> QED BY <1>1 DEF Row, record

\* A commit leaves a row alone or takes it strictly further than anything owed.
LEMMA CommitAdvances ==
  ASSUME AInv, NEW c \in Connection, Commit(c),
         NEW d \in Connection, NEW j \in Job, Owed(d, j) # NoRow, rows'[j] # rows[j]
  PROVE  /\ rows'[j].state \in JobState
         /\ Progress(rows'[j].state) > Progress(Owed(d, j).state)
  <1>1. /\ AtOrBeyond(Owed(d, j), rows[j])
        /\ record(Owed(d, j)) = "ok"
        /\ Owed(d, j).state \in JobState
    BY OwedAreRows DEF AInv, OwedHolds
  <1>2. rows[j] # NoRow
    BY <1>1, NoRowHasNoState, Zenon DEF AtOrBeyond
  <1>3. /\ record(rows[j]) = "ok"
        /\ check_transition(rows[j].state, rows'[j].state, rows'[j].reason) = "ok"
    BY <1>2, RowsMoveLegally DEF AInv
  <1>4. rows[j].state \in JobState \cup {Undeclared} /\ rows[j].state # Undeclared
    BY <1>2, <1>3 DEF AInv, IInv, TypeOK, Row, record
  <1>5. /\ rows'[j].state \in JobState
        /\ Progress(rows[j].state) \in Nat /\ Progress(rows'[j].state) \in Nat
        /\ Progress(rows'[j].state) > Progress(rows[j].state)
    BY <1>3, <1>4, TransitionsAdvance
  <1>6. Progress(Owed(d, j).state) \in Nat
    BY <1>1 DEF Progress, JobState, TERMINAL_STATES, REASONS
  <1>7. Progress(rows[j].state) >= Progress(Owed(d, j).state)
    BY <1>1, <1>5, <1>6 DEF AtOrBeyond
  <1> QED BY <1>5, <1>6, <1>7

\* The row a commit writes is one the state machine knows.
LEMMA CommitsAreSound ==
  ASSUME IInv, NEW c \in Connection, NEW j \in Job,
         pc[c] = "writing", draft[c][j] # Untouched
  PROVE  record(draft[c][j]) = "ok" /\ draft[c][j].state \in JobState
  <1>1. call[c] \in Call
    BY DEF IInv, CallInProgress
  <1>2. CASE call[c].op = "accept"
    <2>1. call[c].target = "accepted" /\ call[c].reason = NoReason
      <3>1. call[c] \in [op : {"accept"}, target : {"accepted"}, reason : {NoReason}]
        BY <1>1, <1>2 DEF Call
      <3> QED BY <3>1
    <2>2. draft[c][j] = NewRow
      BY <2>1, DraftsFollow DEF NewRow
    <2>3. record(NewRow) = "ok"
      BY DEF NewRow, record, NoRow, Undeclared, NoReason, reason_problem,
             TERMINAL_STATES, REASONS
    <2> QED BY <2>2, <2>3 DEF NewRow, JobState
  <1>3. CASE call[c].op # "accept"
    <2>1. /\ record(rows[j]) = "ok"
          /\ check_transition(rows[j].state, draft[c][j].state, draft[c][j].reason) = "ok"
      BY <1>3, DraftsFollow
    <2>2. rows[j].state \in JobState \cup {Undeclared} /\ rows[j].state # Undeclared
      BY <2>1 DEF IInv, TypeOK, Row, record
    <2>3. draft[c][j].state \in JobState /\ ~reason_problem(draft[c][j].state, draft[c][j].reason)
      BY <2>1, <2>2, TransitionsAdvance
    <2>4. draft[c][j].reason # Undeclared
      BY <2>3 DEF reason_problem, TERMINAL_STATES, REASONS, NoReason, Undeclared
    <2>5. draft[c][j] # NoRow
      BY <2>3, NoRowHasNoState
    <2>6. draft[c][j].state # Undeclared
      BY <2>3 DEF JobState, Undeclared
    <2>7. record(draft[c][j]) = "ok"
      BY <2>3, <2>4, <2>5, <2>6, Zenon DEF record
    <2> QED BY <2>3, <2>7
  <1> QED BY <1>2, <1>3

LEMMA AInvCommit ==
  ASSUME AInv, NEW c \in Connection, Commit(c), IInv'
  PROVE  AInv'
  <1>1. /\ pc[c] = "writing" /\ pc' = [pc EXCEPT ![c] = "committed"]
        /\ UNCHANGED <<call, draft, reply>>
        /\ rows' = [j \in Job |-> IF draft[c][j] = Untouched THEN rows[j]
                                                             ELSE draft[c][j]]
    BY DEF Commit
  <1>2. \A d \in Connection, j \in Job : d # c =>
           Owed(d, j)' = Owed(d, j) /\ OwedFor(d)' = OwedFor(d)
    BY <1>1 DEF AInv, IInv, TypeOK, Owed, OwedFor
  <1>3. \A j \in Job : Owed(c, j)' = IF draft[c][j] = Untouched THEN NoRow ELSE draft[c][j]
    BY <1>1 DEF AInv, IInv, TypeOK, Owed
  <1>4. \A j \in Job : Owed(c, j)' # NoRow =>
           /\ rows'[j] = Owed(c, j)'
           /\ record(Owed(c, j)') = "ok"
           /\ Owed(c, j)'.state \in JobState
           /\ rows'[j] # rows[j]
    <2> SUFFICES ASSUME NEW j \in Job, Owed(c, j)' # NoRow
                 PROVE  /\ rows'[j] = Owed(c, j)'
                        /\ record(Owed(c, j)') = "ok"
                        /\ Owed(c, j)'.state \in JobState
                        /\ rows'[j] # rows[j]
      OBVIOUS
    <2>1. draft[c][j] # Untouched /\ Owed(c, j)' = draft[c][j] /\ rows'[j] = draft[c][j]
      BY <1>1, <1>3
    <2>2. record(draft[c][j]) = "ok" /\ draft[c][j].state \in JobState
      BY <1>1, <2>1, CommitsAreSound DEF AInv
    <2>3. draft[c][j] # rows[j]
      <3>1. CASE call[c].op = "accept"
        BY <1>1, <2>1, <2>2, <3>1, DraftsFollow DEF AInv, NoRow, JobState
      <3>2. CASE call[c].op # "accept"
        <4>1. /\ record(rows[j]) = "ok"
              /\ check_transition(rows[j].state, draft[c][j].state,
                                  draft[c][j].reason) = "ok"
          BY <1>1, <2>1, <3>2, DraftsFollow DEF AInv
        <4>2. rows[j].state \in JobState \cup {Undeclared} /\ rows[j].state # Undeclared
          BY <4>1 DEF AInv, IInv, TypeOK, Row, record
        <4>3. /\ Progress(rows[j].state) \in Nat /\ Progress(draft[c][j].state) \in Nat
              /\ Progress(draft[c][j].state) > Progress(rows[j].state)
          BY <4>1, <4>2, TransitionsAdvance
        <4> QED BY <4>3
      <3> QED BY <3>1, <3>2
    <2> QED BY <2>1, <2>2, <2>3
  <1>5. OwedHolds'
    <2> SUFFICES ASSUME NEW d \in Connection, NEW j \in Job, Owed(d, j)' # NoRow
                 PROVE  /\ record(Owed(d, j)') = "ok"
                        /\ AtOrBeyond(Owed(d, j)', rows'[j])
      BY DEF OwedHolds
    <2>1. CASE d = c
      BY <1>4, <2>1 DEF AtOrBeyond
    <2>2. CASE d # c
      <3>1. /\ Owed(d, j)' = Owed(d, j) /\ Owed(d, j) # NoRow
            /\ record(Owed(d, j)) = "ok" /\ AtOrBeyond(Owed(d, j), rows[j])
        BY <1>2, <2>2 DEF AInv, OwedHolds
      <3>2. AtOrBeyond(Owed(d, j), rows'[j])
        BY <3>1, CommitAdvances DEF AtOrBeyond
      <3> QED BY <3>1, <3>2
    <2> QED BY <2>1, <2>2
  <1>6. \A d \in Connection, j \in Job :
           d # c /\ (Owed(c, j)' # NoRow \/ Owed(d, j)' # NoRow)
             => Owed(c, j)'.state # Owed(d, j)'.state
    <2> SUFFICES ASSUME NEW d \in Connection, NEW j \in Job, d # c,
                        Owed(c, j)' # NoRow \/ Owed(d, j)' # NoRow
                 PROVE  Owed(c, j)'.state # Owed(d, j)'.state
      OBVIOUS
    <2>1. Owed(d, j)' = Owed(d, j)
      BY <1>2
    <2>2. CASE Owed(c, j)' = NoRow
      <3>1. Owed(d, j).state \in JobState
        BY <2>1, <2>2, OwedAreRows DEF AInv, OwedHolds
      <3> QED BY <2>1, <2>2, <3>1, NoRowHasNoState
    <2>3. CASE Owed(c, j)' # NoRow /\ Owed(d, j) = NoRow
      BY <1>4, <2>1, <2>3, NoRowHasNoState
    <2>4. CASE Owed(c, j)' # NoRow /\ Owed(d, j) # NoRow
      <3>1. Progress(rows'[j].state) > Progress(Owed(d, j).state)
        BY <1>4, <2>4, CommitAdvances
      <3>2. Progress(rows'[j].state) \in Nat
        BY <1>4, <2>4 DEF Progress, JobState, TERMINAL_STATES, REASONS
      <3> QED BY <1>4, <2>1, <2>4, <3>1, <3>2
    <2> QED BY <2>2, <2>3, <2>4
  <1>7. OwedOnce'
    BY <1>2, <1>6 DEF AInv, OwedOnce
  <1>8. NoOldAnswer'
    BY <1>1 DEF AInv, IInv, TypeOK, NoOldAnswer
  <1> QED BY <1>5, <1>7, <1>8 DEF AInv

\* A step that leaves the file alone: what each connection is owed stays, or
\* goes, or is what the file holds and was only read.
LEMMA AInvQuiet ==
  ASSUME AInv, IInv', NoOldAnswer', UNCHANGED rows,
         \A d \in Connection :
           \/ OwedFor(d)' = OwedFor(d) /\ \A j \in Job : Owed(d, j)' = Owed(d, j)
           \/ \A j \in Job : Owed(d, j)' = NoRow
           \/ /\ OwedFor(d)' \notin Writes
              /\ \A j \in Job : Owed(d, j)' # NoRow =>
                   Owed(d, j)' = rows[j] /\ record(rows[j]) = "ok"
  PROVE  AInv'
  <1>1. OwedHolds'
    <2> SUFFICES ASSUME NEW d \in Connection, NEW j \in Job, Owed(d, j)' # NoRow
                 PROVE  /\ record(Owed(d, j)') = "ok"
                        /\ AtOrBeyond(Owed(d, j)', rows[j])
      BY DEF OwedHolds
    <2>1. CASE Owed(d, j)' = Owed(d, j)
      BY <2>1 DEF AInv, OwedHolds
    <2>2. CASE Owed(d, j)' = rows[j] /\ record(rows[j]) = "ok"
      BY <2>2, Zenon DEF AtOrBeyond
    <2> QED BY <2>1, <2>2
  <1>2. OwedOnce'
    <2> SUFFICES ASSUME NEW c \in Connection, NEW d \in Connection, NEW j \in Job,
                        c # d, OwedFor(c)' \in Writes, OwedFor(d)' \in Writes,
                        Owed(c, j)' # NoRow
                 PROVE  Owed(c, j)'.state # Owed(d, j)'.state
      BY DEF OwedOnce
    <2>1. Owed(c, j)' = Owed(c, j) /\ OwedFor(c)' = OwedFor(c) /\ Owed(c, j) # NoRow
      OBVIOUS
    <2>2. CASE Owed(d, j)' = Owed(d, j) /\ OwedFor(d)' = OwedFor(d)
      BY <2>1, <2>2 DEF AInv, OwedOnce
    <2>3. CASE Owed(d, j)' = NoRow
      <3>1. Owed(c, j).state \in JobState
        BY <2>1, OwedAreRows DEF AInv, OwedHolds
      <3> QED BY <2>1, <2>3, <3>1, NoRowHasNoState
    <2> QED BY <2>2, <2>3
  <1> QED BY <1>1, <1>2 DEF AInv

\* A refused, failed or interrupted call leaves its caller with nothing.
LEMMA AInvRefusal ==
  ASSUME AInv, IInv', NEW c \in Connection, NEW op, NEW error,
         Finish(c, Refusal(op, error)), UNCHANGED rows,
         \A d \in Connection : d # c => draft'[d] = draft[d]
  PROVE  AInv'
  <1>1. \A d \in Connection : d # c =>
           OwedFor(d)' = OwedFor(d) /\ \A j \in Job : Owed(d, j)' = Owed(d, j)
    BY DEF AInv, IInv, TypeOK, Finish, OwedFor, Owed
  <1>2. \A j \in Job : Owed(c, j)' = NoRow
    BY DEF AInv, IInv, TypeOK, Finish, Refusal, NothingTold, Owed
  <1>3. NoOldAnswer'
    BY DEF AInv, IInv, TypeOK, Finish, NoOldAnswer
  <1> QED BY <1>1, <1>2, <1>3, AInvQuiet

\* The begin of a write takes the last answer away.
LEMMA AInvBegin ==
  ASSUME AInv, IInv', NEW c \in Connection, NEW request, NEW jobs,
         Begin(c, request, jobs)
  PROVE  AInv'
  <1>1. \A d \in Connection : d # c =>
           OwedFor(d)' = OwedFor(d) /\ \A j \in Job : Owed(d, j)' = Owed(d, j)
    BY DEF AInv, IInv, TypeOK, Begin, OwedFor, Owed
  <1>2. \A j \in Job : Owed(c, j)' = NoRow
    BY DEF AInv, IInv, TypeOK, Begin, NoAnswer, Refusal, NothingTold, Owed
  <1>3. NoOldAnswer'
    BY DEF AInv, IInv, TypeOK, Begin, NoOldAnswer
  <1> QED BY <1>1, <1>2, <1>3, AInvQuiet DEF Begin

\* An idle connection is answered without a transaction of its own.
LEMMA AInvAnswer ==
  ASSUME AInv, IInv', NEW c \in Connection, NEW answer,
         pc[c] = "idle", reply' = [reply EXCEPT ![c] = answer],
         UNCHANGED <<rows, pc, call, draft>>,
         \/ \A j \in Job : answer.told[j] = NoRow
         \/ /\ answer.op = "read"
            /\ \A j \in Job : answer.told[j] # NoRow =>
                 answer.told[j] = rows[j] /\ record(rows[j]) = "ok"
  PROVE  AInv'
  <1>1. \A d \in Connection : d # c =>
           OwedFor(d)' = OwedFor(d) /\ \A j \in Job : Owed(d, j)' = Owed(d, j)
    BY DEF AInv, IInv, TypeOK, OwedFor, Owed
  <1>2. OwedFor(c)' = answer.op /\ \A j \in Job : Owed(c, j)' = answer.told[j]
    BY DEF AInv, IInv, TypeOK, OwedFor, Owed
  <1>3. NoOldAnswer'
    BY DEF AInv, IInv, TypeOK, NoOldAnswer
  <1> QED BY <1>1, <1>2, <1>3, AInvQuiet DEF Writes

\* The answer is handed over: what was owed is now what was told.
LEMMA AInvReturn ==
  ASSUME AInv, IInv', NEW c \in Connection, Return(c)
  PROVE  AInv'
  <1>1. \A d \in Connection :
           OwedFor(d)' = OwedFor(d) /\ \A j \in Job : Owed(d, j)' = Owed(d, j)
    BY DEF AInv, IInv, TypeOK, Return, Finish, OwedFor, Owed
  <1>2. NoOldAnswer'
    BY DEF AInv, IInv, TypeOK, Return, Finish, NoOldAnswer
  <1> QED BY <1>1, <1>2, AInvQuiet DEF Return

\* A crash takes the answers that were still owed, and leaves those given.
LEMMA AInvCrash == AInv /\ IInv' /\ Crash => AInv'
  <1> SUFFICES ASSUME AInv, IInv', Crash PROVE AInv'
    OBVIOUS
  <1>1. ASSUME NEW d \in Connection, pc[d] = "committed"
        PROVE  \A j \in Job : Owed(d, j)' = NoRow
    BY <1>1 DEF AInv, NoOldAnswer, NoAnswer, Refusal, NothingTold, Crash, Owed
  <1>2. ASSUME NEW d \in Connection, pc[d] # "committed"
        PROVE  OwedFor(d)' = OwedFor(d) /\ \A j \in Job : Owed(d, j)' = Owed(d, j)
    BY <1>2 DEF Crash, Owed, OwedFor
  <1>3. NoOldAnswer'
    BY DEF Crash, NoOldAnswer
  <1> QED BY <1>1, <1>2, <1>3, AInvQuiet DEF Crash

LEMMA AInvInit == Init => AInv
  <1> SUFFICES ASSUME Init PROVE AInv
    OBVIOUS
  <1>1. \A c \in Connection, j \in Job : Owed(c, j) = NoRow
    BY DEF Init, Owed, NoAnswer, Refusal, NothingTold
  <1> QED BY <1>1, IInvInit DEF Init, AInv, OwedHolds, OwedOnce, NoOldAnswer

LEMMA AInvInductive == AInv /\ [Next]_vars => AInv'
  <1> SUFFICES ASSUME AInv, [Next]_vars PROVE AInv'
    OBVIOUS
  <1>1. IInv'
    BY Inductive DEF AInv
  <1>2. CASE Crash
    BY <1>1, <1>2, AInvCrash
  <1>3. CASE UNCHANGED vars
    <2>1. \A d \in Connection :
             OwedFor(d)' = OwedFor(d) /\ \A j \in Job : Owed(d, j)' = Owed(d, j)
      BY <1>3 DEF vars, OwedFor, Owed
    <2>2. NoOldAnswer'
      BY <1>3 DEF vars, AInv, NoOldAnswer
    <2> QED BY <1>1, <1>3, <2>1, <2>2, AInvQuiet DEF vars
  <1>4. ASSUME NEW c \in Connection, Step(c) PROVE AInv'
    <2>1. CASE Open(c) \/ Close(c)
      <3>1. \A d \in Connection :
               OwedFor(d)' = OwedFor(d) /\ \A j \in Job : Owed(d, j)' = Owed(d, j)
        BY <2>1 DEF AInv, IInv, TypeOK, Open, Close, OwedFor, Owed
      <3>2. NoOldAnswer'
        BY <2>1 DEF AInv, IInv, TypeOK, Open, Close, NoOldAnswer
      <3> QED BY <1>1, <2>1, <3>1, <3>2, AInvQuiet DEF Open, Close
    <2>2. ASSUME NEW request, NEW jobs, Begin(c, request, jobs) \/ Locked(c, request)
          PROVE  AInv'
      <3>1. CASE Begin(c, request, jobs)
        BY <1>1, <3>1, AInvBegin
      <3>2. CASE Locked(c, request)
        <4>1. \A j \in Job : Refusal(request.op, "OperationalError").told[j] = NoRow
          BY DEF Refusal, NothingTold
        <4> QED BY <1>1, <3>2, <4>1, AInvAnswer DEF Locked
      <3> QED BY <2>2, <3>1, <3>2
    <2>3. CASE \/ \E j \in Job : accept(c, j)
               \/ \E j \in Job, r \in Request : move(c, j, r)
               \/ recover_after_restart(c)
      BY <2>2, <2>3 DEF accept, move, recover_after_restart
    <2>4. ASSUME \/ Select(c)
                 \/ \E j \in Job : Write(c, j)
          PROVE AInv'
      <3>1. \A d \in Connection :
               OwedFor(d)' = OwedFor(d) /\ \A j \in Job : Owed(d, j)' = Owed(d, j)
        BY <2>4 DEF AInv, IInv, TypeOK, Select, Write, OwedFor, Owed
      <3>2. NoOldAnswer'
        BY <2>4 DEF AInv, IInv, TypeOK, Select, Write, NoOldAnswer
      <3> QED BY <1>1, <2>4, <3>1, <3>2, AInvQuiet DEF Select, Write
    <2>5. ASSUME NEW error, Rollback(c, error) PROVE AInv'
      BY <1>1, <2>5, AInvRefusal DEF AInv, IInv, TypeOK, Rollback
    <2>6. CASE (\E j \in Job : Refuse(c, j)) \/ StorageFails(c)
      BY <2>5, <2>6 DEF Refuse, StorageFails
    <2>7. CASE Commit(c)
      BY <1>1, <2>7, AInvCommit
    <2>8. CASE Return(c)
      BY <1>1, <2>8, AInvReturn
    <2>9. CASE InterruptCall(c) \/ InterruptBegin(c)
      <3>1. CASE \E error : Rollback(c, error)
        BY <2>5, <3>1
      <3>2. CASE ~ \E error : Rollback(c, error)
        BY <1>1, <2>9, <3>2, AInvRefusal
           DEF AInv, IInv, TypeOK, InterruptCall, InterruptBegin
      <3> QED BY <3>1, <3>2
    <2>10. ASSUME NEW j \in Job, read(c, j) PROVE AInv'
      <3> DEFINE answer == [op |-> "read", outcome |-> record(rows[j]),
                            told |-> IF record(rows[j]) = "ok"
                                       THEN [NothingTold EXCEPT ![j] = rows[j]]
                                       ELSE NothingTold]
      <3>1. /\ answer.op = "read"
            /\ \A k \in Job : answer.told[k] # NoRow =>
                 answer.told[k] = rows[k] /\ record(rows[k]) = "ok"
        BY DEF NothingTold
      <3>2. /\ pc[c] = "idle" /\ reply' = [reply EXCEPT ![c] = answer]
            /\ UNCHANGED <<rows, pc, call, draft>>
        BY <2>10 DEF read
      <3> HIDE DEF answer
      <3> QED BY <1>1, <3>1, <3>2, AInvAnswer
    <2>11. ASSUME NEW s \in Listed, in_state(c, s) PROVE AInv'
      <3> DEFINE listed == InState(rows, s)
                 sound == \A j \in listed : record(rows[j]) = "ok"
                 answer == [op |-> "read",
                            outcome |-> IF sound THEN "ok" ELSE "CorruptJobStoreError",
                            told |-> IF sound
                                       THEN [j \in Job |-> IF j \in listed THEN rows[j]
                                                                           ELSE NoRow]
                                       ELSE NothingTold]
      <3>1. /\ answer.op = "read"
            /\ \A k \in Job : answer.told[k] # NoRow =>
                 answer.told[k] = rows[k] /\ record(rows[k]) = "ok"
        BY DEF NothingTold
      <3>2. /\ pc[c] = "idle" /\ reply' = [reply EXCEPT ![c] = answer]
            /\ UNCHANGED <<rows, pc, call, draft>>
        BY <2>11 DEF in_state
      <3> HIDE DEF answer
      <3> QED BY <1>1, <3>1, <3>2, AInvAnswer
    <2> QED BY <1>4, <2>1, <2>3, <2>4, <2>6, <2>7, <2>8, <2>9, <2>10, <2>11 DEF Step
  <1> QED BY <1>2, <1>3, <1>4 DEF Next

\* Whatever a caller was told about a job stays true, after any number of other
\* writers, failed calls, interrupts and restarts (store.py:6-12).
THEOREM AnswersAlwaysHold == Spec => []AnswersHold
  <1>1. AInv => AnswersHold
    <2> SUFFICES ASSUME AInv, NEW c \in Connection, NEW j \in Job,
                        reply[c].told[j] # NoRow
                 PROVE  AtOrBeyond(reply[c].told[j], rows[j])
      BY DEF AnswersHold
    <2>1. pc[c] # "committed"
      BY DEF AInv, NoOldAnswer, NoAnswer, Refusal, NothingTold
    <2> QED BY <2>1 DEF AInv, OwedHolds, Owed
  <1> QED BY <1>1, AInvInit, AInvInductive, PTL DEF Spec

\* Two callers are never both told that their write put a job into one state
\* (store.py:99-113, 190-195).
THEOREM AtMostOneWinner == Spec => []OneWinner
  <1>1. AInv => OneWinner
    <2> SUFFICES ASSUME AInv, NEW c \in Connection, NEW d \in Connection, NEW j \in Job,
                        c # d, {reply[c].op, reply[d].op} \subseteq Writes,
                        reply[c].told[j] # NoRow
                 PROVE  reply[c].told[j].state # reply[d].told[j].state
      BY DEF OneWinner, Writes
    <2>1. \A e \in Connection : reply[e].op \in Writes =>
            pc[e] # "committed"
      BY DEF AInv, NoOldAnswer, NoAnswer, Refusal, Writes
    <2> QED BY <2>1 DEF AInv, OwedOnce, Owed, OwedFor
  <1> QED BY <1>1, AInvInit, AInvInductive, PTL DEF Spec
=============================================================================
