----------------------------- MODULE JobStore ------------------------------
(***************************************************************************)
(* The durable job store of src/src/retusche/queue/store.py: connections   *)
(* over one SQLite file, each running one call at a time, each write one   *)
(* transaction of several statements that other connections, an interrupt  *)
(* of the calling thread, or the end of the process may fall between.      *)
(*                                                                         *)
(* SQLite itself is outside the repository and is modelled from the way    *)
(* the store opens and uses it: BEGIN IMMEDIATE takes the one write lock,  *)
(* what is written stays with the connection until COMMIT, and a COMMIT is *)
(* in the file for good (write-ahead log, synchronous = FULL).             *)
(***************************************************************************)
EXTENDS JobRows

CONSTANTS Job,             \* job identifiers
          Connection,      \* JobStore objects over one file
          Request,         \* the moves callers ask for: [target, reason]
          FileRow,         \* rows a file from elsewhere may already hold
          Listed,          \* the states callers list jobs in
          Interruptible    \* connections of a thread that signals may interrupt

VARIABLES rows,     \* the committed file
          lock,     \* the connection that holds the write lock, or Nobody
          pc,       \* where each connection is in its call
          call,     \* the write in progress: [op, target, reason]
          todo,     \* the rows that write has still to decide and update
          seen,     \* the table as that write's SELECT read it
          draft,    \* its uncommitted rows; Untouched where it wrote nothing
          reply     \* what each connection last answered, until its next write

vars == <<rows, lock, pc, call, todo, seen, draft, reply>>

Ledger == INSTANCE JobLedger

Nobody == "nobody"
Untouched == [state |-> "untouched", reason |-> NoReason]

ASSUME FileRowAssumption == FileRow \subseteq Row

ASSUME RequestAssumption ==
  Request \subseteq [target : JobState, reason : TerminalReason \cup {NoReason}]

ASSUME ListedAssumption == Listed \subseteq JobState

ASSUME ConnectionAssumption == Nobody \notin Connection

\* The three writes, each with the state and reason it puts into a row.
Call == [op : {"accept"}, target : {"accepted"}, reason : {NoReason}]
        \cup [op : {"recover"}, target : {"interrupted"},
              reason : {"interrupted-by-shutdown"}]
        \cup {[op |-> "move", target |-> r.target, reason |-> r.reason] :
                r \in Request}

NoCall == [op |-> "none", target |-> "accepted", reason |-> NoReason]

\* An answer: the call, how it ended, and the rows it told the caller about.
Answer == [op : {"none", "accept", "move", "recover", "read"},
           outcome : {"ok", "DuplicateJobError", "UnknownJobError",
                      "CorruptJobStoreError", "IllegalTransitionError",
                      "TerminalReasonError", "OperationalError",
                      "KeyboardInterrupt"},
           told : [Job -> Row \cup {NoRow}]]

NothingTold == [j \in Job |-> NoRow]
Clean == [j \in Job |-> Untouched]

Refusal(op, error) == [op |-> op, outcome |-> error, told |-> NothingTold]

NoAnswer == Refusal("none", "ok")

InTransaction == {"begun", "writing"}

-----------------------------------------------------------------------------
Init == /\ rows \in [Job -> FileRow \cup {NoRow}]
        /\ lock = Nobody
        /\ pc = [c \in Connection |-> "closed"]
        /\ call = [c \in Connection |-> NoCall]
        /\ todo = [c \in Connection |-> {}]
        /\ seen = [c \in Connection |-> NothingTold]
        /\ draft = [c \in Connection |-> Clean]
        /\ reply = [c \in Connection |-> NoAnswer]

\* The connection is done with its call and answers this.
Finish(c, answer) ==
  /\ pc' = [pc EXCEPT ![c] = "idle"]
  /\ call' = [call EXCEPT ![c] = NoCall]
  /\ todo' = [todo EXCEPT ![c] = {}]
  /\ seen' = [seen EXCEPT ![c] = NothingTold]
  /\ reply' = [reply EXCEPT ![c] = answer]

\* ROLLBACK, and the error goes on to the caller.
Rollback(c, error) ==
  /\ draft' = [draft EXCEPT ![c] = Clean]
  /\ lock' = Nobody
  /\ Finish(c, Refusal(call[c].op, error))
  /\ UNCHANGED rows

Open(c) ==
  /\ pc[c] = "closed"
  /\ pc' = [pc EXCEPT ![c] = "idle"]
  /\ UNCHANGED <<rows, lock, call, todo, seen, draft, reply>>

\* Closing a connection drops a transaction it was left holding.
Close(c) ==
  /\ pc[c] = "idle"
  /\ pc' = [pc EXCEPT ![c] = "closed"]
  /\ lock' = IF lock = c THEN Nobody ELSE lock
  /\ UNCHANGED <<rows, call, todo, seen, draft, reply>>

\* Mutant of Begin: a plain BEGIN, which takes no lock until it writes.
BeginDeferred(c, request, jobs) ==
  /\ pc[c] = "idle"
  /\ lock' = c
  /\ pc' = [pc EXCEPT ![c] = "begun"]
  /\ call' = [call EXCEPT ![c] = request]
  /\ todo' = [todo EXCEPT ![c] = jobs]
  /\ reply' = [reply EXCEPT ![c] = NoAnswer]
  /\ UNCHANGED <<rows, seen, draft>>

\* BEGIN IMMEDIATE: the write lock is taken before anything is read.
Begin(c, request, jobs) ==
  /\ pc[c] = "idle"
  /\ lock = Nobody
  /\ lock' = c
  /\ pc' = [pc EXCEPT ![c] = "begun"]
  /\ call' = [call EXCEPT ![c] = request]
  /\ todo' = [todo EXCEPT ![c] = jobs]
  /\ reply' = [reply EXCEPT ![c] = NoAnswer]
  /\ UNCHANGED <<rows, seen, draft>>

\* BEGIN IMMEDIATE fails: another connection keeps the lock for longer than
\* the busy timeout, or this one was left inside a transaction.
Locked(c, request) ==
  /\ pc[c] = "idle"
  /\ lock # Nobody
  /\ reply' = [reply EXCEPT ![c] = Refusal(request.op, "OperationalError")]
  /\ UNCHANGED <<rows, lock, pc, call, todo, seen, draft>>

\* accept and move name one job; recover_after_restart names none yet.
accept(c, j) ==
  LET request == [op |-> "accept", target |-> "accepted", reason |-> NoReason]
  IN  Begin(c, request, {j}) \/ Locked(c, request)

move(c, j, r) ==
  LET request == [op |-> "move", target |-> r.target, reason |-> r.reason]
  IN  Begin(c, request, {j}) \/ Locked(c, request)

recover_after_restart(c) ==
  LET request == [op |-> "recover", target |-> "interrupted",
                  reason |-> "interrupted-by-shutdown"]
  IN  Begin(c, request, {}) \/ Locked(c, request)

\* The SELECT inside the transaction.  A recovery lists the running jobs here.
Select(c) ==
  /\ pc[c] = "begun"
  /\ seen' = [seen EXCEPT ![c] = rows]
  /\ todo' = [todo EXCEPT ![c] = IF call[c].op = "recover"
                                   THEN InState(rows, "running") ELSE @]
  /\ pc' = [pc EXCEPT ![c] = "writing"]
  /\ UNCHANGED <<rows, lock, call, draft, reply>>

\* Mutants of Verdict: INSERT OR REPLACE, and a move that trusts the raw row.
VerdictReplaces(c, j) ==
  CASE call[c].op = "accept" -> "ok"
    [] call[c].op # "accept" /\ record(seen[c][j]) # "ok" -> record(seen[c][j])
    [] OTHER -> check_transition(seen[c][j].state, call[c].target, call[c].reason)

VerdictTrusts(c, j) ==
  CASE call[c].op = "accept" ->
         IF rows[j] = NoRow THEN "ok" ELSE "DuplicateJobError"
    [] call[c].op # "accept" /\ seen[c][j] = NoRow -> "UnknownJobError"
    [] OTHER -> check_transition(seen[c][j].state, call[c].target, call[c].reason)

\* How the row for one job is decided: the error that ends the call, or "ok".
Verdict(c, j) ==
  CASE call[c].op = "accept" ->
         IF rows[j] = NoRow THEN "ok" ELSE "DuplicateJobError"
    [] call[c].op # "accept" /\ record(seen[c][j]) # "ok" -> record(seen[c][j])
    [] OTHER -> check_transition(seen[c][j].state, call[c].target, call[c].reason)

\* Mutant of Write: every statement commits by itself.
WriteAutocommits(c, j) ==
  /\ pc[c] = "writing"
  /\ j \in todo[c]
  /\ Verdict(c, j) = "ok"
  /\ draft' = [draft EXCEPT ![c][j] = [state  |-> call[c].target,
                                       reason |-> call[c].reason]]
  /\ rows' = [rows EXCEPT ![j] = draft'[c][j]]
  /\ todo' = [todo EXCEPT ![c] = @ \ {j}]
  /\ UNCHANGED <<lock, pc, call, seen, reply>>

\* One INSERT or UPDATE; a recovery does one for each job it listed.
Write(c, j) ==
  /\ pc[c] = "writing"
  /\ j \in todo[c]
  /\ Verdict(c, j) = "ok"
  /\ draft' = [draft EXCEPT ![c][j] = [state  |-> call[c].target,
                                       reason |-> call[c].reason]]
  /\ todo' = [todo EXCEPT ![c] = @ \ {j}]
  /\ UNCHANGED <<rows, lock, pc, call, seen, reply>>

Refuse(c, j) ==
  /\ pc[c] = "writing"
  /\ j \in todo[c]
  /\ Verdict(c, j) # "ok"
  /\ Rollback(c, Verdict(c, j))

\* The statement or the COMMIT fails inside SQLite, which undoes the write.
StorageFails(c) ==
  /\ pc[c] \in InTransaction
  /\ Rollback(c, "OperationalError")

\* Mutants of Commit: the COMMIT is forgotten, or takes the whole table along.
CommitForgotten(c) ==
  /\ pc[c] = "writing"
  /\ todo[c] = {}
  /\ lock' = Nobody
  /\ pc' = [pc EXCEPT ![c] = "committed"]
  /\ UNCHANGED <<rows, call, todo, seen, draft, reply>>

CommitWholesale(c) ==
  /\ pc[c] = "writing"
  /\ todo[c] = {}
  /\ rows' = draft[c]
  /\ lock' = Nobody
  /\ pc' = [pc EXCEPT ![c] = "committed"]
  /\ UNCHANGED <<call, todo, seen, draft, reply>>

Commit(c) ==
  /\ pc[c] = "writing"
  /\ todo[c] = {}
  /\ rows' = [j \in Job |-> IF draft[c][j] = Untouched THEN rows[j]
                                                       ELSE draft[c][j]]
  /\ lock' = Nobody
  /\ pc' = [pc EXCEPT ![c] = "committed"]
  /\ UNCHANGED <<call, todo, seen, draft, reply>>

\* The record goes back to the caller, who may act on it from here on.
Return(c) ==
  /\ pc[c] = "committed"
  /\ draft' = [draft EXCEPT ![c] = Clean]
  /\ Finish(c, [op |-> call[c].op, outcome |-> "ok",
                told |-> [j \in Job |-> IF draft[c][j] = Untouched
                                          THEN NoRow ELSE draft[c][j]]])
  /\ UNCHANGED <<rows, lock>>

\* A signal handler raises in the thread.  In the body of the transaction the
\* write is rolled back; after the COMMIT only the answer is lost.  The interpreter
\* runs a handler after a call and when a function is entered or resumed, and the
\* way from the resumed yield to the COMMIT has neither outside the try.
InterruptCall(c) ==
  /\ c \in Interruptible
  /\ \/ pc[c] \in InTransaction /\ Rollback(c, "KeyboardInterrupt")
     \/ /\ pc[c] = "committed"
        /\ draft' = [draft EXCEPT ![c] = Clean]
        /\ Finish(c, Refusal(call[c].op, "KeyboardInterrupt"))
        /\ UNCHANGED <<rows, lock>>

\* The BEGIN returns and the handler raises before the try block is entered:
\* nothing rolls back, and the connection keeps the lock with no call running.
InterruptBegin(c) ==
  /\ c \in Interruptible
  /\ pc[c] = "begun"
  /\ Finish(c, Refusal(call[c].op, "KeyboardInterrupt"))
  /\ UNCHANGED <<rows, lock, draft>>

read(c, j) ==
  /\ pc[c] = "idle"
  /\ LET answer == record(rows[j])
     IN  reply' = [reply EXCEPT ![c] =
           [op |-> "read", outcome |-> answer,
            told |-> IF answer = "ok" THEN [NothingTold EXCEPT ![j] = rows[j]]
                                      ELSE NothingTold]]
  /\ UNCHANGED <<rows, lock, pc, call, todo, seen, draft>>

\* A row that cannot be read refuses the whole listing.
in_state(c, state) ==
  /\ pc[c] = "idle"
  /\ LET listed == InState(rows, state)
         sound == \A j \in listed : record(rows[j]) = "ok"
     IN  reply' = [reply EXCEPT ![c] =
           [op |-> "read",
            outcome |-> IF sound THEN "ok" ELSE "CorruptJobStoreError",
            told |-> IF sound
                       THEN [j \in Job |-> IF j \in listed THEN rows[j] ELSE NoRow]
                       ELSE NothingTold]]
  /\ UNCHANGED <<rows, lock, pc, call, todo, seen, draft>>

\* The process ends, or the host does.  The file keeps what was committed, and
\* callers keep the answers they were given.
Crash ==
  /\ \E c \in Connection : pc[c] # "closed"
  /\ lock' = Nobody
  /\ pc' = [c \in Connection |-> "closed"]
  /\ call' = [c \in Connection |-> NoCall]
  /\ todo' = [c \in Connection |-> {}]
  /\ seen' = [c \in Connection |-> NothingTold]
  /\ draft' = [c \in Connection |-> Clean]
  /\ UNCHANGED <<rows, reply>>

Step(c) ==
  \/ Open(c)
  \/ Close(c)
  \/ \E j \in Job : accept(c, j)
  \/ \E j \in Job, r \in Request : move(c, j, r)
  \/ recover_after_restart(c)
  \/ Select(c)
  \/ \E j \in Job : Write(c, j)
  \/ \E j \in Job : Refuse(c, j)
  \/ StorageFails(c)
  \/ Commit(c)
  \/ Return(c)
  \/ InterruptCall(c)
  \/ InterruptBegin(c)
  \/ \E j \in Job : read(c, j)
  \/ \E s \in Listed : in_state(c, s)

Next == Crash \/ \E c \in Connection : Step(c)

Spec == Init /\ [][Next]_vars

-----------------------------------------------------------------------------
(* Properties                                                              *)

TypeOK ==
  /\ rows \in [Job -> Row \cup {NoRow}]
  /\ lock \in Connection \cup {Nobody}
  /\ pc \in [Connection -> {"closed", "idle", "begun", "writing", "committed"}]
  /\ call \in [Connection -> Call \cup {NoCall}]
  /\ todo \in [Connection -> SUBSET Job]
  /\ seen \in [Connection -> [Job -> Row \cup {NoRow}]]
  /\ draft \in [Connection -> [Job -> Row \cup {Untouched}]]
  /\ reply \in [Connection -> Answer]

\* This row is what a caller was told, or a state the job can only have reached
\* from there.
AtOrBeyond(told, now) ==
  \/ now = told
  \/ /\ now.state \in JobState
     /\ Progress(now.state) > Progress(told.state)

\* Whatever a caller was told about a job is never taken back: the file holds
\* that row or a later one of the same job, after any number of other writers,
\* failed calls, interrupts and restarts (store.py:6-12, states.py:242-244).
AnswersHold ==
  \A c \in Connection, j \in Job :
    reply[c].told[j] # NoRow => AtOrBeyond(reply[c].told[j], rows[j])

\* Two callers are never both told that their write put one job into the same
\* state: two dispatchers cannot both start it, two recoveries cannot both
\* settle it, and one identifier is not accepted twice (store.py:99-113, 190-195).
OneWinner ==
  \A c, d \in Connection, j \in Job :
    /\ c # d
    /\ {reply[c].op, reply[d].op} \subseteq {"accept", "move", "recover"}
    /\ reply[c].told[j] # NoRow
    => reply[c].told[j].state # reply[d].told[j].state

\* What a transaction has decided to write still follows from the file, however
\* many statements ago it read it (store.py:250-254).
DecisionsStand ==
  \A c \in Connection, j \in Job :
    /\ pc[c] = "writing"
    /\ draft[c][j] # Untouched
    => IF call[c].op = "accept" THEN rows[j] = NoRow
       ELSE /\ record(rows[j]) = "ok"
            /\ check_transition(rows[j].state, draft[c][j].state,
                                draft[c][j].reason) = "ok"

\* The file changes only as the ledger says: one new job, one legal move, or
\* every running job settled at once; an interrupted or failed call, a refusal
\* and a crash change nothing (store.py:186-195, 249-262).
ImplementsLedger == Ledger!Spec

\* A recovery settles every job the last process left running, or none of them:
\* a failure, a refusal or a crash part way leaves all of them running
\* (store.py:205-245; the code's own test is a failure between two updates).
RecoveryIsWhole ==
  [][\A c \in Connection :
       /\ pc[c] = "writing"
       /\ call[c].op = "recover"
       /\ rows' # rows
       => InState(rows', "running") = {}]_vars

\* A finished job is never changed again, and neither is a row the state machine
\* does not know: it is refused, not repaired (states.py:144-145, store.py:116-124).
FinishedStaysFinished ==
  [][\A j \in Job :
       (rows[j] # NoRow /\ (\/ record(rows[j]) # "ok"
                            \/ rows[j].state \in TERMINAL_STATES))
       => rows'[j] = rows[j]]_vars
=============================================================================
