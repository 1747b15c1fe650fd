--------------------------- MODULE ArtefactFetch ---------------------------
(***************************************************************************)
(* Fetching model artefacts into the store: src/src/retusche/models/       *)
(* fetch.py over src/src/retusche/models/storage.py.                       *)
(*                                                                         *)
(* The store is a directory tree that every fetch, every removal and the   *)
(* operator work on at once.  A name leads to a file; unlinking or         *)
(* renaming a name leaves a file that is open for writing as it is, so a   *)
(* fetch goes on writing to the file it created whatever became of the     *)
(* name.  Sizes are counted in chunks.  An identifier is its characters,   *)
(* of which a few stand for the letters and digits there are.              *)
(***************************************************************************)
EXTENDS Naturals, Sequences, FiniteSetsExt

CONSTANTS Fetch,        \* callers of fetch_artefact
          Entry,        \* registry entries
          ModelOf,      \* the identifier, and so the directory, of each entry
          Size,         \* the size each entry declares
          Source,       \* the scheme and the host of each entry's source
          Budget,       \* the store's ceiling
          File,         \* files there can be at once
          LiveDeletion  \* whether names may be deleted under a running fetch

VARIABLES tree,      \* the file each name leads to, or NoFile
          dirs,      \* the models that have a directory
          file,      \* how much each file holds and whether it is as published
          pc,        \* where each caller is in fetch_artefact
          entry,     \* the entry it fetches
          handle,    \* the file it created and writes
          listed,    \* the names its walk of the store came upon
          outcome,   \* how its last call ended
          removing,  \* the model being removed, or NoModel
          doomed,    \* the names that removal has still to unlink
          orphans,   \* history: files left by a caller that was killed
          left,      \* history: files left by a call that ended outside its cleanup
          alone      \* history: no two fetches were ever in progress at once

vars == <<tree, dirs, file, pc, entry, handle, listed, outcome,
          removing, doomed, orphans, left, alone>>

NoFile == "no file"
NoEntry == "no entry"
NoModel == <<"no model">>

Model == {ModelOf[e] : e \in Entry}

StorageErrors == {"UnusableIdentifierError", "OverDiskBudgetError", "NotEnoughSpaceError"}
FetchErrors == {"UnusableSourceError", "SizeMismatchError", "DigestMismatchError",
                "FetchInProgressError"}

LOOPBACK_HOSTS == {"127.0.0.1", "::1", "localhost"}
PERMITTED_IN_IDENTIFIER == {"a", "b", "0", "-", ".", "_"}

ASSUME StoreAssumption ==
  /\ Size \in [Entry -> Nat]
  /\ ModelOf \in [Entry -> Seq(STRING)]
  /\ Budget \in Nat
  /\ LiveDeletion \in BOOLEAN
  /\ NoFile \notin File
  /\ NoModel \notin Model
  /\ NoEntry \notin Entry

\* Mutant of refuses_as_directory: the characters are not looked at.
refuses_as_directoryDotted(identifier) == identifier = <<>> \/ identifier[1] = "."

\* An identifier that is not made into a directory name, neither to install nor to
\* remove: the empty one, one that begins with a dot, and one with any other character
\* than lower-case letters, digits, hyphen, dot and underscore.
refuses_as_directory(identifier) ==
  \/ identifier = <<>>
  \/ identifier[1] = "."
  \/ \E i \in DOMAIN identifier : identifier[i] \notin PERMITTED_IN_IDENTIFIER

\* https from anywhere, http from the loopback interface.
refuses_source(source) ==
  /\ source.scheme # "https"
  /\ ~(source.scheme = "http" /\ source.host \in LOOPBACK_HOSTS)

artefact_path(e) == <<e, "artefact">>
incoming_path(e) == <<e, "incoming">>

Name == Entry \X {"artefact", "incoming"}

\* The names there are now, in one directory or in all of them.
Present == {n \in Name : tree[n] # NoFile}
NamesOf(m) == {n \in Present : ModelOf[n[1]] = m}

\* The identifiers an operator is shown, read off the directories.
installed == dirs

holds(e) == tree[artefact_path(e)] # NoFile

\* Mutant of used_bytes: what is still incoming is not counted.
used_bytesInstalled(names) ==
  MapThenSumSet(LAMBDA n : IF n[2] = "artefact" THEN file[tree[n]].length ELSE 0, names)

used_bytes(names) == MapThenSumSet(LAMBDA n : file[tree[n]].length, names)

Working == {"created", "failing", "received"}

\* A file nothing leads to any more and nobody has open.
Free == {i \in File : /\ \A n \in Name : tree[n] # i
                      /\ \A p \in Fetch : pc[p] \in Working => handle[p] # i}

\* Deletions spare a model while one of its entries is being fetched, unless the
\* operator and the callers of remove do not look.
MayDelete(m) == LiveDeletion \/ \A p \in Fetch : pc[p] # "idle" => ModelOf[entry[p]] # m

-----------------------------------------------------------------------------
Init == /\ tree = [n \in Name |-> NoFile]
        /\ dirs = {}
        /\ file = [i \in File |-> [length |-> 0, sound |-> TRUE]]
        /\ pc = [p \in Fetch |-> "idle"]
        /\ entry = [p \in Fetch |-> NoEntry]
        /\ handle = [p \in Fetch |-> NoFile]
        /\ listed = [p \in Fetch |-> {}]
        /\ outcome = [p \in Fetch |-> "none"]
        /\ removing = NoModel
        /\ doomed = {}
        /\ orphans = {}
        /\ left = {}
        /\ alone = TRUE

Goto(p, place) == /\ pc' = [pc EXCEPT ![p] = place]
                  /\ UNCHANGED <<entry, outcome>>

\* The call ends, with the path or with what it raised.
End(p, how) == /\ pc' = [pc EXCEPT ![p] = "idle"]
               /\ outcome' = [outcome EXCEPT ![p] = how]
               /\ handle' = [handle EXCEPT ![p] = NoFile]
               /\ listed' = [listed EXCEPT ![p] = {}]
               /\ entry' = [entry EXCEPT ![p] = NoEntry]

\* The call goes on to its cleanup with what it raised.
Fail(p, error) == /\ pc' = [pc EXCEPT ![p] = "failing"]
                  /\ outcome' = [outcome EXCEPT ![p] = error]
                  /\ UNCHANGED entry

\* An exception ends the call where nothing cleans up after it: a file it has
\* created stays under its name.
Abandon(p, error) ==
  /\ End(p, error)
  /\ left' = IF pc[p] \in Working THEN left \cup {handle[p]} ELSE left
  /\ UNCHANGED <<tree, dirs, file, removing, doomed, orphans, alone>>

\* The beginning: an identifier that is no directory name is refused by the first
\* question, an installed artefact is answered with, and a source of a scheme nobody
\* opens is refused.
fetch_artefact(p, e) ==
  /\ pc[p] = "idle"
  /\ LiveDeletion \/ removing # ModelOf[e]
  /\ LET unusable == refuses_as_directory(ModelOf[e])
         ended == CASE unusable -> "UnusableIdentifierError"
                    [] ~unusable /\ holds(e) -> "path"
                    [] ~unusable /\ ~holds(e) /\ refuses_source(Source[e]) -> "UnusableSourceError"
                    [] OTHER -> "none"
     IN  /\ outcome' = [outcome EXCEPT ![p] = ended]
         /\ pc' = [pc EXCEPT ![p] = IF ended = "none" THEN "asking" ELSE "idle"]
         /\ entry' = [entry EXCEPT ![p] = IF ended = "none" THEN e ELSE NoEntry]
         /\ alone' = (alone /\ (ended # "none" \/ \A q \in Fetch : pc[q] = "idle"))
  /\ UNCHANGED <<tree, dirs, file, handle, listed, removing, doomed, orphans, left>>

\* The walk of the store lists its names; an artefact that has arrived in the
\* meantime is asked neither question.
room_for(p) ==
  /\ pc[p] = "asking"
  /\ IF holds(entry[p])
       THEN Goto(p, "room") /\ UNCHANGED listed
       ELSE Goto(p, "listed") /\ listed' = [listed EXCEPT ![p] = Present]
  /\ UNCHANGED <<tree, dirs, file, handle, removing, doomed, orphans, left, alone>>

\* The names are measured and the sum is held against the ceiling, then the disk
\* is asked.  A name that is gone by now ends the call.
Measure(p) ==
  /\ pc[p] = "listed"
  /\ \/ listed[p] \ Present # {} /\ End(p, "FileNotFoundError")
     \/ /\ listed[p] \subseteq Present
        /\ IF used_bytes(listed[p]) + Size[entry[p]] > Budget
             THEN End(p, "OverDiskBudgetError")
             ELSE \/ End(p, "NotEnoughSpaceError")
                  \/ /\ Goto(p, "room")
                     /\ listed' = [listed EXCEPT ![p] = {}]
                     /\ UNCHANGED handle
  /\ UNCHANGED <<tree, dirs, file, removing, doomed, orphans, left, alone>>

MakeDirectory(p) ==
  /\ pc[p] = "room"
  /\ dirs' = dirs \cup {ModelOf[entry[p]]}
  /\ Goto(p, "made")
  /\ UNCHANGED <<tree, file, handle, listed, removing, doomed, orphans, left, alone>>

\* O_CREAT | O_EXCL on the incoming name; files are bounded by File.
Created(p, i) ==
  /\ tree' = [tree EXCEPT ![incoming_path(entry[p])] = i]
  /\ file' = [file EXCEPT ![i] = [length |-> 0, sound |-> TRUE]]
  /\ handle' = [handle EXCEPT ![p] = i]
  /\ orphans' = orphans \ {i}
  /\ left' = left \ {i}
  /\ Goto(p, "created")
  /\ UNCHANGED <<dirs, listed, removing, doomed, alone>>

\* Mutant of create_exclusively: the cleanup is wrapped around it.
create_exclusivelyInside(p) ==
  /\ pc[p] = "made"
  /\ IF ModelOf[entry[p]] \in dirs /\ tree[incoming_path(entry[p])] = NoFile
       THEN Free # {} /\ Created(p, CHOOSE i \in Free : TRUE)
       ELSE /\ End(p, "FetchInProgressError")
            /\ tree' = [tree EXCEPT ![incoming_path(entry[p])] = NoFile]
            /\ UNCHANGED <<dirs, file, removing, doomed, orphans, left, alone>>

create_exclusively(p) ==
  /\ pc[p] = "made"
  /\ IF ModelOf[entry[p]] \in dirs /\ tree[incoming_path(entry[p])] = NoFile
       THEN Free # {} /\ Created(p, CHOOSE i \in Free : TRUE)
       ELSE /\ End(p, IF ModelOf[entry[p]] \in dirs THEN "FetchInProgressError"
                                                   ELSE "FileNotFoundError")
            /\ UNCHANGED <<tree, dirs, file, removing, doomed, orphans, left, alone>>

\* Mutant of Receive: the length is compared before the chunk is counted.
ReceiveLate(p, sound) ==
  /\ pc[p] = "created"
  /\ IF file[handle[p]].length > Size[entry[p]]
       THEN Fail(p, "SizeMismatchError") /\ UNCHANGED file
       ELSE /\ file' = [file EXCEPT ![handle[p]].length = @ + 1,
                                    ![handle[p]].sound = @ /\ sound]
            /\ UNCHANGED <<pc, entry, outcome>>
  /\ UNCHANGED <<tree, dirs, handle, listed, removing, doomed, orphans, left, alone>>

\* One chunk arrives, as published or not.  One too many is not written.
Receive(p, sound) ==
  /\ pc[p] = "created"
  /\ IF file[handle[p]].length + 1 > Size[entry[p]]
       THEN Fail(p, "SizeMismatchError") /\ UNCHANGED file
       ELSE /\ file' = [file EXCEPT ![handle[p]].length = @ + 1,
                                    ![handle[p]].sound = @ /\ sound]
            /\ UNCHANGED <<pc, entry, outcome>>
  /\ UNCHANGED <<tree, dirs, handle, listed, removing, doomed, orphans, left, alone>>

\* The source has sent everything it sends.
EndOfSource(p) ==
  /\ pc[p] = "created"
  /\ IF file[handle[p]].length = Size[entry[p]] THEN Goto(p, "received")
                                                ELSE Fail(p, "SizeMismatchError")
  /\ UNCHANGED <<tree, dirs, file, handle, listed, removing, doomed, orphans, left, alone>>

\* The source, the disk or the progress callback raises.
Break(p) ==
  /\ pc[p] = "created"
  /\ Fail(p, "raised")
  /\ UNCHANGED <<tree, dirs, file, handle, listed, removing, doomed, orphans, left, alone>>

\* unlink(missing_ok=True), by name, and the failure goes on to the caller; or the
\* filesystem refuses the unlink, and its error goes on instead.
CleanUp(p) ==
  /\ pc[p] = "failing"
  /\ \/ /\ tree' = [tree EXCEPT ![incoming_path(entry[p])] = NoFile]
        /\ End(p, outcome[p])
        /\ UNCHANGED <<dirs, file, removing, doomed, orphans, left, alone>>
     \/ Abandon(p, "OSError")

\* Mutants of Refuse: a mismatch that is only reported, and of Install: a rename
\* that does not wait for the digest.
RefuseInPlace(p) ==
  /\ pc[p] = "received"
  /\ ~file[handle[p]].sound
  /\ End(p, "DigestMismatchError")
  /\ UNCHANGED <<tree, dirs, file, removing, doomed, orphans, left, alone>>

InstallUnverified(p) ==
  /\ pc[p] = "received"
  /\ tree[incoming_path(entry[p])] # NoFile
  /\ tree' = [tree EXCEPT ![artefact_path(entry[p])] = tree[incoming_path(entry[p])],
                          ![incoming_path(entry[p])] = NoFile]
  /\ End(p, "path")
  /\ UNCHANGED <<dirs, file, removing, doomed, orphans, left, alone>>

\* The digest of what was received is not the entry's.  The unlink is outside the try:
\* it needs a name, and where the filesystem refuses it the file stays.
Refuse(p) ==
  /\ pc[p] = "received"
  /\ ~file[handle[p]].sound
  /\ \/ /\ End(p, IF tree[incoming_path(entry[p])] = NoFile THEN "FileNotFoundError"
                                                            ELSE "DigestMismatchError")
        /\ tree' = [tree EXCEPT ![incoming_path(entry[p])] = NoFile]
        /\ UNCHANGED <<dirs, file, removing, doomed, orphans, left, alone>>
     \/ Abandon(p, "OSError")

\* The rename into place, of whatever file the incoming name leads to by now, or its
\* refusal by the filesystem: what stands in the way of the artefact's name may be a
\* directory, or the file may be held by another program.
Install(p) ==
  /\ pc[p] = "received"
  /\ file[handle[p]].sound
  /\ \/ /\ IF tree[incoming_path(entry[p])] = NoFile
             THEN End(p, "FileNotFoundError") /\ UNCHANGED tree
             ELSE /\ End(p, "path")
                  /\ tree' = [tree EXCEPT
                       ![artefact_path(entry[p])] = tree[incoming_path(entry[p])],
                       ![incoming_path(entry[p])] = NoFile]
        /\ UNCHANGED <<dirs, file, removing, doomed, orphans, left, alone>>
     \/ Abandon(p, "OSError")

\* An interrupt anywhere but in the try, which makes it a failure like any other (Break),
\* or an error of the walk, the directory or the descriptor.  Between the creation and
\* the try nothing has been received.
Interrupt(p) ==
  /\ pc[p] # "idle"
  /\ pc[p] = "created" => file[handle[p]].length = 0
  /\ \/ Abandon(p, "KeyboardInterrupt")
     \/ pc[p] \notin {"failing", "received"} /\ Abandon(p, "OSError")

\* The process is killed in the middle of the call; nothing cleans up.
Killed(p) ==
  /\ pc[p] # "idle"
  /\ End(p, "none")
  /\ orphans' = IF pc[p] \in Working THEN orphans \cup {handle[p]} ELSE orphans
  /\ UNCHANGED <<tree, dirs, file, removing, doomed, left, alone>>

\* remove: the directory is there, and its names are unlinked one after another.  An
\* identifier that is no directory name, or that has none, is refused and nothing is
\* changed.
remove(m) ==
  /\ removing = NoModel
  /\ ~refuses_as_directory(m) /\ m \in dirs
  /\ MayDelete(m)
  /\ removing' = m
  /\ doomed' = NamesOf(m)
  /\ UNCHANGED <<tree, dirs, file, pc, entry, handle, listed, outcome, orphans, left, alone>>

Unlink(n) ==
  /\ tree' = [tree EXCEPT ![n] = NoFile]
  /\ doomed' = doomed \ {n}
  /\ UNCHANGED <<dirs, file, pc, entry, handle, listed, outcome, removing, orphans, left, alone>>

\* rmdir, which fails on a directory that is not empty.
RemoveDirectory ==
  /\ removing # NoModel
  /\ doomed = {}
  /\ dirs' = IF NamesOf(removing) = {} THEN dirs \ {removing} ELSE dirs
  /\ removing' = NoModel
  /\ UNCHANGED <<tree, file, pc, entry, handle, listed, outcome, doomed, orphans, left, alone>>

\* The operator deletes a name that ends in .incoming.
DeleteIncoming(e) ==
  /\ MayDelete(ModelOf[e])
  /\ tree[incoming_path(e)] # NoFile
  /\ tree' = [tree EXCEPT ![incoming_path(e)] = NoFile]
  /\ UNCHANGED <<dirs, file, pc, entry, handle, listed, outcome, removing, doomed,
                 orphans, left, alone>>

Step(p) == \/ \E e \in Entry : fetch_artefact(p, e)
           \/ room_for(p)
           \/ Measure(p)
           \/ MakeDirectory(p)
           \/ create_exclusively(p)
           \/ \E sound \in BOOLEAN : Receive(p, sound)
           \/ EndOfSource(p)
           \/ Break(p)
           \/ CleanUp(p)
           \/ Refuse(p)
           \/ Install(p)
           \/ Interrupt(p)
           \/ Killed(p)

Deletion == \/ \E m \in Model : remove(m)
            \/ \E n \in doomed : Unlink(n)
            \/ RemoveDirectory
            \/ \E e \in Entry : DeleteIncoming(e)

Next == Deletion \/ \E p \in Fetch : Step(p)

Spec == Init /\ [][Next]_vars

-----------------------------------------------------------------------------
(* Properties                                                              *)

\* The types, and that no fetch writes more than its entry declares.
TypeOK ==
  /\ tree \in [Name -> File \cup {NoFile}]
  /\ dirs \subseteq Model
  /\ file \in [File -> [length : Nat, sound : BOOLEAN]]
  /\ pc \in [Fetch -> {"idle", "asking", "listed", "room", "made"} \cup Working]
  /\ entry \in [Fetch -> Entry \cup {NoEntry}]
  /\ outcome \in [Fetch -> {"none", "path", "raised", "FileNotFoundError", "OSError",
                             "KeyboardInterrupt"} \cup StorageErrors \cup FetchErrors]
  /\ handle \in [Fetch -> File \cup {NoFile}]
  /\ listed \in [Fetch -> SUBSET Name]
  /\ removing \in Model \cup {NoModel}
  /\ doomed \subseteq Name
  /\ orphans \subseteq File /\ left \subseteq File
  /\ \A p \in Fetch : pc[p] \in Working => file[handle[p]].length <= Size[entry[p]]

\* A file under an artefact's name is whole and verified, and never one that is
\* still growing (fetch.py:12-16, storage.py:85-92).
WholeArtefacts ==
  \A e \in Entry : holds(e) =>
    file[tree[artefact_path(e)]] = [length |-> Size[e], sound |-> TRUE]

\* Nobody takes a running fetch's file from under its name: not a second fetch
\* that was refused, and not the cleanup of one that failed (fetch.py:32-38, 253-257).
NameIsOwn ==
  \A p \in Fetch : pc[p] \in Working =>
    tree[incoming_path(entry[p])] = handle[p]

InProgress(i) == \E p \in Fetch : pc[p] \in Working /\ handle[p] = i

\* "What a failure leaves behind: Nothing": only a running fetch, or one that was killed,
\* has a file under the incoming name (fetch.py:20-32).
NothingLeftBehind ==
  \A e \in Entry : tree[incoming_path(e)] # NoFile =>
    tree[incoming_path(e)] \in orphans \/ InProgress(tree[incoming_path(e)])

\* Whatever a fetch refuses, and whatever fails while it receives, it removes its file:
\* one under the incoming name is a running fetch's, a killed one's, or that of a call
\* interrupted outside its try or whose own unlink or rename was refused it
\* (fetch.py:249-263).
LeftoversAreAccountedFor ==
  \A e \in Entry : tree[incoming_path(e)] # NoFile =>
    \/ tree[incoming_path(e)] \in orphans \cup left
    \/ InProgress(tree[incoming_path(e)])

\* Where a path of the store's root and an identifier leads: to a directory of the
\* root's own only if the identifier is one step, and not the root or its parent.
OneStepDown(identifier) ==
  /\ identifier \notin {<<>>, <<".">>, <<".", ".">>}
  /\ \A i \in DOMAIN identifier : identifier[i] \notin {"/", "\\"}

\* As a filesystem compares names that does not tell the case of letters.
Folded(identifier) ==
  [i \in DOMAIN identifier |->
     CASE identifier[i] = "A" -> "a" [] identifier[i] = "B" -> "b" [] OTHER -> identifier[i]]

\* Whatever entries the registry declares, every directory a fetch makes and a removal
\* deletes is the store's own and is listed by it, and no two of them are one
\* directory on another filesystem (storage.py:82-90, 313-314).
OwnDirectories ==
  \A m \in installed : /\ OneStepDown(m) /\ m[1] # "."
                       /\ \A n \in installed : Folded(m) = Folded(n) => m = n

\* The store holds no more than its ceiling, unfinished files included
\* (docs/model-storage.md:76-78, storage.py:11-14).
WithinBudget ==
  MapThenSumSet(LAMBDA n : file[tree[n]].length, Present) <= Budget

\* It holds to that as long as one fetch is made at a time, whatever failed, was
\* killed or was removed before (storage.py:258-280).
AloneWithinBudget == alone => WithinBudget
=============================================================================
