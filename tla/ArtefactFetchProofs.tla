------------------------ MODULE ArtefactFetchProofs ------------------------
(***************************************************************************)
(* Proofs about fetching into the store, for any number of callers, any    *)
(* entries and any number of files.                                        *)
(***************************************************************************)
EXTENDS ArtefactFetch, CountingLemmas, TLAPS

\* Whoever fetches has an entry whose identifier is a directory name.
EntryInv ==
  /\ \A p \in Fetch : pc[p] # "idle" =>
       entry[p] \in Entry /\ ~refuses_as_directory(ModelOf[entry[p]])
  /\ \A m \in dirs : ~refuses_as_directory(m)

\* Each caller writes to a file of its own, whatever becomes of the name.
HandleInv ==
  \A p \in Fetch : pc[p] \in Working =>
    /\ handle[p] \in File
    /\ file[handle[p]].length <= Size[entry[p]]
    /\ pc[p] = "received" => file[handle[p]].length = Size[entry[p]]
    /\ \A q \in Fetch \ {p} : pc[q] \in Working => handle[q] # handle[p]

Outcomes ==
  {"none", "path", "raised", "FileNotFoundError", "OSError", "KeyboardInterrupt"}
  \cup StorageErrors \cup FetchErrors

CallTypes ==
  /\ pc \in [Fetch -> {"idle", "asking", "listed", "room", "made"} \cup Working]
  /\ entry \in [Fetch -> Entry \cup {NoEntry}]
  /\ outcome \in [Fetch -> Outcomes]
  /\ handle \in [Fetch -> File \cup {NoFile}]
  /\ listed \in [Fetch -> SUBSET Name]

StoreTypes ==
  /\ tree \in [Name -> File \cup {NoFile}]
  /\ dirs \subseteq Model
  /\ file \in [File -> [length : Nat, sound : BOOLEAN]]
  /\ removing \in Model \cup {NoModel}
  /\ doomed \subseteq Name
  /\ orphans \subseteq File /\ left \subseteq File

CallInv == CallTypes /\ EntryInv /\ HandleInv

TypeInv == StoreTypes /\ CallInv

\* A removal spares every model that is being fetched.
RemovalInv ==
  /\ \A n \in doomed : ModelOf[n[1]] = removing
  /\ \A p \in Fetch : pc[p] # "idle" => ModelOf[entry[p]] # removing

\* No file has two names.
OneNameEach ==
  \A a, b \in Name : tree[a] = tree[b] /\ tree[a] # NoFile => a = b

\* What nobody has in hand any more and may still have a name.
Rests == orphans \cup left

NamesInv == OneNameEach /\ WholeArtefacts /\ NameIsOwn /\ LeftoversAreAccountedFor

IInv == TypeInv /\ RemovalInv /\ NamesInv

-----------------------------------------------------------------------------
(* Types and handles                                                       *)

LEMMA TypeInvGivesTypeOK == TypeInv => TypeOK
  BY DEF TypeInv, StoreTypes, CallInv, CallTypes, HandleInv, Outcomes, TypeOK

LEMMA Paths ==
  ASSUME NEW e \in Entry, NEW f \in Entry
  PROVE  /\ artefact_path(e) \in Name /\ incoming_path(e) \in Name
         /\ artefact_path(e) # incoming_path(f)
         /\ incoming_path(e) = incoming_path(f) => e = f
         /\ artefact_path(e) = artefact_path(f) => e = f
  BY DEF artefact_path, incoming_path, Name

\* Whatever ends a call leaves the other calls what they have.
LEMMA EndKeepsCallInv ==
  ASSUME CallInv, NEW p \in Fetch, NEW how \in Outcomes, End(p, how), UNCHANGED <<file, dirs>>
  PROVE  CallInv'
  <1>1. CallTypes'
    BY DEF CallInv, CallTypes, End
  <1>2. EntryInv'
    BY DEF CallInv, CallTypes, EntryInv, End
  <1>3. HandleInv'
    BY DEF CallInv, CallTypes, HandleInv, Working, End
  <1> QED BY <1>1, <1>2, <1>3 DEF CallInv

\* A call that only moves on, to a place where it writes nothing it did not write.
LEMMA GotoKeepsCallInv ==
  ASSUME CallInv, NEW p \in Fetch, pc[p] # "idle", UNCHANGED <<entry, file, handle, dirs>>,
         NEW place \in {"listed", "room", "made", "failing", "received"},
         pc' = [pc EXCEPT ![p] = place],
         place \in Working => pc[p] \in Working,
         place = "received" => file[handle[p]].length = Size[entry[p]],
         outcome' \in [Fetch -> Outcomes], listed' \in [Fetch -> SUBSET Name]
  PROVE  CallInv'
  <1>1. CallTypes'
    BY DEF CallInv, CallTypes, Working
  <1>2. EntryInv'
    BY DEF CallInv, CallTypes, EntryInv
  <1>3. HandleInv'
    BY DEF CallInv, CallTypes, HandleInv, Working
  <1> QED BY <1>1, <1>2, <1>3 DEF CallInv

LEMMA FetchKeepsTypeInv ==
  ASSUME TypeInv, NEW p \in Fetch, NEW e \in Entry, fetch_artefact(p, e)
  PROVE  TypeInv'
  <1>1. StoreTypes'
    BY DEF TypeInv, StoreTypes, fetch_artefact
  <1>2. CallTypes'
    BY DEF TypeInv, CallInv, CallTypes, fetch_artefact, Outcomes, StorageErrors, FetchErrors
  <1>3. EntryInv'
    BY DEF TypeInv, CallInv, CallTypes, EntryInv, fetch_artefact
  <1>4. HandleInv'
    BY DEF TypeInv, CallInv, CallTypes, HandleInv, Working, fetch_artefact
  <1> QED BY <1>1, <1>2, <1>3, <1>4 DEF TypeInv, CallInv

LEMMA CreateKeepsTypeInv ==
  ASSUME TypeInv, NEW p \in Fetch, NEW i \in Free, pc[p] = "made", Created(p, i)
  PROVE  TypeInv'
  <1>1. /\ i \in File /\ entry[p] \in Entry
        /\ \A q \in Fetch : pc[q] \in Working => handle[q] # i
    BY DEF Free, TypeInv, CallInv, EntryInv
  <1>2. StoreTypes'
    <2>1. incoming_path(entry[p]) \in Name
      BY <1>1, Paths
    <2> QED BY <1>1, <2>1 DEF TypeInv, StoreTypes, Created
  <1>3. CallTypes'
    BY <1>1 DEF TypeInv, CallInv, CallTypes, Created, Goto, Working
  <1>4. EntryInv'
    BY DEF TypeInv, CallInv, CallTypes, EntryInv, Created, Goto
  <1>5. HandleInv'
    <2>1. /\ handle' = [handle EXCEPT ![p] = i] /\ pc' = [pc EXCEPT ![p] = "created"]
          /\ file' = [file EXCEPT ![i] = [length |-> 0, sound |-> TRUE]] /\ entry' = entry
          /\ file'[i].length = 0
      BY <1>1 DEF Created, Goto, TypeInv, StoreTypes
    <2>2. Size[entry[p]] \in Nat
      BY <1>1, StoreAssumption
    <2> QED BY <1>1, <2>1, <2>2
               DEF TypeInv, StoreTypes, CallInv, CallTypes, HandleInv, Working
  <1> QED BY <1>2, <1>3, <1>4, <1>5 DEF TypeInv, CallInv

LEMMA ReceiveKeepsTypeInv ==
  ASSUME TypeInv, NEW p \in Fetch, NEW sound \in BOOLEAN, Receive(p, sound)
  PROVE  TypeInv'
  <1>1. /\ pc[p] = "created" /\ handle[p] \in File /\ entry[p] \in Entry
        /\ file[handle[p]] \in [length : Nat, sound : BOOLEAN]
    BY DEF Receive, TypeInv, StoreTypes, CallInv, EntryInv, HandleInv, Working
  <1>2. CASE file[handle[p]].length + 1 > Size[entry[p]]
    <2>1. StoreTypes'
      BY <1>2 DEF TypeInv, StoreTypes, Receive
    <2>2. outcome' \in [Fetch -> Outcomes]
      BY <1>2 DEF TypeInv, CallInv, CallTypes, Receive, Fail, Outcomes, FetchErrors
    <2>3. CallInv'
      BY <1>1, <1>2, <2>2, GotoKeepsCallInv
         DEF TypeInv, CallInv, CallTypes, Receive, Fail, Working
    <2> QED BY <2>1, <2>3 DEF TypeInv
  <1>3. CASE ~(file[handle[p]].length + 1 > Size[entry[p]])
    <2> DEFINE old == file[handle[p]]
               new == [length |-> old.length + 1, sound |-> old.sound /\ sound]
    <2>1. file' = [file EXCEPT ![handle[p]] = new]
      BY <1>1, <1>3 DEF Receive, TypeInv, StoreTypes
    <2>2. UNCHANGED <<tree, dirs, pc, entry, outcome, handle, listed, removing, doomed, orphans,
                      left>>
      BY <1>3 DEF Receive
    <2>3. new \in [length : Nat, sound : BOOLEAN] /\ new.length <= Size[entry[p]]
      BY <1>1, <1>3, StoreAssumption
    <2> HIDE DEF new
    <2>4. StoreTypes'
      BY <2>1, <2>2, <2>3 DEF TypeInv, StoreTypes
    <2>5. CallTypes' /\ EntryInv'
      BY <2>2 DEF TypeInv, CallInv, CallTypes, EntryInv, Working
    <2>6. HandleInv'
      BY <1>1, <2>1, <2>2, <2>3 DEF TypeInv, StoreTypes, CallInv, HandleInv, Working
    <2> QED BY <2>4, <2>5, <2>6 DEF TypeInv, CallInv
  <1> QED BY <1>2, <1>3

LEMMA StepTypeInv ==
  ASSUME TypeInv, NEW p \in Fetch, Step(p)
  PROVE  TypeInv'
  <1>0. /\ CallInv /\ CallTypes /\ StoreTypes
        /\ pc[p] # "idle" => /\ entry[p] \in Entry
                            /\ incoming_path(entry[p]) \in Name
                            /\ artefact_path(entry[p]) \in Name
    BY Paths DEF TypeInv, CallInv, EntryInv
  <1>1. ASSUME NEW e \in Entry, fetch_artefact(p, e) PROVE TypeInv'
    BY <1>1, FetchKeepsTypeInv
  <1>2. CASE room_for(p)
    <2>1. Present \in SUBSET Name
      BY DEF Present
    <2>2. CallInv'
      BY <1>0, <1>2, <2>1, GotoKeepsCallInv DEF room_for, Goto, CallTypes, Working
    <2> QED BY <1>0, <1>2, <2>2 DEF TypeInv, StoreTypes, room_for
  <1>3. CASE Measure(p)
    <2>1. PICK how \in Outcomes : \/ End(p, how)
                                  \/ /\ Goto(p, "room") /\ UNCHANGED handle
                                     /\ listed' = [listed EXCEPT ![p] = {}]
      BY <1>3 DEF Measure, Outcomes, StorageErrors
    <2>2. CallInv'
      <3>1. UNCHANGED <<file, dirs>> /\ pc[p] = "listed"
        BY <1>3 DEF Measure
      <3>2. CASE End(p, how)
        BY <1>0, <3>1, <3>2, EndKeepsCallInv
      <3>3. CASE ~End(p, how)
        BY <1>0, <2>1, <3>1, <3>3, GotoKeepsCallInv DEF Goto, CallTypes, Working
      <3> QED BY <3>2, <3>3
    <2> QED BY <1>0, <1>3, <2>2 DEF TypeInv, StoreTypes, Measure
  <1>4. CASE MakeDirectory(p)
    <2>1. /\ ModelOf[entry[p]] \in Model /\ ~refuses_as_directory(ModelOf[entry[p]])
          /\ pc[p] = "room" /\ entry[p] \in Entry
          /\ dirs' = dirs \cup {ModelOf[entry[p]]} /\ pc' = [pc EXCEPT ![p] = "made"]
          /\ UNCHANGED <<file, entry, handle, outcome, listed>>
      BY <1>0, <1>4 DEF MakeDirectory, Goto, CallInv, EntryInv, Model
    <2>2. CallTypes'
      BY <1>0, <2>1 DEF CallTypes
    <2>3. EntryInv'
      BY <1>0, <2>1 DEF CallInv, CallTypes, EntryInv
    <2>4. HandleInv'
      BY <1>0, <2>1 DEF CallInv, CallTypes, HandleInv, Working
    <2> QED BY <1>0, <1>4, <2>1, <2>2, <2>3, <2>4
               DEF TypeInv, CallInv, StoreTypes, MakeDirectory
  <1>5. CASE create_exclusively(p)
    <2>1. ASSUME NEW how \in Outcomes, End(p, how),
                 UNCHANGED <<tree, dirs, file, removing, doomed, orphans, left>>
          PROVE  TypeInv'
      BY <1>0, <2>1, EndKeepsCallInv DEF TypeInv, StoreTypes
    <2>2. ASSUME Free # {}, Created(p, CHOOSE i \in Free : TRUE) PROVE TypeInv'
      <3>1. (CHOOSE i \in Free : TRUE) \in Free
        BY <2>2
      <3> QED BY <1>5, <2>2, <3>1, CreateKeepsTypeInv DEF create_exclusively
    <2> QED BY <1>5, <2>1, <2>2 DEF create_exclusively, Outcomes, FetchErrors
  <1>6. ASSUME NEW sound \in BOOLEAN, Receive(p, sound) PROVE TypeInv'
    BY <1>6, ReceiveKeepsTypeInv
  <1>7. CASE EndOfSource(p) \/ Break(p)
    <2>1. /\ pc[p] = "created" /\ UNCHANGED <<file, handle, dirs, listed, entry>>
          /\ outcome' \in [Fetch -> Outcomes]
          /\ \E place \in {"received", "failing"} :
               /\ pc' = [pc EXCEPT ![p] = place]
               /\ place = "received" => file[handle[p]].length = Size[entry[p]]
      BY <1>0, <1>7 DEF EndOfSource, Break, Goto, Fail, CallTypes, Outcomes, FetchErrors
    <2>2. CallInv'
      BY <1>0, <2>1, GotoKeepsCallInv DEF CallTypes, Working
    <2> QED BY <1>0, <1>7, <2>2 DEF TypeInv, StoreTypes, EndOfSource, Break
  <1>8. CASE CleanUp(p) \/ Refuse(p) \/ Install(p) \/ Interrupt(p) \/ Killed(p)
    <2>1. \E how \in Outcomes : End(p, how)
      BY <1>0, <1>8
         DEF CleanUp, Refuse, Install, Interrupt, Abandon, Killed, CallTypes, Outcomes,
             FetchErrors
    <2>2. pc[p] # "idle" /\ UNCHANGED <<file, dirs, removing, doomed>>
      BY <1>8 DEF CleanUp, Refuse, Install, Interrupt, Abandon, Killed, Working
    <2>3. CallInv'
      BY <1>0, <2>1, <2>2, EndKeepsCallInv
    <2>4. tree' \in [Name -> File \cup {NoFile}]
      BY <1>0, <1>8, <2>2
         DEF StoreTypes, CleanUp, Refuse, Install, Interrupt, Abandon, Killed
    <2>5. orphans' \subseteq File /\ left' \subseteq File
      BY <1>0, <1>8
         DEF StoreTypes, CallInv, HandleInv, CleanUp, Refuse, Install, Interrupt, Abandon,
             Killed
    <2> QED BY <1>0, <2>2, <2>3, <2>4, <2>5 DEF TypeInv, StoreTypes
  <1> QED BY <1>1, <1>2, <1>3, <1>4, <1>5, <1>6, <1>7, <1>8 DEF Step

LEMMA DeletionTypeInv ==
  ASSUME TypeInv, Deletion \/ UNCHANGED vars
  PROVE  TypeInv'
  <1> USE DEF TypeInv, StoreTypes, CallInv, CallTypes, EntryInv, HandleInv, Working
  <1>1. ASSUME NEW m \in Model, remove(m) PROVE TypeInv'
    BY <1>1 DEF remove, NamesOf, Present
  <1>2. ASSUME NEW n \in doomed, Unlink(n) PROVE TypeInv'
    BY <1>2 DEF Unlink
  <1>3. CASE RemoveDirectory
    BY <1>3 DEF RemoveDirectory
  <1>4. ASSUME NEW e \in Entry, DeleteIncoming(e) PROVE TypeInv'
    BY <1>4, Paths DEF DeleteIncoming
  <1>5. CASE UNCHANGED vars
    BY <1>5 DEF vars
  <1> QED BY <1>1, <1>2, <1>3, <1>4, <1>5 DEF Deletion

LEMMA InitTypeInv == Init => TypeInv
  BY StoreAssumption
     DEF Init, TypeInv, StoreTypes, CallInv, CallTypes, EntryInv, HandleInv, Working, Outcomes

LEMMA AlwaysTypeInv == Spec => []TypeInv
  <1>1. TypeInv /\ [Next]_vars => TypeInv'
    BY StepTypeInv, DeletionTypeInv DEF Next
  <1> QED BY <1>1, InitTypeInv, PTL DEF Spec

\* Every variable of the store keeps its type, and no fetch writes more than its entry
\* declares, deletions or not (fetch.py:264-286).
THEOREM TypeCorrect == Spec => []TypeOK
  BY TypeInvGivesTypeOK, AlwaysTypeInv, PTL

\* Whatever entries the registry declares, every directory of the store is one step
\* below its root, and no two are one directory where case is not told apart
\* (storage.py:82-90, 313-314).
THEOREM DirectoriesAreOwn == Spec => []OwnDirectories
  <1>1. ASSUME NEW m \in Seq(STRING), ~refuses_as_directory(m)
        PROVE  OneStepDown(m) /\ m[1] # "." /\ Folded(m) = m
    <2>1. /\ m # <<>> /\ m[1] # "."
          /\ \A i \in DOMAIN m : m[i] \in {"a", "b", "0", "-", ".", "_"}
      BY <1>1 DEF refuses_as_directory, PERMITTED_IN_IDENTIFIER
    <2>2. OneStepDown(m)
      <3>1. <<".">>[1] = "." /\ <<".", ".">>[1] = "."
        OBVIOUS
      <3>2. \A i \in DOMAIN m : m[i] # "/" /\ m[i] # "\\"
        BY <2>1
      <3> QED BY <2>1, <3>1, <3>2 DEF OneStepDown
    <2>3. Folded(m) = [i \in DOMAIN m |-> m[i]]
      BY <2>1 DEF Folded
    <2>4. m = [i \in DOMAIN m |-> m[i]]
      OBVIOUS
    <2> QED BY <2>1, <2>2, <2>3, <2>4
  <1>2. TypeInv => OwnDirectories
    BY <1>1, StoreAssumption
       DEF TypeInv, StoreTypes, CallInv, EntryInv, OwnDirectories, installed, Model
  <1> QED BY <1>2, AlwaysTypeInv, PTL

-----------------------------------------------------------------------------
(* Names and files, where deletions spare what is being fetched            *)

LEMMA InitIInv == Init => IInv
  <1> SUFFICES ASSUME Init PROVE IInv
    OBVIOUS
  <1>1. TypeInv
    BY InitTypeInv
  <1>2. \A n \in Name : tree[n] = NoFile
    BY DEF Init
  <1>3. NamesInv
    BY <1>2, Paths
       DEF Init, NamesInv, OneNameEach, WholeArtefacts, NameIsOwn, LeftoversAreAccountedFor, holds,
           Working
  <1> QED BY <1>1, <1>3 DEF Init, IInv, RemovalInv

\* Names may go, a call may end: what stays is as it was.
LEMMA ClearingKeepsNames ==
  ASSUME TypeInv, NamesInv, Rests \subseteq Rests', UNCHANGED file,
         \A n \in Name : tree'[n] \in {tree[n], NoFile},
         \A q \in Fetch : pc'[q] \in Working =>
           /\ pc[q] \in Working /\ handle'[q] = handle[q] /\ entry'[q] = entry[q]
           /\ tree'[incoming_path(entry[q])] = tree[incoming_path(entry[q])],
         \A q \in Fetch : pc[q] \in Working =>
           \/ pc'[q] \in Working \/ handle[q] \in Rests'
           \/ tree'[incoming_path(entry[q])] = NoFile
  PROVE  NamesInv'
  <1>1. OneNameEach'
    BY DEF NamesInv, OneNameEach
  <1>2. WholeArtefacts'
    BY Paths DEF NamesInv, WholeArtefacts, holds
  <1>3. NameIsOwn'
    BY DEF NamesInv, NameIsOwn
  <1>4. LeftoversAreAccountedFor'
    <2> SUFFICES ASSUME NEW e \in Entry, tree'[incoming_path(e)] # NoFile,
                        tree'[incoming_path(e)] \notin Rests'
                 PROVE  \E q \in Fetch : /\ pc'[q] \in Working
                                         /\ handle'[q] = tree'[incoming_path(e)]
      BY DEF LeftoversAreAccountedFor, InProgress, Rests
    <2>1. tree'[incoming_path(e)] = tree[incoming_path(e)]
      BY Paths
    <2>2. PICK q \in Fetch : pc[q] \in Working /\ handle[q] = tree[incoming_path(e)]
      BY <2>1 DEF NamesInv, LeftoversAreAccountedFor, InProgress, Rests
    <2>3. tree[incoming_path(entry[q])] = tree[incoming_path(e)] /\ entry[q] \in Entry
      BY <2>2 DEF NamesInv, NameIsOwn, TypeInv, CallInv, EntryInv, Working
    <2>4. incoming_path(entry[q]) = incoming_path(e)
      BY <2>1, <2>3, Paths DEF NamesInv, OneNameEach
    <2>5. pc'[q] \in Working
      BY <2>1, <2>2, <2>4
    <2> QED BY <2>1, <2>2, <2>5
  <1> QED BY <1>1, <1>2, <1>3, <1>4 DEF NamesInv

\* Two calls that write never write for one entry.
LEMMA EntriesAreApart ==
  ASSUME TypeInv, NamesInv, NEW p \in Fetch, NEW q \in Fetch, p # q,
         pc[p] \in Working, pc[q] \in Working
  PROVE  /\ entry[p] \in Entry /\ entry[q] \in Entry
         /\ incoming_path(entry[p]) # incoming_path(entry[q])
  <1>1. entry[p] \in Entry /\ entry[q] \in Entry /\ handle[p] # handle[q]
    BY DEF TypeInv, CallInv, EntryInv, HandleInv, Working
  <1> QED BY <1>1 DEF NamesInv, NameIsOwn

LEMMA CreateKeepsNames ==
  ASSUME TypeInv, NamesInv, NEW p \in Fetch, pc[p] = "made", NEW i \in Free, Created(p, i),
         tree[incoming_path(entry[p])] = NoFile
  PROVE  NamesInv'
  <1>1. /\ i \in File /\ i # NoFile /\ \A n \in Name : tree[n] # i
        /\ entry[p] \in Entry /\ incoming_path(entry[p]) \in Name
        /\ tree \in [Name -> File \cup {NoFile}]
        /\ file \in [File -> [length : Nat, sound : BOOLEAN]]
        /\ pc \in [Fetch -> {"idle", "asking", "listed", "room", "made"} \cup Working]
        /\ handle \in [Fetch -> File \cup {NoFile}]
    BY StoreAssumption, Paths
       DEF Free, TypeInv, StoreTypes, CallInv, CallTypes, EntryInv
  <1>2. /\ tree' = [tree EXCEPT ![incoming_path(entry[p])] = i]
        /\ file' = [file EXCEPT ![i] = [length |-> 0, sound |-> TRUE]]
        /\ handle' = [handle EXCEPT ![p] = i] /\ pc' = [pc EXCEPT ![p] = "created"]
        /\ Rests' = Rests \ {i} /\ entry' = entry
    BY DEF Created, Goto, Rests
  <1>3. OneNameEach'
    BY <1>1, <1>2 DEF NamesInv, OneNameEach
  <1>4. WholeArtefacts'
    <2> SUFFICES ASSUME NEW e \in Entry, tree'[artefact_path(e)] # NoFile
                 PROVE  file'[tree'[artefact_path(e)]] = [length |-> Size[e], sound |-> TRUE]
      BY DEF WholeArtefacts, holds
    <2>1. tree'[artefact_path(e)] = tree[artefact_path(e)] /\ tree[artefact_path(e)] \in File \ {i}
      BY <1>1, <1>2, Paths
    <2> QED BY <1>1, <1>2, <2>1 DEF NamesInv, WholeArtefacts, holds
  <1>5. NameIsOwn'
    <2> SUFFICES ASSUME NEW q \in Fetch, pc'[q] \in Working
                 PROVE  tree'[incoming_path(entry'[q])] = handle'[q]
      BY DEF NameIsOwn
    <2>1. CASE q = p
      BY <1>1, <1>2, <2>1
    <2>2. CASE q # p
      <3>1. pc[q] \in Working /\ handle'[q] = handle[q]
        BY <1>1, <1>2, <2>2
      <3>2. /\ tree[incoming_path(entry[q])] = handle[q] /\ handle[q] \in File
            /\ entry[q] \in Entry
        BY <3>1 DEF NamesInv, NameIsOwn, TypeInv, CallInv, EntryInv, HandleInv, Working
      <3>3. incoming_path(entry[q]) # incoming_path(entry[p])
        BY <3>2, StoreAssumption
      <3> QED BY <1>1, <1>2, <3>1, <3>2, <3>3, Paths
    <2> QED BY <2>1, <2>2
  <1>6. LeftoversAreAccountedFor'
    <2> SUFFICES ASSUME NEW e \in Entry, tree'[incoming_path(e)] # NoFile
                 PROVE  \/ tree'[incoming_path(e)] \in Rests'
                        \/ \E q \in Fetch : /\ pc'[q] \in Working
                                            /\ handle'[q] = tree'[incoming_path(e)]
      BY DEF LeftoversAreAccountedFor, InProgress, Rests
    <2>1. CASE e = entry[p]
      BY <1>1, <1>2, <2>1 DEF Working
    <2>2. CASE e # entry[p]
      <3>1. tree'[incoming_path(e)] = tree[incoming_path(e)] /\ tree[incoming_path(e)] # i
        BY <1>1, <1>2, <2>2, Paths
      <3>2. \/ tree[incoming_path(e)] \in Rests
            \/ \E q \in Fetch : pc[q] \in Working /\ handle[q] = tree[incoming_path(e)]
        BY <3>1 DEF NamesInv, LeftoversAreAccountedFor, InProgress, Rests
      <3>3. ASSUME NEW q \in Fetch, pc[q] \in Working
            PROVE  pc'[q] \in Working /\ handle'[q] = handle[q]
        BY <1>1, <1>2, <3>3 DEF Working
      <3> QED BY <1>2, <3>1, <3>2, <3>3
    <2> QED BY <2>1, <2>2
  <1> QED BY <1>3, <1>4, <1>5, <1>6 DEF NamesInv

LEMMA ReceiveKeepsNames ==
  ASSUME TypeInv, NamesInv, NEW p \in Fetch, NEW sound \in BOOLEAN, Receive(p, sound)
  PROVE  NamesInv'
  <1>1. /\ pc[p] \in Working /\ tree[incoming_path(entry[p])] = handle[p] /\ entry[p] \in Entry
        /\ handle[p] \in File /\ handle[p] # NoFile
        /\ pc \in [Fetch -> {"idle", "asking", "listed", "room", "made"} \cup Working]
    BY StoreAssumption
       DEF Receive, NamesInv, NameIsOwn, TypeInv, CallInv, CallTypes, EntryInv, HandleInv, Working
  <1>2. /\ UNCHANGED <<tree, handle, entry, orphans, left>>
        /\ pc' \in {pc, [pc EXCEPT ![p] = "failing"]}
        /\ \A i \in File \ {handle[p]} : file'[i] = file[i]
    BY DEF Receive, Fail, TypeInv, StoreTypes
  <1>3. \A q \in Fetch : pc'[q] \in Working <=> pc[q] \in Working
    BY <1>1, <1>2 DEF Working
  <1>4. OneNameEach' /\ NameIsOwn' /\ LeftoversAreAccountedFor'
    BY <1>2, <1>3 DEF NamesInv, OneNameEach, NameIsOwn, LeftoversAreAccountedFor, InProgress
  <1>5. WholeArtefacts'
    <2> SUFFICES ASSUME NEW e \in Entry, tree[artefact_path(e)] # NoFile
                 PROVE  file'[tree[artefact_path(e)]] = [length |-> Size[e], sound |-> TRUE]
      BY <1>2 DEF WholeArtefacts, holds
    <2>1. tree[artefact_path(e)] \in File \ {handle[p]}
      BY <1>1, Paths DEF TypeInv, StoreTypes, NamesInv, OneNameEach
    <2> QED BY <1>2, <2>1 DEF NamesInv, WholeArtefacts, holds
  <1> QED BY <1>4, <1>5 DEF NamesInv

LEMMA InstallKeepsNames ==
  ASSUME TypeInv, NamesInv, NEW p \in Fetch, Install(p), ~Abandon(p, "OSError")
  PROVE  NamesInv'
  <1>1. /\ pc[p] \in Working /\ tree[incoming_path(entry[p])] = handle[p] /\ entry[p] \in Entry
        /\ handle[p] \in File /\ handle[p] # NoFile
        /\ file[handle[p]] = [length |-> Size[entry[p]], sound |-> TRUE]
        /\ tree \in [Name -> File \cup {NoFile}]
        /\ pc \in [Fetch -> {"idle", "asking", "listed", "room", "made"} \cup Working]
        /\ handle \in [Fetch -> File \cup {NoFile}] /\ entry \in [Fetch -> Entry \cup {NoEntry}]
    <2>1. /\ pc[p] = "received" /\ entry[p] \in Entry /\ handle[p] \in File
          /\ file[handle[p]].length = Size[entry[p]] /\ file[handle[p]].sound
      BY DEF Install, TypeInv, CallInv, EntryInv, HandleInv, Working
    <2>2. file[handle[p]] \in [length : Nat, sound : BOOLEAN]
      BY <2>1 DEF TypeInv, StoreTypes
    <2>3. file[handle[p]] = [length |-> Size[entry[p]], sound |-> TRUE]
      BY <2>1, <2>2
    <2> QED BY <2>1, <2>3, StoreAssumption
            DEF NamesInv, NameIsOwn, TypeInv, StoreTypes, CallInv, CallTypes, Working
  <1>2. /\ tree' = [tree EXCEPT ![artefact_path(entry[p])] = handle[p],
                                ![incoming_path(entry[p])] = NoFile]
        /\ pc' = [pc EXCEPT ![p] = "idle"] /\ handle' = [handle EXCEPT ![p] = NoFile]
        /\ entry' = [entry EXCEPT ![p] = NoEntry] /\ UNCHANGED <<file, orphans, left>>
    BY <1>1 DEF Install, End
  <1>3. /\ artefact_path(entry[p]) \in Name /\ incoming_path(entry[p]) \in Name
        /\ artefact_path(entry[p]) # incoming_path(entry[p])
    BY <1>1, Paths
  <1>4. OneNameEach'
    BY <1>1, <1>2, <1>3 DEF NamesInv, OneNameEach
  <1>5. WholeArtefacts'
    BY <1>1, <1>2, <1>3, Paths DEF NamesInv, WholeArtefacts, holds
  <1>6. ASSUME NEW e \in Entry, e # entry[p]
        PROVE  tree'[incoming_path(e)] = tree[incoming_path(e)]
    BY <1>1, <1>2, <1>6, Paths
  <1>7. NameIsOwn'
    <2> SUFFICES ASSUME NEW q \in Fetch, pc'[q] \in Working
                 PROVE  tree'[incoming_path(entry'[q])] = handle'[q]
      BY DEF NameIsOwn
    <2>1. q # p /\ pc[q] \in Working /\ handle'[q] = handle[q] /\ entry'[q] = entry[q]
      BY <1>1, <1>2 DEF Working
    <2>2. entry[q] \in Entry /\ entry[q] # entry[p]
      BY <1>1, <2>1, EntriesAreApart
    <2> QED BY <1>6, <2>1, <2>2 DEF NamesInv, NameIsOwn
  <1>8. LeftoversAreAccountedFor'
    <2> SUFFICES ASSUME NEW e \in Entry, tree'[incoming_path(e)] # NoFile
                 PROVE  \/ tree'[incoming_path(e)] \in Rests'
                        \/ \E q \in Fetch : /\ pc'[q] \in Working
                                            /\ handle'[q] = tree'[incoming_path(e)]
      BY DEF LeftoversAreAccountedFor, InProgress, Rests
    <2>1. e # entry[p]
      BY <1>1, <1>2, <1>3
    <2>2. tree'[incoming_path(e)] = tree[incoming_path(e)]
      BY <1>6, <2>1
    <2>3. ASSUME NEW q \in Fetch, pc[q] \in Working, handle[q] = tree[incoming_path(e)]
          PROVE  pc'[q] \in Working /\ handle'[q] = handle[q]
      <3>1. q # p
        BY <1>1, <1>3, <2>1, <2>3, Paths DEF NamesInv, OneNameEach
      <3> QED BY <1>1, <1>2, <2>3, <3>1
    <2>4. \/ tree[incoming_path(e)] \in Rests
          \/ \E q \in Fetch : pc[q] \in Working /\ handle[q] = tree[incoming_path(e)]
      BY <2>2 DEF NamesInv, LeftoversAreAccountedFor, InProgress, Rests
    <2>5. Rests' = Rests
      BY <1>2 DEF Rests
    <2> QED BY <2>2, <2>3, <2>4, <2>5
  <1> QED BY <1>4, <1>5, <1>7, <1>8 DEF NamesInv

LEMMA StepKeepsNames ==
  ASSUME TypeInv, NamesInv, NEW p \in Fetch, Step(p)
  PROVE  NamesInv'
  <1>0. /\ pc \in [Fetch -> {"idle", "asking", "listed", "room", "made"} \cup Working]
        /\ handle \in [Fetch -> File \cup {NoFile}] /\ entry \in [Fetch -> Entry \cup {NoEntry}]
        /\ tree \in [Name -> File \cup {NoFile}]
    BY DEF TypeInv, StoreTypes, CallInv, CallTypes
  <1>1. ASSUME UNCHANGED <<tree, file, handle, orphans, left>>,
               \A q \in Fetch : pc'[q] \in Working => pc[q] \in Working /\ entry'[q] = entry[q],
               \A q \in Fetch : pc[q] \in Working => pc'[q] \in Working
        PROVE  NamesInv'
    BY <1>1, ClearingKeepsNames DEF Rests
  <1>2. CASE (\E e \in Entry : fetch_artefact(p, e)) \/ room_for(p) \/ MakeDirectory(p)
             \/ EndOfSource(p) \/ Break(p)
    <2>1. UNCHANGED <<tree, file, handle, orphans, left>>
      BY <1>2 DEF fetch_artefact, room_for, MakeDirectory, EndOfSource, Break
    <2>2. ASSUME NEW q \in Fetch
          PROVE  /\ pc'[q] \in Working <=> pc[q] \in Working
                 /\ pc[q] \in Working => entry'[q] = entry[q]
      BY <1>0, <1>2
         DEF fetch_artefact, room_for, MakeDirectory, EndOfSource, Break, Goto, Fail, Working
    <2> QED BY <1>1, <2>1, <2>2
  <1>3. ASSUME NEW how, End(p, how), UNCHANGED file, Rests \subseteq Rests',
               tree' \in {tree, [tree EXCEPT ![incoming_path(entry[p])] = NoFile]},
               pc[p] \in Working => \/ handle[p] \in Rests'
                                    \/ tree'[incoming_path(entry[p])] = NoFile,
               pc[p] \notin Working => tree' = tree
        PROVE  NamesInv'
    <2>1. \A n \in Name : tree'[n] \in {tree[n], NoFile}
      BY <1>0, <1>3
    <2>2. ASSUME NEW q \in Fetch, pc'[q] \in Working
          PROVE  /\ q # p /\ pc[q] \in Working /\ handle'[q] = handle[q]
                 /\ entry'[q] = entry[q]
                 /\ tree'[incoming_path(entry[q])] = tree[incoming_path(entry[q])]
      <3>1. q # p /\ pc[q] \in Working /\ handle'[q] = handle[q] /\ entry'[q] = entry[q]
        BY <1>0, <1>3, <2>2 DEF End, Working
      <3>2. CASE pc[p] \in Working
        <4>1. entry[q] \in Entry /\ incoming_path(entry[p]) # incoming_path(entry[q])
          BY <3>1, <3>2, EntriesAreApart
        <4>2. incoming_path(entry[q]) \in Name
          BY <4>1, Paths
        <4>3. tree'[incoming_path(entry[q])] = tree[incoming_path(entry[q])]
          BY <1>0, <1>3, <4>1, <4>2
        <4> QED BY <3>1, <4>3
      <3>3. CASE pc[p] \notin Working
        BY <1>3, <3>1, <3>3
      <3> QED BY <3>1, <3>2, <3>3
    <2>3. ASSUME NEW q \in Fetch, pc[q] \in Working
          PROVE  \/ pc'[q] \in Working \/ handle[q] \in Rests'
                 \/ tree'[incoming_path(entry[q])] = NoFile
      BY <1>0, <1>3, <2>3 DEF End
    <2> QED BY <1>3, <2>1, <2>2, <2>3, ClearingKeepsNames
  <1>4. CASE Measure(p)
    <2>1. UNCHANGED <<tree, file, orphans, left>> /\ pc[p] = "listed" /\ pc[p] \notin Working
      BY <1>4 DEF Measure, Working
    <2>2. CASE \E how : End(p, how)
      BY <1>3, <2>1, <2>2 DEF Rests
    <2>3. CASE ~ \E how : End(p, how)
      <3>1. Goto(p, "room") /\ UNCHANGED handle
        BY <1>4, <2>3 DEF Measure
      <3> QED BY <1>0, <1>1, <2>1, <3>1 DEF Goto, Working
    <2> QED BY <2>2, <2>3
  <1>5. CASE create_exclusively(p)
    <2>1. pc[p] = "made" /\ pc[p] \notin Working
      BY <1>5 DEF create_exclusively, Working
    <2>2. CASE \E how : End(p, how) /\ UNCHANGED <<tree, file, orphans, left>>
      BY <1>3, <2>1, <2>2 DEF Rests
    <2>3. CASE ~ \E how : End(p, how) /\ UNCHANGED <<tree, file, orphans, left>>
      <3>1. /\ Free # {} /\ tree[incoming_path(entry[p])] = NoFile
            /\ Created(p, CHOOSE i \in Free : TRUE)
        BY <1>5, <2>3 DEF create_exclusively
      <3>2. (CHOOSE i \in Free : TRUE) \in Free
        BY <3>1
      <3> QED BY <2>1, <3>1, <3>2, CreateKeepsNames
    <2> QED BY <2>2, <2>3
  <1>6. ASSUME NEW sound \in BOOLEAN, Receive(p, sound) PROVE NamesInv'
    BY <1>6, ReceiveKeepsNames
  <1>7. CASE (CleanUp(p) \/ Refuse(p)) /\ ~Abandon(p, "OSError")
    <2>1. /\ \E how : End(p, how)
          /\ tree' = [tree EXCEPT ![incoming_path(entry[p])] = NoFile]
          /\ UNCHANGED <<file, orphans, left>> /\ pc[p] \in Working
      BY <1>7 DEF CleanUp, Refuse, Working
    <2>2. incoming_path(entry[p]) \in Name
      BY <2>1, Paths DEF TypeInv, CallInv, EntryInv, Working
    <2>3. Rests' = Rests
      BY <2>1 DEF Rests
    <2> QED BY <1>0, <1>3, <2>1, <2>2, <2>3
  <1>8. CASE Install(p) /\ ~Abandon(p, "OSError")
    BY <1>8, InstallKeepsNames
  <1>9. CASE Killed(p)
    <2>1. /\ End(p, "none") /\ UNCHANGED <<tree, file>> /\ Rests \subseteq Rests'
          /\ pc[p] \in Working => handle[p] \in Rests'
      BY <1>9 DEF Killed, Rests
    <2> QED BY <1>3, <2>1
  <1>10. ASSUME NEW error, Abandon(p, error) PROVE NamesInv'
    <2>1. /\ End(p, error) /\ UNCHANGED <<tree, file>> /\ Rests \subseteq Rests'
          /\ pc[p] \in Working => handle[p] \in Rests'
      BY <1>10 DEF Abandon, Rests
    <2> QED BY <1>3, <2>1
  <1>11. CASE Interrupt(p)
    BY <1>10, <1>11 DEF Interrupt
  <1> QED BY <1>2, <1>4, <1>5, <1>6, <1>7, <1>8, <1>9, <1>10, <1>11 DEF Step

\* Where deletions spare what is being fetched, no name of a call that writes goes.
LEMMA DeletionKeepsNames ==
  ASSUME LiveDeletion = FALSE, IInv, Deletion
  PROVE  NamesInv'
  <1>1. /\ UNCHANGED <<file, pc, handle, entry>> /\ Rests' = Rests
        /\ tree \in [Name -> File \cup {NoFile}]
    BY DEF Deletion, remove, Unlink, RemoveDirectory, DeleteIncoming, IInv, TypeInv,
           StoreTypes, Rests
  <1>2. ASSUME NEW n \in Name, tree' \in {tree, [tree EXCEPT ![n] = NoFile]},
               \A q \in Fetch : pc[q] \in Working => incoming_path(entry[q]) # n
        PROVE  NamesInv'
    <2>1. \A m \in Name : tree'[m] \in {tree[m], NoFile}
      BY <1>1, <1>2
    <2>2. \A q \in Fetch : pc[q] \in Working =>
            tree'[incoming_path(entry[q])] = tree[incoming_path(entry[q])]
      <3> SUFFICES ASSUME NEW q \in Fetch, pc[q] \in Working
                   PROVE  tree'[incoming_path(entry[q])] = tree[incoming_path(entry[q])]
        OBVIOUS
      <3>1. incoming_path(entry[q]) \in Name /\ incoming_path(entry[q]) # n
        BY <1>2, Paths DEF IInv, TypeInv, CallInv, EntryInv, Working
      <3> QED BY <1>1, <1>2, <3>1
    <2> QED BY <1>1, <2>1, <2>2, ClearingKeepsNames DEF IInv
  <1>3. CASE UNCHANGED tree
    BY <1>1, <1>3, ClearingKeepsNames DEF IInv
  <1>4. ASSUME NEW n \in doomed, Unlink(n) PROVE NamesInv'
    <2>1. n \in Name /\ ModelOf[n[1]] = removing
      BY DEF IInv, TypeInv, StoreTypes, RemovalInv
    <2>2. \A q \in Fetch : pc[q] \in Working => incoming_path(entry[q]) # n
      BY <2>1 DEF IInv, RemovalInv, Working, incoming_path
    <2> QED BY <1>2, <1>4, <2>1, <2>2 DEF Unlink
  <1>5. ASSUME NEW e \in Entry, DeleteIncoming(e) PROVE NamesInv'
    <2>1. \A q \in Fetch : pc[q] \in Working => incoming_path(entry[q]) # incoming_path(e)
      BY <1>5 DEF DeleteIncoming, MayDelete, Working, incoming_path
    <2> QED BY <1>2, <1>5, <2>1, Paths DEF DeleteIncoming
  <1> QED BY <1>3, <1>4, <1>5 DEF Deletion, remove, RemoveDirectory

LEMMA NextKeepsRemovalInv ==
  ASSUME LiveDeletion = FALSE, TypeInv, RemovalInv, Next
  PROVE  RemovalInv'
  <1>0. /\ pc \in [Fetch -> {"idle", "asking", "listed", "room", "made"} \cup Working]
        /\ entry \in [Fetch -> Entry \cup {NoEntry}]
        /\ \A q \in Fetch : pc[q] # "idle" => ModelOf[entry[q]] \in Model
    BY DEF TypeInv, CallInv, CallTypes, EntryInv, Model
  <1>1. ASSUME NEW p \in Fetch, Step(p) PROVE RemovalInv'
    <2>1. UNCHANGED <<removing, doomed>>
      BY <1>1
         DEF Step, fetch_artefact, room_for, Measure, MakeDirectory, create_exclusively,
                  Created, Receive, EndOfSource, Break, CleanUp, Refuse, Install, Interrupt,
                  Abandon, Killed
    <2>2. CASE \E e \in Entry : fetch_artefact(p, e)
      BY <1>0, <2>1, <2>2 DEF fetch_artefact, RemovalInv
    <2>3. CASE ~ \E e \in Entry : fetch_artefact(p, e)
      <3>1. /\ pc[p] # "idle"
            /\ \E place : pc' = [pc EXCEPT ![p] = place]
            /\ entry' = entry \/ (entry' = [entry EXCEPT ![p] = NoEntry] /\ pc'[p] = "idle")
        BY <1>0, <1>1, <2>3
           DEF Step, room_for, Measure, MakeDirectory, create_exclusively, Created, Receive,
               EndOfSource, Break, CleanUp, Refuse, Install, Interrupt, Abandon, Killed, Goto,
               Fail, End
      <3> QED BY <1>0, <2>1, <3>1 DEF RemovalInv
    <2> QED BY <2>2, <2>3
  <1>2. ASSUME NEW m \in Model, remove(m) PROVE RemovalInv'
    BY <1>2 DEF remove, MayDelete, NamesOf, RemovalInv
  <1>3. ASSUME NEW n \in doomed, Unlink(n) PROVE RemovalInv'
    BY <1>3 DEF Unlink, RemovalInv
  <1>4. CASE RemoveDirectory
    BY <1>0, <1>4, StoreAssumption DEF RemoveDirectory, RemovalInv
  <1>5. ASSUME NEW e \in Entry, DeleteIncoming(e) PROVE RemovalInv'
    BY <1>5 DEF DeleteIncoming, RemovalInv
  <1> QED BY <1>1, <1>2, <1>3, <1>4, <1>5 DEF Next, Deletion

LEMMA AlwaysIInv ==
  ASSUME LiveDeletion = FALSE
  PROVE  Spec => []IInv
  <1>1. IInv /\ [Next]_vars => IInv'
    <2> SUFFICES ASSUME IInv, [Next]_vars PROVE IInv'
      OBVIOUS
    <2>1. CASE UNCHANGED vars
      <3>1. TypeInv'
        BY <2>1, DeletionTypeInv DEF IInv
      <3>2. RemovalInv' /\ NamesInv'
        BY <2>1 DEF vars, IInv, RemovalInv, NamesInv, OneNameEach, WholeArtefacts, holds,
                    NameIsOwn, LeftoversAreAccountedFor, InProgress
      <3> QED BY <3>1, <3>2 DEF IInv
    <2>2. CASE Next
      BY <2>2, StepTypeInv, DeletionTypeInv, StepKeepsNames, DeletionKeepsNames,
         NextKeepsRemovalInv DEF IInv, Next
    <2> QED BY <2>1, <2>2
  <1> QED BY <1>1, InitIInv, PTL DEF Spec

\* Where deletions spare what is being fetched, a file under an artefact's name is
\* whole and verified (fetch.py:14-18, storage.py:85-92).
THEOREM ArtefactsAreWhole ==
  ASSUME LiveDeletion = FALSE
  PROVE  Spec => []WholeArtefacts
  BY AlwaysIInv, PTL DEF IInv, NamesInv

\* There, nobody takes a running fetch's file from under its name (fetch.py:32-38,
\* 253-257).
THEOREM NamesAreOwn ==
  ASSUME LiveDeletion = FALSE
  PROVE  Spec => []NameIsOwn
  BY AlwaysIInv, PTL DEF IInv, NamesInv

\* There, whatever a fetch refuses and whatever fails while it receives, it leaves no file:
\* one under the incoming name is a running fetch's, a killed one's, or that of a call
\* interrupted outside its try or whose own unlink or rename was refused it
\* (fetch.py:249-263).
THEOREM IncomingIsAccountedFor ==
  ASSUME LiveDeletion = FALSE
  PROVE  Spec => []LeftoversAreAccountedFor
  BY AlwaysIInv, PTL DEF IInv, NamesInv

-----------------------------------------------------------------------------
(* The ceiling, for one fetch at a time                                    *)

Weight == [n \in Name |-> file[tree[n]].length]
Used == SumOver(Weight, Present)

\* What the one fetch in progress was promised is still there, and what it has written
\* is taken from it.
RoomFor(p) ==
  /\ pc[p] = "asking" => ~holds(entry[p])
  /\ pc[p] = "listed" => Present \subseteq listed[p]
  /\ pc[p] \in {"room", "made"} => Used + Size[entry[p]] <= Budget
  /\ pc[p] = "created" => Used + Size[entry[p]] <= Budget + file[handle[p]].length

RoomInv ==
  /\ \A p, q \in Fetch : pc[p] # "idle" /\ pc[q] # "idle" => p = q
  /\ Used <= Budget
  /\ \A p \in Fetch : RoomFor(p)

BudgetInv == IsFiniteSet(Present) /\ OneNameEach /\ (alone => RoomInv)

\* The code's sum over names is the sum over their weights.
LEMMA UsedBytesAreWeights ==
  ASSUME NEW names \in SUBSET Name, IsFiniteSet(names)
  PROVE  used_bytes(names) = SumOver(Weight, names)
  <1> DEFINE length(n) == file[tree[n]].length
             Fits(h) == h = [s \in SUBSET names |->
                               IF s = {} THEN 0 ELSE length(AnyOf(s)) + h[s \ {AnyOf(s)}]]
  <1>1. PICK g : Adds(g, Weight, names) /\ SumOver(Weight, names) = g[names]
    BY SumIsAdding
  <1>2. \A n \in names : Weight[n] = length(n)
    BY DEF Weight
  <1>3. \A s \in SUBSET names : s # {} => AnyOf(s) \in names
    BY DEF AnyOf
  <1>4. \A h : Fits(h) <=> Adds(h, Weight, names)
    <2> HIDE DEF length
    <2> QED BY <1>2, <1>3 DEF Adds, Adding
  <1>5. \E h : Fits(h) /\ used_bytes(names) = h[names]
    <2>1. Fits(g)
      BY <1>1, <1>4
    <2> QED BY <2>1 DEF used_bytes, MapThenSumSet, MapThenFoldSet, AnyOf
  <1> HIDE DEF Fits
  <1>6. PICK h : Adds(h, Weight, names) /\ used_bytes(names) = h[names]
    BY <1>4, <1>5
  <1>7. names \in SUBSET names
    OBVIOUS
  <1> QED BY <1>1, <1>6, <1>7, AddingIsUnique

\* What a step does to the names: some go, one that was free gets a free file, or one
\* is renamed over another.
LEMMA NamesChange ==
  ASSUME TypeInv, [Next]_vars
  PROVE  \/ \A n \in Name : tree'[n] \in {tree[n], NoFile}
         \/ \E n \in Name, i \in Free : tree[n] = NoFile /\ tree' = [tree EXCEPT ![n] = i]
         \/ \E a, b \in Name : tree' = [tree EXCEPT ![a] = tree[b], ![b] = NoFile]
  <1>0. /\ tree \in [Name -> File \cup {NoFile}]
        /\ \A p \in Fetch : pc[p] # "idle" => /\ artefact_path(entry[p]) \in Name
                                             /\ incoming_path(entry[p]) \in Name
    BY Paths DEF TypeInv, StoreTypes, CallInv, EntryInv
  <1>1. ASSUME NEW p \in Fetch, Step(p)
        PROVE  \/ \A n \in Name : tree'[n] \in {tree[n], NoFile}
               \/ \E n \in Name, i \in Free :
                    tree[n] = NoFile /\ tree' = [tree EXCEPT ![n] = i]
               \/ \E a, b \in Name : tree' = [tree EXCEPT ![a] = tree[b], ![b] = NoFile]
    <2>1. CASE create_exclusively(p)
      <3>1. CASE UNCHANGED tree
        BY <3>1
      <3>2. CASE ~UNCHANGED tree
        <4>1. /\ Free # {} /\ tree[incoming_path(entry[p])] = NoFile /\ pc[p] = "made"
              /\ Created(p, CHOOSE i \in Free : TRUE)
          BY <2>1, <3>2 DEF create_exclusively
        <4>2. (CHOOSE i \in Free : TRUE) \in Free
          BY <4>1
        <4> QED BY <1>0, <4>1, <4>2 DEF Created
      <3> QED BY <3>1, <3>2
    <2>2. CASE Install(p)
      BY <1>0, <2>2 DEF Install, Abandon
    <2>3. CASE CleanUp(p) \/ Refuse(p)
      BY <1>0, <2>3 DEF CleanUp, Refuse, Abandon
    <2>4. CASE UNCHANGED tree
      BY <2>4
    <2> QED BY <1>1, <2>1, <2>2, <2>3, <2>4
            DEF Step, fetch_artefact, room_for, Measure, MakeDirectory, Receive, EndOfSource,
                Break, Interrupt, Abandon, Killed
  <1>2. CASE Deletion
    BY <1>0, <1>2 DEF Deletion, remove, Unlink, RemoveDirectory, DeleteIncoming
  <1> QED BY <1>1, <1>2 DEF Next, vars

LEMMA NextKeepsOneName ==
  ASSUME TypeInv, IsFiniteSet(Present), OneNameEach, [Next]_vars
  PROVE  IsFiniteSet(Present') /\ OneNameEach'
  <1>0. tree \in [Name -> File \cup {NoFile}] /\ NoFile \notin File
    BY StoreAssumption DEF TypeInv, StoreTypes
  <1>1. CASE \A n \in Name : tree'[n] \in {tree[n], NoFile}
    <2>1. Present' \subseteq Present
      BY <1>1 DEF Present
    <2>2. OneNameEach'
      BY <1>1 DEF OneNameEach
    <2> QED BY <2>1, <2>2, FS_Subset
  <1>2. ASSUME NEW n \in Name, NEW i \in Free, tree' = [tree EXCEPT ![n] = i]
        PROVE  IsFiniteSet(Present') /\ OneNameEach'
    <2>1. Present' \subseteq Present \cup {n}
      BY <1>0, <1>2 DEF Present
    <2>2. IsFiniteSet(Present \cup {n})
      BY FS_AddElement
    <2>3. OneNameEach'
      BY <1>0, <1>2 DEF OneNameEach, Free
    <2> QED BY <2>1, <2>2, <2>3, FS_Subset
  <1>3. ASSUME NEW a \in Name, NEW b \in Name,
               tree' = [tree EXCEPT ![a] = tree[b], ![b] = NoFile]
        PROVE  IsFiniteSet(Present') /\ OneNameEach'
    <2>1. Present' \subseteq Present \cup {a}
      BY <1>0, <1>3 DEF Present
    <2>2. IsFiniteSet(Present \cup {a})
      BY FS_AddElement
    <2>3. OneNameEach'
      BY <1>0, <1>3 DEF OneNameEach
    <2> QED BY <2>1, <2>2, <2>3, FS_Subset
  <1> QED BY <1>1, <1>2, <1>3, NamesChange

LEMMA WeightsAreLengths ==
  ASSUME TypeInv, IsFiniteSet(Present)
  PROVE  /\ \A n \in Present : Weight[n] \in Nat
         /\ Used \in Nat
  <1>1. \A n \in Present : Weight[n] \in Nat
    BY DEF Present, Weight, TypeInv, StoreTypes
  <1> QED BY <1>1, SumTakesOne DEF Used

\* Names that go, or that only change what no name leads to, add nothing.
LEMMA ClearingAddsNothing ==
  ASSUME TypeInv, IsFiniteSet(Present), \A n \in Name : tree'[n] \in {tree[n], NoFile},
         \A n \in Present' : file'[tree[n]].length = file[tree[n]].length
  PROVE  Used' \in Nat /\ Used' <= Used
  <1>1. Present' \in SUBSET Present
    BY DEF Present
  <1>2. \A n \in Present' : Weight'[n] = Weight[n]
    BY DEF Weight, Present
  <1>3. IsFiniteSet(Present')
    BY <1>1, FS_Subset
  <1>4. SumOver(Weight', Present') = SumOver(Weight, Present')
    BY <1>2, <1>3, SumAgrees
  <1>5. /\ SumOver(Weight, Present') \in Nat
        /\ SumOver(Weight, Present') <= SumOver(Weight, Present)
    BY <1>1, SumOfFewer, WeightsAreLengths
  <1> QED BY <1>4, <1>5 DEF Used

\* A new file is empty.
LEMMA CreatingAddsNothing ==
  ASSUME TypeInv, IsFiniteSet(Present), NEW p \in Fetch, NEW i \in Free, pc[p] = "made",
         Created(p, i)
  PROVE  Used' \in Nat /\ Used' <= Used
  <1> DEFINE x == incoming_path(entry[p])
  <1>1. /\ x \in Name /\ i \in File /\ i # NoFile /\ \A n \in Name : tree[n] # i
        /\ tree \in [Name -> File \cup {NoFile}]
        /\ file \in [File -> [length : Nat, sound : BOOLEAN]]
    BY StoreAssumption, Paths DEF Free, TypeInv, StoreTypes, CallInv, EntryInv
  <1>2. /\ tree' = [tree EXCEPT ![x] = i]
        /\ file' = [file EXCEPT ![i] = [length |-> 0, sound |-> TRUE]]
    BY DEF Created
  <1> HIDE DEF x
  <1>3. x \in Present' /\ Weight'[x] = 0
    BY <1>1, <1>2 DEF Present, Weight
  <1>4. Present' \ {x} \subseteq Present
    BY <1>1, <1>2 DEF Present
  <1>5. \A n \in Present' \ {x} : Weight'[n] = Weight[n]
    <2> SUFFICES ASSUME NEW n \in Present', n # x PROVE Weight'[n] = Weight[n]
      OBVIOUS
    <2>1. n \in Name /\ tree'[n] = tree[n] /\ tree[n] # i /\ tree[n] \in File
      BY <1>1, <1>2 DEF Present
    <2>2. file'[tree[n]] = file[tree[n]]
      BY <1>1, <1>2, <2>1
    <2> QED BY <2>1, <2>2 DEF Weight
  <1>6. Used' \in Nat /\ Used' <= Used + Weight'[x] /\ Used \in Nat
    BY <1>3, <1>4, <1>5, SumWithOneMore, WeightsAreLengths DEF Used
  <1> QED BY <1>3, <1>6

\* A chunk is one chunk more, because no file has two names.
LEMMA ReceivingAddsOne ==
  ASSUME TypeInv, IsFiniteSet(Present), OneNameEach, NEW p \in Fetch, NEW sound \in BOOLEAN,
         Receive(p, sound), ~(file[handle[p]].length + 1 > Size[entry[p]])
  PROVE  /\ Used' \in Nat /\ Used' <= Used + 1
         /\ file'[handle[p]].length = file[handle[p]].length + 1
  <1> DEFINE h == handle[p]
  <1>1. /\ h \in File /\ h # NoFile /\ file[h].length \in Nat
        /\ tree \in [Name -> File \cup {NoFile}]
        /\ file \in [File -> [length : Nat, sound : BOOLEAN]]
    BY StoreAssumption DEF Receive, TypeInv, StoreTypes, CallInv, HandleInv, Working
  <1>2. /\ tree' = tree /\ \A i \in File \ {h} : file'[i] = file[i]
        /\ file'[h].length = file[h].length + 1
    BY <1>1 DEF Receive
  <1> HIDE DEF h
  <1>3. CASE \E x \in Name : tree[x] = h
    <2>1. PICK x \in Name : tree[x] = h
      BY <1>3
    <2>2. /\ x \in Present /\ Present' = Present
          /\ Weight'[x] = Weight[x] + 1 /\ Weight[x] \in Nat
      BY <1>1, <1>2, <2>1 DEF Present, Weight
    <2>3. \A n \in Present' \ {x} : Weight'[n] = Weight[n]
      BY <1>1, <1>2, <2>1 DEF Weight, Present, OneNameEach
    <2>4. IsFiniteSet(Present \ {x}) /\ \A n \in Present \ {x} : Weight[n] \in Nat
      BY FS_Subset, WeightsAreLengths
    <2>5. Used = Weight[x] + SumOver(Weight, Present \ {x})
      BY <2>2, SumTakesOne, WeightsAreLengths DEF Used
    <2>6. /\ Used' \in Nat /\ SumOver(Weight, Present \ {x}) \in Nat
          /\ Used' <= SumOver(Weight, Present \ {x}) + Weight'[x]
      <3>1. /\ x \in Present' /\ Weight'[x] \in Nat
            /\ Present' \ {x} \subseteq Present \ {x}
        BY <2>2
      <3> QED BY <2>3, <2>4, <3>1, SumWithOneMore DEF Used
    <2>7. Used' <= Used + 1
      BY <2>2, <2>5, <2>6
    <2> QED BY <1>2, <2>6, <2>7 DEF h
  <1>4. CASE ~ \E x \in Name : tree[x] = h
    <2>1. \A n \in Present' : tree[n] \in File \ {h}
      BY <1>1, <1>2, <1>4 DEF Present
    <2>2. Used' \in Nat /\ Used' <= Used /\ Used \in Nat
      BY <1>2, <2>1, ClearingAddsNothing, WeightsAreLengths
    <2> QED BY <1>2, <2>2 DEF h
  <1> QED BY <1>3, <1>4

\* A rename moves what a name weighs, and what it replaces is gone.
LEMMA RenamingAddsNothing ==
  ASSUME TypeInv, IsFiniteSet(Present), UNCHANGED file, NEW a \in Name, NEW b \in Name, a # b,
         tree[b] # NoFile, tree' = [tree EXCEPT ![a] = tree[b], ![b] = NoFile]
  PROVE  Used' \in Nat /\ Used' <= Used
  <1>1. tree \in [Name -> File \cup {NoFile}]
    BY DEF TypeInv, StoreTypes
  <1>2. /\ a \in Present' /\ b \in Present /\ b \notin Present'
        /\ Present' \ {a} \subseteq Present \ {b}
        /\ Weight'[a] = Weight[b]
    BY <1>1 DEF Present, Weight
  <1>3. \A n \in Present' \ {a} : Weight'[n] = Weight[n]
    BY <1>1 DEF Present, Weight
  <1>4. /\ IsFiniteSet(Present \ {b}) /\ \A n \in Present \ {b} : Weight[n] \in Nat
        /\ Weight[b] \in Nat
    BY <1>2, FS_Subset, WeightsAreLengths
  <1>5. Used = Weight[b] + SumOver(Weight, Present \ {b})
    BY <1>2, SumTakesOne, WeightsAreLengths DEF Used
  <1>6. /\ Used' \in Nat /\ SumOver(Weight, Present \ {b}) \in Nat
        /\ Used' <= SumOver(Weight, Present \ {b}) + Weight'[a]
    BY <1>2, <1>3, <1>4, SumWithOneMore DEF Used
  <1> QED BY <1>2, <1>4, <1>5, <1>6

\* The one fetch in progress keeps to the room it was found.
LEMMA StepKeepsRoomFor ==
  ASSUME TypeInv, BudgetInv, RoomInv, NEW p \in Fetch, Step(p), pc[p] # "idle"
  PROVE  Used' <= Budget /\ RoomFor(p)'
  <1>0. /\ Used \in Nat /\ Used <= Budget /\ Budget \in Nat /\ RoomFor(p)
        /\ IsFiniteSet(Present) /\ OneNameEach
        /\ entry[p] \in Entry /\ Size[entry[p]] \in Nat
        /\ incoming_path(entry[p]) \in Name /\ artefact_path(entry[p]) \in Name
        /\ incoming_path(entry[p]) # artefact_path(entry[p])
        /\ pc \in [Fetch -> {"idle", "asking", "listed", "room", "made"} \cup Working]
        /\ listed \in [Fetch -> SUBSET Name] /\ handle \in [Fetch -> File \cup {NoFile}]
        /\ tree \in [Name -> File \cup {NoFile}]
    BY WeightsAreLengths, StoreAssumption, Paths
       DEF BudgetInv, RoomInv, TypeInv, StoreTypes, CallInv, CallTypes, EntryInv
  <1>1. ASSUME UNCHANGED <<tree, file>> PROVE Used' = Used /\ Present' = Present
    BY <1>1 DEF Used, Weight, Present
  <1>2. ASSUME NEW place \in {"failing", "received", "idle"}, pc' = [pc EXCEPT ![p] = place]
        PROVE  RoomFor(p)'
    BY <1>0, <1>2 DEF RoomFor
  <1>3. ASSUME NEW how, End(p, how) PROVE RoomFor(p)'
    BY <1>2, <1>3 DEF End
  <1>4. ASSUME NEW e \in Entry, fetch_artefact(p, e) PROVE FALSE
    BY <1>4 DEF fetch_artefact
  <1>5. CASE room_for(p)
    <2>1. /\ UNCHANGED <<tree, file>> /\ pc' = [pc EXCEPT ![p] = "listed"]
          /\ listed' = [listed EXCEPT ![p] = Present]
      BY <1>0, <1>5 DEF room_for, Goto, RoomFor
    <2> QED BY <1>0, <1>1, <2>1 DEF RoomFor
  <1>6. CASE Measure(p)
    <2>1. UNCHANGED <<tree, file>> /\ pc[p] = "listed"
      BY <1>6 DEF Measure
    <2>2. CASE \E how : End(p, how)
      BY <1>0, <1>1, <1>3, <2>1, <2>2
    <2>3. CASE ~ \E how : End(p, how)
      <3>1. /\ listed[p] = Present /\ ~(used_bytes(listed[p]) + Size[entry[p]] > Budget)
            /\ pc' = [pc EXCEPT ![p] = "room"] /\ entry' = entry
        BY <1>0, <1>6, <2>1, <2>3 DEF Measure, Goto, RoomFor
      <3>2. Present \in SUBSET Name
        BY DEF Present
      <3>3. used_bytes(Present) = Used
        BY <1>0, <3>2, UsedBytesAreWeights DEF Used
      <3>4. Used + Size[entry[p]] <= Budget
        BY <1>0, <3>1, <3>3
      <3> QED BY <1>0, <1>1, <2>1, <3>1, <3>4 DEF RoomFor
    <2> QED BY <2>2, <2>3
  <1>7. CASE MakeDirectory(p)
    <2>1. /\ UNCHANGED <<tree, file, entry>> /\ pc[p] = "room"
          /\ pc' = [pc EXCEPT ![p] = "made"]
      BY <1>7 DEF MakeDirectory, Goto
    <2> QED BY <1>0, <1>1, <2>1 DEF RoomFor
  <1>8. CASE create_exclusively(p)
    <2>1. pc[p] = "made" /\ Used + Size[entry[p]] <= Budget
      BY <1>0, <1>8 DEF create_exclusively, RoomFor
    <2>2. CASE \E how : End(p, how) /\ UNCHANGED <<tree, file>>
      BY <1>0, <1>1, <1>3, <2>2
    <2>3. CASE ~ \E how : End(p, how) /\ UNCHANGED <<tree, file>>
      <3>1. Free # {} /\ Created(p, CHOOSE i \in Free : TRUE)
        BY <1>8, <2>3 DEF create_exclusively
      <3>2. PICK i \in Free : Created(p, i)
        BY <3>1
      <3>3. Used' \in Nat /\ Used' <= Used
        BY <1>0, <2>1, <3>2, CreatingAddsNothing
      <3>4. /\ handle'[p] = i /\ file'[i].length = 0 /\ entry' = entry
            /\ pc'[p] = "created"
        BY <1>0, <3>2 DEF Created, Goto, Free, TypeInv, StoreTypes
      <3>5. Used' + Size[entry[p]] <= Budget + 0
        BY <1>0, <2>1, <3>3
      <3> QED BY <1>0, <3>3, <3>4, <3>5 DEF RoomFor
    <2> QED BY <2>2, <2>3
  <1>9. ASSUME NEW sound \in BOOLEAN, Receive(p, sound) PROVE Used' <= Budget /\ RoomFor(p)'
    <2>1. /\ pc[p] = "created" /\ handle[p] \in File /\ file[handle[p]].length \in Nat
          /\ Used + Size[entry[p]] <= Budget + file[handle[p]].length
      BY <1>0, <1>9 DEF Receive, RoomFor, TypeInv, StoreTypes, CallInv, HandleInv, Working
    <2>2. CASE file[handle[p]].length + 1 > Size[entry[p]]
      <3>1. UNCHANGED <<tree, file>> /\ pc' = [pc EXCEPT ![p] = "failing"]
        BY <1>9, <2>2 DEF Receive, Fail
      <3> QED BY <1>0, <1>1, <1>2, <3>1
    <2>3. CASE ~(file[handle[p]].length + 1 > Size[entry[p]])
      <3>1. /\ Used' \in Nat /\ Used' <= Used + 1
            /\ file'[handle[p]].length = file[handle[p]].length + 1
        BY <1>0, <1>9, <2>3, ReceivingAddsOne
      <3>2. UNCHANGED <<pc, entry, handle>>
        BY <1>9, <2>3 DEF Receive
      <3>3. /\ Used' + Size[entry[p]] <= Budget + file'[handle[p]].length
            /\ Used' <= Budget
        BY <1>0, <2>1, <2>3, <3>1
      <3> QED BY <2>1, <3>2, <3>3 DEF RoomFor
    <2> QED BY <2>2, <2>3
  <1>10. CASE EndOfSource(p) \/ Break(p)
    <2>1. /\ UNCHANGED <<tree, file>>
          /\ \E place \in {"received", "failing"} : pc' = [pc EXCEPT ![p] = place]
      BY <1>10 DEF EndOfSource, Break, Goto, Fail
    <2> QED BY <1>0, <1>1, <1>2, <2>1
  <1>11. CASE (CleanUp(p) \/ Refuse(p)) /\ ~Abandon(p, "OSError")
    <2>1. /\ \A n \in Name : tree'[n] \in {tree[n], NoFile}
          /\ UNCHANGED file /\ \E how : End(p, how)
      BY <1>0, <1>11 DEF CleanUp, Refuse
    <2>2. Used' \in Nat /\ Used' <= Used
      BY <1>0, <2>1, ClearingAddsNothing
    <2> QED BY <1>0, <1>3, <2>1, <2>2
  <1>12. CASE Install(p) /\ ~Abandon(p, "OSError")
    <2>1. UNCHANGED file /\ \E how : End(p, how)
      BY <1>12 DEF Install
    <2>2. CASE UNCHANGED tree
      BY <1>0, <1>1, <1>3, <2>1, <2>2
    <2>3. CASE ~UNCHANGED tree
      <3> DEFINE a == artefact_path(entry[p])
                 b == incoming_path(entry[p])
      <3>1. tree[b] # NoFile /\ tree' = [tree EXCEPT ![a] = tree[b], ![b] = NoFile]
        BY <1>12, <2>3 DEF Install
      <3>2. a \in Name /\ b \in Name /\ a # b
        BY <1>0
      <3> HIDE DEF a, b
      <3>3. Used' \in Nat /\ Used' <= Used
        BY <1>0, <2>1, <3>1, <3>2, RenamingAddsNothing
      <3> QED BY <1>0, <1>3, <2>1, <3>3
    <2> QED BY <2>2, <2>3
  <1>13. CASE Killed(p) \/ \E error : Abandon(p, error)
    BY <1>0, <1>1, <1>3, <1>13 DEF Killed, Abandon
  <1> QED BY <1>4, <1>5, <1>6, <1>7, <1>8, <1>9, <1>10, <1>11, <1>12, <1>13
         DEF Step, Interrupt

LEMMA NextKeepsBudgetInv ==
  ASSUME TypeInv, BudgetInv, [Next]_vars
  PROVE  BudgetInv'
  <1>1. IsFiniteSet(Present') /\ OneNameEach'
    BY NextKeepsOneName DEF BudgetInv
  <1>2. ASSUME alone' PROVE RoomInv'
    <2>1. /\ pc \in [Fetch -> {"idle", "asking", "listed", "room", "made"} \cup Working]
          /\ tree \in [Name -> File \cup {NoFile}] /\ Used \in Nat /\ Budget \in Nat
          /\ \A p \in Fetch : pc[p] # "idle" => artefact_path(entry[p]) \in Name
      BY WeightsAreLengths, StoreAssumption, Paths
         DEF BudgetInv, TypeInv, StoreTypes, CallInv, CallTypes, EntryInv
    <2>2. alone
      BY <1>2
         DEF Next, Step, fetch_artefact, room_for, Measure, MakeDirectory, create_exclusively,
             Created, Receive, EndOfSource, Break, CleanUp, Refuse, Install, Interrupt,
             Abandon, Killed, Deletion, remove, Unlink, RemoveDirectory, DeleteIncoming, vars
    <2>3. RoomInv
      BY <2>2 DEF BudgetInv
    <2>4. ASSUME NEW p \in Fetch, Step(p), pc[p] # "idle" PROVE RoomInv'
      <3>1. Used' <= Budget /\ RoomFor(p)'
        BY <2>3, <2>4, StepKeepsRoomFor
      <3>2. ASSUME NEW q \in Fetch, q # p PROVE pc'[q] = "idle"
        <4>1. pc[q] = "idle"
          BY <2>3, <2>4, <3>2 DEF RoomInv
        <4>2. \E place : pc' = [pc EXCEPT ![p] = place]
          BY <2>1, <2>4
             DEF Step, fetch_artefact, room_for, Measure, MakeDirectory, create_exclusively,
                 Created, Receive, EndOfSource, Break, CleanUp, Refuse, Install, Interrupt,
                 Abandon, Killed, Goto, Fail, End
        <4> QED BY <2>1, <3>2, <4>1, <4>2
      <3>3. \A q \in Fetch : q # p => RoomFor(q)'
        BY <3>2 DEF RoomFor
      <3> QED BY <3>1, <3>2, <3>3 DEF RoomInv
    <2>5. ASSUME NEW p \in Fetch, Step(p), pc[p] = "idle" PROVE RoomInv'
      <3>1. PICK e \in Entry : fetch_artefact(p, e)
        BY <2>5
           DEF Step, room_for, Measure, MakeDirectory, create_exclusively, Receive,
               EndOfSource, Break, CleanUp, Refuse, Install, Interrupt, Killed, Working
      <3>2. /\ UNCHANGED <<tree, file, handle, listed>> /\ Used' = Used /\ Present' = Present
            /\ \/ pc' = [pc EXCEPT ![p] = "idle"] /\ entry' = [entry EXCEPT ![p] = NoEntry]
               \/ /\ pc' = [pc EXCEPT ![p] = "asking"] /\ entry' = [entry EXCEPT ![p] = e]
                  /\ ~holds(e) /\ \A q \in Fetch : pc[q] = "idle"
        BY <1>2, <3>1 DEF fetch_artefact, Used, Weight, Present
      <3>3. \A q \in Fetch : q # p => pc'[q] = pc[q] /\ entry'[q] = entry[q]
        BY <2>1, <3>2 DEF TypeInv, CallInv, CallTypes
      <3>4. \A q \in Fetch : q # p => RoomFor(q)'
        BY <2>3, <3>2, <3>3 DEF RoomInv, RoomFor, holds
      <3>5. RoomFor(p)'
        BY <2>1, <3>2 DEF RoomFor, holds, TypeInv, CallInv, CallTypes
      <3>6. \A q, r \in Fetch : pc'[q] # "idle" /\ pc'[r] # "idle" => q = r
        BY <2>1, <2>3, <3>2 DEF RoomInv
      <3> QED BY <2>3, <3>2, <3>4, <3>5, <3>6 DEF RoomInv
    <2>6. CASE Deletion \/ UNCHANGED vars
      <3>1. /\ UNCHANGED <<file, pc, entry, handle, listed>>
            /\ \A n \in Name : tree'[n] \in {tree[n], NoFile}
        BY <2>1, <2>6 DEF Deletion, remove, Unlink, RemoveDirectory, DeleteIncoming, vars
      <3>2. Used' \in Nat /\ Used' <= Used
        BY <3>1, ClearingAddsNothing DEF BudgetInv
      <3>3. Present' \subseteq Present
        BY <3>1 DEF Present
      <3>4. ASSUME NEW p \in Fetch PROVE RoomFor(p)'
        <4>1. RoomFor(p)
          BY <2>3 DEF RoomInv
        <4>2. pc[p] # "idle" => Size[entry[p]] \in Nat
          BY StoreAssumption DEF TypeInv, CallInv, EntryInv
        <4>3. pc[p] = "created" => file[handle[p]].length \in Nat
          BY DEF TypeInv, StoreTypes, CallInv, HandleInv, Working
        <4>4. pc[p] = "asking" => ~holds(entry[p])'
          BY <2>1, <3>1, <4>1 DEF RoomFor, holds
        <4> QED BY <2>1, <3>1, <3>2, <3>3, <4>1, <4>2, <4>3, <4>4 DEF RoomFor
      <3> QED BY <2>1, <2>3, <3>1, <3>2, <3>4 DEF RoomInv
    <2> QED BY <2>4, <2>5, <2>6 DEF Next
  <1> QED BY <1>1, <1>2 DEF BudgetInv

\* The store holds no more than its ceiling as long as one fetch is made at a time,
\* whatever failed, was killed, was removed or was deleted under it (storage.py:258-280).
THEOREM OneFetchStaysWithinBudget == Spec => []AloneWithinBudget
  <1>1. Init => BudgetInv
    <2> SUFFICES ASSUME Init PROVE BudgetInv
      OBVIOUS
    <2>1. Present = {} /\ \A n \in Name : tree[n] = NoFile
      BY DEF Init, Present
    <2>2. Used = 0
      BY <2>1, FS_EmptySet, SumTakesOne DEF Used
    <2>3. Budget \in Nat
      BY StoreAssumption
    <2> QED BY <2>1, <2>2, <2>3, FS_EmptySet
            DEF Init, BudgetInv, OneNameEach, RoomInv, RoomFor
  <1>2. TypeInv /\ BudgetInv /\ [Next]_vars => BudgetInv'
    BY NextKeepsBudgetInv
  <1>3. BudgetInv => AloneWithinBudget
    <2> SUFFICES ASSUME BudgetInv, alone PROVE WithinBudget
      BY DEF AloneWithinBudget
    <2>1. Present \in SUBSET Name
      BY DEF Present
    <2>2. used_bytes(Present) <= Budget
      BY <2>1, UsedBytesAreWeights DEF BudgetInv, RoomInv, Used
    <2> QED BY <2>2 DEF WithinBudget, used_bytes
  <1> QED BY <1>1, <1>2, <1>3, AlwaysTypeInv, PTL DEF Spec

=============================================================================
