---------------------------- MODULE ProcessProofs ----------------------------
(***************************************************************************)
(* The process of the broker, for every value of the constants.  Under a   *)
(* steady clock, the link of FilePersistor always names a complete file    *)
(* with the snapshot last committed.  The process stores the states of the *)
(* broker in order.  What waits in the channel to the snapshotter is       *)
(* between the stored state and the state of the broker.  The last state   *)
(* is stored when the server has its result, so the broker has exited and  *)
(* its state is final, and when the snapshotter has stopped, so that       *)
(* nothing is stored after it.                                             *)
(*                                                                         *)
(* Of a bridge of the process: commands to its pumps are not answered      *)
(* twice, nor lost unless a later one for the filter takes the entry; the  *)
(* pumps wait for each other in a circle only if each of their processors  *)
(* has more than Capacity + 1 messages before it; and the store of the     *)
(* bridge skips, repeats and removes before its time no publication.       *)
(***************************************************************************)
EXTENDS FilePersistor, Mqttd, PumpChannels, BridgeStore, FiniteSetTheorems, TLAPS

(* While a store writes and links its file, that file is newer than all    *)
(* others, and neither link names it before its time.                      *)
NewFile ==
  pc \in {"write", "cleanup", "unlink", "symlink", "rename"} =>
    /\ path \in DOMAIN files
    /\ path # link
    /\ pc # "rename" => path # tmp
    /\ \A f \in DOMAIN files : f = path \/ Less(f, path)

(* From the end of the writing to the rename, the new file is complete.    *)
NewFileComplete ==
  /\ pc \in {"unlink", "symlink", "rename"} => files[path] = Complete
  /\ pc = "symlink" => tmp = None
  /\ pc = "rename" => tmp = path

(* After the rename the file the link names is the newest, and none of the *)
(* files to be pruned.                                                     *)
LinkNewest ==
  /\ pc \in {"readdir", "prune"} => link # None /\ tmp = None /\ committed = stored
  /\ pc = "readdir" => \A f \in DOMAIN files : f = link \/ Less(f, link)
  /\ pc = "prune" => link \notin doomed

(* What was acknowledged had been committed.                               *)
AckedCommitted ==
  /\ acked <= committed /\ committed <= stored
  /\ committed > 0 => link # None

(* The inductive invariant.                                                *)
FileInv ==
  /\ FTypeOK /\ LinkValid /\ TempRemovable
  /\ NewFile /\ NewFileComplete /\ LinkNewest /\ AckedCommitted

(* The order of names is irreflexive and asymmetric.                       *)
LEMMA LessStrict ==
  ASSUME NEW f \in Name, NEW g \in Name
  PROVE  ~ Less(f, f) /\ (Less(f, g) => ~ Less(g, f))
BY PersistorAssumption DEF Less, Name

(* The value that stands for no name is not a name.                        *)
LEMMA NoneIsNoName == None \notin Name
BY DEF None, Name

(* Initially there are no files and no links.                              *)
LEMMA FileInitInv == FInit => FileInv
BY PersistorAssumption, NoneIsNoName
   DEF FInit, FileInv, FTypeOK, LinkValid, TempRemovable, NewFile, NewFileComplete, LinkNewest,
       AckedCommitted, PC

(* A store that returns an error changes no file.                          *)
LEMMA FailInv == FileInv /\ Fail => FileInv'
BY Zenon DEF Fail, FileInv, FTypeOK, LinkValid, TempRemovable, NewFile, NewFileComplete, LinkNewest,
       AckedCommitted, PC

(* A new file is newer than all files there are, hence not one of them.    *)
LEMMA OpenFileInv == ClockSteady /\ FileInv /\ OpenFile => FileInv'
<1> SUFFICES ASSUME ClockSteady, FileInv, OpenFile PROVE FileInv'
  BY Zenon
<1> DEFINE n == (seq + 1) % SeqNumbers
           name == <<clock, n>>
<1>1. name \in Name /\ n \in 0 .. SeqNumbers - 1
  BY PersistorAssumption DEF FileInv, FTypeOK, Name
<1>2. name \notin DOMAIN files /\ \A f \in DOMAIN files : Less(f, name)
  BY <1>1, LessStrict, Zenon DEF OpenFile, NewestName, FileInv, FTypeOK
<1>3. seq' = n /\ path' = name
  BY Zenon DEF OpenFile
<1>4. name # None
  BY <1>1, NoneIsNoName, Zenon
<1>5. link \notin DOMAIN files => link = None
  BY Zenon DEF FileInv, LinkValid
<1>6. tmp \notin DOMAIN files => tmp = None
  BY Zenon DEF FileInv, TempRemovable
<1> HIDE DEF n, name
<1>7. CASE pc' = "idle" /\ result' = "error" /\ files' = files
  <2>1. /\ UNCHANGED <<link, tmp, clock, doomed, committed, acked>>
        /\ result' = "error" /\ stored' = stored + 1
    BY <1>7, Zenon DEF OpenFile
  <2>2. FTypeOK'
    BY <1>1, <1>3, <1>7, <2>1 DEF FileInv, FTypeOK, PC
  <2>3. LinkValid' /\ TempRemovable'
    BY <1>7, <2>1, Zenon DEF FileInv, LinkValid, TempRemovable
  <2>4. NewFile' /\ NewFileComplete' /\ LinkNewest'
    BY <1>7, Zenon DEF NewFile, NewFileComplete, LinkNewest
  <2>5. AckedCommitted'
    BY <2>1 DEF FileInv, FTypeOK, AckedCommitted
  <2> QED
    BY <2>2, <2>3, <2>4, <2>5, Zenon DEF FileInv
<1>8. CASE /\ files' = Written(files, name, [state |-> stored + 1, complete |-> FALSE])
           /\ pc' = "write"
  <2>1. /\ DOMAIN files' = DOMAIN files \cup {name}
        /\ \A f \in DOMAIN files : files'[f] = files[f]
        /\ files' \in [DOMAIN files' -> [state : Nat, complete : BOOLEAN]]
    BY <1>2, <1>8 DEF Written, FileInv, FTypeOK
  <2>2. /\ UNCHANGED <<link, tmp, clock, doomed, committed, acked>>
        /\ result' \in {result, "error"}
        /\ stored' = stored + 1
    BY Zenon DEF OpenFile
  <2>3. FTypeOK'
    <3>1. DOMAIN files' \subseteq Name /\ path' \in Name /\ seq' \in 0 .. SeqNumbers - 1
      BY <1>1, <1>3, <2>1, Zenon DEF FileInv, FTypeOK
    <3>2. {stored, committed, acked}' \subseteq Nat
      BY <2>2 DEF FileInv, FTypeOK
    <3> QED
      BY <1>8, <2>1, <2>2, <3>1, <3>2, Zenon DEF FileInv, FTypeOK, PC
  <2>4. LinkValid' /\ TempRemovable'
    BY <2>1, <2>2, Zenon DEF FileInv, LinkValid, TempRemovable
  <2>5. NewFile' /\ NewFileComplete' /\ LinkNewest'
    BY <1>2, <1>3, <1>4, <1>5, <1>6, <1>8, <2>1, <2>2, Zenon
       DEF NewFile, NewFileComplete, LinkNewest
  <2>6. AckedCommitted'
    BY <2>2 DEF FileInv, FTypeOK, AckedCommitted
  <2> QED
    BY <2>3, <2>4, <2>5, <2>6, Zenon DEF FileInv
<1> QED
  BY <1>7, <1>8, Zenon DEF OpenFile, n, name

(* Writing completes the new file, and touches no other.                   *)
LEMMA WriteFileInv == FileInv /\ WriteFile => FileInv'
<1> SUFFICES ASSUME FileInv, WriteFile PROVE FileInv'
  BY Zenon
<1>1. /\ pc = "write" /\ path \in DOMAIN files /\ path # link /\ path # tmp
      /\ UNCHANGED <<link, tmp, seq, clock, path, doomed, stored, committed, acked,
                     result>>
  BY Zenon DEF WriteFile, FileInv, NewFile
<1>2. CASE UNCHANGED files /\ pc' = "cleanup"
  BY <1>1, <1>2, Zenon
     DEF FileInv, FTypeOK, LinkValid, TempRemovable, NewFile, NewFileComplete, LinkNewest,
         AckedCommitted, PC
<1>3. CASE files' = Written(files, path, Complete) /\ pc' = "unlink"
  <2>1. Complete \in [state : Nat, complete : BOOLEAN] /\ Complete' = Complete
    BY <1>1, Zenon DEF Complete, FileInv, FTypeOK
  <2>2. /\ DOMAIN files' = DOMAIN files
        /\ \A f \in DOMAIN files : files'[f] = IF f = path THEN Complete ELSE files[f]
        /\ files' \in [DOMAIN files' -> [state : Nat, complete : BOOLEAN]]
    BY <1>1, <1>3, <2>1, Zenon DEF Written, FileInv, FTypeOK
  <2>3. FTypeOK'
    BY <1>1, <1>3, <2>2, Zenon DEF FileInv, FTypeOK, PC
  <2>4. LinkValid' /\ TempRemovable'
    BY <1>1, <2>2, Zenon DEF FileInv, LinkValid, TempRemovable
  <2>5. NewFile' /\ NewFileComplete' /\ LinkNewest' /\ AckedCommitted'
    BY <1>1, <1>3, <2>1, <2>2, Zenon DEF FileInv, NewFile, NewFileComplete, LinkNewest, AckedCommitted
  <2> QED
    BY <2>3, <2>4, <2>5, Zenon DEF FileInv
<1> QED
  BY <1>2, <1>3, Zenon DEF WriteFile

(* The file that is removed after an error is the new one.                 *)
LEMMA RemoveNewInv == FileInv /\ RemoveNew => FileInv'
BY Zenon DEF RemoveNew, FileInv, FTypeOK, LinkValid, TempRemovable, NewFile, NewFileComplete, LinkNewest,
       AckedCommitted, PC, Without

(* A temporary link has its target, so it is always removed.               *)
LEMMA UnlinkTempInv == FileInv /\ UnlinkTemp => FileInv'
<1> SUFFICES ASSUME FileInv, UnlinkTemp PROVE FileInv'
  BY Zenon
<1>1. CASE Fail
  BY <1>1, FailInv, Zenon
<1>2. CASE ~ Fail
  <2>1. FTypeOK' /\ AckedCommitted'
    BY <1>2, Zenon DEF UnlinkTemp, FileInv, FTypeOK, NewFileComplete, AckedCommitted, PC
  <2>2. LinkValid' /\ TempRemovable'
    BY <1>2, NoneIsNoName, Zenon
       DEF UnlinkTemp, FileInv, FTypeOK, LinkValid, TempRemovable, NewFile, NewFileComplete, Complete
  <2>3. NewFile' /\ NewFileComplete' /\ LinkNewest'
    BY <1>2, NoneIsNoName, Zenon
       DEF UnlinkTemp, FileInv, FTypeOK, LinkValid, TempRemovable, NewFile, NewFileComplete, LinkNewest,
           Complete
  <2> QED
    BY <2>1, <2>2, <2>3, Zenon DEF FileInv
<1> QED
  BY <1>1, <1>2, Zenon

(* The temporary link names the new, complete file.                        *)
LEMMA SymlinkInv == FileInv /\ Symlink => FileInv'
<1> SUFFICES ASSUME FileInv, Symlink PROVE FileInv'
  BY Zenon
<1>1. CASE Fail
  BY <1>1, FailInv, Zenon
<1>2. CASE ~ Fail
  <2>1. FTypeOK' /\ AckedCommitted'
    BY <1>2, Zenon DEF Symlink, FileInv, FTypeOK, NewFileComplete, AckedCommitted, PC
  <2>2. LinkValid' /\ TempRemovable'
    BY <1>2, NoneIsNoName, Zenon
       DEF Symlink, FileInv, FTypeOK, LinkValid, TempRemovable, NewFile, NewFileComplete, Complete
  <2>3. NewFile' /\ NewFileComplete' /\ LinkNewest'
    BY <1>2, NoneIsNoName, Zenon
       DEF Symlink, FileInv, FTypeOK, LinkValid, TempRemovable, NewFile, NewFileComplete, LinkNewest,
           Complete
  <2> QED
    BY <2>1, <2>2, <2>3, Zenon DEF FileInv
<1> QED
  BY <1>1, <1>2, Zenon

(* The rename commits a complete file.                                     *)
LEMMA RenameInv == FileInv /\ Rename => FileInv'
<1> SUFFICES ASSUME FileInv, Rename PROVE FileInv'
  BY Zenon
<1>1. CASE Fail
  BY <1>1, FailInv, Zenon
<1>2. CASE ~ Fail
  <2>1. FTypeOK' /\ AckedCommitted'
    BY <1>2, NoneIsNoName DEF Rename, FileInv, FTypeOK, NewFile, NewFileComplete, AckedCommitted, PC
  <2>2. LinkValid' /\ TempRemovable'
    BY <1>2, NoneIsNoName, Zenon
       DEF Rename, FileInv, FTypeOK, LinkValid, TempRemovable, NewFile, NewFileComplete, Complete
  <2>3. NewFile' /\ NewFileComplete' /\ LinkNewest'
    BY <1>2, NoneIsNoName, Zenon
       DEF Rename, FileInv, FTypeOK, LinkValid, TempRemovable, NewFile, NewFileComplete, LinkNewest,
           Complete
  <2> QED
    BY <2>1, <2>2, <2>3, Zenon DEF FileInv
<1> QED
  BY <1>1, <1>2, Zenon

(* The newest file is not among those beyond the first previous_count.     *)
LEMMA ReadDirInv == FileInv /\ ReadDir => FileInv'
<1> SUFFICES ASSUME FileInv, ReadDir PROVE FileInv'
  BY Zenon
<1>1. CASE Fail
  BY <1>1, FailInv, Zenon
<1>2. CASE pc' = "prune" /\ doomed' = Oldest /\
           UNCHANGED <<files, link, tmp, seq, clock, path, stored, committed, acked,
                       result>>
  <2>1. \A f \in DOMAIN files : f = link \/ Less(f, link)
    BY Zenon DEF ReadDir, FileInv, LinkNewest
  <2>2. link \in Name /\ DOMAIN files \subseteq Name
    BY Zenon DEF ReadDir, FileInv, LinkNewest, LinkValid, FTypeOK
  <2>3. {g \in DOMAIN files : Less(link, g)} = {}
    BY <2>1, <2>2, LessStrict, Zenon
  <2>4. link \notin Oldest
    BY <2>3, FS_EmptySet, PersistorAssumption DEF Oldest
  <2>5. Oldest \subseteq Name
    BY <2>2, Zenon DEF Oldest
  <2> QED
    BY <1>2, <2>4, <2>5, Zenon
       DEF ReadDir, FileInv, FTypeOK, LinkValid, TempRemovable, NewFile, NewFileComplete, LinkNewest,
           AckedCommitted, PC
<1> QED
  BY <1>1, <1>2, Zenon DEF ReadDir

(* A prune removes neither what the link names nor a temporary link's file. *)
LEMMA PruneInv == ASSUME FileInv, NEW f \in Name, Prune(f) PROVE FileInv'
<1>1. CASE Fail
  BY <1>1, FailInv, Zenon
<1>2. CASE files' = Without(files, f)
  BY <1>2, FailInv, Zenon
     DEF Prune, FileInv, FTypeOK, LinkValid, TempRemovable, NewFile, NewFileComplete, LinkNewest,
         AckedCommitted, PC, Without
<1> QED
  BY <1>1, <1>2, Zenon DEF Prune

(* The end of a store, a crash, a restart and the clock change no file.    *)
LEMMA FileOtherInv == FileInv /\ (Stored \/ Crash \/ FRestart \/ Tick) => FileInv'
<1> SUFFICES ASSUME FileInv, Stored \/ Crash \/ FRestart \/ Tick PROVE FileInv'
  BY Zenon
<1> USE PersistorAssumption
    DEF FileInv, FTypeOK, LinkValid, TempRemovable, NewFile, NewFileComplete, LinkNewest,
        AckedCommitted, PC, Complete
<1>1. CASE Stored
  BY <1>1, Zenon DEF Stored
<1>2. CASE Crash
  BY <1>2, Zenon DEF Crash
<1>3. CASE FRestart
  BY <1>3 DEF FRestart
<1>4. CASE Tick
  BY <1>4 DEF Tick
<1> QED
  BY <1>1, <1>2, <1>3, <1>4, Zenon

(* Every step of store, every failure and every crash preserves FileInv.       *)
LEMMA FileNextInv == ClockSteady /\ FileInv /\ [FNext]_fvars => FileInv'
<1> SUFFICES ASSUME ClockSteady, FileInv, [FNext]_fvars PROVE FileInv'
  BY Zenon
<1>1. CASE UNCHANGED fvars
  BY <1>1
     DEF fvars, FileInv, FTypeOK, LinkValid, TempRemovable, NewFile, NewFileComplete, LinkNewest,
         AckedCommitted, PC, Complete
<1>2. CASE FNext
  BY <1>2, OpenFileInv, WriteFileInv, RemoveNewInv, UnlinkTempInv, SymlinkInv, RenameInv,
     ReadDirInv, PruneInv, FileOtherInv, Zenon DEF FNext
<1> QED
  BY <1>1, <1>2, Zenon

(* The inductive invariant holds as long as the clock does not go back.    *)
THEOREM FileInvHolds == ClockSteady => (FSpec => []FileInv)
<1> SUFFICES ASSUME ClockSteady PROVE FSpec => []FileInv
  BY Zenon
<1>1. FInit => FileInv
  BY FileInitInv, Zenon
<1>2. FileInv /\ [FNext]_fvars => FileInv'
  BY FileNextInv, Zenon
<1> QED
  BY <1>1, <1>2, PTL DEF FSpec

(* Wherever a store fails or the process crashes, load finds a complete    *)
(* file with the snapshot last committed.                                  *)
THEOREM LinkValidHolds == ClockSteady => (FSpec => []LinkValid)
<1>1. FileInv => LinkValid
  BY Zenon DEF FileInv
<1> QED
  BY <1>1, FileInvHolds, PTL

(* A temporary link left by a crash never makes later stores fail.         *)
THEOREM TempRemovableHolds == ClockSteady => (FSpec => []TempRemovable)
<1>1. FileInv => TempRemovable
  BY Zenon DEF FileInv
<1> QED
  BY <1>1, FileInvHolds, PTL

(* What was acknowledged is what a restart loads, or older than that.      *)
THEOREM DurableHolds == ClockSteady => (FSpec => []Durable)
<1>1. FileInv => Durable
  BY DEF FileInv, FTypeOK, LinkValid, AckedCommitted, Durable, Load
<1> QED
  BY <1>1, FileInvHolds, PTL

-----------------------------------------------------------------------------
Typed ==
  /\ version \in Nat /\ disk \in Nat /\ states \in Seq(Int)
  /\ broker \in {"running", "exited"}
  /\ snapshotter \in {"running", "stopped"}

State(e) == e # Shutdown

(* The states in the channel are in order between the disk and the broker. *)
Sorted ==
  /\ \A i \in 1 .. Len(states) :
       State(states[i]) => disk <= states[i] /\ states[i] <= version
  /\ \A i, j \in 1 .. Len(states) :
       i < j /\ State(states[i]) /\ State(states[j]) => states[i] <= states[j]

Final ==
  /\ server \in {"rest", "done"} => broker = "exited"
  /\ app \in {"shutdown", "join", "exit", "done"} => server = "done"
  /\ app \in {"exit", "done"} => snapshotter = "stopped" /\ disk = version

ProcessInv ==
  /\ Typed
  /\ disk <= version
  /\ snapshotter = "running" => Sorted
  /\ Final

(* The process starts with the state it has loaded and an empty channel.   *)
LEMMA ProcessInitInv == MInit => ProcessInv
<1> SUFFICES ASSUME MInit PROVE ProcessInv
  BY Zenon
<1>1. states = << >> /\ Len(states) = 0 /\ states \in Seq(Int)
  BY DEF MInit
<1>2. Sorted
  BY <1>1 DEF Sorted
<1>3. Typed /\ disk <= version /\ Final
  BY <1>1 DEF MInit, Typed, Final
<1> QED  BY <1>2, <1>3, Zenon DEF ProcessInv

(* Appending the state of the broker, or Shutdown, keeps the channel in    *)
(* order.                                                                  *)
LEMMA AppendSorted ==
  ASSUME Typed, Sorted, disk <= version, NEW e \in Int, e = version \/ e = Shutdown,
         states' = Append(states, e), disk' = disk, version' = version
  PROVE  Sorted' /\ states' \in Seq(Int)
<1>1. /\ Len(states') = Len(states) + 1 /\ states' \in Seq(Int)
      /\ \A i \in 1 .. Len(states) : states'[i] = states[i]
      /\ states'[Len(states) + 1] = e
  BY DEF Typed
<1>2. \A i \in 1 .. Len(states) : states[i] \in Int
  BY DEF Typed
<1>3. Len(states) \in Nat
  BY DEF Typed
<1>4. \A i \in 1 .. Len(states') : i \in 1 .. Len(states) \/ i = Len(states) + 1
  BY <1>1, <1>3
<1>5. \A i \in 1 .. Len(states') : State(states'[i]) => disk <= states'[i] /\ states'[i] <= version
  BY <1>1, <1>4 DEF Sorted, State, Typed
<1> QED  BY <1>1, <1>2, <1>3, <1>4, <1>5 DEF Sorted, State, Shutdown, Typed

(* Taking the first event leaves a channel that is in order, also between  *)
(* a state that was just stored and the state of the broker.               *)
LEMMA TailSorted ==
  ASSUME Typed, Sorted, states # << >>, states' = Tail(states), version' = version,
         disk' = disk \/ (State(Head(states)) /\ disk' = Head(states))
  PROVE  Sorted' /\ states' \in Seq(Int) /\ disk' \in Int /\ disk <= disk'
           /\ (disk <= version => disk' <= version)
<1>1. /\ Len(states) \in Nat \ {0} /\ Len(states') = Len(states) - 1 /\ states' \in Seq(Int)
      /\ \A i \in 1 .. Len(states) - 1 : states'[i] = states[i + 1]
      /\ Head(states) = states[1]
  BY DEF Typed
<1>2. \A i \in 1 .. Len(states) : states[i] \in Int
  BY DEF Typed
<1>3. disk' \in Int /\ disk <= disk' /\ (disk <= version => disk' <= version)
  BY <1>1, <1>2 DEF Sorted, Typed
<1>4. ASSUME NEW i \in 1 .. Len(states'), State(states'[i])
      PROVE  disk' <= states'[i] /\ states'[i] <= version
  <2>1. i + 1 \in 1 .. Len(states) /\ 1 \in 1 .. Len(states) /\ 1 < i + 1 /\ states'[i] = states[i + 1]
    BY <1>1
  <2>2. disk <= states[i + 1] /\ states[i + 1] <= version
    BY <1>4, <2>1, Zenon DEF Sorted
  <2>3. State(Head(states)) => Head(states) <= states[i + 1]
    BY <1>1, <1>4, <2>1, Zenon DEF Sorted
  <2> QED  BY <2>1, <2>2, <2>3, Zenon
<1>5. ASSUME NEW i \in 1 .. Len(states'), NEW j \in 1 .. Len(states'), i < j,
             State(states'[i]), State(states'[j])
      PROVE  states'[i] <= states'[j]
  <2>1. /\ i + 1 \in 1 .. Len(states) /\ j + 1 \in 1 .. Len(states) /\ i + 1 < j + 1
        /\ states'[i] = states[i + 1] /\ states'[j] = states[j + 1]
    BY <1>1, <1>5
  <2> QED  BY <1>5, <2>1, Zenon DEF Sorted
<1> QED  BY <1>1, <1>3, <1>4, <1>5, Zenon DEF Sorted

(* Sorted depends on the channel, the disk and the state of the broker,    *)
(* and a state of the broker that grows leaves it.                         *)
LEMMA SortedKept ==
  ASSUME Typed, Sorted, UNCHANGED <<states, disk>>, version' \in Nat, version <= version'
  PROVE  Sorted'
<1>1. \A i \in 1 .. Len(states) : states[i] \in Int
  BY DEF Typed
<1> QED  BY <1>1 DEF Sorted, Typed, State

(* What no step but those of the broker and of the snapshotter, and the    *)
(* last ones of the application, can disturb.                              *)
LEMMA KeepsInv ==
  ASSUME ProcessInv, UNCHANGED <<broker, version, store>>, Final'
  PROVE  ProcessInv'
BY SortedKept, Zenon DEF ProcessInv, Typed, store, Sorted

(* A step of the broker.  It only appends its own state to the channel.    *)
LEMMA BrokerInv == ProcessInv /\ BrokerStep => ProcessInv' /\ disk <= disk'
<1> SUFFICES ASSUME ProcessInv, BrokerStep PROVE ProcessInv' /\ disk <= disk'
  BY Zenon
<1> DEFINE m == Head(inbox)
<1>1. /\ broker = "running" /\ disk' = disk /\ snapshotter' = snapshotter
      /\ UNCHANGED <<server, app>> /\ Handle(m)
  BY Zenon DEF BrokerStep, heads
<1>2. Typed /\ disk <= version /\ disk \in Nat /\ version \in Nat /\ Final
  BY Zenon DEF ProcessInv, Typed
<1>3. app \notin {"shutdown", "join", "exit", "done"} /\ server \notin {"rest", "done"}
  BY <1>1, <1>2, Zenon DEF Final
<1>4. Final' /\ disk <= disk'
  BY <1>1, <1>2, <1>3 DEF Final
<1>5. CASE m = "snapshot"
  <2>1. TrySend(version) /\ version' = version /\ broker' = broker
    BY <1>1, <1>5, Zenon DEF Handle
  <2>2. CASE Len(states) < ChannelSize /\ snapshotter = "running"
    <3>1. states' = Append(states, version) /\ Sorted
      BY <2>1, <2>2, Zenon DEF TrySend, ProcessInv
    <3>2. Sorted' /\ states' \in Seq(Int)
      BY <1>1, <1>2, <2>1, <3>1, AppendSorted
    <3> QED  BY <1>1, <1>2, <1>4, <2>1, <3>2, Zenon DEF ProcessInv, Typed
  <2>3. CASE ~(Len(states) < ChannelSize /\ snapshotter = "running")
    <3>1. states' = states
      BY <2>1, <2>3, Zenon DEF TrySend
    <3> QED  BY <1>1, <1>4, <2>1, <3>1, KeepsInv, Zenon DEF store
  <2> QED  BY <2>2, <2>3, Zenon
<1>6. CASE m # "snapshot"
  <2>1. /\ broker' \in {"running", "exited"} /\ states' = states
        /\ version' = version \/ version' = version + 1
    BY <1>1, <1>6, Zenon DEF Handle, Update
  <2>2. version' \in Nat /\ version <= version'
    BY <1>2, <2>1
  <2>3. snapshotter' = "running" => Sorted'
    BY <1>1, <1>2, <2>1, <2>2, SortedKept, Zenon DEF ProcessInv
  <2> QED  BY <1>1, <1>2, <1>4, <2>1, <2>2, <2>3 DEF ProcessInv, Typed
<1> QED  BY <1>5, <1>6, Zenon

(* A step of the snapshotter stores the first state of the channel, unless *)
(* the store fails.                                                        *)
LEMMA SnapshotterInv == ProcessInv /\ SnapshotterStep => ProcessInv' /\ disk <= disk'
<1> SUFFICES ASSUME ProcessInv, SnapshotterStep PROVE ProcessInv' /\ disk <= disk'
  BY Zenon
<1>1. /\ snapshotter = "running" /\ states # << >> /\ states' = Tail(states)
      /\ UNCHANGED <<broker, version, server, app>>
      /\ snapshotter' \in {"running", "stopped"}
  BY Zenon DEF SnapshotterStep, task, heads
<1>2. disk' = disk \/ (State(Head(states)) /\ disk' = Head(states))
  BY Zenon DEF SnapshotterStep, State
<1>3. Typed /\ Sorted /\ disk <= version /\ disk \in Nat /\ version \in Nat
  BY <1>1, Zenon DEF ProcessInv, Typed
<1>4. /\ Sorted' /\ states' \in Seq(Int) /\ disk' \in Int /\ disk <= disk'
      /\ disk' <= version
  BY <1>1, <1>2, <1>3, TailSorted, Zenon
<1>5. Final'
  BY <1>1, Zenon DEF ProcessInv, Final
<1> QED  BY <1>1, <1>3, <1>4, <1>5 DEF ProcessInv, Typed

(* A step of the server has its result only when the broker has exited.    *)
LEMMA ServerInv == ProcessInv /\ ServerStep => ProcessInv' /\ disk <= disk'
<1> SUFFICES ASSUME ProcessInv, ServerStep PROVE ProcessInv' /\ disk <= disk'
  BY Zenon
<1>1. UNCHANGED <<broker, version, store, app>>
  BY Zenon DEF ServerStep, ServeSignal, ServeBroker, ServeListener, ServeStopping, ServeRest,
         ServeListeners, ServeAwait, Goes
<1>2. server' \in {"rest", "done"} => broker = "exited"
  BY Zenon DEF ServerStep, ServeSignal, ServeBroker, ServeListener, ServeStopping, ServeRest,
         ServeListeners, ServeAwait, Goes, ProcessInv, Final
<1>3. server # "done"
  BY Zenon DEF ServerStep, ServeSignal, ServeBroker, ServeListener, ServeStopping, ServeRest,
         ServeListeners, ServeAwait
<1>4. Final'
  BY <1>1, <1>2, <1>3, Zenon DEF ProcessInv, Final
<1> QED  BY <1>1, <1>4, KeepsInv DEF ProcessInv, Typed, store

(* A step of the application.                                              *)
LEMMA AppInv == ProcessInv /\ AppStep => ProcessInv' /\ disk <= disk'
<1> SUFFICES ASSUME ProcessInv, AppStep PROVE ProcessInv' /\ disk <= disk'
  BY Zenon
<1>1. Typed /\ disk <= version /\ disk \in Nat /\ version \in Nat /\ Final
  BY Zenon DEF ProcessInv, Typed
<1>2. CASE ServerFirst \/ SidecarFirst
  <2>1. UNCHANGED <<broker, version, store, server>> /\ app' \in {"sidecars", "rest"}
    BY <1>2, Zenon DEF ServerFirst, SidecarFirst, task, heads
  <2> QED  BY <1>1, <2>1, KeepsInv DEF Final, store
<1>3. CASE SidecarsEnded \/ ServerEnded
  <2>1. UNCHANGED <<broker, version, store, server>> /\ app' = Result
    BY <1>3, Zenon DEF SidecarsEnded, ServerEnded, task, heads
  <2>2. Final'
    BY <1>1, <2>1, Zenon DEF Final, Result
  <2> QED  BY <1>1, <2>1, <2>2, KeepsInv DEF store
<1>4. CASE RestEnded
  <2>1. UNCHANGED <<broker, version, store, server>> /\ app' \in {"server", "failed"}
    BY <1>4, Zenon DEF RestEnded, heads
  <2> QED  BY <1>1, <2>1, KeepsInv DEF Final, store
<1>5. CASE StopSnapshotter
  <2>1. /\ UNCHANGED <<broker, version, server, snapshotter, disk>>
        /\ app = "shutdown" /\ app' = "join" /\ states' = Append(states, Shutdown)
    BY <1>5, Zenon DEF StopSnapshotter, task, heads
  <2>2. states' \in Seq(Int) /\ Shutdown \in Int
    BY <1>1, <2>1 DEF Typed, Shutdown
  <2>3. snapshotter' = "running" => Sorted'
    BY <1>1, <2>1, <2>2, AppendSorted, Zenon DEF ProcessInv
  <2>4. Final'
    BY <1>1, <2>1, Zenon DEF Final
  <2> QED  BY <1>1, <2>1, <2>2, <2>3, <2>4 DEF ProcessInv, Typed
<1>6. CASE StoreState
  <2>1. /\ UNCHANGED <<broker, version, server, snapshotter, states>>
        /\ app = "join" /\ snapshotter = "stopped"
        /\ (disk' = version /\ app' = "exit") \/ (disk' = disk /\ app' = "failed")
    BY <1>6, Zenon DEF StoreState, Joined, task, heads
  <2>2. Final' /\ disk' \in Nat /\ disk <= disk' /\ disk' <= version
    BY <1>1, <2>1 DEF Final
  <2> QED  BY <1>1, <2>1, <2>2, Zenon DEF ProcessInv, Typed
<1>7. CASE Exit
  <2>1. UNCHANGED <<broker, version, store, server>> /\ app = "exit" /\ app' = "done"
    BY <1>7, Zenon DEF Exit, task, heads
  <2>2. Final'
    BY <1>1, <2>1, Zenon DEF Final, store
  <2> QED  BY <1>1, <2>1, <2>2, KeepsInv DEF store
<1> QED  BY <1>2, <1>3, <1>4, <1>5, <1>6, <1>7, Zenon DEF AppStep

(* What comes from outside, and the steps of the listeners and of the      *)
(* sidecars, leave what the invariant is about, but for the state.         *)
LEMMA ProcessOtherInv ==
  ASSUME ProcessInv,
         \/ Change \/ SnapshotTick \/ Command \/ ShutdownSignal
         \/ \E l \in Listeners : ListenFails(l) \/ ListenerStep(l)
         \/ \E s \in Sidecars : SidecarPanics(s) \/ SidecarStops(s)
  PROVE  ProcessInv' /\ disk <= disk'
<1>1. Typed /\ disk <= version /\ disk \in Nat /\ version \in Nat /\ Final
  BY Zenon DEF ProcessInv, Typed
<1>2. CASE Change
  <2>1. /\ UNCHANGED <<broker, server, app, store>> /\ version' = version + 1
        /\ broker = "running"
    BY <1>2, Zenon DEF Change, heads
  <2>2. snapshotter' = "running" => Sorted'
    BY <1>1, <2>1, SortedKept DEF ProcessInv, store
  <2>3. Final'
    BY <1>1, <2>1, Zenon DEF Final, store
  <2> QED  BY <1>1, <2>1, <2>2, <2>3 DEF ProcessInv, Typed, store
<1>3. CASE ~Change
  <2>1. UNCHANGED <<broker, version, server, app, store>>
    BY <1>3, Zenon DEF SnapshotTick, Command, ShutdownSignal, ListenFails, ListenerStep, Listen, NeverReady,
                ListenerStops, Becomes, SidecarPanics, SidecarStops, task, heads
  <2>2. Final'
    BY <1>1, <2>1, Zenon DEF Final, store
  <2> QED  BY <1>1, <2>1, <2>2, KeepsInv DEF store
<1> QED  BY <1>2, <1>3, Zenon

(* Every step keeps the invariant and does not set the disk back.          *)
LEMMA ProcessNextInv == ProcessInv /\ [MNext]_mvars => ProcessInv' /\ disk' >= disk
<1> SUFFICES ASSUME ProcessInv, [MNext]_mvars
             PROVE  ProcessInv' /\ disk <= disk' /\ disk' \in Int /\ disk \in Int
  BY Zenon
<1>1. CASE UNCHANGED mvars
  <2>1. UNCHANGED <<broker, version, store, server, app>>
    BY <1>1, Zenon DEF mvars, task, heads
  <2>2. Final'
    BY <2>1, Zenon DEF ProcessInv, Final, store
  <2> QED  BY <2>1, <2>2, KeepsInv DEF ProcessInv, Typed, store
<1>2. CASE MNext
  <2>1. ProcessInv' /\ disk <= disk'
    BY <1>2, BrokerInv, SnapshotterInv, ServerInv, AppInv, ProcessOtherInv, Zenon DEF MNext, Process
  <2> QED  BY <2>1 DEF ProcessInv, Typed
<1> QED  BY <1>1, <1>2, Zenon

(* The invariant holds in every state of the process.                      *)
THEOREM Invariance == MSpec => []ProcessInv
BY ProcessInitInv, ProcessNextInv, PTL DEF MSpec

(* The snapshots on disk only advance: neither a full channel nor the end  *)
(* of the process puts an earlier state in the place of a later one.       *)
THEOREM Advancing == MSpec => SnapshotsAdvance
<1>1. ProcessInv /\ [MNext]_mvars => [disk' >= disk]_mvars
  BY ProcessNextInv, Zenon
<1> QED  BY <1>1, Invariance, PTL DEF MSpec, SnapshotsAdvance

(* App::run stores the last state of the broker, after everything else.    *)
THEOREM LastStateSaved == MSpec => []FinalStateSaved
<1>1. ProcessInv => FinalStateSaved
  BY Zenon DEF ProcessInv, Final, FinalStateSaved
<1> QED  BY <1>1, Invariance, PTL
-----------------------------------------------------------------------------
(* A bridge.                                                               *)

ChannelsInv == PTypeOK /\ AllOnTheirWay

USE ChannelsAssumption

(* Nothing is under way before the first command.                          *)
LEMMA ChannelsInitInv == PInit => ChannelsInv
BY DEF PInit, ChannelsInv, PTypeOK, AllOnTheirWay, Unanswered, One

(* Each step of the two pumps moves a command from one place to the next.  *)
LEMMA ChannelsNextInv == ChannelsInv /\ [PNext]_pvars => ChannelsInv'
<1> SUFFICES ASSUME ChannelsInv, [PNext]_pvars PROVE ChannelsInv'
  BY Zenon
<1> USE DEF ChannelsInv, PTypeOK, AllOnTheirWay, Unanswered, One
<1>1. CASE ReceiveCommand
  BY <1>1 DEF ReceiveCommand, local_channel, remote_channel, remote
<1>2. CASE PassCommand
  BY <1>2 DEF PassCommand, RemoteRoom, told, local_channel, remote
<1>3. CASE StartUpdate
  BY <1>3 DEF StartUpdate, local, remote, remote_channel, local_channel
<1>4. CASE UpdateLocal
  BY <1>4 DEF UpdateLocal, ToLocal, LocalRoom, told, local, remote, remote_channel
<1>5. CASE UpdateRemote
  BY <1>5 DEF UpdateRemote, RemoteRoom, told, local, remote, local_channel
<1>6. CASE TakeRemote
  BY <1>6 DEF TakeRemote, told, local, local_channel
<1>7. CASE ServeRemote
  BY <1>7 DEF ServeRemote, told, local, remote_channel, local_channel
<1>8. CASE EnterCommand
  BY <1>8 DEF EnterCommand, local, remote_channel, local_channel
<1>9. CASE AnswerPublish
  BY <1>9 DEF AnswerPublish, ToLocal, LocalRoom, told, local, remote_channel
<1>10. CASE ReceiveAcks
  BY <1>10 DEF ReceiveAcks, FindEntry, told, local, remote_channel, local_channel
<1>11. CASE ReceiveMessage
  BY <1>11 DEF ReceiveMessage, local, remote_channel, local_channel
<1>12. CASE PassLocal
  BY <1>12 DEF PassLocal, ToLocal, LocalRoom, FindEntry, told, local, remote_channel
<1>13. CASE TakeLocal
  BY <1>13 DEF TakeLocal, told, remote, remote_channel
<1>14. CASE ServeLocal
  BY <1>14 DEF ServeLocal, LocalServes, remote, remote_channel, local_channel
<1>15. CASE UNCHANGED pvars
  BY <1>15, Zenon DEF pvars, told, local, remote, remote_channel, local_channel
<1> QED
  BY <1>1, <1>2, <1>3, <1>4, <1>5, <1>6, <1>7, <1>8, <1>9, <1>10, <1>11, <1>12, <1>13, <1>14,
     <1>15, Zenon DEF PNext, Flow

(* The channels stay within their capacity.                                *)
THEOREM ChannelsTyped == PSpec => []PTypeOK
<1>1. ChannelsInv => PTypeOK
  BY Zenon DEF ChannelsInv
<1> QED
  BY ChannelsInitInv, ChannelsNextInv, <1>1, PTL DEF PSpec

(* Every command given to the bridge is answered, overwritten by a later   *)
(* one for its filter, or in exactly one place of the two pumps.           *)
THEOREM CommandsKept == PSpec => []AllOnTheirWay
<1>1. ChannelsInv => AllOnTheirWay
  BY Zenon DEF ChannelsInv
<1> QED
  BY ChannelsInitInv, ChannelsNextInv, <1>1, PTL DEF PSpec

(* If nothing can move although a message is under way, the local client   *)
(* waits for room in the remote channel and the remote processor is busy.  *)
LEMMA StuckForRemote ==
  ASSUME PTypeOK, ~Drained, ~CanFlow
  PROVE  /\ local_client = "command" /\ remote_commands + remote_changes = Capacity
         /\ remote_processor # "idle"
<1>1. local_client = "command"
  <2> SUFFICES ASSUME local_client = "polled" PROVE FALSE
    BY Zenon DEF PTypeOK
  <2>1. local_processor = "idle" /\ local_acks = 0 /\ local_messages = 0
    BY DEF CanFlow, LocalServes, PTypeOK
  <2>2. LocalRoom
    BY <2>1 DEF LocalRoom
  <2>3. remote_client = "polled" /\ remote_processor = "idle" /\ updater # "local"
    BY <2>2, Zenon DEF CanFlow, PTypeOK
  <2>4. remote_commands = 0 /\ remote_changes = 0
    BY <2>3 DEF CanFlow, PTypeOK
  <2>5. updater = "idle"
    BY <2>3, <2>4 DEF CanFlow, RemoteRoom, PTypeOK
  <2> QED
    BY <2>1, <2>3, <2>4, <2>5 DEF Drained, ForRemote, ForLocal, One
<1>2. remote_commands + remote_changes = Capacity
  BY <1>1 DEF CanFlow, RemoteRoom, PTypeOK
<1>3. remote_processor # "idle"
  BY <1>2 DEF CanFlow, PTypeOK
<1> QED
  BY <1>1, <1>2, <1>3, Zenon

(* And the remote side waits for room in the local channel, whose          *)
(* processor waits for the local client.                                   *)
LEMMA StuckForLocal ==
  ASSUME PTypeOK, ~CanFlow, remote_processor # "idle"
  PROVE  /\ remote_processor = "answer" \/ remote_client # "polled"
         /\ local_acks + local_messages = Capacity /\ local_processor # "idle"
<1>1. remote_processor = "answer" \/ remote_client # "polled"
  BY Zenon DEF CanFlow, PTypeOK
<1>2. local_acks + local_messages = Capacity
  BY <1>1 DEF CanFlow, LocalRoom, PTypeOK
<1>3. local_processor # "idle"
  BY <1>2 DEF CanFlow, PTypeOK
<1> QED
  BY <1>1, <1>2, <1>3, Zenon

(* The circle takes more than Capacity + 1 messages for each of the two    *)
(* processors: as long as one of them has no more, the pumps go on.        *)
THEOREM PumpsNeverStuck == PSpec => []NeverStuck
<1>1. ChannelsInv => NeverStuck
  <2> SUFFICES ASSUME PTypeOK, ~Drained, ~CanFlow
               PROVE  ForRemote > Capacity + 1 /\ ForLocal > Capacity + 1
    BY DEF NeverStuck, ChannelsInv, ForRemote, ForLocal, One, PTypeOK
  <2>1. /\ local_client = "command" /\ remote_commands + remote_changes = Capacity
        /\ remote_processor # "idle"
    BY StuckForRemote, Zenon
  <2>2. /\ remote_processor = "answer" \/ remote_client # "polled"
        /\ local_acks + local_messages = Capacity /\ local_processor # "idle"
    BY <2>1, StuckForLocal, Zenon
  <2>3. ForRemote > Capacity + 1
    BY <2>1 DEF ForRemote, One, PTypeOK
  <2>4. ForLocal > Capacity + 1
    BY <2>2 DEF ForLocal, One, PTypeOK
  <2> QED
    BY <2>3, <2>4, Zenon
<1> QED
  BY ChannelsInitInv, ChannelsNextInv, <1>1, PTL DEF PSpec

-----------------------------------------------------------------------------
(* A publication is its offset, so that its place in the sequence of all   *)
(* publications tells whether it waits, is in the batch or was started.    *)
Ordered ==
  /\ queue \in Seq(Nat) /\ batch \in Seq(Nat) /\ started \in Seq(Nat) /\ offset \in Nat
  /\ offset = Len(started) + Len(batch) + Len(queue)
  /\ \A i \in 1 .. Len(started) : started[i] = i - 1
  /\ \A i \in 1 .. Len(batch) : batch[i] = Len(started) + i - 1
  /\ \A i \in 1 .. Len(queue) : queue[i] = Len(started) + Len(batch) + i - 1

(* What is in flight or published was started, and is not in both places.  *)
Placed ==
  /\ in_flight \subseteq 0 .. Len(started) - 1
  /\ published \subseteq 0 .. Len(started) - 1
  /\ in_flight \cap published = {}
  /\ loaded = in_flight \cup published \cup (Len(started) .. Len(started) + Len(batch) - 1)

StoreInv == Ordered /\ Placed

(* The length of a sequence.                                               *)
LEMMA LenNat == ASSUME NEW s \in Seq(Nat) PROVE Len(s) \in Nat
  OBVIOUS

(* What the loader pops from a batch and what it leaves.                   *)
LEMMA HeadTail ==
  ASSUME NEW s \in Seq(Nat), s # << >>
  PROVE  /\ Len(s) \in Nat /\ Len(s) > 0 /\ Head(s) = s[1]
         /\ Tail(s) \in Seq(Nat) /\ Len(Tail(s)) = Len(s) - 1
         /\ \A i \in 1 .. Len(Tail(s)) : Tail(s)[i] = s[i + 1]
<1>1. Len(s) \in Nat /\ Len(s) > 0
  OBVIOUS
<1> QED BY <1>1

(* Started publications are numbered on.                                   *)
LEMMA OneMore ==
  ASSUME NEW s \in Seq(Nat), \A i \in 1 .. Len(s) : s[i] = i - 1
  PROVE  /\ Append(s, Len(s)) \in Seq(Nat) /\ Len(Append(s, Len(s))) = Len(s) + 1
         /\ \A i \in 1 .. Len(Append(s, Len(s))) : Append(s, Len(s))[i] = i - 1
  OBVIOUS

(* A step of the loader starts the first publication of s.                 *)
LEMMA StartOrdered ==
  ASSUME Ordered, Placed, NEW s \in Seq(Nat), NEW q \in Seq(Nat), s # << >>, Start(s),
         queue' = q, offset' = offset, published' = published,
         offset = Len(started) + Len(s) + Len(q),
         \A i \in 1 .. Len(s) : s[i] = Len(started) + i - 1,
         \A i \in 1 .. Len(q) : q[i] = Len(started) + Len(s) + i - 1,
         loaded' = in_flight \cup published \cup (Len(started) .. Len(started) + Len(s) - 1)
  PROVE  StoreInv'
<1>0. Len(s) \in Nat /\ Len(s) > 0 /\ Len(started) \in Nat /\ Len(q) \in Nat
  <2>1. started \in Seq(Nat)
    BY Zenon DEF Ordered
  <2> QED BY <2>1, HeadTail, LenNat, Zenon
<1>1. Head(s) = Len(started) /\ Len(s) \in Nat /\ Len(s) > 0 /\ Len(started) \in Nat
  <2>1. Head(s) = s[1] /\ 1 \in 1 .. Len(s)
    BY <1>0, HeadTail
  <2> QED BY <1>0, <2>1
<1>2. started' \in Seq(Nat) /\ Len(started') = Len(started) + 1
      /\ \A i \in 1 .. Len(started') : started'[i] = i - 1
  <2>1. started \in Seq(Nat) /\ \A i \in 1 .. Len(started) : started[i] = i - 1
    BY Zenon DEF Ordered
  <2>2. started' = Append(started, Len(started))
    BY <1>1, Zenon DEF Start
  <2> QED BY <1>1, <2>1, <2>2, OneMore, Zenon
<1>3. batch' \in Seq(Nat) /\ Len(batch') = Len(s) - 1
      /\ \A i \in 1 .. Len(batch') : batch'[i] = s[i + 1]
  BY HeadTail, Zenon DEF Start
<1>4. \A i \in 1 .. Len(batch') : batch'[i] = Len(started') + i - 1
  <2> SUFFICES ASSUME NEW i \in 1 .. Len(batch') PROVE batch'[i] = Len(started') + i - 1
    BY Zenon
  <2>1. batch'[i] = s[i + 1] /\ i + 1 \in 1 .. Len(s) /\ i \in Int
    BY <1>0, <1>3
  <2>2. s[i + 1] = Len(started) + (i + 1) - 1
    BY <2>1, Zenon
  <2> QED BY <1>0, <1>2, <2>1, <2>2
<1>5. \A i \in 1 .. Len(q) : q[i] = Len(started') + Len(batch') + i - 1
  BY <1>1, <1>2, <1>3
<1>6. Ordered'
  <2>1. offset' = Len(started') + Len(batch') + Len(q)
    BY <1>1, <1>2, <1>3
  <2> QED BY <1>2, <1>3, <1>4, <1>5, <2>1, Zenon DEF Ordered
<1>7. in_flight' = in_flight \cup {Len(started)}
  BY <1>1, Zenon DEF Start
<1>8. in_flight' \subseteq 0 .. Len(started') - 1 /\ published' \subseteq 0 .. Len(started') - 1
      /\ in_flight' \cap published' = {}
  <2>1. \A k \in in_flight \cup published : k \in 0 .. Len(started) - 1
    BY Zenon DEF Placed
  <2>2. \A k \in in_flight \cup published : k \in 0 .. Len(started') - 1 /\ k # Len(started)
    BY <1>1, <1>2, <2>1
  <2>3. Len(started) \in 0 .. Len(started') - 1
    BY <1>1, <1>2
  <2>4. in_flight \cap published = {}
    BY Zenon DEF Placed
  <2> QED BY <1>7, <2>2, <2>3, <2>4, Zenon
<1>9. loaded' = in_flight' \cup published' \cup (Len(started') .. Len(started') + Len(batch') - 1)
  <2>1. \A k, n \in Nat : n > 0 => k .. k + n - 1 = {k} \cup (k + 1 .. (k + 1) + (n - 1) - 1)
    OBVIOUS
  <2>2. Len(started) .. Len(started) + Len(s) - 1
          = {Len(started)} \cup (Len(started') .. Len(started') + Len(batch') - 1)
    <3>1. Len(started) .. Len(started) + Len(s) - 1
            = {Len(started)} \cup (Len(started) + 1 .. (Len(started) + 1) + (Len(s) - 1) - 1)
      BY <1>0, <2>1, Zenon
    <3>2. Len(started') = Len(started) + 1 /\ Len(batch') = Len(s) - 1
      BY <1>2, <1>3, Zenon
    <3> QED BY <3>1, <3>2, Zenon
  <2>3. published' = published
    BY Zenon DEF Start
  <2> QED BY <1>7, <2>2, <2>3, Zenon
<1> QED BY <1>6, <1>8, <1>9, Zenon DEF StoreInv, Placed

(* The store is empty at first.                                            *)
LEMMA StoreInitInv == SInit => StoreInv
  BY DEF SInit, StoreInv, Ordered, Placed

(* push, the loader, egress and the answers of the broker.                 *)
LEMMA StoreNextInv == StoreInv /\ [SNext]_svars => StoreInv'
<1> SUFFICES ASSUME StoreInv, [SNext]_svars PROVE StoreInv'
  BY Zenon
<1>0. Len(started) \in Nat /\ Len(batch) \in Nat /\ Len(queue) \in Nat /\ offset \in Nat
  BY DEF StoreInv, Ordered
<1>1. CASE Push
  <2>1. Ordered'
    <3>1. queue' \in Seq(Nat) /\ Len(queue') = Len(queue) + 1 /\ offset' = offset + 1
          /\ \A i \in 1 .. Len(queue') : queue'[i] = IF i = Len(queue) + 1 THEN offset ELSE queue[i]
      BY <1>1 DEF Push, StoreInv, Ordered
    <3> QED BY <1>0, <1>1, <3>1 DEF Push, StoreInv, Ordered
  <2>2. Placed'
    BY <1>1, Zenon DEF Push, StoreInv, Placed
  <2> QED BY <2>1, <2>2, Zenon DEF StoreInv
<1>2. CASE PollLoader
  <2>1. CASE batch # << >> /\ Start(batch) /\ UNCHANGED <<queue, loaded>>
    BY <1>2, <2>1, StartOrdered, Zenon DEF PollLoader, StoreInv, Ordered, Placed
  <2>2. CASE NextBatch
    <3> DEFINE count == IF BatchSize < Len(queue) THEN BatchSize ELSE Len(queue)
               s == SubSeq(queue, 1, count)
               q == SubSeq(queue, count + 1, Len(queue))
    <3>1. /\ batch = << >> /\ queue # << >> /\ queue' = q
          /\ loaded' = loaded \cup {queue[i] : i \in 1 .. count} /\ Start(s)
      BY <2>2, Zenon DEF NextBatch
    <3>2. count \in 1 .. Len(queue)
      BY <1>0, <3>1, StoreAssumption DEF StoreInv, Ordered
    <3> HIDE DEF count
    <3>3. s \in Seq(Nat) /\ Len(s) = count /\ \A i \in 1 .. count : s[i] = queue[i]
      BY <3>2 DEF StoreInv, Ordered
    <3>4. q \in Seq(Nat) /\ Len(q) = Len(queue) - count
          /\ \A i \in 1 .. Len(q) : q[i] = queue[count + i]
      BY <3>2 DEF StoreInv, Ordered
    <3> HIDE DEF s, q
    <3>5. \A i \in 1 .. Len(queue) : queue[i] = Len(started) + i - 1
      BY <1>0, <3>1 DEF StoreInv, Ordered
    <3>6. {queue[i] : i \in 1 .. count} = Len(started) .. Len(started) + Len(s) - 1
      <4>1. \A x \in Len(started) .. Len(started) + count - 1 :
              x - Len(started) + 1 \in 1 .. count /\ queue[x - Len(started) + 1] = x
        BY <1>0, <3>2, <3>5
      <4>2. \A i \in 1 .. count : queue[i] \in Len(started) .. Len(started) + count - 1
        BY <1>0, <3>2, <3>5
      <4>3. \A x \in Len(started) .. Len(started) + count - 1 : \E i \in 1 .. count : queue[i] = x
        BY <4>1, Zenon
      <4> QED BY <3>3, <4>2, <4>3
    <3>7. loaded = in_flight \cup published
      BY <1>0, <3>1 DEF StoreInv, Placed
    <3>8. loaded' = in_flight \cup published \cup (Len(started) .. Len(started) + Len(s) - 1)
      BY <3>1, <3>6, <3>7, Zenon
    <3>9. s # << >> /\ offset = Len(started) + Len(s) + Len(q)
      BY <1>0, <3>1, <3>2, <3>3, <3>4 DEF StoreInv, Ordered
    <3>10. /\ \A i \in 1 .. Len(s) : s[i] = Len(started) + i - 1
           /\ \A i \in 1 .. Len(q) : q[i] = Len(started) + Len(s) + i - 1
      <4>1. \A i \in 1 .. Len(q) : count + i \in 1 .. Len(queue)
        BY <1>0, <3>2, <3>4
      <4>2. \A i \in 1 .. Len(q) : q[i] = Len(started) + (count + i) - 1
        BY <3>4, <3>5, <4>1, Zenon
      <4>3. \A i \in 1 .. Len(q) : q[i] = Len(started) + Len(s) + i - 1
        <5> SUFFICES ASSUME NEW i \in 1 .. Len(q) PROVE q[i] = Len(started) + Len(s) + i - 1
          BY Zenon
        <5>1. q[i] = Len(started) + (count + i) - 1
          BY <4>2, Zenon
        <5>2. Len(s) = count /\ count \in Int /\ i \in Int
          BY <3>2, <3>3
        <5> QED BY <1>0, <5>1, <5>2
      <4> QED BY <3>2, <3>3, <3>5, <4>3
    <3>11. offset' = offset /\ published' = published
      BY <1>2, Zenon DEF PollLoader
    <3> QED BY <3>1, <3>3, <3>4, <3>8, <3>9, <3>10, <3>11, StartOrdered, Zenon DEF StoreInv
  <2> QED BY <1>2, <2>1, <2>2, Zenon DEF PollLoader
<1>3. CASE Sleep
  BY <1>3, Zenon DEF Sleep, StoreInv, Ordered, Placed
<1>4. ASSUME NEW k \in published, RemoveKey(k) PROVE StoreInv'
  <2>1. Ordered'
    BY <1>4, Zenon DEF RemoveKey, StoreInv, Ordered
  <2>2. k \notin Len(started) .. Len(started) + Len(batch) - 1 /\ k \notin in_flight
    BY <1>0 DEF StoreInv, Placed
  <2> QED BY <1>4, <2>1, <2>2, Zenon DEF RemoveKey, StoreInv, Placed
<1>5. ASSUME NEW k \in in_flight, Publish(k) PROVE StoreInv'
  <2>1. Ordered'
    BY <1>5, Zenon DEF Publish, kept, StoreInv, Ordered
  <2>2. Placed'
    BY <1>5, Zenon DEF Publish, kept, StoreInv, Placed
  <2> QED BY <2>1, <2>2, Zenon DEF StoreInv
<1>6. CASE UNCHANGED svars
  BY <1>6, Zenon DEF svars, kept, StoreInv, Ordered, Placed
<1> QED BY <1>1, <1>2, <1>3, <1>4, <1>5, <1>6, Zenon DEF SNext, Egress

(* The store between the pumps gives every publication to egress once and  *)
(* in order, and has exactly those loaded that egress has not removed      *)
(* (publication_store.rs, loader.rs, egress.rs).                           *)
THEOREM StoreStaysExact == SSpec => []StoreExact
<1>1. StoreInv => StoreExact
  <2> SUFFICES ASSUME StoreInv PROVE StoreExact
    BY Zenon
  <2>0. Len(started) \in Nat /\ Len(batch) \in Nat /\ Len(queue) \in Nat /\ offset \in Nat
    BY DEF StoreInv, Ordered
  <2>1. Range(batch) = Len(started) .. Len(started) + Len(batch) - 1
    <3>1. DOMAIN batch = 1 .. Len(batch)
      BY DEF StoreInv, Ordered
    <3>2. \A i \in 1 .. Len(batch) : batch[i] = Len(started) + i - 1
      BY Zenon DEF StoreInv, Ordered
    <3>3. \A x \in Len(started) .. Len(started) + Len(batch) - 1 :
            x - Len(started) + 1 \in 1 .. Len(batch)
      BY <2>0
    <3>4. \A x \in Len(started) .. Len(started) + Len(batch) - 1 :
            x - Len(started) + 1 \in DOMAIN batch /\ batch[x - Len(started) + 1] = x
      BY <2>0, <3>1, <3>2, <3>3
    <3>5. \A i \in DOMAIN batch : batch[i] \in Len(started) .. Len(started) + Len(batch) - 1
      BY <2>0, <3>1, <3>2
    <3> QED BY <3>4, <3>5, Zenon DEF Range
  <2>2. \A x \in Range(queue) : x \in Nat /\ x >= Len(started) + Len(batch)
    <3>1. DOMAIN queue = 1 .. Len(queue)
      BY DEF StoreInv, Ordered
    <3>2. \A i \in 1 .. Len(queue) : queue[i] = Len(started) + Len(batch) + i - 1
      BY Zenon DEF StoreInv, Ordered
    <3>3. \A i \in DOMAIN queue : queue[i] \in Nat /\ queue[i] >= Len(started) + Len(batch)
      BY <2>0, <3>1, <3>2
    <3> QED BY <3>3, Zenon DEF Range
  <2>3. LoadedExact
    BY <2>0, <2>1, <2>2 DEF LoadedExact, StoreInv, Placed
  <2>4. StartedInOrder
    <3> DEFINE sb == started \o batch
               all == sb \o queue
    <3>1. sb \in Seq(Nat) /\ Len(sb) = Len(started) + Len(batch)
          /\ \A i \in 1 .. Len(sb) : sb[i] = IF i <= Len(started) THEN started[i]
                                             ELSE batch[i - Len(started)]
      BY <2>0 DEF StoreInv, Ordered
    <3>2. \A i \in 1 .. Len(sb) : sb[i] = i - 1
      BY <2>0, <3>1 DEF StoreInv, Ordered
    <3> HIDE DEF sb
    <3>3. all \in Seq(Nat) /\ Len(all) = Len(sb) + Len(queue)
          /\ \A i \in 1 .. Len(all) : all[i] = IF i <= Len(sb) THEN sb[i] ELSE queue[i - Len(sb)]
      BY <2>0, <3>1 DEF StoreInv, Ordered
    <3>4. \A i \in 1 .. Len(all) : all[i] = i - 1
      BY <2>0, <3>1, <3>2, <3>3 DEF StoreInv, Ordered
    <3>5. Len(all) = offset
      BY <2>0, <3>1, <3>3, Zenon DEF StoreInv, Ordered
    <3> HIDE DEF all
    <3>6. all = [i \in 1 .. offset |-> i - 1]
      BY <3>3, <3>4, <3>5
    <3> QED BY <3>6, Zenon DEF StartedInOrder, all, sb
  <2> QED BY <2>3, <2>4, Zenon DEF StoreExact
<1> QED BY <1>1, StoreInitInv, StoreNextInv, PTL DEF SSpec
=============================================================================
