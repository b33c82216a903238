--------------------------- MODULE FilePersistor ---------------------------
(***************************************************************************)
(* FilePersistor (mqtt-broker/src/persist.rs): snapshots of the broker are *)
(* written to files named after the time and a sequence number; a symbolic *)
(* link names the current one.  A store writes a new file, points the link *)
(* at it by renaming a temporary link over it, and prunes the files whose  *)
(* names are oldest.  Every system call is a step that may fail, and the   *)
(* process may crash between any two of them.                              *)
(***************************************************************************)
EXTENDS Integers, FiniteSets

CONSTANTS
  PreviousCount,  \* previous_count: files kept by a prune
  SeqNumbers,     \* number of sequence numbers (2^16 in the code)
  MaxClock,       \* bound: the last instant of the clock, in milliseconds
  MaxStores,      \* bound: number of stores
  ClockSteady     \* whether the clock makes every new name the newest

ASSUME PersistorAssumption ==
  /\ PreviousCount \in Nat \ {0}
  /\ SeqNumbers \in Nat \ {0}
  /\ MaxClock \in Nat \ {0}
  /\ MaxStores \in Nat
  /\ ClockSteady \in BOOLEAN

Name == (1 .. MaxClock) \X (0 .. SeqNumbers - 1)
None == <<0, 0>>

VARIABLES
  files,      \* the snapshot files of the directory, by name
  link,       \* target of the link, None without one
  tmp,        \* target of the temporary link, None without one
  seq,        \* sequence number of the last store
  clock,      \* the system's clock
  pc,         \* the next step of store, "idle", or "down" after a crash
  path,       \* the file that store writes
  doomed,     \* files that store still has to prune
  stored,     \* number of the last snapshot given to store
  committed,  \* number of the snapshot the link was last moved to
  acked,      \* number of the last snapshot whose store returned Ok
  result      \* what the last store returned

fvars == <<files, link, tmp, seq, clock, pc, path, doomed, stored, committed,
          acked, result>>

(* The order of names, as strings of fixed width.                          *)
Less(f, g) == f[1] < g[1] \/ (f[1] = g[1] /\ f[2] < g[2])

Without(fs, f) == [x \in DOMAIN fs \ {f} |-> fs[x]]

Written(fs, f, c) == [x \in DOMAIN fs \cup {f} |-> IF x = f THEN c ELSE fs[x]]

Complete == [state |-> stored, complete |-> TRUE]
-----------------------------------------------------------------------------
FInit ==
  /\ files = [f \in {} |-> f]
  /\ link = None /\ tmp = None
  /\ seq = 0
  /\ clock = 1
  /\ pc = "idle"
  /\ path = None
  /\ doomed = {}
  /\ stored = 0 /\ committed = 0 /\ acked = 0
  /\ result = "none"

(* A step of store that may also fail with an error: store returns it.     *)
Fail ==
  /\ pc' = "idle"
  /\ result' = "error"
  /\ UNCHANGED <<files, link, tmp, seq, clock, path, doomed, stored, committed, acked>>

(* A clock that is steady, and that advances across a restart and across   *)
(* SeqNumbers stores, makes the name of every new file the newest.  One that   *)
(* steps back still does not give a file the name of another.              *)
NewestName(n) == \A f \in DOMAIN files : Less(f, n)

OpenFile ==
  LET n == (seq + 1) % SeqNumbers
  IN  /\ pc = "idle"
      /\ stored < MaxStores
      /\ IF ClockSteady THEN NewestName(<<clock, n>>)
                        ELSE <<clock, n>> \notin DOMAIN files
      /\ seq' = n
      /\ stored' = stored + 1
      /\ path' = <<clock, n>>
      /\ \/ /\ files' = Written(files, <<clock, n>>,
                                [state |-> stored + 1, complete |-> FALSE])
            /\ pc' = "write"
            /\ UNCHANGED result
         \/ /\ pc' = "idle"
            /\ result' = "error"
            /\ UNCHANGED files
      /\ UNCHANGED <<link, tmp, clock, doomed, committed, acked>>

WriteFile ==
  /\ pc = "write"
  /\ \/ files' = Written(files, path, Complete) /\ pc' = "unlink"
     \/ UNCHANGED files /\ pc' = "cleanup"
  /\ UNCHANGED <<link, tmp, seq, clock, path, doomed, stored, committed, acked, result>>

(* After an error in writing, the new file is removed.                     *)
RemoveNew ==
  /\ pc = "cleanup"
  /\ files' = Without(files, path) \/ UNCHANGED files
  /\ pc' = "idle"
  /\ result' = "error"
  /\ UNCHANGED <<link, tmp, seq, clock, path, doomed, stored, committed, acked>>

(* A temporary link left by a crash is removed first.  Path::exists follows *)
(* the link, so one whose target is gone would be left in place.           *)
UnlinkTemp ==
  /\ pc = "unlink"
  /\ \/ /\ tmp' = IF tmp \in DOMAIN files THEN None ELSE tmp
        /\ pc' = "symlink"
        /\ UNCHANGED <<files, link, seq, clock, path, doomed, stored, committed, acked,
                       result>>
     \/ tmp \in DOMAIN files /\ Fail

Symlink ==
  /\ pc = "symlink"
  /\ \/ /\ tmp = None
        /\ tmp' = path
        /\ pc' = "rename"
        /\ UNCHANGED <<files, link, seq, clock, path, doomed, stored, committed, acked,
                       result>>
     \/ Fail

(* Mutant: the link is removed before the temporary one is renamed.        *)
MutRename ==
  /\ pc = "rename"
  /\ \/ /\ link' = tmp /\ tmp' = None /\ pc' = "readdir"
        /\ committed' = stored
        /\ UNCHANGED <<files, seq, clock, path, doomed, stored, acked, result>>
     \/ /\ link' = None /\ pc' = "idle" /\ result' = "error"
        /\ UNCHANGED <<files, tmp, seq, clock, path, doomed, stored, committed, acked>>

Rename ==
  /\ pc = "rename"
  /\ \/ /\ link' = tmp
        /\ tmp' = None
        /\ pc' = "readdir"
        /\ committed' = stored
        /\ UNCHANGED <<files, seq, clock, path, doomed, stored, acked, result>>
     \/ Fail

(* Mutant: sorted oldest first.                                            *)
MutOldest == {f \in DOMAIN files :
                Cardinality({g \in DOMAIN files : Less(g, f)}) >= PreviousCount}

(* Sorted by name, newest first, all files after the first PreviousCount.  *)
Oldest == {f \in DOMAIN files :
             Cardinality({g \in DOMAIN files : Less(f, g)}) >= PreviousCount}

ReadDir ==
  /\ pc = "readdir"
  /\ \/ /\ doomed' = Oldest
        /\ pc' = "prune"
        /\ UNCHANGED <<files, link, tmp, seq, clock, path, stored, committed, acked,
                       result>>
     \/ Fail

Prune(f) ==
  /\ pc = "prune"
  /\ f \in doomed
  /\ \A g \in doomed : g = f \/ Less(g, f)
  /\ \/ /\ files' = Without(files, f)
        /\ doomed' = doomed \ {f}
        /\ UNCHANGED <<link, tmp, seq, clock, pc, path, stored, committed, acked,
                       result>>
     \/ Fail

Stored ==
  /\ pc = "prune"
  /\ doomed = {}
  /\ pc' = "idle"
  /\ result' = "ok"
  /\ acked' = stored
  /\ UNCHANGED <<files, link, tmp, seq, clock, path, doomed, stored, committed>>

Crash ==
  /\ pc # "down"
  /\ pc' = "down"
  /\ result' = "none"
  /\ UNCHANGED <<files, link, tmp, seq, clock, path, doomed, stored, committed, acked>>

(* The snapshot that load finds: none without a link or with a dangling    *)
(* one, an error for a file that is not complete.                          *)
Load ==
  IF link \in DOMAIN files
    THEN IF files[link].complete THEN files[link].state ELSE -1
    ELSE 0

(* A new process loads the snapshot and starts again with FilePersistor's  *)
(* first sequence number; with a snapshot it cannot read it exits.         *)
FRestart ==
  /\ pc = "down"
  /\ Load >= 0
  /\ pc' = "idle"
  /\ seq' = 0
  /\ doomed' = {}
  /\ path' = None
  /\ UNCHANGED <<files, link, tmp, clock, stored, committed, acked, result>>

Tick ==
  /\ clock' \in 1 .. MaxClock
  /\ ClockSteady => clock' > clock
  /\ UNCHANGED <<files, link, tmp, seq, pc, path, doomed, stored, committed, acked,
                 result>>

FNext ==
  \/ OpenFile \/ WriteFile \/ RemoveNew \/ UnlinkTemp \/ Symlink \/ Rename \/ ReadDir
  \/ \E f \in Name : Prune(f)
  \/ Stored \/ Crash \/ FRestart \/ Tick

FSpec == FInit /\ [][FNext]_fvars
-----------------------------------------------------------------------------
PC == {"idle", "write", "cleanup", "unlink", "symlink", "rename", "readdir", "prune", "down"}

(* The state of the directory and of store has its type.                   *)
FTypeOK ==
  /\ DOMAIN files \subseteq Name
  /\ files \in [DOMAIN files -> [state : Nat, complete : BOOLEAN]]
  /\ link \in Name \cup {None}
  /\ tmp \in Name \cup {None}
  /\ seq \in 0 .. SeqNumbers - 1
  /\ clock \in 1 .. MaxClock
  /\ pc \in PC
  /\ path \in Name \cup {None}
  /\ doomed \subseteq Name
  /\ {stored, committed, acked} \subseteq Nat
  /\ result \in {"none", "ok", "error"}

(* Wherever a store fails or the process crashes, the file that the link   *)
(* names is there, is complete and holds the snapshot last committed: load *)
(* never finds a dangling link or half a file.                             *)
LinkValid ==
  link # None => /\ link \in DOMAIN files
                 /\ files[link] = [state |-> committed, complete |-> TRUE]

(* A snapshot whose store returned Ok is not lost: what a restart loads is *)
(* that one or a later one.                                                *)
Durable == acked > 0 => Load >= acked

(* A temporary link that a crash leaves behind has its target, so that the *)
(* next store sees it and removes it.  A dangling one would make every     *)
(* later store fail, since symlink does not replace it.                    *)
TempRemovable == tmp # None => tmp \in DOMAIN files
=============================================================================
