---------------------------- MODULE FileCheckpoint ----------------------------
(***************************************************************************)
(* FileCheckpoint: a checkpoint in a local file, replaced by writing a     *)
(* temporary file, syncing it and renaming it over the old one.            *)
(*                                                                         *)
(* `save` has no await: a saver goes through it in one go, but savers on   *)
(* other threads and in other processes, loads, and the death of a process *)
(* come between any two of its file operations.  Two processes may have    *)
(* the same id, one after the other, or at once in two containers that     *)
(* share a directory.                                                      *)
(*                                                                         *)
(* The file system is external: operations on names are atomic, a power    *)
(* cut may lose what was not synced, and names reach the disk in the order *)
(* of their changes, at any later time.                                    *)
(***************************************************************************)
EXTENDS Integers, FiniteSets, Functions

CONSTANTS
    Savers, Loaders, None,
    Processes,      \* incarnations that may run at the same time
    ProcessOf,      \* saver -> its process
    PidOf,          \* process -> std::process::id
    MaxSaves,       \* bound: saves begun; the n-th saves the checkpoint n
    MaxCrashes,     \* bound: deaths of a process
    MaxPowerCuts    \* bound: power cuts

ASSUME FileAssumption ==
    /\ ProcessOf \in [Savers -> Processes]
    /\ DOMAIN PidOf = Processes
    /\ \A p \in Processes : PidOf[p] \in Nat \ {0}
    /\ {MaxSaves, MaxCrashes, MaxPowerCuts} \subseteq Nat
    /\ None \notin Nat

VARIABLES
    pc,          \* saver -> where its save is
    cursor,      \* saver -> the checkpoint it saves, or saved last
    temporary,   \* saver -> the temporary path, or Path
    handle,      \* saver -> the file it has open
    sequence,    \* process -> TEMP_FILE_SEQUENCE
    dir,         \* name -> file, the directory as programs see it
    disk,        \* name -> file, the directory as it is on the disk
    contents,    \* file -> the checkpoint in it, or Torn
    synced,      \* files whose contents are on the disk
    loading,     \* loader -> "no" or "read"
    loadHandle,  \* loader -> the file it opened, NoFile if there was none
    saves, crashes, powerCuts,   \* how many there were
    acknowledged,   \* history: the checkpoints whose save returned Ok
    orphans         \* history: names that a crash or a failed removal left

saverVars == <<pc, cursor, temporary, handle, sequence>>

fileVars == <<dir, contents, synced>>

loadVars == <<loading, loadHandle>>

counters == <<saves, crashes, powerCuts>>

vars == <<saverVars, fileVars, disk, loadVars, counters, acknowledged, orphans>>

\* The file a save creates has the number of its checkpoint.
File == 1 .. MaxSaves

NoFile == 0

Torn == 0

\* The names in the directory: the checkpoint's path and temporary paths, which
\* are made of a process id and a number.
Path == <<0, 0>>

TypeOK ==
    /\ pc \in [Savers -> {"idle", "mkdir", "open", "write", "sync", "rename", "remove", "renamed"}]
    /\ cursor \in [Savers -> File \cup {None}]
    /\ temporary \in [Savers -> Nat \X Nat]
    /\ handle \in [Savers -> File \cup {NoFile}]
    /\ sequence \in [Processes -> Nat]
    /\ \A names \in {dir, disk} :
          DOMAIN names \subseteq Nat \X Nat /\ Range(names) \subseteq File
    /\ contents \in [File -> File \cup {Torn}]
    /\ synced \subseteq File
    /\ loading \in [Loaders -> {"no", "read"}]
    /\ loadHandle \in [Loaders -> File \cup {NoFile}]
    /\ saves \in 0 .. MaxSaves /\ crashes \in 0 .. MaxCrashes /\ powerCuts \in 0 .. MaxPowerCuts
    /\ acknowledged \subseteq File

Init ==
    /\ pc = [s \in Savers |-> "idle"]
    /\ cursor = [s \in Savers |-> None]
    /\ temporary = [s \in Savers |-> Path]
    /\ handle = [s \in Savers |-> NoFile]
    /\ sequence = [p \in Processes |-> 0]
    /\ dir = << >>
    /\ disk = << >>
    /\ contents = [f \in File |-> Torn]
    /\ synced = {}
    /\ loading = [l \in Loaders |-> "no"]
    /\ loadHandle = [l \in Loaders |-> NoFile]
    /\ saves = 0 /\ crashes = 0 /\ powerCuts = 0
    /\ acknowledged = {}
    /\ orphans = {}

\* The savers that have a temporary file of their own.
Writing == {s \in Savers : pc[s] \in {"write", "sync", "rename", "remove"}}

Goto(s, label) == pc' = [pc EXCEPT ![s] = label]

-----------------------------------------------------------------------------
(***************************************************************************)
(* save                                                                    *)
(***************************************************************************)
Save(s) ==
    /\ pc[s] = "idle"
    /\ saves < MaxSaves
    /\ saves' = saves + 1
    /\ cursor' = [cursor EXCEPT ![s] = saves + 1]
    /\ Goto(s, "mkdir")
    /\ UNCHANGED <<temporary, handle, sequence, fileVars, disk, loadVars,
                   crashes, powerCuts, acknowledged, orphans>>

\* create_dir_all of the parent, which may fail; then the encoding.
CreateParent(s) ==
    /\ pc[s] = "mkdir"
    /\ Goto(s, "open") \/ Goto(s, "idle")
    /\ UNCHANGED <<cursor, temporary, handle, sequence, fileVars, disk, loadVars,
                   counters, acknowledged, orphans>>

TemporaryPath(p) == <<PidOf[p], sequence[p]>>

\* Mutant: create and truncate, instead of create_new.
OpenShared(s) ==
    /\ pc[s] = "open"
    /\ LET p == ProcessOf[s]
           name == TemporaryPath(p)
           file == IF name \in DOMAIN dir THEN dir[name] ELSE cursor[s]
       IN  /\ sequence' = [sequence EXCEPT ![p] = @ + 1]
           /\ temporary' = [temporary EXCEPT ![s] = name]
           /\ handle' = [handle EXCEPT ![s] = file]
           /\ dir' = [n \in DOMAIN dir \cup {name} |-> IF n = name THEN file ELSE dir[n]]
           /\ contents' = [contents EXCEPT ![file] = Torn]
           /\ Goto(s, "write")
    /\ UNCHANGED <<cursor, synced, disk, loadVars, counters, acknowledged, orphans>>

\* Mutant: the number moves on only when the file was created.
OpenSameName(s) ==
    /\ pc[s] = "open"
    /\ LET p == ProcessOf[s]
           name == TemporaryPath(p)
       IN  /\ name \notin DOMAIN dir
           /\ sequence' = [sequence EXCEPT ![p] = @ + 1]
           /\ temporary' = [temporary EXCEPT ![s] = name]
           /\ handle' = [handle EXCEPT ![s] = cursor[s]]
           /\ dir' = [n \in DOMAIN dir \cup {name} |-> IF n = name THEN cursor[s] ELSE dir[n]]
           /\ Goto(s, "write")
    /\ UNCHANGED <<cursor, contents, synced, disk, loadVars, counters, acknowledged, orphans>>

\* One round of the loop: take the next number, create the file unless there
\* is one of that name, in which case another round follows.
Open(s) ==
    /\ pc[s] = "open"
    /\ LET p == ProcessOf[s]
           name == TemporaryPath(p)
       IN  /\ sequence' = [sequence EXCEPT ![p] = @ + 1]
           /\ temporary' = [temporary EXCEPT ![s] = name]
           /\ IF name \in DOMAIN dir
                THEN UNCHANGED <<handle, dir, pc>>
                ELSE /\ handle' = [handle EXCEPT ![s] = cursor[s]]
                     /\ dir' = [n \in DOMAIN dir \cup {name} |->
                                  IF n = name THEN cursor[s] ELSE dir[n]]
                     /\ Goto(s, "write")
    /\ UNCHANGED <<cursor, contents, synced, disk, loadVars, counters, acknowledged, orphans>>

\* Any other error of the open is returned: nothing was created.
OpenFails(s) ==
    /\ pc[s] = "open"
    /\ sequence' = [sequence EXCEPT ![ProcessOf[s]] = @ + 1]
    /\ Goto(s, "idle")
    /\ UNCHANGED <<cursor, temporary, handle, fileVars, disk, loadVars, counters,
                   acknowledged, orphans>>

\* Mutant: no sync between the write and the rename.
WriteThenRename(s) ==
    /\ pc[s] = "write"
    /\ contents' = [contents EXCEPT ![handle[s]] = cursor[s]]
    /\ Goto(s, "rename")
    /\ UNCHANGED <<cursor, temporary, handle, sequence, dir, synced, disk, loadVars,
                   counters, acknowledged, orphans>>

\* write_all
Write(s) ==
    /\ pc[s] = "write"
    /\ contents' = [contents EXCEPT ![handle[s]] = cursor[s]]
    /\ Goto(s, "sync")
    /\ UNCHANGED <<cursor, temporary, handle, sequence, dir, synced, disk, loadVars,
                   counters, acknowledged, orphans>>

\* sync_all
Sync(s) ==
    /\ pc[s] = "sync"
    /\ synced' = synced \cup {handle[s]}
    /\ Goto(s, "rename")
    /\ UNCHANGED <<cursor, temporary, handle, sequence, dir, contents, disk, loadVars,
                   counters, acknowledged, orphans>>

\* rename over the checkpoint's path.
Rename(s) ==
    /\ pc[s] = "rename"
    /\ temporary[s] \in DOMAIN dir
    /\ dir' = [n \in (DOMAIN dir \ {temporary[s]}) \cup {Path} |->
                 IF n = Path THEN dir[temporary[s]] ELSE dir[n]]
    /\ Goto(s, "renamed")
    /\ UNCHANGED <<cursor, temporary, handle, sequence, contents, synced, disk, loadVars,
                   counters, acknowledged, orphans>>

\* Mutant: the error is returned at once, the temporary file stays.
StepFailsAndReturns(s) ==
    /\ pc[s] \in {"write", "sync", "rename"}
    /\ Goto(s, "idle")
    /\ UNCHANGED <<cursor, temporary, handle, sequence, fileVars, disk, loadVars, counters,
                   acknowledged, orphans>>

\* A write (after a part of it), a sync or a rename fails.
StepFails(s) ==
    /\ pc[s] \in {"write", "sync", "rename"}
    /\ Goto(s, "remove")
    /\ UNCHANGED <<cursor, temporary, handle, sequence, fileVars, disk, loadVars, counters,
                   acknowledged, orphans>>

\* remove_file, whose own error is ignored; the first error is returned.
RemoveTemporary(s) ==
    /\ pc[s] = "remove"
    /\ \/ /\ dir' = Restrict(dir, DOMAIN dir \ {temporary[s]})
          /\ UNCHANGED orphans
       \/ /\ orphans' = orphans \cup {temporary[s]}
          /\ UNCHANGED dir
    /\ Goto(s, "idle")
    /\ UNCHANGED <<cursor, temporary, handle, sequence, contents, synced, disk, loadVars,
                   counters, acknowledged>>

\* save returns Ok.
SaveReturnsOk(s) ==
    /\ pc[s] = "renamed"
    /\ acknowledged' = acknowledged \cup {cursor[s]}
    /\ Goto(s, "idle")
    /\ UNCHANGED <<cursor, temporary, handle, sequence, fileVars, disk, loadVars, counters,
                   orphans>>

-----------------------------------------------------------------------------
\* load opens the file and reads it; NotFound is None, and what does not parse
\* is an error.
Load(l) ==
    /\ loading[l] = "no"
    /\ loading' = [loading EXCEPT ![l] = "read"]
    /\ loadHandle' = [loadHandle EXCEPT ![l] = IF Path \in DOMAIN dir THEN dir[Path] ELSE NoFile]
    /\ UNCHANGED <<saverVars, fileVars, disk, counters, acknowledged, orphans>>

LoadReturns(l) ==
    /\ loading[l] = "read"
    /\ loading' = [loading EXCEPT ![l] = "no"]
    /\ UNCHANGED <<saverVars, fileVars, disk, loadHandle, counters, acknowledged, orphans>>

-----------------------------------------------------------------------------
(***************************************************************************)
(* Deaths                                                                  *)
(***************************************************************************)

\* A process dies and is started again: its statics and its saves are gone.
Crash(p) ==
    /\ crashes < MaxCrashes
    /\ crashes' = crashes + 1
    /\ LET dead == {s \in Savers : ProcessOf[s] = p}
       IN  /\ pc' = [s \in Savers |-> IF s \in dead THEN "idle" ELSE pc[s]]
           /\ orphans' = orphans \cup {temporary[s] : s \in dead \cap Writing}
    /\ sequence' = [sequence EXCEPT ![p] = 0]
    /\ UNCHANGED <<cursor, temporary, handle, fileVars, disk, loadVars, saves, powerCuts,
                   acknowledged>>

\* The file system writes the directory to the disk.
FlushDirectory ==
    /\ powerCuts < MaxPowerCuts
    /\ disk # dir
    /\ disk' = dir
    /\ UNCHANGED <<saverVars, fileVars, loadVars, counters, acknowledged, orphans>>

\* The machine stops: what is left is the directory on the disk, and of the
\* files that were not synced, anything.
PowerCut ==
    /\ powerCuts < MaxPowerCuts
    /\ powerCuts' = powerCuts + 1
    /\ pc' = [s \in Savers |-> "idle"]
    /\ sequence' = [p \in Processes |-> 0]
    /\ loading' = [l \in Loaders |-> "no"]
    /\ dir' = disk
    /\ \E lost \in SUBSET (File \ synced) :
          contents' = [f \in File |-> IF f \in lost THEN Torn ELSE contents[f]]
    /\ orphans' = DOMAIN disk \ {Path}
    /\ UNCHANGED <<cursor, temporary, handle, synced, disk, loadHandle, saves, crashes,
                   acknowledged>>

SaveStep(s) ==
    \/ CreateParent(s)
    \/ Open(s)
    \/ Write(s) \/ Sync(s) \/ Rename(s)
    \/ RemoveTemporary(s)
    \/ SaveReturnsOk(s)

Next ==
    \/ \E s \in Savers : Save(s) \/ SaveStep(s) \/ OpenFails(s) \/ StepFails(s)
    \/ \E l \in Loaders : Load(l) \/ LoadReturns(l)
    \/ \E p \in Processes : Crash(p)
    \/ FlushDirectory
    \/ PowerCut

Spec == Init /\ [][Next]_vars

\* A save has no await: once begun it runs on.  The file system's calls return,
\* and it owes no failures.
FairSpec == Spec /\ \A s \in Savers : WF_vars(SaveStep(s))

-----------------------------------------------------------------------------
(***************************************************************************)
(* Properties                                                              *)
(***************************************************************************)

\* Whatever dies whenever, the path names no file or a whole checkpoint, in
\* the directory, on the disk, and for a load that has opened it.
NeverTorn ==
    /\ \A names \in {dir, disk} : Path \in DOMAIN names => contents[names[Path]] # Torn
    /\ \A l \in Loaders : loadHandle[l] # NoFile => contents[loadHandle[l]] # Torn

\* A temporary file belongs to one save under way, of whatever process, or was
\* left by a crash or a removal that failed; a save that returned left none
\* (file.rs:144, the test counts one file in the directory).
NothingLeftBehind ==
    /\ DOMAIN dir \ {Path} = orphans \cup {temporary[s] : s \in Writing}
    /\ \A s, t \in Writing : s # t => temporary[s] # temporary[t]
    /\ \A s \in Writing : temporary[s] \notin orphans /\ dir[temporary[s]] = handle[s]

\* The loop over names that are taken comes to an end, also after crashes have
\* left files under the very names the next process tries first.
SaveReturns == \A s \in Savers : (pc[s] # "idle") ~> (pc[s] = "idle")

Contents(f) == IF f = NoFile THEN None ELSE contents[f]

Stored == IF Path \in DOMAIN dir THEN contents[dir[Path]] ELSE None

Saving(s) ==
    IF pc[s] = "idle" THEN "no" ELSE IF pc[s] = "renamed" THEN "applied" ELSE "asked"

\* Until the power is cut the file is an atomic register: savers of several
\* threads and processes, crashes and failures of every step included.
Store == INSTANCE CheckpointStore WITH
    Checkpoints <- File,
    lingering <- {},
    stored  <- Stored,
    saving  <- [s \in Savers |-> Saving(s)],
    loaded  <- [l \in Loaders |-> Contents(loadHandle[l])]

ImplementsCheckpointStore ==
    Store!Init /\ [][powerCuts' = 0 => Store!Next \/ UNCHANGED Store!vars]_vars

\* Durable storage (core/src/checkpoint.rs:3): a checkpoint whose save
\* returned Ok is not lost, here for the saves of one saver, each newer than
\* the one before.
AcknowledgedIsDurable ==
    Cardinality(Savers) = 1 =>
        \A c \in acknowledged : Path \in DOMAIN dir /\ contents[dir[Path]] >= c
===============================================================================
