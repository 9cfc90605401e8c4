------------------------- MODULE FileCheckpointProofs -------------------------
(***************************************************************************)
(* For every set of savers, loaders and processes, and any number of saves,*)
(* crashes and power cuts: the path never names a torn checkpoint, and a   *)
(* save that has returned has left no temporary file.                      *)
(***************************************************************************)
EXTENDS FileCheckpoint, TLAPS

\* A saver that is under way has a checkpoint, and one that is writing a file.
Underway ==
    \A s \in Savers :
        /\ pc[s] # "idle" => cursor[s] \in File
        /\ s \in Writing => handle[s] \in File /\ temporary[s] # Path

\* What is on the disk stays whole: the file that is being renamed, and every
\* file that the path has ever named, is synced.
Whole ==
    /\ \A f \in synced : contents[f] # Torn
    /\ \A s \in Savers : /\ pc[s] = "sync" => contents[handle[s]] # Torn
                         /\ pc[s] = "rename" => handle[s] \in synced
    /\ Path \in DOMAIN dir => dir[Path] \in synced
    /\ Path \in DOMAIN disk => disk[Path] \in synced
    /\ \A l \in Loaders : loadHandle[l] # NoFile => loadHandle[l] \in synced

\* The inductive invariant.
FileInv ==
    /\ TypeOK
    /\ Underway
    /\ Whole
    /\ NothingLeftBehind
    /\ Path \notin orphans

-----------------------------------------------------------------------------
\* Every temporary path is one of a process, and none is the checkpoint's.
LEMMA TemporaryPathType ==
    ASSUME FileInv, NEW s \in Savers
    PROVE  TemporaryPath(ProcessOf[s]) \in Nat \X Nat /\ TemporaryPath(ProcessOf[s]) # Path
<1>1. /\ PidOf[ProcessOf[s]] \in Nat \ {0} /\ sequence[ProcessOf[s]] \in Nat
  BY FileAssumption DEF FileInv, TypeOK
<1> QED
  BY <1>1 DEF TemporaryPath, Path

\* A step that leaves the files alone, and whose savers keep theirs.
LEMMA NamesKept ==
    ASSUME FileInv,
           UNCHANGED <<fileVars, disk, loadHandle, orphans>>,
           \A s \in Savers :
              /\ s \in Writing' <=> s \in Writing
              /\ s \in Writing => temporary'[s] = temporary[s] /\ handle'[s] = handle[s]
              /\ pc'[s] # "idle" => cursor'[s] \in File
              /\ pc'[s] = "sync" => pc[s] = "sync"
              /\ pc'[s] = "rename" => pc[s] = "rename"
    PROVE  Underway' /\ Whole' /\ NothingLeftBehind' /\ (Path \notin orphans)'
<1>1. Writing' = Writing
  BY DEF Writing
<1>2. Underway'
  BY <1>1 DEF FileInv, Underway
<1>3. Whole'
  <2>1. \A s \in Savers : pc'[s] \in {"sync", "rename"} => handle'[s] = handle[s]
    BY DEF Writing
  <2> QED
    BY <2>1 DEF FileInv, Whole, fileVars
<1>4. NothingLeftBehind'
  <2>1. {temporary[s] : s \in Writing}' = {temporary[s] : s \in Writing}
    BY <1>1 DEF Writing
  <2> QED
    BY <1>1, <2>1 DEF FileInv, NothingLeftBehind, fileVars, Writing
<1> QED
  BY <1>2, <1>3, <1>4 DEF FileInv

\* The run begins with an empty directory.
LEMMA FileInitInv == Init => FileInv
<1> SUFFICES ASSUME Init PROVE FileInv
  OBVIOUS
<1>1. DOMAIN dir = {} /\ DOMAIN disk = {}
  BY DEF Init
<1>2. Range(dir) = {} /\ Range(disk) = {}
  BY <1>1 DEF Range
<1>3. Path \in Nat \X Nat
  BY DEF Path
<1>4. Writing = {}
  BY DEF Init, Writing
<1>5. TypeOK
  BY <1>1, <1>2, <1>3, FileAssumption DEF Init, TypeOK
<1>6. Underway /\ Whole
  BY <1>1, <1>4 DEF Init, Underway, Whole
<1>7. NothingLeftBehind /\ Path \notin orphans
  BY <1>1, <1>4 DEF Init, NothingLeftBehind
<1> QED
  BY <1>5, <1>6, <1>7 DEF FileInv

-----------------------------------------------------------------------------
(***************************************************************************)
(* The steps of a save.                                                    *)
(***************************************************************************)

\* Save: the checkpoint has the next number.
LEMMA SaveInv ==
    ASSUME FileInv, NEW s \in Savers, Save(s)
    PROVE  FileInv'
<1>1. /\ pc' = [pc EXCEPT ![s] = "mkdir"] /\ pc[s] = "idle"
      /\ cursor' = [cursor EXCEPT ![s] = saves + 1]
      /\ saves' = saves + 1 /\ saves < MaxSaves
      /\ UNCHANGED <<temporary, handle, sequence, fileVars, disk, loadVars,
                     crashes, powerCuts, acknowledged, orphans>>
  BY DEF Save, Goto
<1>2. saves + 1 \in File /\ saves + 1 \in 0 .. MaxSaves
  BY <1>1, FileAssumption DEF FileInv, TypeOK, File
<1>3. TypeOK'
  BY <1>1, <1>2 DEF FileInv, TypeOK, fileVars, loadVars
<1>4. Underway' /\ Whole' /\ NothingLeftBehind' /\ (Path \notin orphans)'
  BY <1>1, <1>2, NamesKept DEF FileInv, TypeOK, Underway, Writing, fileVars, loadVars
<1> QED
  BY <1>3, <1>4 DEF FileInv

\* CreateParent, OpenFails and SaveReturnsOk touch no file either.
LEMMA NoFileTouchedInv ==
    ASSUME FileInv, NEW s \in Savers,
           CreateParent(s) \/ OpenFails(s) \/ SaveReturnsOk(s)
    PROVE  FileInv'
<1>1. /\ pc[s] \in {"mkdir", "open", "renamed"}
      /\ pc' \in {[pc EXCEPT ![s] = "open"], [pc EXCEPT ![s] = "idle"]}
      /\ sequence' \in {sequence, [sequence EXCEPT ![ProcessOf[s]] = @ + 1]}
      /\ acknowledged' \in {acknowledged, acknowledged \cup {cursor[s]}}
      /\ UNCHANGED <<cursor, temporary, handle, fileVars, disk, loadVars, counters, orphans>>
  BY DEF CreateParent, OpenFails, SaveReturnsOk, Goto
<1>2. cursor[s] \in File /\ ProcessOf[s] \in Processes
  BY <1>1, FileAssumption DEF FileInv, Underway
<1>3. TypeOK'
  BY <1>1, <1>2 DEF FileInv, TypeOK, fileVars, loadVars, counters
<1>4. Underway' /\ Whole' /\ NothingLeftBehind' /\ (Path \notin orphans)'
  BY <1>1, <1>2, NamesKept DEF FileInv, TypeOK, Underway, Writing, fileVars, loadVars
<1> QED
  BY <1>3, <1>4 DEF FileInv

\* StepFails: the file stays its own until it is removed.
LEMMA StepFailsInv ==
    ASSUME FileInv, NEW s \in Savers, StepFails(s)
    PROVE  FileInv'
<1>1. /\ pc[s] \in {"write", "sync", "rename"} /\ pc' = [pc EXCEPT ![s] = "remove"]
      /\ UNCHANGED <<cursor, temporary, handle, sequence, fileVars, disk, loadVars,
                     counters, acknowledged, orphans>>
  BY DEF StepFails, Goto
<1>2. TypeOK'
  BY <1>1 DEF FileInv, TypeOK, fileVars, loadVars, counters
<1>3. Underway' /\ Whole' /\ NothingLeftBehind' /\ (Path \notin orphans)'
  BY <1>1, NamesKept DEF FileInv, TypeOK, Underway, Writing, fileVars, loadVars
<1> QED
  BY <1>2, <1>3 DEF FileInv
\* Open: a name that is taken is passed over, a free one becomes the saver's.
LEMMA OpenInv ==
    ASSUME FileInv, NEW s \in Savers, Open(s)
    PROVE  FileInv'
<1> DEFINE name == TemporaryPath(ProcessOf[s])
<1>0. /\ pc[s] = "open" /\ s \notin Writing /\ cursor[s] \in File
      /\ ProcessOf[s] \in Processes
      /\ name \in Nat \X Nat /\ name # Path
  BY TemporaryPathType, FileAssumption DEF Open, Writing, FileInv, Underway
<1>1. /\ sequence' = [sequence EXCEPT ![ProcessOf[s]] = @ + 1]
      /\ temporary' = [temporary EXCEPT ![s] = name]
      /\ UNCHANGED <<cursor, contents, synced, disk, loadVars, counters, acknowledged, orphans>>
  BY DEF Open
<1>2. CASE name \in DOMAIN dir
  <2>1. UNCHANGED <<handle, dir, pc>>
    BY <1>2 DEF Open
  <2>2. TypeOK'
    BY <1>0, <1>1, <2>1 DEF FileInv, TypeOK, loadVars, counters
  <2>3. Underway' /\ Whole' /\ NothingLeftBehind' /\ (Path \notin orphans)'
    BY <1>0, <1>1, <2>1, NamesKept DEF FileInv, TypeOK, Underway, Writing, fileVars, loadVars
  <2> QED
    BY <2>2, <2>3 DEF FileInv
<1>3. CASE name \notin DOMAIN dir
  <2>1. /\ handle' = [handle EXCEPT ![s] = cursor[s]]
        /\ dir' = [n \in DOMAIN dir \cup {name} |-> IF n = name THEN cursor[s] ELSE dir[n]]
        /\ pc' = [pc EXCEPT ![s] = "write"]
    BY <1>3 DEF Open, Goto
  <2>2. /\ DOMAIN dir' = DOMAIN dir \cup {name} /\ dir'[name] = cursor[s]
        /\ \A n \in DOMAIN dir : dir'[n] = dir[n]
        /\ DOMAIN dir' \subseteq Nat \X Nat /\ Range(dir') \subseteq File
    <3>1. DOMAIN dir \subseteq Nat \X Nat /\ \A n \in DOMAIN dir : dir[n] \in File
      BY DEF FileInv, TypeOK, Range
    <3>2. /\ DOMAIN dir' = DOMAIN dir \cup {name} /\ dir'[name] = cursor[s]
          /\ \A n \in DOMAIN dir : dir'[n] = dir[n]
      BY <1>3, <2>1
    <3>3. \A n \in DOMAIN dir' : dir'[n] \in File
      BY <1>0, <3>1, <3>2
    <3> QED
      BY <1>0, <3>1, <3>2, <3>3 DEF Range
  <2>3. TypeOK'
    <3>1. /\ pc' \in [Savers -> {"idle", "mkdir", "open", "write", "sync", "rename", "remove", "renamed"}]
          /\ temporary' \in [Savers -> Nat \X Nat]
          /\ handle' \in [Savers -> File \cup {NoFile}]
          /\ sequence' \in [Processes -> Nat]
      BY <1>0, <1>1, <2>1 DEF FileInv, TypeOK
    <3>2. \A names \in {dir', disk'} : DOMAIN names \subseteq Nat \X Nat /\ Range(names) \subseteq File
      BY <1>1, <2>2 DEF FileInv, TypeOK
    <3> QED
      BY <1>1, <3>1, <3>2 DEF FileInv, TypeOK, loadVars, counters
  <2>4. Writing' = Writing \cup {s}
    <3>1. \A t \in Savers : pc'[t] = IF t = s THEN "write" ELSE pc[t]
      BY <2>1 DEF FileInv, TypeOK
    <3> QED
      BY <3>1 DEF Writing
  <2>5. Underway'
    <3>1. /\ \A t \in Savers : pc'[t] # "idle" => cursor[t] \in File
          /\ \A t \in Savers : t # s => handle'[t] = handle[t] /\ temporary'[t] = temporary[t]
          /\ handle'[s] = cursor[s] /\ temporary'[s] = name
      BY <1>0, <1>1, <2>1 DEF FileInv, TypeOK, Underway
    <3> QED
      BY <1>0, <1>1, <2>4, <3>1 DEF FileInv, Underway
  <2>6. Whole'
    <3>1. /\ \A t \in Savers : pc'[t] \in {"sync", "rename"} =>
                pc'[t] = pc[t] /\ handle'[t] = handle[t]
          /\ UNCHANGED <<contents, synced, disk, loadHandle>>
      BY <1>0, <1>1, <2>1 DEF FileInv, TypeOK, loadVars
    <3>2. Path \in DOMAIN dir' => dir'[Path] \in synced
      BY <1>0, <2>2 DEF FileInv, Whole
    <3> QED
      BY <3>1, <3>2 DEF FileInv, Whole
  <2>7. /\ \A t \in Writing : temporary[t] \in DOMAIN dir
        /\ orphans \subseteq DOMAIN dir
    BY DEF FileInv, NothingLeftBehind
  <2>8. NothingLeftBehind'
    <3>1. /\ temporary'[s] = name /\ handle'[s] = cursor[s]
          /\ \A t \in Writing : t # s /\ temporary'[t] = temporary[t] /\ handle'[t] = handle[t]
      BY <1>0, <1>1, <2>1 DEF FileInv, TypeOK, Writing
    <3>2. {temporary'[t] : t \in Writing'} = {temporary[t] : t \in Writing} \cup {name}
      BY <2>4, <3>1
    <3>3. DOMAIN dir' \ {Path} = orphans' \cup {temporary'[t] : t \in Writing'}
      BY <1>0, <1>1, <2>2, <3>2 DEF FileInv, NothingLeftBehind
    <3>4. \A t, u \in Writing' : t # u => temporary'[t] # temporary'[u]
      BY <1>3, <2>4, <2>7, <3>1 DEF FileInv, NothingLeftBehind
    <3>5. \A t \in Writing' : temporary'[t] \notin orphans' /\ dir'[temporary'[t]] = handle'[t]
      BY <1>1, <1>3, <2>2, <2>4, <2>7, <3>1 DEF FileInv, NothingLeftBehind
    <3> QED
      BY <3>3, <3>4, <3>5 DEF NothingLeftBehind
  <2> QED
    BY <1>1, <2>3, <2>5, <2>6, <2>8 DEF FileInv
<1> QED
  BY <1>2, <1>3

\* Write: the file is whole, but not yet on the disk.
LEMMA WriteInv ==
    ASSUME FileInv, NEW s \in Savers, Write(s)
    PROVE  FileInv'
<1>1. /\ pc[s] = "write" /\ pc' = [pc EXCEPT ![s] = "sync"]
      /\ contents' = [contents EXCEPT ![handle[s]] = cursor[s]]
      /\ UNCHANGED <<cursor, temporary, handle, sequence, dir, synced, disk, loadVars,
                     counters, acknowledged, orphans>>
  BY DEF Write, Goto
<1>2. s \in Writing /\ cursor[s] \in File /\ handle[s] \in File /\ cursor[s] # Torn
  BY <1>1 DEF FileInv, Underway, Writing, File, Torn
<1>3. Writing' = Writing
  BY <1>1 DEF FileInv, TypeOK, Writing
<1>4. /\ contents'[handle[s]] = cursor[s] /\ contents' \in [File -> File \cup {Torn}]
      /\ \A f \in File : contents[f] # Torn => contents'[f] # Torn
  BY <1>1, <1>2 DEF FileInv, TypeOK
<1>5. TypeOK'
  BY <1>1, <1>4 DEF FileInv, TypeOK, loadVars, counters
<1>6. Underway'
  BY <1>1, <1>3 DEF FileInv, TypeOK, Underway
<1>7. Whole'
  <2>1. \A f \in synced' : contents'[f] # Torn
    BY <1>1, <1>4 DEF FileInv, TypeOK, Whole
  <2>2. ASSUME NEW t \in Savers
        PROVE  /\ pc'[t] = "sync" => contents'[handle'[t]] # Torn
               /\ pc'[t] = "rename" => handle'[t] \in synced'
    BY <1>1, <1>2, <1>4 DEF FileInv, TypeOK, Underway, Whole, Writing
  <2> QED
    BY <1>1, <2>1, <2>2 DEF FileInv, Whole, loadVars
<1>8. NothingLeftBehind'
  BY <1>1, <1>3 DEF FileInv, NothingLeftBehind
<1> QED
  BY <1>1, <1>5, <1>6, <1>7, <1>8 DEF FileInv

\* Sync: the whole file is on the disk.
LEMMA SyncInv ==
    ASSUME FileInv, NEW s \in Savers, Sync(s)
    PROVE  FileInv'
<1>1. /\ pc[s] = "sync" /\ pc' = [pc EXCEPT ![s] = "rename"]
      /\ synced' = synced \cup {handle[s]}
      /\ UNCHANGED <<cursor, temporary, handle, sequence, dir, contents, disk, loadVars,
                     counters, acknowledged, orphans>>
  BY DEF Sync, Goto
<1>2. s \in Writing /\ handle[s] \in File /\ contents[handle[s]] # Torn
  BY <1>1 DEF FileInv, Underway, Writing, Whole
<1>3. Writing' = Writing
  BY <1>1 DEF FileInv, TypeOK, Writing
<1>4. TypeOK'
  BY <1>1, <1>2 DEF FileInv, TypeOK, loadVars, counters
<1>5. Underway'
  BY <1>1, <1>3 DEF FileInv, TypeOK, Underway
<1>6. Whole'
  BY <1>1, <1>2 DEF FileInv, TypeOK, Whole, loadVars
<1>7. NothingLeftBehind'
  BY <1>1, <1>3 DEF FileInv, NothingLeftBehind
<1> QED
  BY <1>1, <1>4, <1>5, <1>6, <1>7 DEF FileInv

\* Rename: the path names a file that is whole on the disk.
LEMMA RenameInv ==
    ASSUME FileInv, NEW s \in Savers, Rename(s)
    PROVE  FileInv'
<1>1. /\ pc[s] = "rename" /\ pc' = [pc EXCEPT ![s] = "renamed"]
      /\ temporary[s] \in DOMAIN dir
      /\ dir' = [n \in (DOMAIN dir \ {temporary[s]}) \cup {Path} |->
                   IF n = Path THEN dir[temporary[s]] ELSE dir[n]]
      /\ UNCHANGED <<cursor, temporary, handle, sequence, contents, synced, disk, loadVars,
                     counters, acknowledged, orphans>>
  BY DEF Rename, Goto
<1>2. /\ s \in Writing /\ handle[s] \in synced /\ dir[temporary[s]] = handle[s]
      /\ temporary[s] # Path
  BY <1>1 DEF FileInv, Underway, Writing, Whole, NothingLeftBehind
<1>3. Writing' = Writing \ {s}
  BY <1>1 DEF FileInv, TypeOK, Writing
<1>4. /\ DOMAIN dir' = (DOMAIN dir \ {temporary[s]}) \cup {Path}
      /\ dir'[Path] = handle[s]
      /\ \A n \in DOMAIN dir \ {temporary[s]} : n # Path => dir'[n] = dir[n]
  BY <1>1, <1>2
<1>5. DOMAIN dir' \subseteq Nat \X Nat /\ Range(dir') \subseteq File
  <2>1. /\ DOMAIN dir \subseteq Nat \X Nat /\ \A n \in DOMAIN dir : dir[n] \in File
        /\ handle[s] \in File
    BY <1>2 DEF FileInv, TypeOK, Range
  <2>2. \A n \in DOMAIN dir' : dir'[n] \in File
    BY <1>4, <2>1
  <2> QED
    BY <1>4, <2>1, <2>2 DEF Range, Path
<1>6. TypeOK'
  BY <1>1, <1>5 DEF FileInv, TypeOK, loadVars, counters
<1>7. Underway'
  BY <1>1, <1>3 DEF FileInv, TypeOK, Underway
<1>8. Whole'
  BY <1>1, <1>2, <1>4 DEF FileInv, TypeOK, Whole, loadVars
<1>9. NothingLeftBehind'
  <2>1. \A t \in Writing' : temporary[t] # temporary[s] /\ temporary[t] \in DOMAIN dir /\ temporary[t] # Path
    BY <1>2, <1>3 DEF FileInv, NothingLeftBehind, Underway
  <2>2. {temporary[t] : t \in Writing'} = {temporary[t] : t \in Writing} \ {temporary[s]}
    BY <1>2, <1>3, <2>1
  <2>3. temporary[s] \notin orphans
    BY <1>2 DEF FileInv, NothingLeftBehind
  <2>4. DOMAIN dir' \ {Path} = orphans \cup {temporary[t] : t \in Writing'}
    BY <1>2, <1>4, <2>2, <2>3 DEF FileInv, NothingLeftBehind
  <2>5. \A t \in Writing' : temporary[t] \notin orphans /\ dir'[temporary[t]] = handle[t]
    BY <1>3, <1>4, <2>1 DEF FileInv, NothingLeftBehind
  <2>6. \A t, u \in Writing' : t # u => temporary[t] # temporary[u]
    BY <1>3 DEF FileInv, NothingLeftBehind
  <2> QED
    BY <1>1, <2>4, <2>5, <2>6 DEF NothingLeftBehind
<1> QED
  BY <1>1, <1>6, <1>7, <1>8, <1>9 DEF FileInv
\* RemoveTemporary: the name is gone, or is known to have been left.
LEMMA RemoveTemporaryInv ==
    ASSUME FileInv, NEW s \in Savers, RemoveTemporary(s)
    PROVE  FileInv'
<1>1. /\ pc[s] = "remove" /\ pc' = [pc EXCEPT ![s] = "idle"]
      /\ \/ dir' = Restrict(dir, DOMAIN dir \ {temporary[s]}) /\ orphans' = orphans
         \/ dir' = dir /\ orphans' = orphans \cup {temporary[s]}
      /\ UNCHANGED <<cursor, temporary, handle, sequence, contents, synced, disk, loadVars,
                     counters, acknowledged>>
  BY DEF RemoveTemporary, Goto
<1>2. s \in Writing /\ temporary[s] # Path
  BY <1>1 DEF FileInv, Underway, Writing
<1>3. Writing' = Writing \ {s}
  <2>1. \A t \in Savers : pc'[t] = IF t = s THEN "idle" ELSE pc[t]
    BY <1>1 DEF FileInv, TypeOK
  <2> QED
    BY <2>1 DEF Writing
<1>4. /\ DOMAIN dir' \subseteq DOMAIN dir
      /\ \A n \in DOMAIN dir' : dir'[n] = dir[n]
      /\ DOMAIN dir' \cup {temporary[s]} = DOMAIN dir \cup {temporary[s]}
  BY <1>1 DEF Restrict
<1>5. DOMAIN dir' \subseteq Nat \X Nat /\ Range(dir') \subseteq File
  <2>1. DOMAIN dir \subseteq Nat \X Nat /\ \A n \in DOMAIN dir : dir[n] \in File
    BY DEF FileInv, TypeOK, Range
  <2> QED
    BY <1>4, <2>1 DEF Range
<1>6. TypeOK'
  BY <1>1, <1>5 DEF FileInv, TypeOK, loadVars, counters
<1>7. Underway'
  BY <1>1, <1>3 DEF FileInv, TypeOK, Underway
<1>8. Whole'
  BY <1>1, <1>4 DEF FileInv, TypeOK, Whole, loadVars
<1>9. NothingLeftBehind'
  <2>1. \A t \in Writing' : /\ temporary[t] # temporary[s] /\ temporary[t] # Path
                            /\ temporary[t] \in DOMAIN dir
    BY <1>2, <1>3 DEF FileInv, NothingLeftBehind, Underway
  <2>2. {temporary[t] : t \in Writing'} = {temporary[t] : t \in Writing} \ {temporary[s]}
    BY <1>2, <1>3, <2>1
  <2>3. temporary[s] \notin orphans /\ temporary[s] \in DOMAIN dir
    BY <1>2 DEF FileInv, NothingLeftBehind
  <2>4. DOMAIN dir' \ {Path} = orphans' \cup {temporary[t] : t \in Writing'}
    <3>1. CASE dir' = Restrict(dir, DOMAIN dir \ {temporary[s]}) /\ orphans' = orphans
      <4>1. DOMAIN dir' = DOMAIN dir \ {temporary[s]}
        BY <3>1 DEF Restrict
      <4> QED
        BY <3>1, <4>1, <2>2, <2>3 DEF FileInv, NothingLeftBehind
    <3>2. CASE dir' = dir /\ orphans' = orphans \cup {temporary[s]}
      BY <1>2, <3>2, <2>2, <2>3 DEF FileInv, NothingLeftBehind
    <3> QED
      BY <1>1, <3>1, <3>2
  <2>5. \A t \in Writing' : temporary[t] \notin orphans' /\ dir'[temporary[t]] = handle[t]
    BY <1>1, <1>3, <1>4, <2>1 DEF FileInv, NothingLeftBehind
  <2>6. \A t, u \in Writing' : t # u => temporary[t] # temporary[u]
    BY <1>3 DEF FileInv, NothingLeftBehind
  <2> QED
    BY <1>1, <2>4, <2>5, <2>6 DEF NothingLeftBehind
<1>10. (Path \notin orphans)'
  BY <1>1, <1>2 DEF FileInv
<1> QED
  BY <1>6, <1>7, <1>8, <1>9, <1>10 DEF FileInv

-----------------------------------------------------------------------------
(***************************************************************************)
(* Loads, deaths and the disk.                                             *)
(***************************************************************************)

\* A load opens a file that is whole on the disk, or finds none.
LEMMA LoadInv ==
    ASSUME FileInv, NEW l \in Loaders, Load(l) \/ LoadReturns(l)
    PROVE  FileInv'
<1> DEFINE opened == IF Path \in DOMAIN dir THEN dir[Path] ELSE NoFile
<1>1. /\ UNCHANGED <<saverVars, fileVars, disk, counters, acknowledged, orphans>>
      /\ loading' \in {[loading EXCEPT ![l] = "read"], [loading EXCEPT ![l] = "no"]}
      /\ loadHandle' \in {loadHandle, [loadHandle EXCEPT ![l] = opened]}
  BY DEF Load, LoadReturns
<1>2. opened # NoFile => opened \in synced /\ opened \in File
  BY DEF FileInv, TypeOK, Whole
<1>3. TypeOK'
  <2>1. loading' \in [Loaders -> {"no", "read"}]
    BY <1>1 DEF FileInv, TypeOK
  <2>2. loadHandle' \in [Loaders -> File \cup {NoFile}]
    <3>1. loadHandle \in [Loaders -> File \cup {NoFile}] /\ opened \in File \cup {NoFile}
      BY <1>2 DEF FileInv, TypeOK
    <3> QED
      BY <1>1, <3>1
  <2> QED
    BY <1>1, <2>1, <2>2 DEF FileInv, TypeOK, saverVars, fileVars, counters
<1>4. Underway' /\ NothingLeftBehind' /\ (Path \notin orphans)'
  BY <1>1 DEF FileInv, Underway, NothingLeftBehind, Writing, saverVars, fileVars
<1>5. Whole'
  BY <1>1, <1>2 DEF FileInv, TypeOK, Whole, saverVars, fileVars
<1> QED
  BY <1>3, <1>4, <1>5 DEF FileInv

\* A process dies: the files its savers were writing stay behind.
LEMMA CrashInv ==
    ASSUME FileInv, NEW p \in Processes, Crash(p)
    PROVE  FileInv'
<1> DEFINE dead == {s \in Savers : ProcessOf[s] = p}
<1>1. /\ crashes < MaxCrashes /\ crashes' = crashes + 1
      /\ pc' = [s \in Savers |-> IF s \in dead THEN "idle" ELSE pc[s]]
      /\ orphans' = orphans \cup {temporary[s] : s \in dead \cap Writing}
      /\ sequence' = [sequence EXCEPT ![p] = 0]
      /\ UNCHANGED <<cursor, temporary, handle, fileVars, disk, loadVars, saves, powerCuts,
                     acknowledged>>
  BY DEF Crash
<1>2. Writing' = Writing \ dead
  BY <1>1 DEF Writing
<1>3. TypeOK'
  <2>1. crashes' \in 0 .. MaxCrashes
    BY <1>1, FileAssumption DEF FileInv, TypeOK
  <2>2. /\ pc' \in [Savers -> {"idle", "mkdir", "open", "write", "sync", "rename", "remove", "renamed"}]
        /\ sequence' \in [Processes -> Nat]
    BY <1>1 DEF FileInv, TypeOK
  <2> QED
    BY <1>1, <2>1, <2>2 DEF FileInv, TypeOK, fileVars, loadVars
<1>4. Underway'
  BY <1>1, <1>2 DEF FileInv, Underway
<1>5. Whole'
  BY <1>1 DEF FileInv, Whole, fileVars, loadVars
<1>6. NothingLeftBehind'
  <2>1. orphans' \cup {temporary[s] : s \in Writing'} = orphans \cup {temporary[s] : s \in Writing}
    BY <1>1, <1>2
  <2>2. \A s \in Writing' : temporary[s] \notin orphans'
    BY <1>1, <1>2 DEF FileInv, NothingLeftBehind
  <2>3. /\ \A s, t \in Writing' : s # t => temporary[s] # temporary[t]
        /\ \A s \in Writing' : dir[temporary[s]] = handle[s]
    BY <1>2 DEF FileInv, NothingLeftBehind
  <2>4. DOMAIN dir \ {Path} = orphans' \cup {temporary[s] : s \in Writing'}
    BY <2>1 DEF FileInv, NothingLeftBehind
  <2>5. temporary' = temporary /\ handle' = handle /\ dir' = dir
    BY <1>1 DEF fileVars
  <2> QED
    BY <2>2, <2>3, <2>4, <2>5 DEF NothingLeftBehind
<1>7. (Path \notin orphans)'
  BY <1>1 DEF FileInv, Underway
<1> QED
  BY <1>3, <1>4, <1>5, <1>6, <1>7 DEF FileInv

\* The directory reaches the disk: what its path names is there already.
LEMMA FlushDirectoryInv ==
    ASSUME FileInv, FlushDirectory
    PROVE  FileInv'
<1>1. /\ disk' = dir
      /\ UNCHANGED <<saverVars, fileVars, loadVars, counters, acknowledged, orphans>>
  BY DEF FlushDirectory
<1>2. TypeOK'
  BY <1>1 DEF FileInv, TypeOK, saverVars, fileVars, loadVars, counters
<1>3. Underway' /\ NothingLeftBehind' /\ (Path \notin orphans)'
  BY <1>1 DEF FileInv, Underway, NothingLeftBehind, Writing, saverVars, fileVars
<1>4. Whole'
  BY <1>1 DEF FileInv, Whole, saverVars, fileVars, loadVars
<1> QED
  BY <1>2, <1>3, <1>4 DEF FileInv

\* The power is cut: no saver is left, and the path names what it named on the
\* disk, which is synced.
LEMMA PowerCutInv ==
    ASSUME FileInv, PowerCut
    PROVE  FileInv'
<1>1. /\ powerCuts < MaxPowerCuts /\ powerCuts' = powerCuts + 1
      /\ pc' = [s \in Savers |-> "idle"]
      /\ sequence' = [p \in Processes |-> 0]
      /\ loading' = [l \in Loaders |-> "no"]
      /\ dir' = disk
      /\ orphans' = DOMAIN disk \ {Path}
      /\ UNCHANGED <<cursor, temporary, handle, synced, disk, loadHandle, saves, crashes,
                     acknowledged>>
  BY DEF PowerCut
<1>2. PICK lost \in SUBSET (File \ synced) :
         contents' = [f \in File |-> IF f \in lost THEN Torn ELSE contents[f]]
  BY DEF PowerCut
<1>3. /\ contents' \in [File -> File \cup {Torn}]
      /\ \A f \in synced : contents'[f] # Torn
  BY <1>2 DEF FileInv, TypeOK, Whole
<1>4. Writing' = {}
  BY <1>1 DEF Writing
<1>5. TypeOK'
  <2>1. powerCuts' \in 0 .. MaxPowerCuts
    BY <1>1, FileAssumption DEF FileInv, TypeOK
  <2>2. /\ pc' \in [Savers -> {"idle", "mkdir", "open", "write", "sync", "rename", "remove", "renamed"}]
        /\ sequence' \in [Processes -> Nat]
        /\ loading' \in [Loaders -> {"no", "read"}]
    BY <1>1
  <2> QED
    BY <1>1, <1>3, <2>1, <2>2 DEF FileInv, TypeOK
<1>6. Underway'
  BY <1>1, <1>4 DEF Underway
<1>7. Whole'
  BY <1>1, <1>3 DEF FileInv, Whole
<1>8. NothingLeftBehind' /\ (Path \notin orphans)'
  <2>1. {temporary[s] : s \in Writing}' = {}
    BY <1>4
  <2>2. DOMAIN dir' \ {Path} = orphans' \cup {temporary[s] : s \in Writing}'
    BY <1>1, <2>1
  <2> QED
    BY <1>1, <1>4, <2>2 DEF NothingLeftBehind
<1> QED
  BY <1>5, <1>6, <1>7, <1>8 DEF FileInv

-----------------------------------------------------------------------------
\* The invariant holds in every reachable state.
THEOREM FileInvariant == Spec => []FileInv
<1>1. ASSUME FileInv, [Next]_vars
      PROVE  FileInv'
  <2>1. CASE UNCHANGED vars
    BY <1>1, <2>1 DEF FileInv, TypeOK, Underway, Whole, NothingLeftBehind, Writing,
                      vars, saverVars, fileVars, loadVars, counters
  <2> QED
    BY <1>1, <2>1, SaveInv, NoFileTouchedInv, StepFailsInv, OpenInv, WriteInv, SyncInv,
       RenameInv, RemoveTemporaryInv, LoadInv, CrashInv, FlushDirectoryInv, PowerCutInv
       DEF Next, SaveStep
<1> QED
  BY <1>1, FileInitInv, PTL DEF Spec

\* The checkpoint's path never names a torn file, in the directory or on the
\* disk, and no load has opened one.
THEOREM FileNeverTorn == Spec => []NeverTorn
<1>1. FileInv => NeverTorn
  BY DEF FileInv, Whole, NeverTorn
<1> QED
  BY <1>1, FileInvariant, PTL

\* Every temporary file belongs to one save under way, or was left by a crash
\* or by a removal that failed.
THEOREM FileNothingLeftBehind == Spec => []NothingLeftBehind
<1>1. FileInv => NothingLeftBehind
  BY DEF FileInv
<1> QED
  BY <1>1, FileInvariant, PTL
-----------------------------------------------------------------------------
(***************************************************************************)
(* The register.                                                           *)
(***************************************************************************)

\* Every save writes a file of its own, the one of its checkpoint's number,
\* and none that was synced.
OwnFiles ==
    /\ \A s \in Savers : pc[s] # "idle" => cursor[s] \in 1 .. saves
    /\ \A s, t \in Savers : s # t /\ pc[s] # "idle" /\ pc[t] # "idle" => cursor[s] # cursor[t]
    /\ \A s \in Writing : handle[s] = cursor[s]
    /\ \A s \in Savers :
          /\ pc[s] \in {"mkdir", "open", "write", "sync"} => cursor[s] \notin synced
          /\ pc[s] \in {"sync", "rename"} => contents[cursor[s]] = cursor[s]
    /\ synced \subseteq 1 .. saves

\* A step that begins no save and writes no file.
LEMMA OwnFilesKept ==
    ASSUME FileInv, OwnFiles,
           UNCHANGED <<contents, synced, saves>>,
           \A s \in Savers :
              /\ pc'[s] # "idle" => pc[s] # "idle" /\ cursor'[s] = cursor[s]
              /\ s \in Writing' => handle'[s] = cursor'[s]
              /\ pc'[s] \in {"mkdir", "open", "write", "sync"} =>
                    pc[s] \in {"mkdir", "open", "write", "sync"}
              /\ pc'[s] \in {"sync", "rename"} => pc[s] \in {"sync", "rename"}
    PROVE  OwnFiles'
  BY DEF OwnFiles, Writing

\* Every step keeps every save in its own file.
LEMMA OwnFilesStep ==
    ASSUME FileInv, OwnFiles, [Next]_vars
    PROVE  OwnFiles'
<1> USE DEF saverVars, fileVars, loadVars, counters
<1>0. /\ pc \in [Savers -> {"idle", "mkdir", "open", "write", "sync", "rename", "remove", "renamed"}]
      /\ cursor \in [Savers -> File \cup {None}] /\ handle \in [Savers -> File \cup {NoFile}]
      /\ contents \in [File -> File \cup {Torn}] /\ saves \in Nat
  BY FileAssumption DEF FileInv, TypeOK
<1>1. ASSUME NEW s \in Savers, Save(s)
      PROVE  OwnFiles'
  <2>1. /\ pc' = [pc EXCEPT ![s] = "mkdir"] /\ cursor' = [cursor EXCEPT ![s] = saves + 1]
        /\ saves' = saves + 1 /\ UNCHANGED <<handle, contents, synced>>
    BY <1>1 DEF Save, Goto
  <2>2. /\ 1 .. saves \subseteq 1 .. saves' /\ saves + 1 \in 1 .. saves'
        /\ saves + 1 \notin 1 .. saves
    BY <1>0, <2>1
  <2>3. /\ cursor'[s] = saves + 1 /\ pc'[s] = "mkdir"
        /\ \A t \in Savers : t # s => cursor'[t] = cursor[t] /\ pc'[t] = pc[t]
    BY <1>0, <2>1
  <2> QED
    BY <2>1, <2>2, <2>3 DEF OwnFiles, Writing
<1>2. ASSUME NEW s \in Savers, CreateParent(s) \/ OpenFails(s) \/ SaveReturnsOk(s)
                               \/ StepFails(s) \/ Rename(s) \/ RemoveTemporary(s)
      PROVE  OwnFiles'
  <2>1. /\ pc[s] # "idle"
        /\ \/ pc' = [pc EXCEPT ![s] = "idle"]
           \/ pc' = [pc EXCEPT ![s] = "renamed"]
           \/ (pc[s] = "mkdir" /\ pc' = [pc EXCEPT ![s] = "open"])
           \/ (s \in Writing /\ pc' = [pc EXCEPT ![s] = "remove"])
        /\ UNCHANGED <<cursor, handle, contents, synced, saves>>
    BY <1>2 DEF CreateParent, OpenFails, SaveReturnsOk, StepFails, Rename, RemoveTemporary, Goto, Writing
  <2>2. \A t \in Savers : t # s => pc'[t] = pc[t]
    BY <1>0, <2>1
  <2>3. pc'[s] \in {"idle", "renamed"} \/ (pc[s] = "mkdir" /\ pc'[s] = "open")
        \/ (s \in Writing /\ pc'[s] = "remove")
    BY <1>0, <2>1
  <2>4. \A t \in Writing' : t \in Writing
    BY <2>2, <2>3 DEF Writing
  <2>5. \A t \in Writing' : handle'[t] = cursor'[t]
    BY <2>1, <2>4 DEF OwnFiles
  <2>6. \A t \in Savers :
           /\ pc'[t] # "idle" => pc[t] # "idle" /\ cursor'[t] = cursor[t]
           /\ pc'[t] \in {"mkdir", "open", "write", "sync"} =>
                 pc[t] \in {"mkdir", "open", "write", "sync"}
           /\ pc'[t] \in {"sync", "rename"} => pc[t] \in {"sync", "rename"}
    BY <2>1, <2>2, <2>3
  <2> QED
    <3>1. UNCHANGED <<contents, synced, saves>>
      BY <2>1
    <3> QED
      BY <2>5, <2>6, <3>1, OwnFilesKept
<1>3. ASSUME NEW s \in Savers, Open(s)
      PROVE  OwnFiles'
  <2>1. /\ pc[s] = "open" /\ UNCHANGED <<cursor, contents, synced, saves>>
        /\ \/ UNCHANGED <<pc, handle>>
           \/ pc' = [pc EXCEPT ![s] = "write"] /\ handle' = [handle EXCEPT ![s] = cursor[s]]
    BY <1>3 DEF Open, Goto
  <2>2. /\ \A t \in Savers : t # s => pc'[t] = pc[t] /\ handle'[t] = handle[t]
        /\ pc'[s] = "open" \/ (pc'[s] = "write" /\ handle'[s] = cursor[s])
    BY <1>0, <2>1
  <2>3. \A t \in Writing' : handle'[t] = cursor'[t]
    BY <2>1, <2>2 DEF OwnFiles, Writing
  <2>4. \A t \in Savers :
           /\ pc'[t] # "idle" => pc[t] # "idle" /\ cursor'[t] = cursor[t]
           /\ pc'[t] \in {"mkdir", "open", "write", "sync"} =>
                 pc[t] \in {"mkdir", "open", "write", "sync"}
           /\ pc'[t] \in {"sync", "rename"} => pc[t] \in {"sync", "rename"}
    BY <2>1, <2>2
  <2> QED
    <3>1. UNCHANGED <<contents, synced, saves>>
      BY <2>1
    <3> QED
      BY <2>3, <2>4, <3>1, OwnFilesKept
<1>4. ASSUME NEW s \in Savers, Write(s)
      PROVE  OwnFiles'
  <2>1. /\ pc[s] = "write" /\ pc' = [pc EXCEPT ![s] = "sync"] /\ handle[s] = cursor[s]
        /\ contents' = [contents EXCEPT ![cursor[s]] = cursor[s]] /\ cursor[s] \in File
        /\ UNCHANGED <<cursor, handle, synced, saves>>
    BY <1>4 DEF Write, Goto, OwnFiles, Writing, FileInv, Underway
  <2>2. \A t \in Savers : pc'[t] = IF t = s THEN "sync" ELSE pc[t]
    BY <1>0, <2>1
  <2>3. Writing' = Writing
    BY <2>1, <2>2 DEF Writing
  <2>4. \A t \in Savers : pc'[t] \in {"sync", "rename"} => contents'[cursor[t]] = cursor[t]
    <3>1. ASSUME NEW t \in Savers, t # s, pc'[t] \in {"sync", "rename"}
          PROVE  contents'[cursor[t]] = cursor[t]
      <4>1. cursor[t] # cursor[s] /\ contents[cursor[t]] = cursor[t]
        BY <2>1, <2>2, <3>1 DEF OwnFiles
      <4>2. cursor[t] \in File
        BY <2>2, <3>1 DEF FileInv, Underway
      <4> QED
        BY <1>0, <2>1, <4>1, <4>2
    <3>2. contents'[cursor[s]] = cursor[s]
      BY <1>0, <2>1
    <3> QED
      BY <3>1, <3>2
  <2> QED
    BY <2>1, <2>2, <2>3, <2>4 DEF OwnFiles
<1>5. ASSUME NEW s \in Savers, Sync(s)
      PROVE  OwnFiles'
  <2>1. /\ pc[s] = "sync" /\ pc' = [pc EXCEPT ![s] = "rename"] /\ handle[s] = cursor[s]
        /\ synced' = synced \cup {cursor[s]} /\ cursor[s] \in 1 .. saves
        /\ UNCHANGED <<cursor, handle, contents, saves>>
    BY <1>5 DEF Sync, Goto, OwnFiles, Writing
  <2>2. \A t \in Savers : pc'[t] = IF t = s THEN "rename" ELSE pc[t]
    BY <1>0, <2>1
  <2>3. Writing' = Writing
    BY <2>1, <2>2 DEF Writing
  <2>4. \A t \in Savers : pc'[t] \in {"mkdir", "open", "write", "sync"} => cursor[t] \notin synced'
    <3>1. ASSUME NEW t \in Savers, pc'[t] \in {"mkdir", "open", "write", "sync"}
          PROVE  cursor[t] \notin synced'
      <4>1. t # s /\ pc[t] \in {"mkdir", "open", "write", "sync"}
        BY <2>2, <3>1
      <4>2. cursor[t] \notin synced /\ cursor[t] # cursor[s]
        BY <2>1, <4>1 DEF OwnFiles
      <4> QED
        BY <2>1, <4>2
    <3> QED
      BY <3>1
  <2>5. \A t \in Savers : pc'[t] \in {"sync", "rename"} => contents[cursor[t]] = cursor[t]
    BY <2>1, <2>2 DEF OwnFiles
  <2>6. \A t \in Savers : pc'[t] # "idle" => pc[t] # "idle"
    BY <2>1, <2>2
  <2>7. synced' \subseteq 1 .. saves
    BY <2>1 DEF OwnFiles
  <2> QED
    BY <2>1, <2>3, <2>4, <2>5, <2>6, <2>7 DEF OwnFiles
<1>6. ASSUME NEW p \in Processes, Crash(p)
      PROVE  OwnFiles'
  <2>1. /\ \A s \in Savers : pc'[s] \in {"idle", pc[s]}
        /\ UNCHANGED <<cursor, handle, contents, synced, saves>>
    BY <1>6 DEF Crash
  <2>2. \A s \in Writing' : s \in Writing
    BY <2>1 DEF Writing
  <2>3. \A s \in Writing' : handle'[s] = cursor'[s]
    BY <2>1, <2>2 DEF OwnFiles
  <2>4. \A s \in Savers :
           /\ pc'[s] # "idle" => pc[s] # "idle" /\ cursor'[s] = cursor[s]
           /\ pc'[s] \in {"mkdir", "open", "write", "sync"} =>
                 pc[s] \in {"mkdir", "open", "write", "sync"}
           /\ pc'[s] \in {"sync", "rename"} => pc[s] \in {"sync", "rename"}
    BY <2>1
  <2> QED
    BY <2>1, <2>3, <2>4, OwnFilesKept
<1>7. CASE PowerCut
  <2>1. /\ \A s \in Savers : pc'[s] = "idle"
        /\ UNCHANGED <<synced, saves>>
    BY <1>7 DEF PowerCut
  <2>2. Writing' = {}
    BY <2>1 DEF Writing
  <2> QED
    BY <2>1, <2>2 DEF OwnFiles
<1>8. CASE (\E l \in Loaders : Load(l) \/ LoadReturns(l)) \/ FlushDirectory \/ UNCHANGED vars
  <2>1. UNCHANGED <<pc, cursor, handle, contents, synced, saves>>
    BY <1>8 DEF Load, LoadReturns, FlushDirectory, vars
  <2> QED
    BY <2>1 DEF OwnFiles, Writing
<1> QED
  BY <1>1, <1>2, <1>3, <1>4, <1>5, <1>6, <1>7, <1>8 DEF Next, SaveStep

-----------------------------------------------------------------------------
\* Steps that no user of the store can tell from none.
LEMMA StoreStutter ==
    ASSUME Stored' = Stored,
           \A s \in Savers : Saving(s)' = Saving(s) /\ cursor'[s] = cursor[s],
           cursor \in [Savers -> File \cup {None}], cursor' \in [Savers -> File \cup {None}],
           loading' = loading,
           \A l \in Loaders : Contents(loadHandle[l])' = Contents(loadHandle[l])
    PROVE  UNCHANGED Store!vars
<1>1. cursor' = cursor
  OBVIOUS
<1> QED
  BY <1>1 DEF Store!vars

\* What the store holds, and what a load has read, changes only with the names,
\* the handles and the contents of synced files.
LEMMA StoredKept ==
    ASSUME FileInv, UNCHANGED <<loadHandle>>,
           \A f \in synced : contents'[f] = contents[f]
    PROVE  /\ dir' = dir => Stored' = Stored
           /\ \A l \in Loaders : Contents(loadHandle[l])' = Contents(loadHandle[l])
<1>1. /\ Path \in DOMAIN dir => dir[Path] \in synced
      /\ \A l \in Loaders : loadHandle[l] # NoFile => loadHandle[l] \in synced
  BY DEF FileInv, Whole
<1>2. dir' = dir => Stored' = Stored
  BY <1>1 DEF Stored
<1>3. \A l \in Loaders : Contents(loadHandle[l])' = Contents(loadHandle[l])
  BY <1>1 DEF Contents
<1> QED
  BY <1>2, <1>3

\* A save that ends without having taken effect, or has taken effect already.
LEMMA SavesEnd ==
    ASSUME NEW S \in SUBSET Savers,
           \A s \in S : Saving(s) # "no" /\ Saving(s)' = "no",
           \A s \in Savers \ S : Saving(s)' = Saving(s),
           Stored' = Stored, cursor' = cursor, loading' = loading,
           \A l \in Loaders : Contents(loadHandle[l])' = Contents(loadHandle[l])
    PROVE  Store!Next
<1> DEFINE asking == [s \in Savers |-> Saving(s)]
<1>1. [s \in Savers |-> Saving(s)'] = [s \in Savers |-> IF s \in S THEN "no" ELSE asking[s]]
  OBVIOUS
<1>2. \A s \in S : asking[s] # "no"
  OBVIOUS
<1>3. {} \in {{} \cup {cursor[s] : s \in L} : L \in SUBSET {s \in S : asking[s] = "asked"}}
  <2>1. {} = {} \cup {cursor[s] : s \in {}}
    OBVIOUS
  <2>2. {} \in SUBSET {s \in S : asking[s] = "asked"}
    OBVIOUS
  <2> QED
    BY <2>1, <2>2
<1>4. [l \in Loaders |-> Contents(loadHandle[l])'] = [l \in Loaders |-> Contents(loadHandle[l])]
  OBVIOUS
<1>5. Store!SavesFail(S)
  BY <1>1, <1>2, <1>3, <1>4 DEF Store!SavesFail, Store!loaders
<1> QED
  BY <1>5 DEF Store!Next

\* Init and every step, up to the first power cut, are steps of an atomic
\* register or none: a save takes effect when its file is renamed.
THEOREM FileRefinement == Spec => ImplementsCheckpointStore
<1>1. Init => Store!Init /\ OwnFiles
  <2> SUFFICES ASSUME Init PROVE Store!Init /\ OwnFiles
    OBVIOUS
  <2>1. Stored = None /\ \A s \in Savers : Saving(s) = "no"
    BY DEF Init, Stored, Saving
  <2>2. \A l \in Loaders : Contents(loadHandle[l]) = None
    BY DEF Init, Contents
  <2>3. Store!Init
    BY <2>1, <2>2 DEF Init, Store!Init
  <2>4. OwnFiles
    BY DEF Init, OwnFiles, Writing
  <2> QED
    BY <2>3, <2>4
<1>2. ASSUME FileInv, FileInv', OwnFiles, [Next]_vars, powerCuts' = 0
      PROVE  Store!Next \/ UNCHANGED Store!vars
  <2> USE <1>2 DEF saverVars, fileVars, loadVars, counters
  <2>0. /\ pc \in [Savers -> {"idle", "mkdir", "open", "write", "sync", "rename", "remove", "renamed"}]
        /\ cursor \in [Savers -> File \cup {None}] /\ cursor' \in [Savers -> File \cup {None}]
        /\ loading \in [Loaders -> {"no", "read"}] /\ loadHandle \in [Loaders -> File \cup {NoFile}]
        /\ contents \in [File -> File \cup {Torn}] /\ powerCuts \in Nat
    BY FileAssumption DEF FileInv, TypeOK
  <2>1. ASSUME NEW s \in Savers, Save(s)
        PROVE  Store!Next
    <3>1. /\ pc[s] = "idle" /\ pc' = [pc EXCEPT ![s] = "mkdir"]
          /\ cursor' = [cursor EXCEPT ![s] = saves + 1] /\ saves' = saves + 1
          /\ UNCHANGED <<dir, contents, synced, loading, loadHandle>>
      BY <2>1 DEF Save, Goto
    <3>2. \A t \in Savers : t # s => Saving(t)' = Saving(t)
      BY <2>0, <3>1 DEF Saving
    <3>3. Saving(s) = "no" /\ Saving(s)' = "asked"
      BY <2>0, <3>1 DEF Saving
    <3>4. Stored' = Stored /\ \A l \in Loaders : Contents(loadHandle[l])' = Contents(loadHandle[l])
      BY <3>1, StoredKept
    <3>5. PICK n \in File : n = saves + 1
      BY <2>1, FileAssumption DEF Save, File, FileInv, TypeOK
    <3>6. Store!Save(s, n)
      <4>1. [t \in Savers |-> Saving(t)'] = [[t \in Savers |-> Saving(t)] EXCEPT ![s] = "asked"]
        BY <3>2, <3>3
      <4>2. [l \in Loaders |-> Contents(loadHandle[l])'] = [l \in Loaders |-> Contents(loadHandle[l])]
        BY <3>4
      <4>3. cursor' = [cursor EXCEPT ![s] = n]
        BY <3>1, <3>5
      <4> QED
        BY <3>1, <3>3, <3>4, <4>1, <4>2, <4>3 DEF Store!Save, Store!loaders
    <3> QED
      BY <3>6 DEF Store!Next
  <2>2. ASSUME NEW s \in Savers,
               CreateParent(s) \/ OpenFails(s) \/ RemoveTemporary(s),
               pc'[s] = "idle"
        PROVE  Store!Next
    <3>1. /\ pc[s] \in {"mkdir", "open", "remove"}
          /\ \A t \in Savers : t # s => pc'[t] = pc[t]
          /\ UNCHANGED <<cursor, contents, synced, loading, loadHandle>>
      BY <2>0, <2>2 DEF CreateParent, OpenFails, RemoveTemporary, Goto
    <3>2. /\ Path \in DOMAIN dir' <=> Path \in DOMAIN dir
          /\ Path \in DOMAIN dir => dir'[Path] = dir[Path]
      <4>1. CASE CreateParent(s) \/ OpenFails(s)
        BY <4>1 DEF CreateParent, OpenFails
      <4>2. CASE RemoveTemporary(s)
        <5>1. temporary[s] # Path
          BY <4>2 DEF RemoveTemporary, FileInv, Underway, Writing
        <5> QED
          BY <4>2, <5>1 DEF RemoveTemporary, Restrict
      <4> QED
        BY <2>2, <4>1, <4>2
    <3>3. Stored' = Stored
      BY <3>1, <3>2 DEF Stored
    <3>4. \A l \in Loaders : Contents(loadHandle[l])' = Contents(loadHandle[l])
      BY <3>1, StoredKept
    <3>5. \A t \in Savers \ {s} : Saving(t)' = Saving(t)
      BY <3>1 DEF Saving
    <3>6. \A t \in {s} : Saving(t) # "no" /\ Saving(t)' = "no"
      BY <2>2, <3>1 DEF Saving
    <3> QED
      BY <3>1, <3>3, <3>4, <3>5, <3>6, SavesEnd
  <2>3. ASSUME NEW s \in Savers,
               \/ CreateParent(s) /\ pc'[s] # "idle"
               \/ Open(s)
               \/ Write(s)
               \/ Sync(s)
               \/ StepFails(s)
        PROVE  UNCHANGED Store!vars
    <3>1. /\ pc[s] \in {"mkdir", "open", "write", "sync", "rename"}
          /\ pc'[s] \notin {"idle", "renamed"}
          /\ \A t \in Savers : t # s => pc'[t] = pc[t]
      BY <2>0, <2>3 DEF CreateParent, Open, Write, Sync, StepFails, Goto
    <3>2. UNCHANGED <<cursor, loading, loadHandle>>
      BY <2>3 DEF CreateParent, Open, Write, Sync, StepFails
    <3>3. \A f \in synced : contents'[f] = contents[f]
      <4>1. CASE Write(s)
        <5>1. handle[s] \notin synced /\ contents' = [contents EXCEPT ![handle[s]] = cursor[s]]
          BY <4>1 DEF Write, OwnFiles, Writing
        <5>2. synced \subseteq File
          BY DEF FileInv, TypeOK
        <5> QED
          BY <2>0, <5>1, <5>2
      <4>2. CASE CreateParent(s) \/ Open(s) \/ Sync(s) \/ StepFails(s)
        BY <4>2 DEF CreateParent, Open, Sync, StepFails
      <4> QED
        BY <2>3, <4>1, <4>2
    <3>4. Stored' = Stored
      <4>1. CASE Open(s)
        <5>1. TemporaryPath(ProcessOf[s]) # Path
          BY TemporaryPathType
        <5>2. /\ Path \in DOMAIN dir' <=> Path \in DOMAIN dir
              /\ Path \in DOMAIN dir => dir'[Path] = dir[Path]
              /\ contents' = contents
          BY <4>1, <5>1 DEF Open
        <5> QED
          BY <5>2 DEF Stored
      <4>2. CASE dir' = dir
        BY <3>2, <3>3, <4>2, StoredKept
      <4>3. Open(s) \/ dir' = dir
        BY <2>3 DEF CreateParent, Write, Sync, StepFails
      <4> QED
        BY <4>1, <4>2, <4>3
    <3>5. \A l \in Loaders : Contents(loadHandle[l])' = Contents(loadHandle[l])
      BY <3>2, <3>3, StoredKept
    <3>6. \A t \in Savers : Saving(t)' = Saving(t) /\ cursor'[t] = cursor[t]
      BY <3>1, <3>2 DEF Saving
    <3> QED
      BY <2>0, <3>2, <3>4, <3>5, <3>6, StoreStutter
  <2>4. ASSUME NEW s \in Savers, Rename(s)
        PROVE  Store!Next
    <3>1. /\ pc[s] = "rename" /\ pc' = [pc EXCEPT ![s] = "renamed"]
          /\ dir' = [n \in (DOMAIN dir \ {temporary[s]}) \cup {Path} |->
                       IF n = Path THEN dir[temporary[s]] ELSE dir[n]]
          /\ UNCHANGED <<cursor, contents, synced, loading, loadHandle>>
      BY <2>4 DEF Rename, Goto
    <3>2. dir[temporary[s]] = cursor[s] /\ contents[cursor[s]] = cursor[s]
      BY <3>1 DEF FileInv, NothingLeftBehind, OwnFiles, Writing
    <3>3. Stored' = cursor[s]
      BY <3>1, <3>2 DEF Stored
    <3>4. [l \in Loaders |-> Contents(loadHandle[l])'] = [l \in Loaders |-> Contents(loadHandle[l])]
      BY <3>1, StoredKept
    <3>5. [t \in Savers |-> Saving(t)'] = [[t \in Savers |-> Saving(t)] EXCEPT ![s] = "applied"]
      <4>1. \A t \in Savers : Saving(t)' = IF t = s THEN "applied" ELSE Saving(t)
        BY <2>0, <3>1 DEF Saving
      <4> QED
        BY <4>1
    <3>6. Saving(s) = "asked"
      BY <3>1 DEF Saving
    <3>7. Store!Apply(s)
      BY <3>1, <3>3, <3>4, <3>5, <3>6 DEF Store!Apply, Store!loaders
    <3> QED
      BY <3>7 DEF Store!Next
  <2>5. ASSUME NEW s \in Savers, SaveReturnsOk(s)
        PROVE  Store!Next
    <3>1. /\ pc[s] = "renamed" /\ pc' = [pc EXCEPT ![s] = "idle"]
          /\ UNCHANGED <<cursor, dir, contents, synced, loading, loadHandle>>
      BY <2>5 DEF SaveReturnsOk, Goto
    <3>2. Stored' = Stored
      BY <3>1, StoredKept
    <3>3. [l \in Loaders |-> Contents(loadHandle[l])'] = [l \in Loaders |-> Contents(loadHandle[l])]
      BY <3>1, StoredKept
    <3>4. [t \in Savers |-> Saving(t)'] = [[t \in Savers |-> Saving(t)] EXCEPT ![s] = "no"]
      <4>1. \A t \in Savers : Saving(t)' = IF t = s THEN "no" ELSE Saving(t)
        BY <2>0, <3>1 DEF Saving
      <4> QED
        BY <4>1
    <3>5. Saving(s) = "applied"
      BY <3>1 DEF Saving
    <3>6. Store!SaveOk(s)
      BY <3>1, <3>2, <3>3, <3>4, <3>5 DEF Store!SaveOk, Store!loaders
    <3> QED
      BY <3>6 DEF Store!Next
  <2>6. ASSUME NEW l \in Loaders, Load(l)
        PROVE  Store!Next
    <3>1. /\ loading[l] = "no" /\ loading' = [loading EXCEPT ![l] = "read"]
          /\ loadHandle' = [loadHandle EXCEPT ![l] = IF Path \in DOMAIN dir THEN dir[Path] ELSE NoFile]
          /\ UNCHANGED <<pc, cursor, dir, contents>>
      BY <2>6 DEF Load
    <3>2. Contents(loadHandle[l])' = Stored
      <4>1. Path \in DOMAIN dir => dir[Path] \in File
        BY DEF FileInv, Whole, TypeOK
      <4> QED
        BY <2>0, <3>1, <4>1 DEF Contents, Stored, File, NoFile
    <3>3. \A m \in Loaders : m # l => Contents(loadHandle[m])' = Contents(loadHandle[m])
      BY <2>0, <3>1 DEF Contents
    <3>4. [m \in Loaders |-> Contents(loadHandle[m])']
            = [[m \in Loaders |-> Contents(loadHandle[m])] EXCEPT ![l] = Stored]
      BY <3>2, <3>3
    <3>5. Stored' = Stored /\ \A s \in Savers : Saving(s)' = Saving(s)
      BY <3>1 DEF Stored, Saving
    <3>6. Store!Read(l)
      BY <3>1, <3>4, <3>5 DEF Store!Read, Store!savers
    <3> QED
      BY <3>6 DEF Store!Next
  <2>7. ASSUME NEW l \in Loaders, LoadReturns(l)
        PROVE  Store!Next
    <3>1. /\ loading[l] = "read" /\ loading' = [loading EXCEPT ![l] = "no"]
          /\ UNCHANGED <<pc, cursor, dir, contents, synced, loadHandle>>
      BY <2>7 DEF LoadReturns
    <3>2. Stored' = Stored /\ \A s \in Savers : Saving(s)' = Saving(s)
      BY <3>1 DEF Stored, Saving
    <3>3. \A m \in Loaders : Contents(loadHandle[m])' = Contents(loadHandle[m])
      BY <3>1, StoredKept
    <3>4. Store!LoadReturns(l)
      BY <3>1, <3>2, <3>3 DEF Store!LoadReturns, Store!savers
    <3> QED
      BY <3>4 DEF Store!Next
  <2>8. ASSUME NEW p \in Processes, Crash(p)
        PROVE  Store!Next
    <3> DEFINE dead == {s \in Savers : ProcessOf[s] = p /\ pc[s] # "idle"}
    <3>1. /\ \A s \in Savers : pc'[s] = IF ProcessOf[s] = p THEN "idle" ELSE pc[s]
          /\ UNCHANGED <<cursor, dir, contents, synced, loading, loadHandle>>
      BY <2>8 DEF Crash
    <3>2. \A s \in dead : Saving(s) # "no" /\ Saving(s)' = "no"
      BY <3>1 DEF Saving
    <3>3. \A s \in Savers \ dead : Saving(s)' = Saving(s)
      BY <3>1 DEF Saving
    <3>4. Stored' = Stored /\ \A l \in Loaders : Contents(loadHandle[l])' = Contents(loadHandle[l])
      BY <3>1, StoredKept
    <3> HIDE DEF dead
    <3>5. dead \in SUBSET Savers
      BY DEF dead
    <3> QED
      BY <3>1, <3>2, <3>3, <3>4, <3>5, SavesEnd
  <2>9. CASE FlushDirectory \/ UNCHANGED vars
    <3>1. UNCHANGED <<pc, cursor, dir, contents, synced, loading, loadHandle>>
      BY <2>9 DEF FlushDirectory, vars
    <3>2. \A s \in Savers : Saving(s)' = Saving(s) /\ cursor'[s] = cursor[s]
      BY <3>1 DEF Saving
    <3> QED
      BY <2>0, <3>1, <3>2, StoredKept, StoreStutter
  <2>10. ~ PowerCut
    BY <2>0 DEF PowerCut
  <2>11. ASSUME NEW s \in Savers, OpenFails(s) \/ RemoveTemporary(s)
         PROVE  pc'[s] = "idle"
    BY <2>0, <2>11 DEF OpenFails, RemoveTemporary, Goto
  <2> QED
    BY <2>1, <2>2, <2>3, <2>4, <2>5, <2>6, <2>7, <2>8, <2>9, <2>10, <2>11 DEF Next, SaveStep
<1>3. Spec => []OwnFiles
  BY <1>1, FileInvariant, OwnFilesStep, PTL DEF Spec
<1>4. FileInv /\ FileInv' /\ OwnFiles /\ [Next]_vars =>
        (powerCuts' = 0 => Store!Next \/ UNCHANGED Store!vars)
  BY <1>2
<1> QED
  BY <1>1, <1>3, <1>4, FileInvariant, PTL DEF Spec, ImplementsCheckpointStore
===============================================================================
