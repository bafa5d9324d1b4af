------------------------ MODULE RuntimeInstallProofs ------------------------
(***************************************************************************)
(* What the installers keep: RuntimeInstall with the file lock             *)
(* (RuntimeInstaller) and without it (RuntimeBundle), for any numbers of   *)
(* processes, files, versions and faults, and PluginStore, for any APKs,   *)
(* I/O errors and crashes.                                                 *)
(***************************************************************************)
EXTENDS RuntimeInstall, TLAPS

WholeVersion(d) == \E v \in Versions : d = Complete(v)

\* The lock: at most one process is at work, and none while one is done.
Exclusive ==
    /\ \A p, q \in Procs : pc[p] \notin Ended /\ pc[q] \notin Ended => p = q
    /\ \A p, q \in Procs : pc[p] = "done" => pc[q] \in Ended

\* The staged files are those the process at work has copied, and are complete
\* when it publishes them.
Staged ==
    \A p \in Procs :
        /\ pc[p] = "copy" => dir["staging"] = copied[p] \X {version}
        /\ pc[p] \in {"drop", "move_old", "move_new"} => dir["staging"] = Complete(version)
        /\ pc[p] # "verify"

\* The old version is whole while it may have to be restored.
Old ==
    \A p \in Procs :
        /\ pc[p] \in {"move_new", "restore"} /\ moved[p] => WholeVersion(dir["backup"])
        /\ pc[p] = "drop_old" => dir["target"] = Complete(version)

\* What CheckInstalled reset is as it left it.
Fresh ==
    \A p \in Procs :
        /\ pc[p] = "clear" => copied[p] = {}
        /\ pc[p] = "copy" => dir["staging"] # Absent
        /\ pc[p] \in {"clear", "copy", "drop", "move_old"} => ~moved[p]

IInv == Fresh /\ TypeOK /\ PublishedComplete /\ StaysInstalled /\ Exclusive /\ Staged /\ Old
-----------------------------------------------------------------------------
\* No directory is Absent.
LEMMA FilesNotAbsent ==
    /\ \A files \in SUBSET Entries : files # Absent
    /\ \A v \in Versions : Complete(v) # Absent
BY RuntimeInstallAssumption, Zenon DEF Entries, Complete

LEMMA InitIInv == Init => IInv
BY RuntimeInstallAssumption
   DEF Init, IInv, TypeOK, PublishedComplete, StaysInstalled, Exclusive, Staged, Old, Fresh, Dirs, PCs, Ended

\* The check.
LEMMA CheckInstalledIInv ==
    ASSUME FileLocked, IInv, NEW p \in Procs, CheckInstalled(p)
    PROVE  IInv'
<1>. USE RuntimeInstallAssumption DEF IInv, CheckInstalled, Installed, Go
<1>1. TypeOK'
  BY Zenon DEF TypeOK, Dirs, Entries, PCs, Ended
<1>2. Exclusive'
  <2>1. \A q \in Procs : pc[q] \in Ended
    BY Zenon DEF TypeOK
  <2>2. ASSUME NEW q \in Procs, pc[q] = "done"
        PROVE  Installed
    <3>1. dir["target"] = Complete(version) /\ dir["target"] # Absent /\ version \in Versions
      BY <2>2, FilesNotAbsent, Zenon DEF StaysInstalled, TypeOK
    <3>2. \A f \in Files \cup {Marker} : <<f, version>> \in dir["target"]
      BY <3>1, Zenon DEF Complete
    <3>. QED  BY <3>1, <3>2, Zenon DEF Has
  <2>. HIDE DEF Installed
  <2>. QED  BY <2>1, <2>2, Zenon DEF TypeOK, Exclusive, Ended
<1>3. PublishedComplete'
  BY Zenon DEF PublishedComplete, TypeOK, Dirs, Staged, Old, WholeVersion
<1>4. StaysInstalled'
  BY Zenon DEF StaysInstalled, PublishedComplete, Exclusive, Complete, TypeOK, Dirs, Old, Ended
<1>5. Staged'
  BY Zenon DEF Staged, Exclusive, Complete, TypeOK, Dirs, Ended
<1>6. Old'
  BY Zenon DEF Old, Exclusive, PublishedComplete, WholeVersion, TypeOK, Dirs, Ended, Staged
<1>7. Fresh'
  BY Zenon DEF Fresh, Exclusive, TypeOK, Dirs, Ended
<1>. QED  BY <1>1, <1>2, <1>3, <1>4, <1>5, <1>6, <1>7, Zenon

\* A step of a deletion.
LEMMA DeleteFileIInv ==
    ASSUME FileLocked, IInv, NEW p \in Procs, DeleteFile(p)
    PROVE  IInv'
<1>. USE RuntimeInstallAssumption DEF IInv, DeleteFile, Gone, Deletes
<1>1. TypeOK'
  BY DEF TypeOK, Dirs, Entries, PCs, Ended
<1>2. Exclusive'
  BY Zenon DEF TypeOK, Exclusive, Ended, PCs, StaysInstalled, PublishedComplete, Complete
<1>3. PublishedComplete'
  BY DEF PublishedComplete, TypeOK, Dirs, Staged, Old, WholeVersion
<1>4. StaysInstalled'
  BY Zenon DEF StaysInstalled, PublishedComplete, Exclusive, Complete, TypeOK, Dirs, Old, Ended
<1>5. Staged'
  BY DEF Staged, Exclusive, Complete, TypeOK, Dirs, Ended
<1>6. Old'
  BY DEF Old, Exclusive, PublishedComplete, WholeVersion, TypeOK, Dirs, Ended, Staged
<1>7. Fresh'
  BY Zenon DEF Fresh, Exclusive, TypeOK, Dirs, Ended
<1>. QED  BY <1>1, <1>2, <1>3, <1>4, <1>5, <1>6, <1>7, Zenon

\* The empty staging directory.
LEMMA MakeStagingIInv ==
    ASSUME FileLocked, IInv, NEW p \in Procs, MakeStaging(p)
    PROVE  IInv'
<1>. USE RuntimeInstallAssumption DEF IInv, MakeStaging, Gone, Go
<1>1. TypeOK'
  BY Zenon DEF TypeOK, Dirs, Entries, PCs, Ended
<1>2. Exclusive'
  BY DEF TypeOK, Exclusive, Ended, PCs, StaysInstalled, PublishedComplete, Complete
<1>3. PublishedComplete'
  BY Zenon DEF PublishedComplete, TypeOK, Dirs, Staged, Old, WholeVersion
<1>4. StaysInstalled'
  BY Zenon DEF StaysInstalled, PublishedComplete, Exclusive, Complete, TypeOK, Dirs, Old, Ended
<1>5. Staged'
  <2>1. \A q \in Procs \ {p} : pc'[q] \in Ended
    BY Zenon DEF Exclusive, TypeOK, Ended
  <2>2. copied'[p] = {} /\ dir'["staging"] = {} /\ {} \X {version'} = {}
    BY Zenon DEF Fresh, TypeOK, Dirs
  <2>3. pc'[p] = "copy"
    BY Zenon DEF TypeOK
  <2>. QED  BY <2>1, <2>2, <2>3, Zenon DEF Staged, Ended
<1>6. Old'
  BY Zenon DEF Old, Exclusive, PublishedComplete, WholeVersion, TypeOK, Dirs, Ended, Staged
<1>7. Fresh'
  <2>1. dir'["staging"] # Absent
    BY FilesNotAbsent, Zenon DEF TypeOK, Dirs
  <2>. QED  BY <2>1 DEF Fresh, Exclusive, TypeOK, Ended
<1>. QED  BY <1>1, <1>2, <1>3, <1>4, <1>5, <1>6, <1>7, Zenon

\* A file is staged.
LEMMA CopyFileIInv ==
    ASSUME FileLocked, IInv, NEW p \in Procs, CopyFile(p)
    PROVE  IInv'
<1>. USE RuntimeInstallAssumption DEF IInv, CopyFile, Write
<1>1. TypeOK'
  BY DEF TypeOK, Dirs, Entries, PCs, Ended
<1>2. Exclusive'
  BY Zenon DEF TypeOK, Exclusive, Ended, PCs, StaysInstalled, PublishedComplete, Complete
<1>3. PublishedComplete'
  BY Zenon DEF PublishedComplete, TypeOK, Dirs, Staged, Old, WholeVersion
<1>4. StaysInstalled'
  BY Zenon DEF StaysInstalled, PublishedComplete, Exclusive, Complete, TypeOK, Dirs, Old, Ended
<1>5. Staged'
  <2>1. \A q \in Procs \ {p} : pc'[q] \in Ended
    BY Zenon DEF Exclusive, TypeOK, Ended
  <2>2. pc'[p] = "copy" /\ version' = version
    BY Zenon DEF TypeOK
  <2>3. PICK f \in Files : Write(p, f) /\ copied' = [copied EXCEPT ![p] = @ \cup {f}]
    OBVIOUS
  <2>4. dir["staging"] = copied[p] \X {version} /\ dir["staging"] # Absent
    BY Zenon DEF Staged, Fresh
  <2>5. dir'["staging"] = (copied[p] \cup {f}) \X {version}
    <3>1. dir'["staging"] = dir["staging"] \cup {<<f, version>>}
      BY <2>3, <2>4, Zenon DEF TypeOK, Dirs
    <3>. QED  BY <2>4, <3>1
  <2>. QED  BY <2>1, <2>2, <2>3, <2>5, Zenon DEF Staged, Ended, TypeOK
<1>6. Old'
  BY Zenon DEF Old, Exclusive, PublishedComplete, WholeVersion, TypeOK, Dirs, Ended, Staged
<1>7. Fresh'
  <2>1. dir'["staging"] \in SUBSET Entries
    BY DEF TypeOK, Dirs, Entries
  <2>2. dir'["staging"] # Absent
    BY <2>1, FilesNotAbsent, Zenon
  <2>. QED  BY <2>2, Zenon DEF Fresh, TypeOK
<1>. QED  BY <1>1, <1>2, <1>3, <1>4, <1>5, <1>6, <1>7, Zenon

\* The marker completes the staged version.
LEMMA WriteMarkerIInv ==
    ASSUME FileLocked, IInv, NEW p \in Procs, WriteMarker(p)
    PROVE  IInv'
<1>. USE RuntimeInstallAssumption DEF IInv, WriteMarker, Write, Go
<1>1. TypeOK'
  BY DEF TypeOK, Dirs, Entries, PCs, Ended
<1>2. Exclusive'
  BY DEF TypeOK, Exclusive, Ended, PCs, StaysInstalled, PublishedComplete, Complete
<1>3. PublishedComplete'
  BY Zenon DEF PublishedComplete, TypeOK, Dirs, Staged, Old, WholeVersion
<1>4. StaysInstalled'
  BY Zenon DEF StaysInstalled, PublishedComplete, Exclusive, Complete, TypeOK, Dirs, Old, Ended
<1>5. Staged'
  <2>1. \A q \in Procs \ {p} : pc'[q] \in Ended
    BY Zenon DEF Exclusive, TypeOK, Ended
  <2>2. pc'[p] = "drop" /\ version' = version
    BY Zenon DEF TypeOK
  <2>3. dir["staging"] = Files \X {version} /\ dir["staging"] # Absent
    BY Zenon DEF Staged, Fresh
  <2>4. dir'["staging"] = Complete(version)
    <3>1. dir'["staging"] = dir["staging"] \cup {<<Marker, version>>}
      BY <2>3, Zenon DEF TypeOK, Dirs
    <3>. QED  BY <2>3, <3>1 DEF Complete
  <2>. QED  BY <2>1, <2>2, <2>4, Zenon DEF Staged, Ended
<1>6. Old'
  BY Zenon DEF Old, Exclusive, PublishedComplete, WholeVersion, TypeOK, Dirs, Ended, Staged
<1>7. Fresh'
  BY Zenon DEF Fresh, Exclusive, TypeOK, Dirs, Ended
<1>. QED  BY <1>1, <1>2, <1>3, <1>4, <1>5, <1>6, <1>7, Zenon

\* The old backup is gone.
LEMMA DropBackupIInv ==
    ASSUME FileLocked, IInv, NEW p \in Procs, DropBackup(p)
    PROVE  IInv'
<1>. USE RuntimeInstallAssumption DEF IInv, DropBackup, Gone, Go
<1>1. TypeOK'
  BY Zenon DEF TypeOK, Dirs, Entries, PCs, Ended
<1>2. Exclusive'
  BY DEF TypeOK, Exclusive, Ended, PCs, StaysInstalled, PublishedComplete, Complete
<1>3. PublishedComplete'
  BY Zenon DEF PublishedComplete, TypeOK, Dirs, Staged, Old, WholeVersion
<1>4. StaysInstalled'
  BY Zenon DEF StaysInstalled, PublishedComplete, Exclusive, Complete, TypeOK, Dirs, Old, Ended
<1>5. Staged'
  BY Zenon DEF Staged, Exclusive, Complete, TypeOK, Dirs, Ended
<1>6. Old'
  BY Zenon DEF Old, Exclusive, PublishedComplete, WholeVersion, TypeOK, Dirs, Ended, Staged
<1>7. Fresh'
  BY DEF Fresh, Exclusive, TypeOK, Dirs, Ended
<1>. QED  BY <1>1, <1>2, <1>3, <1>4, <1>5, <1>6, <1>7, Zenon

\* The installed version becomes the backup.
LEMMA MoveOldIInv ==
    ASSUME FileLocked, IInv, NEW p \in Procs, MoveOld(p)
    PROVE  IInv'
<1>. USE RuntimeInstallAssumption DEF IInv, MoveOld, CanMove, Move, Gone, Go
<1>1. TypeOK'
  BY ZenonT(40) DEF TypeOK, Dirs, Entries, PCs, Ended
<1>2. Exclusive'
  BY DEF TypeOK, Exclusive, Ended, PCs, StaysInstalled, PublishedComplete, Complete
<1>3. PublishedComplete'
  BY Zenon DEF PublishedComplete, TypeOK, Dirs, Staged, Old, WholeVersion
<1>4. StaysInstalled'
  BY DEF StaysInstalled, PublishedComplete, Exclusive, Complete, TypeOK, Dirs, Old, Ended
<1>5. Staged'
  BY DEF Staged, Exclusive, Complete, TypeOK, Dirs, Ended
<1>6. Old'
  <2>1. \A q \in Procs \ {p} : pc'[q] \in Ended
    BY Zenon DEF Exclusive, TypeOK, Ended
  <2>2. pc'[p] \in {"move_new", "discard"}
    BY Zenon DEF TypeOK
  <2>3. pc'[p] = "move_new" /\ moved'[p] => WholeVersion(dir'["backup"])
    BY Zenon DEF Fresh, TypeOK, Dirs, PublishedComplete, WholeVersion
  <2>. QED  BY <2>1, <2>2, <2>3, Zenon DEF Old, Ended, TypeOK
<1>7. Fresh'
  BY DEF Fresh, Exclusive, TypeOK, Dirs, Ended
<1>. QED  BY <1>1, <1>2, <1>3, <1>4, <1>5, <1>6, <1>7, Zenon

\* The staged version is published.
LEMMA MoveNewIInv ==
    ASSUME FileLocked, IInv, NEW p \in Procs, MoveNew(p)
    PROVE  IInv'
<1>. USE RuntimeInstallAssumption DEF IInv, MoveNew, CanMove, Move, Gone, Go
<1>1. TypeOK'
  BY DEF TypeOK, Dirs, Entries, PCs, Ended
<1>2. Exclusive'
  BY DEF TypeOK, Exclusive, Ended, PCs, StaysInstalled, PublishedComplete, Complete
<1>3. PublishedComplete'
  BY Zenon DEF PublishedComplete, TypeOK, Dirs, Staged, Old, WholeVersion
<1>4. StaysInstalled'
  BY Zenon DEF StaysInstalled, PublishedComplete, Exclusive, Complete, TypeOK, Dirs, Old, Ended
<1>5. Staged'
  BY DEF Staged, Exclusive, Complete, TypeOK, Dirs, Ended
<1>6. Old'
  BY DEF Old, Exclusive, PublishedComplete, WholeVersion, TypeOK, Dirs, Ended, Staged
<1>7. Fresh'
  BY DEF Fresh, Exclusive, TypeOK, Dirs, Ended
<1>. QED  BY <1>1, <1>2, <1>3, <1>4, <1>5, <1>6, <1>7, Zenon

\* The old version is put back.
LEMMA RestoreOldIInv ==
    ASSUME FileLocked, IInv, NEW p \in Procs, RestoreOld(p)
    PROVE  IInv'
<1>. USE RuntimeInstallAssumption DEF IInv, RestoreOld, Move, Go
<1>1. TypeOK'
  BY DEF TypeOK, Dirs, Entries, PCs, Ended
<1>2. Exclusive'
  BY DEF TypeOK, Exclusive, Ended, PCs, StaysInstalled, PublishedComplete, Complete
<1>3. PublishedComplete'
  BY Zenon DEF PublishedComplete, TypeOK, Dirs, Staged, Old, WholeVersion
<1>4. StaysInstalled'
  BY Zenon DEF StaysInstalled, PublishedComplete, Exclusive, Complete, TypeOK, Dirs, Old, Ended
<1>5. Staged'
  BY Zenon DEF Staged, Exclusive, Complete, TypeOK, Dirs, Ended
<1>6. Old'
  BY Zenon DEF Old, Exclusive, PublishedComplete, WholeVersion, TypeOK, Dirs, Ended, Staged
<1>7. Fresh'
  BY Zenon DEF Fresh, Exclusive, TypeOK, Dirs, Ended
<1>. QED  BY <1>1, <1>2, <1>3, <1>4, <1>5, <1>6, <1>7, Zenon

\* The last deletion.
LEMMA FinishIInv ==
    ASSUME FileLocked, IInv, NEW p \in Procs, Finish(p)
    PROVE  IInv'
<1>. USE RuntimeInstallAssumption DEF IInv, Finish, Leave, Go, Gone, Deletes
<1>1. TypeOK'
  BY Zenon DEF TypeOK, Dirs, Entries, PCs, Ended
<1>2. Exclusive'
  BY DEF TypeOK, Exclusive, Ended, PCs, StaysInstalled, PublishedComplete, Complete
<1>3. PublishedComplete'
  BY Zenon DEF PublishedComplete, TypeOK, Dirs, Staged, Old, WholeVersion
<1>4. StaysInstalled'
  BY DEF StaysInstalled, PublishedComplete, Exclusive, Complete, TypeOK, Dirs, Old, Ended
<1>5. Staged'
  BY DEF Staged, Exclusive, Complete, TypeOK, Dirs, Ended
<1>6. Old'
  BY DEF Old, Exclusive, PublishedComplete, WholeVersion, TypeOK, Dirs, Ended, Staged
<1>7. Fresh'
  BY Zenon DEF Fresh, Exclusive, TypeOK, Dirs, Ended
<1>. QED  BY <1>1, <1>2, <1>3, <1>4, <1>5, <1>6, <1>7, Zenon

\* An I/O error.
LEMMA FailIInv ==
    ASSUME FileLocked, IInv, NEW p \in Procs, Fail(p)
    PROVE  IInv'
<1>. USE RuntimeInstallAssumption DEF IInv, Fail, Leave, Go
<1>1. TypeOK'
  BY DEF TypeOK, Dirs, Entries, PCs, Ended
<1>2. Exclusive'
  BY DEF TypeOK, Exclusive, Ended, PCs, StaysInstalled, PublishedComplete, Complete
<1>3. PublishedComplete'
  BY Zenon DEF PublishedComplete, TypeOK, Dirs, Staged, Old, WholeVersion
<1>4. StaysInstalled'
  BY DEF StaysInstalled, PublishedComplete, Exclusive, Complete, TypeOK, Dirs, Old, Ended
<1>5. Staged'
  BY DEF Staged, Exclusive, Complete, TypeOK, Dirs, Ended
<1>6. Old'
  BY DEF Old, Exclusive, PublishedComplete, WholeVersion, TypeOK, Dirs, Ended, Staged
<1>7. Fresh'
  BY DEF Fresh, Exclusive, TypeOK, Dirs, Ended
<1>. QED  BY <1>1, <1>2, <1>3, <1>4, <1>5, <1>6, <1>7, Zenon

\* The process dies.
LEMMA CrashIInv ==
    ASSUME FileLocked, IInv, NEW p \in Procs, Crash(p)
    PROVE  IInv'
<1>. USE RuntimeInstallAssumption DEF IInv, Crash, Leave, Go
<1>1. TypeOK'
  BY DEF TypeOK, Dirs, Entries, PCs, Ended
<1>2. Exclusive'
  BY DEF TypeOK, Exclusive, Ended, PCs, StaysInstalled, PublishedComplete, Complete
<1>3. PublishedComplete'
  BY Zenon DEF PublishedComplete, TypeOK, Dirs, Staged, Old, WholeVersion
<1>4. StaysInstalled'
  BY DEF StaysInstalled, PublishedComplete, Exclusive, Complete, TypeOK, Dirs, Old, Ended
<1>5. Staged'
  BY Zenon DEF Staged, Exclusive, Complete, TypeOK, Dirs, Ended
<1>6. Old'
  BY Zenon DEF Old, Exclusive, PublishedComplete, WholeVersion, TypeOK, Dirs, Ended, Staged
<1>7. Fresh'
  BY Zenon DEF Fresh, Exclusive, TypeOK, Dirs, Ended
<1>. QED  BY <1>1, <1>2, <1>3, <1>4, <1>5, <1>6, <1>7, Zenon

\* A later start.
LEMMA RelaunchIInv ==
    ASSUME FileLocked, IInv, NEW p \in Procs, Relaunch(p)
    PROVE  IInv'
<1>. USE RuntimeInstallAssumption DEF IInv, Relaunch, Go
<1>1. TypeOK'
  BY Zenon DEF TypeOK, Dirs, Entries, PCs, Ended
<1>2. Exclusive'
  BY DEF TypeOK, Exclusive, Ended, PCs, StaysInstalled, PublishedComplete, Complete
<1>3. PublishedComplete'
  BY Zenon DEF PublishedComplete, TypeOK, Dirs, Staged, Old, WholeVersion
<1>4. StaysInstalled'
  BY DEF StaysInstalled, PublishedComplete, Exclusive, Complete, TypeOK, Dirs, Old, Ended
<1>5. Staged'
  BY DEF Staged, Exclusive, Complete, TypeOK, Dirs, Ended
<1>6. Old'
  BY Zenon DEF Old, Exclusive, PublishedComplete, WholeVersion, TypeOK, Dirs, Ended, Staged
<1>7. Fresh'
  BY Zenon DEF Fresh, Exclusive, TypeOK, Dirs, Ended
<1>. QED  BY <1>1, <1>2, <1>3, <1>4, <1>5, <1>6, <1>7, Zenon

\* An app update.
LEMMA UpdateIInv ==
    ASSUME FileLocked, IInv, Update
    PROVE  IInv'
<1>. USE RuntimeInstallAssumption DEF Update, IInv
<1>1. TypeOK'
  BY DEF TypeOK, PCs, Ended
<1>2. PublishedComplete'
  BY Zenon DEF PublishedComplete
<1>3. Exclusive' /\ StaysInstalled' /\ Staged' /\ Old' /\ Fresh'
  BY Zenon DEF Exclusive, StaysInstalled, Staged, Old, Fresh, Ended
<1>. QED  BY <1>1, <1>2, <1>3, Zenon

LEMMA NextIInv == FileLocked /\ IInv /\ [Next]_vars => IInv'
<1>. SUFFICES ASSUME FileLocked, IInv, [Next]_vars PROVE IInv'
  OBVIOUS
<1>1. CASE UNCHANGED vars
  BY <1>1, Zenon DEF vars, IInv, TypeOK, Exclusive, PublishedComplete, StaysInstalled, Staged, Old, Fresh
<1>2. ASSUME NEW p \in Procs PROVE ~VerifyStaging(p)
  BY Zenon DEF VerifyStaging, IInv, Staged
<1>. QED
  BY <1>1, <1>2, CheckInstalledIInv, DeleteFileIInv, MakeStagingIInv, CopyFileIInv, WriteMarkerIInv,
     DropBackupIInv, MoveOldIInv, MoveNewIInv, RestoreOldIInv, FinishIInv, FailIInv, CrashIInv,
     RelaunchIInv, UpdateIInv, Zenon
     DEF Next, Step

LEMMA InvariantHolds == FileLocked => (Spec => []IInv)
<1>. SUFFICES ASSUME FileLocked PROVE Spec => []IInv
  OBVIOUS
<1>1. IInv /\ [Next]_vars => IInv'
  BY NextIInv, Zenon
<1>. QED  BY <1>1, InitIInv, PTL DEF Spec

-----------------------------------------------------------------------------
(***************************************************************************)
(* With the file lock every reachable state is well typed: the lock is     *)
(* held exactly by the process that is at work in install.                 *)
(***************************************************************************)
THEOREM TypeCorrect == FileLocked => (Spec => []TypeOK)
<1>1. IInv => TypeOK
  BY Zenon DEF IInv
<1>. QED  BY <1>1, InvariantHolds, PTL

(***************************************************************************)
(* RuntimeInstaller.install never leaves a part of a runtime under "zb",   *)
(* whatever crashes, fails, is updated or runs at the same time.           *)
(***************************************************************************)
THEOREM PublishedIsComplete == FileLocked => (Spec => []PublishedComplete)
<1>1. IInv => PublishedComplete
  BY Zenon DEF IInv
<1>. QED  BY <1>1, InvariantHolds, PTL

(***************************************************************************)
(* An installed runtime stays in place while a process that installed it   *)
(* runs: no other process' install replaces it.                            *)
(***************************************************************************)
THEOREM InstalledStays == FileLocked => (Spec => []StaysInstalled)
<1>1. IInv => StaysInstalled
  BY Zenon DEF IInv
<1>. QED  BY <1>1, InvariantHolds, PTL
-----------------------------------------------------------------------------
(* Without the lock: the types, and the one thing two installs keep for     *)
(* each other.                                                              *)
DirTypes ==
    /\ dir \in [Dirs -> {Absent} \cup SUBSET Entries]
    /\ version \in Versions
    /\ pc \in [Procs -> PCs]
    /\ copied \in [Procs -> SUBSET Files]
    /\ moved \in [Procs -> BOOLEAN]
    /\ lock \in Procs \cup {None}
    /\ faults \in 0..MaxFaults

\* Whoever copies found the staging directory empty, and no update came since.
StagedNow ==
    \A p \in Procs : pc[p] = "copy" /\ dir["staging"] # Absent => \A e \in dir["staging"] : e[2] = version

VersionsInv == DirTypes /\ OneVersion /\ StagedNow

LEMMA NotAbsent == \A files \in SUBSET Entries : files # Absent
BY RuntimeInstallAssumption, Zenon DEF Entries

LEMMA VersionsInit == Init => VersionsInv
BY RuntimeInstallAssumption DEF Init, VersionsInv, DirTypes, OneVersion, StagedNow, Dirs, PCs, Ended

\* A step that changes no directory, and lets no process begin to copy.
LEMMA DirsKept ==
    ASSUME VersionsInv, DirTypes', dir' = dir, version' = version,
           \A p \in Procs : pc'[p] = "copy" => pc[p] = "copy"
    PROVE  VersionsInv'
BY Zenon DEF VersionsInv, OneVersion, StagedNow

\* A step that takes files away, or makes the directory anew.
LEMMA DirShrinks ==
    ASSUME VersionsInv, DirTypes', NEW d \in Dirs, NEW files \in {Absent} \cup SUBSET Entries,
           files \in {Absent, {}} \/ (dir[d] # Absent /\ files \subseteq dir[d]),
           dir' = [dir EXCEPT ![d] = files], version' = version,
           \A p \in Procs : pc'[p] = "copy" => pc[p] = "copy" \/ (d = "staging" /\ files = {})
    PROVE  VersionsInv'
<1>1. dir'[d] = files /\ \A c \in Dirs \ {d} : dir'[c] = dir[c]
  BY Zenon DEF VersionsInv, DirTypes
<1>2. files # Absent => \A e \in files : dir[d] # Absent /\ e \in dir[d]
  BY NotAbsent, Zenon
<1>3. OneVersion'
  BY <1>1, <1>2, ZenonT(40) DEF VersionsInv, OneVersion
<1>4. ASSUME NEW p \in Procs, pc'[p] = "copy", dir'["staging"] # Absent, NEW e \in dir'["staging"]
      PROVE  e[2] = version
  <2>1. "staging" \in Dirs
    BY Zenon DEF Dirs
  <2>2. CASE d = "staging"
    <3>1. files # {} /\ pc[p] = "copy" /\ dir[d] # Absent /\ e \in dir[d]
      BY <1>1, <1>2, <1>4, <2>2, Zenon
    <3>. QED  BY <2>2, <3>1, Zenon DEF VersionsInv, StagedNow
  <2>3. CASE d # "staging"
    BY <1>1, <1>4, <2>1, <2>3, Zenon DEF VersionsInv, StagedNow
  <2>. QED  BY <2>2, <2>3, Zenon
<1>. QED  BY <1>3, <1>4, Zenon DEF VersionsInv, StagedNow

\* A rename.
LEMMA DirMoves ==
    ASSUME VersionsInv, DirTypes', NEW from \in Dirs, NEW to \in Dirs \ {"staging"}, from # to, Move(from, to),
           version' = version, \A p \in Procs : pc'[p] = "copy" => pc[p] = "copy"
    PROVE  VersionsInv'
<1>1. dir'[to] = dir[from] /\ dir'[from] = Absent /\ \A c \in Dirs \ {from, to} : dir'[c] = dir[c]
  BY Zenon DEF VersionsInv, DirTypes, Move
<1>2. OneVersion'
  <2>1. \A c \in Dirs : dir'[c] = Absent \/ \E b \in Dirs : dir'[c] = dir[b]
    BY <1>1, Zenon
  <2>2. ASSUME NEW c \in Dirs, dir'[c] # Absent, NEW e \in dir'[c], NEW f \in dir'[c] PROVE e[2] = f[2]
    <3>1. PICK b \in Dirs : dir'[c] = dir[b]
      BY <2>1, <2>2, Zenon
    <3>2. dir[b] # Absent /\ e \in dir[b] /\ f \in dir[b]
      BY <2>2, <3>1, Zenon
    <3>. QED  BY <3>2, Zenon DEF VersionsInv, OneVersion
  <2>. QED  BY <2>2, Zenon DEF OneVersion
<1>3. "staging" \in Dirs
  BY Zenon DEF Dirs
<1>4. dir'["staging"] = Absent \/ dir'["staging"] = dir["staging"]
  BY <1>1, <1>3, Zenon
<1>5. StagedNow'
  BY <1>4, Zenon DEF VersionsInv, StagedNow
<1>. QED  BY <1>2, <1>5, Zenon DEF VersionsInv

\* A file is written into the staging directory, by a process that copies.
LEMMA WriteKeepsVersion ==
    ASSUME VersionsInv, DirTypes', NEW p \in Procs, pc[p] = "copy", NEW f, Write(p, f), version' = version,
           \A q \in Procs : pc'[q] = "copy" => pc[q] = "copy"
    PROVE  VersionsInv'
<1>. DEFINE old == IF dir["staging"] = Absent THEN {} ELSE dir["staging"]
<1>1. dir'["staging"] = old \cup {<<f, version>>} /\ \A c \in Dirs \ {"staging"} : dir'[c] = dir[c]
  BY Zenon DEF VersionsInv, DirTypes, Write, Dirs
<1>2. \A e \in old : e[2] = version
  BY Zenon DEF VersionsInv, StagedNow
<1>. HIDE DEF old
<1>3. \A e \in dir'["staging"] : e[2] = version
  BY <1>1, <1>2
<1>4. OneVersion'
  BY <1>1, <1>3 DEF VersionsInv, OneVersion
<1>. QED  BY <1>3, <1>4, Zenon DEF VersionsInv, StagedNow

LEMMA DirTypesNext == ASSUME VersionsInv, [Next]_vars PROVE DirTypes'
<1>. USE RuntimeInstallAssumption, NotAbsent
<1>0. DirTypes
  BY Zenon DEF VersionsInv
<1>1. CASE UNCHANGED vars
  BY <1>0, <1>1, Zenon DEF DirTypes, vars
<1>2. ASSUME NEW p \in Procs, CheckInstalled(p) PROVE DirTypes'
  <2>1. pc' = [pc EXCEPT ![p] = "done"] \/ pc' = [pc EXCEPT ![p] = "clear"]
    BY <1>2, Zenon DEF CheckInstalled, Go
  <2>2. lock' \in Procs \cup {None}
    BY <1>0, <1>2, Zenon DEF CheckInstalled, DirTypes
  <2>. QED  BY <1>0, <1>2, <2>1, <2>2, Zenon DEF CheckInstalled, DirTypes, PCs, Ended
<1>3. ASSUME NEW p \in Procs, DeleteFile(p) PROVE DirTypes'
  BY <1>0, <1>3 DEF DeleteFile, Gone, Deletes, DirTypes, Dirs
<1>4. ASSUME NEW p \in Procs, MakeStaging(p) PROVE DirTypes'
  BY <1>0, <1>4, Zenon DEF MakeStaging, Go, DirTypes, Dirs, PCs, Ended
<1>5. ASSUME NEW p \in Procs, CopyFile(p) PROVE DirTypes'
  BY <1>0, <1>5 DEF CopyFile, Write, DirTypes, Dirs, Entries
<1>6. ASSUME NEW p \in Procs, WriteMarker(p) PROVE DirTypes'
  BY <1>0, <1>6 DEF WriteMarker, Write, Go, DirTypes, Dirs, Entries, PCs, Ended
<1>7. ASSUME NEW p \in Procs, VerifyStaging(p) PROVE DirTypes'
  BY <1>0, <1>7, Zenon DEF VerifyStaging, Go, DirTypes, PCs, Ended
<1>8. ASSUME NEW p \in Procs, DropBackup(p) PROVE DirTypes'
  BY <1>0, <1>8, Zenon DEF DropBackup, Go, DirTypes, Dirs, PCs, Ended
<1>9. ASSUME NEW p \in Procs, MoveOld(p) PROVE DirTypes'
  BY <1>0, <1>9 DEF MoveOld, Move, Go, DirTypes, Dirs, PCs, Ended
<1>10. ASSUME NEW p \in Procs, MoveNew(p) PROVE DirTypes'
  BY <1>0, <1>10, Zenon DEF MoveNew, Move, Go, DirTypes, Dirs, PCs, Ended
<1>11. ASSUME NEW p \in Procs, RestoreOld(p) PROVE DirTypes'
  BY <1>0, <1>11 DEF RestoreOld, Move, Go, DirTypes, Dirs, PCs, Ended
<1>12. ASSUME NEW p \in Procs, Finish(p) PROVE DirTypes'
  BY <1>0, <1>12, Zenon DEF Finish, Deletes, Leave, Go, DirTypes, Dirs, PCs, Ended
<1>13. ASSUME NEW p \in Procs, Fail(p) PROVE DirTypes'
  BY <1>0, <1>13 DEF Fail, Leave, Go, DirTypes, PCs, Ended
<1>14. ASSUME NEW p \in Procs, Crash(p) PROVE DirTypes'
  BY <1>0, <1>14 DEF Crash, Leave, Go, DirTypes, PCs, Ended
<1>15. ASSUME NEW p \in Procs, Relaunch(p) PROVE DirTypes'
  BY <1>0, <1>15, Zenon DEF Relaunch, Go, DirTypes, PCs, Ended
<1>16. CASE Update
  BY <1>0, <1>16 DEF Update, DirTypes, PCs, Ended
<1>. QED  BY <1>1, <1>2, <1>3, <1>4, <1>5, <1>6, <1>7, <1>8, <1>9, <1>10, <1>11, <1>12, <1>13, <1>14, <1>15, <1>16,
             Zenon DEF Next, Step

LEMMA VersionsNext == ASSUME VersionsInv, [Next]_vars PROVE VersionsInv'
<1>0. DirTypes' /\ DirTypes
  BY DirTypesNext, Zenon DEF VersionsInv
<1>. DEFINE Nobody == \A q \in Procs : pc'[q] = "copy" => pc[q] = "copy"
<1>a. ASSUME NEW p \in Procs, NEW at, at # "copy", Go(p, at) PROVE Nobody
  BY <1>0, <1>a, Zenon DEF Go, DirTypes
<1>. HIDE DEF Nobody
<1>1. CASE UNCHANGED vars
  BY <1>0, <1>1, DirsKept, Zenon DEF vars
<1>2. ASSUME NEW p \in Procs,
             CheckInstalled(p) \/ VerifyStaging(p) \/ Fail(p) \/ Crash(p) \/ Relaunch(p)
      PROVE  VersionsInv'
  <2>1. dir' = dir /\ version' = version
    BY <1>2, Zenon DEF CheckInstalled, VerifyStaging, Fail, Crash, Relaunch
  <2>2. \E at \in PCs : at # "copy" /\ Go(p, at)
    BY <1>2, Zenon DEF CheckInstalled, VerifyStaging, Fail, Crash, Relaunch, Leave, PCs, Ended, Go
  <2>. QED  BY <1>0, <1>a, <2>1, <2>2, DirsKept, Zenon DEF Nobody
<1>3. ASSUME NEW p \in Procs, DeleteFile(p) PROVE VersionsInv'
  <2>1. pc[p] \in DOMAIN Deletes /\ pc' = pc /\ version' = version
    BY <1>3, Zenon DEF DeleteFile
  <2>2. PICK d \in Dirs : d = Deletes[pc[p]]
    BY <2>1 DEF Deletes, Dirs
  <2>3. ~Gone(d) /\ \E e \in dir[d] : dir' = [dir EXCEPT ![d] = @ \ {e}]
    BY <1>3, <2>2, Zenon DEF DeleteFile
  <2>4. PICK e \in dir[d] : dir' = [dir EXCEPT ![d] = dir[d] \ {e}]
    BY <2>3, Zenon
  <2>5. dir[d] # Absent /\ dir[d] \ {e} \in SUBSET Entries
    BY <1>0, <2>3, Zenon DEF Gone, DirTypes
  <2>6. \A q \in Procs : pc'[q] = "copy" => pc[q] = "copy"
    BY <2>1, Zenon
  <2>7. PICK files \in SUBSET Entries : files = dir[d] \ {e}
    BY <2>5
  <2>8. files \subseteq dir[d] /\ dir' = [dir EXCEPT ![d] = files]
    BY <2>4, <2>7, Zenon
  <2>. QED  BY <1>0, <2>1, <2>5, <2>6, <2>8, DirShrinks, Zenon
<1>4. ASSUME NEW p \in Procs, MakeStaging(p) PROVE VersionsInv'
  <2>1. dir' = [dir EXCEPT !["staging"] = {}] /\ version' = version /\ "staging" \in Dirs /\ {} \in SUBSET Entries
    BY <1>4, Zenon DEF MakeStaging, Dirs
  <2>. QED  BY <1>0, <2>1, DirShrinks, Zenon
<1>5. ASSUME NEW p \in Procs, DropBackup(p) \/ Finish(p) PROVE VersionsInv'
  <2>1. version' = version
    BY <1>5, Zenon DEF DropBackup, Finish
  <2>2. \E d \in Dirs : dir' = [dir EXCEPT ![d] = Absent]
    BY <1>5 DEF DropBackup, Finish, Deletes, Dirs
  <2>3. \E at \in PCs : at # "copy" /\ Go(p, at)
    BY <1>5, Zenon DEF DropBackup, Finish, Leave, PCs, Ended
  <2>4. Nobody
    BY <1>a, <2>3, Zenon
  <2>. QED  BY <1>0, <2>1, <2>2, <2>4, DirShrinks, Zenon DEF Nobody
<1>6. ASSUME NEW p \in Procs, MoveOld(p) \/ MoveNew(p) \/ RestoreOld(p) PROVE VersionsInv'
  <2>1. version' = version
    BY <1>6, Zenon DEF MoveOld, MoveNew, RestoreOld
  <2>2. \E at \in PCs : at # "copy" /\ Go(p, at)
    BY <1>6, Zenon DEF MoveOld, MoveNew, RestoreOld, PCs, Ended
  <2>3. Nobody
    BY <1>a, <2>2, Zenon
  <2>4. dir' = dir \/ Move("target", "backup") \/ Move("staging", "target") \/ Move("backup", "target")
    BY <1>6, Zenon DEF MoveOld, MoveNew, RestoreOld
  <2>5. CASE dir' = dir
    BY <1>0, <2>1, <2>3, <2>5, DirsKept, Zenon DEF Nobody
  <2>6. ASSUME NEW from \in Dirs, NEW to \in Dirs \ {"staging"}, from # to, Move(from, to) PROVE VersionsInv'
    BY <1>0, <2>1, <2>3, <2>6, DirMoves, Zenon DEF Nobody
  <2>7. /\ "target" \in Dirs \ {"staging"} /\ "backup" \in Dirs \ {"staging"} /\ "staging" \in Dirs
        /\ "target" \in Dirs /\ "backup" \in Dirs
        /\ "target" # "backup" /\ "staging" # "target" /\ "backup" # "target"
    BY Zenon DEF Dirs
  <2>. QED  BY <2>4, <2>5, <2>6, <2>7, Zenon
<1>7. ASSUME NEW p \in Procs, CopyFile(p) PROVE VersionsInv'
  <2>1. pc[p] = "copy" /\ version' = version /\ pc' = pc /\ \E f \in Files : Write(p, f)
    BY <1>7, Zenon DEF CopyFile
  <2>2. \A q \in Procs : pc'[q] = "copy" => pc[q] = "copy"
    BY <2>1, Zenon
  <2>. QED  BY <1>0, <2>1, <2>2, WriteKeepsVersion, Zenon
<1>8. ASSUME NEW p \in Procs, WriteMarker(p) PROVE VersionsInv'
  <2>1. pc[p] = "copy" /\ version' = version /\ Write(p, Marker)
    BY <1>8, Zenon DEF WriteMarker
  <2>2. \E at \in PCs : at # "copy" /\ Go(p, at)
    BY <1>8 DEF WriteMarker, PCs, Ended, Go
  <2>3. Nobody
    BY <1>a, <2>2, Zenon
  <2>. QED  BY <1>0, <2>1, <2>3, WriteKeepsVersion, Zenon DEF Nobody
<1>9. CASE Update
  <2>1. dir' = dir /\ \A q \in Procs : pc'[q] # "copy"
    BY <1>9, Zenon DEF Update
  <2>. QED  BY <1>0, <2>1, Zenon DEF VersionsInv, OneVersion, StagedNow
<1>. QED  BY <1>1, <1>2, <1>3, <1>4, <1>5, <1>6, <1>7, <1>8, <1>9, Zenon DEF Next, Step

\* RuntimeBundle.install, which excludes only the threads of its own process, and
\* RuntimeInstaller.install with its lock: whatever crashes, fails or is updated, no directory
\* ever holds files of two versions, for any numbers of processes, files and versions.
THEOREM VersionsNeverMix == Spec => []OneVersion
<1>1. VersionsInv /\ [Next]_vars => VersionsInv'
  BY VersionsNext, Zenon
<1>2. VersionsInv => OneVersion
  BY Zenon DEF VersionsInv
<1>. QED  BY <1>1, <1>2, VersionsInit, PTL DEF Spec

LEMMA BundleTyped == ASSUME ~FileLocked PROVE Spec => []TypeOK
<1>1. VersionsInv /\ [Next]_vars => VersionsInv'
  BY VersionsNext, Zenon
<1>2. VersionsInv => TypeOK
  BY Zenon DEF VersionsInv, DirTypes, TypeOK
<1>. QED  BY <1>1, <1>2, VersionsInit, PTL DEF Spec

-----------------------------------------------------------------------------
(***************************************************************************)
(* PluginStore, for any APKs and any numbers of I/O errors and crashes,    *)
(* whether or not the plugin may be started during an import.              *)
(***************************************************************************)
CONSTANTS Apks, MaxErrors, MaxCrashes, LaunchDuringImport, NoDir, NoApk

VARIABLES plugin_dir, plugin_pc, new, movedOld, deleting, guest, saved, before, outcome, first, errors, crashes

Plugin == INSTANCE PluginStore WITH
            Versions <- Apks, Absent <- NoDir, None <- NoApk, dir <- plugin_dir, pc <- plugin_pc

PluginAssumption ==
    /\ MaxErrors \in Nat /\ MaxCrashes \in Nat
    /\ \A parts \in SUBSET Plugin!Parts : NoDir # parts

TheNew == {Plugin!Apk(new), Plugin!Meta(new)}
Forward == {"clear", "extract", "save", "drop", "move_old", "move_new", "move_child", "drop_old", "read"}
Importing == plugin_pc \in Forward \cup {"undo_target", "undo_old", "discard"}

\* What an import has staged, and that the first failure is what turned it back.
ImportSteps ==
    /\ Importing => new \in Apks
    /\ plugin_pc = "extract" => plugin_dir["staging"] = {}
    /\ plugin_pc = "save" => plugin_dir["staging"] = {Plugin!Apk(new)}
    /\ plugin_pc \in {"drop", "move_old", "move_new"} => plugin_dir["staging"] = TheNew
    /\ plugin_pc = "move_child" => plugin_dir["target"] \in SUBSET Plugin!Parts
    /\ plugin_pc \in Forward => first = "none"
    /\ plugin_pc \in {"undo_target", "undo_old"} => first \in {"move_old", "move_new", "move_child"}
    /\ plugin_pc \in {"clear", "extract", "save", "drop", "move_old"} => ~movedOld

\* The old directory can still be put back.
OldAside == IF before = NoDir THEN ~movedOld ELSE movedOld /\ plugin_dir["backup"] = before

\* The new one has taken its place, and its data.
NewInPlace ==
    TheNew \subseteq plugin_dir["target"]
        /\ (Plugin!User \in Plugin!DataOf(before) => Plugin!User \in plugin_dir["target"])

\* An import during which the plugin is not started.
ImportAlone ==
    LET target == plugin_dir["target"]
    IN  /\ guest = NoApk
        /\ plugin_pc \in {"clear", "extract", "save", "drop", "move_old"} => target = before
        /\ plugin_pc = "move_old" => plugin_dir["backup"] = NoDir
        /\ plugin_pc \in {"move_new", "move_child"} => OldAside
        /\ plugin_pc \in {"undo_target", "undo_old"} /\ first # "move_old" => OldAside
        /\ plugin_pc \in {"move_new", "undo_old"} => target = NoDir
        /\ plugin_pc = "move_child" => target = TheNew
        /\ plugin_pc \in {"drop_old", "read"} \/ (plugin_pc = "discard" /\ first = "none") => NewInPlace
        /\ plugin_pc = "discard" /\ first \notin {"none", "move_old", "undo_old", "read"} => target = before

ImportOver ==
    outcome \in {"ok", "failed"} => plugin_pc = "idle" /\ guest = NoApk

PluginInv ==
    /\ Plugin!TypeOK /\ ImportSteps
    /\ Importing /\ outcome = "none" => ImportAlone
    /\ ImportOver /\ Plugin!ImportKeeps

PluginFacts ==
    /\ \A parts \in SUBSET Plugin!Parts : NoDir # parts
    /\ \A v \in Apks : /\ Plugin!Apk(v) \in Plugin!Parts /\ Plugin!Apk(v) \notin Plugin!Data
                       /\ Plugin!Meta(v) \in Plugin!Parts /\ Plugin!Meta(v) \notin Plugin!Data
    /\ Plugin!User \in Plugin!Data /\ Plugin!Empty \in Plugin!Data /\ Plugin!User # Plugin!Empty
    /\ Plugin!Data \subseteq Plugin!Parts
    /\ \A d : d \in Plugin!Dirs <=> d \in {"target", "staging", "backup"}

LEMMA PluginFactsHold == ASSUME PluginAssumption PROVE PluginFacts
<1>1. /\ \A v \in Apks : Plugin!Apk(v) \notin Plugin!Data /\ Plugin!Meta(v) \notin Plugin!Data
      /\ Plugin!User # Plugin!Empty /\ Plugin!User \in Plugin!Data /\ Plugin!Empty \in Plugin!Data
  BY Zenon DEF Plugin!Apk, Plugin!Meta, Plugin!Data, Plugin!User, Plugin!Empty
<1>2. /\ \A v \in Apks : Plugin!Apk(v) \in Plugin!Parts /\ Plugin!Meta(v) \in Plugin!Parts
      /\ Plugin!Data \subseteq Plugin!Parts
  BY Zenon DEF Plugin!Parts
<1>3. \A d : d \in Plugin!Dirs <=> d \in {"target", "staging", "backup"}
  BY Zenon DEF Plugin!Dirs
<1>. QED  BY <1>1, <1>2, <1>3, Zenon DEF PluginAssumption, PluginFacts

LEMMA PluginInit == ASSUME PluginAssumption, Plugin!Init PROVE PluginInv
<1>1. Plugin!TypeOK
  <2>1. 0 \in 0..MaxErrors /\ 0 \in 0..MaxCrashes
    BY DEF PluginAssumption
  <2>2. plugin_dir \in [Plugin!Dirs -> {NoDir} \cup SUBSET Plugin!Parts] /\ plugin_dir["staging"] = NoDir
    BY Zenon DEF Plugin!Init, Plugin!Dirs
  <2>3. "idle" \in Plugin!PCs /\ "target" \in Plugin!Dirs
    BY Zenon DEF Plugin!Dirs, Plugin!PCs
  <2>. QED  BY <2>1, <2>2, <2>3, Zenon DEF Plugin!Init, Plugin!TypeOK
<1>2. ImportSteps /\ ~Importing
  BY Zenon DEF Plugin!Init, ImportSteps, Importing, Forward
<1>3. ImportOver /\ Plugin!ImportKeeps
  BY Zenon DEF Plugin!Init, ImportOver, Plugin!ImportKeeps
<1>. QED  BY <1>1, <1>2, <1>3, Zenon DEF PluginInv

\* The directories after a step.
DirsAre(t, s, b) ==
    /\ plugin_dir' \in [Plugin!Dirs -> {NoDir} \cup SUBSET Plugin!Parts]
    /\ plugin_dir'["target"] = t /\ plugin_dir'["staging"] = s /\ plugin_dir'["backup"] = b

LEMMA DirPut ==
    ASSUME PluginFacts, PluginInv, NEW x \in {NoDir} \cup SUBSET Plugin!Parts
    PROVE  /\ plugin_dir' = [plugin_dir EXCEPT !["target"] = x]
                => DirsAre(x, plugin_dir["staging"], plugin_dir["backup"])
           /\ plugin_dir' = [plugin_dir EXCEPT !["staging"] = x]
                => DirsAre(plugin_dir["target"], x, plugin_dir["backup"])
           /\ plugin_dir' = [plugin_dir EXCEPT !["backup"] = x]
                => DirsAre(plugin_dir["target"], plugin_dir["staging"], x)
<1>1. plugin_dir \in [Plugin!Dirs -> {NoDir} \cup SUBSET Plugin!Parts]
  BY Zenon DEF PluginInv, Plugin!TypeOK
<1>2. "target" \in Plugin!Dirs /\ "staging" \in Plugin!Dirs /\ "backup" \in Plugin!Dirs
  BY Zenon DEF PluginFacts
<1>. QED  BY <1>1, <1>2, Zenon DEF DirsAre

LEMMA DirTyped ==
    ASSUME PluginFacts, PluginInv
    PROVE  /\ plugin_dir \in [Plugin!Dirs -> {NoDir} \cup SUBSET Plugin!Parts]
           /\ plugin_dir["target"] \in {NoDir} \cup SUBSET Plugin!Parts
           /\ plugin_dir["staging"] \in {NoDir} \cup SUBSET Plugin!Parts
           /\ plugin_dir["backup"] \in {NoDir} \cup SUBSET Plugin!Parts
<1>1. plugin_dir \in [Plugin!Dirs -> {NoDir} \cup SUBSET Plugin!Parts]
  BY Zenon DEF PluginInv, Plugin!TypeOK
<1>2. "target" \in Plugin!Dirs /\ "staging" \in Plugin!Dirs /\ "backup" \in Plugin!Dirs
  BY Zenon DEF PluginFacts
<1>. QED  BY <1>1, <1>2, Zenon

LEMMA DirMove ==
    ASSUME PluginFacts, PluginInv
    PROVE  /\ Plugin!Move("target", "backup") => DirsAre(NoDir, plugin_dir["staging"], plugin_dir["target"])
           /\ Plugin!Move("staging", "target") => DirsAre(plugin_dir["staging"], NoDir, plugin_dir["backup"])
           /\ Plugin!Move("backup", "target") => DirsAre(plugin_dir["backup"], plugin_dir["staging"], NoDir)
<1>1. plugin_dir \in [Plugin!Dirs -> {NoDir} \cup SUBSET Plugin!Parts]
  BY DirTyped, Zenon
<1>2. "target" \in Plugin!Dirs /\ "staging" \in Plugin!Dirs /\ "backup" \in Plugin!Dirs
  BY Zenon DEF PluginFacts
<1>. QED  BY <1>1, <1>2, Zenon DEF DirsAre, Plugin!Move

\* The rest of the types, of the variables that a step of an import leaves alone.
StoreKept ==
    /\ new' = new /\ movedOld' = movedOld /\ before' = before /\ deleting' = deleting /\ guest' = guest
    /\ saved' = saved /\ outcome' = outcome /\ first' = first /\ errors' = errors /\ crashes' = crashes

DirKept == DirsAre(plugin_dir["target"], plugin_dir["staging"], plugin_dir["backup"])

LEMMA DirStays == ASSUME PluginFacts, PluginInv, plugin_dir' = plugin_dir PROVE DirKept
BY DirTyped, Zenon DEF DirKept, DirsAre

LEMMA PluginImportInv ==
    ASSUME PluginFacts, PluginInv, NEW v \in Apks, Plugin!Import(v)
    PROVE  PluginInv'
<1>0. /\ plugin_pc' = "clear" /\ new' = v /\ movedOld' = FALSE /\ before' = plugin_dir["target"]
      /\ outcome' = "none" /\ first' = "none" /\ guest' = NoApk /\ plugin_dir' = plugin_dir
      /\ deleting' = deleting /\ saved' = saved /\ errors' = errors /\ crashes' = crashes
  BY Zenon DEF Plugin!Import, Plugin!faults
<1>1. Plugin!TypeOK'
  BY <1>0, DirTyped DEF PluginInv, Plugin!TypeOK, Plugin!PCs
<1>2. ImportSteps'
  BY <1>0, Zenon DEF ImportSteps, Forward
<1>3. ImportAlone'
  BY <1>0, Zenon DEF ImportAlone
<1>4. ImportOver' /\ Plugin!ImportKeeps'
  BY <1>0, Zenon DEF ImportOver, Plugin!ImportKeeps
<1>. QED  BY <1>1, <1>2, <1>3, <1>4, Zenon DEF PluginInv

\* The import's way to publication.
LEMMA MakeStagingKeeps == ASSUME PluginFacts, PluginInv, Plugin!MakeStaging PROVE PluginInv'
<1>0. /\ plugin_pc = "clear" /\ plugin_pc' = "extract" /\ StoreKept
      /\ plugin_dir' = [plugin_dir EXCEPT !["staging"] = {}]
  BY Zenon DEF Plugin!MakeStaging, StoreKept, Plugin!imports, Plugin!ends, Plugin!faults
<1>1. DirsAre(plugin_dir["target"], {}, plugin_dir["backup"])
  BY <1>0, DirPut
<1>2. Plugin!TypeOK'
  BY <1>0, <1>1 DEF PluginInv, Plugin!TypeOK, Plugin!PCs, StoreKept, DirsAre
<1>3. ImportSteps'
  BY <1>0, <1>1, Zenon DEF PluginInv, ImportSteps, Importing, Forward, StoreKept, DirsAre
<1>4. Importing' /\ outcome' = "none" => ImportAlone'
  BY <1>0, <1>1, Zenon DEF PluginInv, ImportAlone, Importing, Forward, StoreKept, DirsAre
<1>5. ImportOver' /\ Plugin!ImportKeeps'
  BY <1>0, Zenon DEF PluginInv, ImportOver, Plugin!ImportKeeps, StoreKept
<1>. QED  BY <1>2, <1>3, <1>4, <1>5, Zenon DEF PluginInv

LEMMA ExtractKeeps == ASSUME PluginFacts, PluginInv, Plugin!Extract PROVE PluginInv'
<1>0. /\ plugin_pc = "extract" /\ plugin_pc' = "save" /\ StoreKept
      /\ plugin_dir' = [plugin_dir EXCEPT !["staging"] = plugin_dir["staging"] \cup {Plugin!Apk(new)}]
  BY Zenon DEF Plugin!Extract, StoreKept, Plugin!imports, Plugin!ends, Plugin!faults
<1>1. new \in Apks /\ plugin_dir["staging"] = {}
  BY <1>0, Zenon DEF PluginInv, ImportSteps, Importing, Forward
<1>2. DirsAre(plugin_dir["target"], {Plugin!Apk(new)}, plugin_dir["backup"])
  <2>1. {Plugin!Apk(new)} \in SUBSET Plugin!Parts
    BY <1>1, Zenon DEF PluginFacts
  <2>2. plugin_dir' = [plugin_dir EXCEPT !["staging"] = {Plugin!Apk(new)}]
    BY <1>0, <1>1, Zenon
  <2>. QED  BY <2>1, <2>2, DirPut, Zenon
<1>3. Plugin!TypeOK'
  BY <1>0, <1>1, <1>2 DEF PluginInv, Plugin!TypeOK, Plugin!PCs, StoreKept, DirsAre, PluginFacts
<1>4. ImportSteps'
  BY <1>0, <1>1, <1>2, Zenon DEF PluginInv, ImportSteps, Forward, StoreKept, DirsAre
<1>5. Importing' /\ outcome' = "none" => ImportAlone'
  BY <1>0, <1>2, Zenon DEF PluginInv, ImportAlone, Importing, Forward, StoreKept, DirsAre
<1>6. ImportOver' /\ Plugin!ImportKeeps'
  BY <1>0, Zenon DEF PluginInv, ImportOver, Plugin!ImportKeeps, StoreKept
<1>. QED  BY <1>3, <1>4, <1>5, <1>6, Zenon DEF PluginInv

LEMMA SaveKeeps == ASSUME PluginFacts, PluginInv, Plugin!Save PROVE PluginInv'
<1>0. /\ plugin_pc = "save" /\ plugin_pc' = "drop" /\ StoreKept
      /\ plugin_dir' = [plugin_dir EXCEPT !["staging"] = plugin_dir["staging"] \cup {Plugin!Meta(new)}]
  BY Zenon DEF Plugin!Save, StoreKept, Plugin!imports, Plugin!ends, Plugin!faults
<1>1. new \in Apks /\ plugin_dir["staging"] = {Plugin!Apk(new)}
  BY <1>0, Zenon DEF PluginInv, ImportSteps, Importing, Forward
<1>2. DirsAre(plugin_dir["target"], TheNew, plugin_dir["backup"])
  <2>1. TheNew \in SUBSET Plugin!Parts
    BY <1>1, Zenon DEF PluginFacts, TheNew
  <2>2. plugin_dir' = [plugin_dir EXCEPT !["staging"] = TheNew]
    BY <1>0, <1>1, Zenon DEF TheNew
  <2>. QED  BY <2>1, <2>2, DirPut, Zenon
<1>3. TheNew \cap Plugin!Data = {} /\ TheNew' = TheNew
  BY <1>0, <1>1, Zenon DEF PluginFacts, TheNew, StoreKept
<1>4. Plugin!TypeOK'
  BY <1>0, <1>2, <1>3 DEF PluginInv, Plugin!TypeOK, Plugin!PCs, StoreKept, DirsAre
<1>5. ImportSteps'
  BY <1>0, <1>1, <1>2, <1>3, Zenon DEF PluginInv, ImportSteps, Forward, StoreKept, DirsAre
<1>6. Importing' /\ outcome' = "none" => ImportAlone'
  BY <1>0, <1>2, Zenon DEF PluginInv, ImportAlone, Importing, Forward, StoreKept, DirsAre
<1>7. ImportOver' /\ Plugin!ImportKeeps'
  BY <1>0, Zenon DEF PluginInv, ImportOver, Plugin!ImportKeeps, StoreKept
<1>. QED  BY <1>4, <1>5, <1>6, <1>7, Zenon DEF PluginInv

LEMMA MoveOldKeeps == ASSUME PluginFacts, PluginInv, Plugin!MoveOld PROVE PluginInv'
<1>. DEFINE T == plugin_dir["target"]
            B == plugin_dir["backup"]
<1>0. /\ plugin_pc = "move_old" /\ plugin_pc' = "move_new"
      /\ new' = new /\ before' = before /\ deleting' = deleting /\ guest' = guest
      /\ saved' = saved /\ outcome' = outcome /\ first' = first /\ errors' = errors /\ crashes' = crashes
      /\ \/ T = NoDir /\ plugin_dir' = plugin_dir /\ movedOld' = movedOld
         \/ T # NoDir /\ Plugin!Move("target", "backup") /\ movedOld' = TRUE
  BY Zenon DEF Plugin!MoveOld, Plugin!ends, Plugin!faults
<1>1. \/ T = NoDir /\ DirsAre(NoDir, plugin_dir["staging"], B) /\ movedOld' = movedOld
      \/ T # NoDir /\ DirsAre(NoDir, plugin_dir["staging"], T) /\ movedOld' = TRUE
  BY <1>0, DirMove, DirStays, Zenon DEF DirKept
<1>2. DirsAre(NoDir, plugin_dir["staging"], T) \/ DirsAre(NoDir, plugin_dir["staging"], B)
  BY <1>1, Zenon
<1>3. new \in Apks /\ plugin_dir["staging"] = TheNew /\ ~movedOld /\ first = "none" /\ TheNew' = TheNew
  BY <1>0, Zenon DEF PluginInv, ImportSteps, Importing, Forward, TheNew
<1>4. Plugin!TypeOK'
  <2>1. movedOld' \in BOOLEAN
    BY <1>1, Zenon DEF PluginInv, Plugin!TypeOK
  <2>2. plugin_dir' \in [Plugin!Dirs -> {NoDir} \cup SUBSET Plugin!Parts] /\ plugin_dir'["staging"] = plugin_dir["staging"]
    BY <1>2, Zenon DEF DirsAre
  <2>3. plugin_pc' \in Plugin!PCs
    BY <1>0, Zenon DEF Plugin!PCs
  <2>. QED  BY <1>0, <2>1, <2>2, <2>3, Zenon DEF PluginInv, Plugin!TypeOK
<1>5. ImportSteps'
  BY <1>0, <1>2, <1>3, Zenon DEF ImportSteps, Forward, DirsAre
<1>6. ASSUME outcome' = "none" PROVE ImportAlone'
  <2>1. ImportAlone
    BY <1>0, <1>6, Zenon DEF PluginInv, Importing, Forward
  <2>2. T = before /\ B = NoDir /\ guest = NoApk
    BY <1>0, <2>1, Zenon DEF ImportAlone
  <2>3. OldAside'
    BY <1>0, <1>1, <1>3, <2>2 DEF OldAside, DirsAre
  <2>. QED  BY <1>0, <1>1, <2>2, <2>3, Zenon DEF ImportAlone, DirsAre
<1>7. ImportOver' /\ Plugin!ImportKeeps'
  BY <1>0, Zenon DEF PluginInv, ImportOver, Plugin!ImportKeeps
<1>. QED  BY <1>4, <1>5, <1>6, <1>7, Zenon DEF PluginInv

LEMMA ReadBackKeeps == ASSUME PluginFacts, PluginInv, Plugin!ReadBack PROVE PluginInv'
<1>0. plugin_pc = "read" /\ plugin_pc' = "discard" /\ StoreKept /\ plugin_dir' = plugin_dir
  BY Zenon DEF Plugin!ReadBack, StoreKept, Plugin!imports, Plugin!ends, Plugin!faults
<1>1. Plugin!TypeOK'
  BY <1>0 DEF PluginInv, Plugin!TypeOK, Plugin!PCs, StoreKept
<1>2. ImportSteps' /\ first = "none"
  BY <1>0, Zenon DEF PluginInv, ImportSteps, Importing, Forward, StoreKept
<1>3. ASSUME outcome' = "none" PROVE ImportAlone'
  <2>1. NewInPlace /\ guest = NoApk
    BY <1>0, <1>3, Zenon DEF PluginInv, Importing, Forward, ImportAlone, StoreKept
  <2>2. NewInPlace'
    BY <1>0, <2>1, Zenon DEF NewInPlace, TheNew, StoreKept, Plugin!DataOf
  <2>. QED  BY <1>0, <1>2, <2>1, <2>2, Zenon DEF ImportAlone, StoreKept
<1>4. ImportOver' /\ Plugin!ImportKeeps'
  BY <1>0, Zenon DEF PluginInv, ImportOver, Plugin!ImportKeeps, StoreKept
<1>. QED  BY <1>1, <1>2, <1>3, <1>4, Zenon DEF PluginInv

LEMMA UndoOldKeeps == ASSUME PluginFacts, PluginInv, Plugin!UndoOld PROVE PluginInv'
<1>. DEFINE T == plugin_dir["target"]
            B == plugin_dir["backup"]
            Back == movedOld /\ Plugin!CanMove("backup", "target")
<1>0. /\ plugin_pc = "undo_old" /\ plugin_pc' = "discard" /\ StoreKept
      /\ (Back /\ Plugin!Move("backup", "target")) \/ (~Back /\ plugin_dir' = plugin_dir)
  BY Zenon DEF Plugin!UndoOld, StoreKept, Plugin!imports, Plugin!ends, Plugin!faults
<1>1. \/ Back /\ DirsAre(B, plugin_dir["staging"], NoDir)
      \/ ~Back /\ DirsAre(T, plugin_dir["staging"], B)
  BY <1>0, DirMove, DirStays, Zenon DEF DirKept
<1>2. DirsAre(B, plugin_dir["staging"], NoDir) \/ DirsAre(T, plugin_dir["staging"], B)
  BY <1>1, Zenon
<1>3. Plugin!TypeOK'
  <2>2. plugin_dir' \in [Plugin!Dirs -> {NoDir} \cup SUBSET Plugin!Parts] /\ plugin_dir'["staging"] = plugin_dir["staging"]
    BY <1>2, Zenon DEF DirsAre
  <2>3. plugin_pc' \in Plugin!PCs
    BY <1>0, Zenon DEF Plugin!PCs
  <2>. QED  BY <1>0, <2>2, <2>3, Zenon DEF PluginInv, Plugin!TypeOK, StoreKept
<1>4. ImportSteps' /\ first \in {"move_old", "move_new", "move_child"}
  BY <1>0, Zenon DEF PluginInv, ImportSteps, Importing, Forward, StoreKept
<1>5. ASSUME outcome' = "none" PROVE ImportAlone'
  <2>1. T = NoDir /\ guest = NoApk /\ (first # "move_old" => OldAside)
    BY <1>0, <1>5, Zenon DEF PluginInv, Importing, Forward, ImportAlone, StoreKept
  <2>2. ASSUME first # "move_old" PROVE plugin_dir'["target"] = before
    <3>1. CASE before = NoDir
      BY <1>1, <2>1, <2>2, <3>1, Zenon DEF OldAside, DirsAre
    <3>2. CASE before # NoDir
      <4>1. movedOld /\ B = before
        BY <2>1, <2>2, <3>2, Zenon DEF OldAside
      <4>2. Back
        BY <2>1, <3>2, <4>1, Zenon DEF Plugin!CanMove, Plugin!Gone
      <4>. QED  BY <1>1, <4>1, <4>2, Zenon DEF DirsAre
    <3>. QED  BY <3>1, <3>2, Zenon
  <2>. QED  BY <1>0, <1>4, <2>1, <2>2, Zenon DEF ImportAlone, StoreKept
<1>6. ImportOver' /\ Plugin!ImportKeeps'
  BY <1>0, Zenon DEF PluginInv, ImportOver, Plugin!ImportKeeps, StoreKept
<1>. QED  BY <1>3, <1>4, <1>5, <1>6, Zenon DEF PluginInv

\* A step that throws.
Throwing == {"clear", "extract", "save", "move_old", "move_new", "move_child", "undo_old", "read"}

LEMMA ThrowKeeps ==
    ASSUME PluginFacts, PluginInv, Plugin!Throw, plugin_pc \in Throwing, plugin_dir' = plugin_dir,
           new' = new, movedOld' = movedOld, before' = before, deleting' = deleting, guest' = guest,
           saved' = saved, errors' \in 0..MaxErrors, crashes' = crashes
    PROVE  PluginInv'
<1>1. Importing /\ new \in Apks /\ outcome \in {"none", "shared"}
  BY Zenon DEF PluginInv, ImportSteps, Importing, Forward, Throwing, ImportOver, Plugin!TypeOK
<1>2. /\ plugin_pc = "clear" => plugin_pc' = "idle" /\ outcome' = Plugin!Ended("failed")
      /\ plugin_pc \in {"extract", "save", "undo_old", "read"} => plugin_pc' = "discard" /\ outcome' = outcome
      /\ plugin_pc \in {"move_old", "move_new", "move_child"} => plugin_pc' = "undo_target" /\ outcome' = outcome
  BY Zenon DEF Plugin!Throw
<1>3. first' = plugin_pc
  <2>1. first = "none" \/ plugin_pc = "undo_old"
    BY Zenon DEF PluginInv, ImportSteps, Forward, Throwing
  <2>. QED  BY <2>1, Zenon DEF Plugin!Throw
<1>4. outcome' \in {"none", "shared", "failed"} /\ (outcome' # "shared" => outcome = "none")
      /\ (plugin_pc # "clear" => outcome' = outcome)
  BY <1>1, <1>2, Zenon DEF Plugin!Ended, Throwing
<1>5. Plugin!TypeOK'
  <2>1. /\ plugin_pc' \in Plugin!PCs /\ first' \in Plugin!PCs \cup {"none"}
        /\ outcome' \in {"none", "shared", "ok", "failed"}
    BY <1>2, <1>3, <1>4, Zenon DEF Plugin!PCs, Throwing
  <2>. QED  BY <2>1, Zenon DEF PluginInv, Plugin!TypeOK
<1>6. ImportSteps'
  BY <1>1, <1>2, <1>3, Zenon DEF ImportSteps, Forward, Throwing
<1>7. ASSUME outcome' # "shared"
      PROVE  /\ guest = NoApk
             /\ plugin_pc \in {"clear", "extract", "save"} => plugin_dir["target"] = before
             /\ plugin_pc \in {"move_new", "move_child"} => OldAside
  <2>1. ImportAlone
    BY <1>1, <1>4, <1>7, Zenon DEF PluginInv
  <2>. QED  BY <2>1, Zenon DEF ImportAlone
<1>8. ASSUME outcome' = "none", Importing' PROVE ImportAlone'
  <2>1. OldAside' = OldAside
    BY Zenon DEF OldAside
  <2>. QED  BY <1>2, <1>3, <1>4, <1>7, <1>8, <2>1, Zenon DEF ImportAlone, Throwing, Importing, Forward
<1>9. ImportOver' /\ Plugin!ImportKeeps'
  BY <1>1, <1>2, <1>3, <1>4, <1>7, Zenon DEF ImportOver, Plugin!ImportKeeps, Throwing
<1>. QED  BY <1>5, <1>6, <1>8, <1>9, Zenon DEF PluginInv

LEMMA IoErrorKeeps == ASSUME PluginAssumption, PluginFacts, PluginInv, Plugin!IoError PROVE PluginInv'
<1>1. /\ Plugin!Throw /\ plugin_pc \in Throwing /\ plugin_dir' = plugin_dir /\ new' = new /\ movedOld' = movedOld
      /\ before' = before /\ deleting' = deleting /\ guest' = guest /\ saved' = saved /\ crashes' = crashes
      /\ errors < MaxErrors /\ errors' = errors + 1
  BY Zenon DEF Plugin!IoError, Plugin!imports, Throwing
<1>2. errors' \in 0..MaxErrors
  <2>1. errors \in 0..MaxErrors
    BY Zenon DEF PluginInv, Plugin!TypeOK
  <2>. QED  BY <1>1, <2>1 DEF PluginAssumption
<1>. QED  BY <1>1, <1>2, ThrowKeeps, Zenon

LEMMA MoveNewKeeps == ASSUME PluginFacts, PluginInv, Plugin!MoveNew PROVE PluginInv'
<1>0. /\ plugin_pc = "move_new" /\ new' = new /\ movedOld' = movedOld /\ before' = before /\ deleting' = deleting
      /\ guest' = guest /\ saved' = saved /\ errors' = errors /\ crashes' = crashes
  BY Zenon DEF Plugin!MoveNew, Plugin!imports, Plugin!faults
<1>1. CASE Plugin!Throw /\ plugin_dir' = plugin_dir
  <2>1. plugin_pc \in Throwing /\ errors' \in 0..MaxErrors
    BY <1>0, Zenon DEF Throwing, PluginInv, Plugin!TypeOK
  <2>. QED  BY <1>0, <1>1, <2>1, ThrowKeeps, Zenon
<1>2. CASE Plugin!Move("staging", "target") /\ plugin_pc' = "move_child" /\ outcome' = outcome /\ first' = first
  <2>1. DirsAre(plugin_dir["staging"], NoDir, plugin_dir["backup"])
    BY <1>2, DirMove, Zenon
  <2>2. new \in Apks /\ plugin_dir["staging"] = TheNew /\ first = "none" /\ TheNew' = TheNew
    BY <1>0, Zenon DEF PluginInv, ImportSteps, Importing, Forward, TheNew
  <2>3. Plugin!TypeOK'
    BY <1>0, <1>2, <2>1 DEF PluginInv, Plugin!TypeOK, Plugin!PCs, DirsAre
  <2>4. ImportSteps'
    <3>1. TheNew \in SUBSET Plugin!Parts
      BY <2>2, Zenon DEF TheNew, PluginFacts
    <3>. QED  BY <1>0, <1>2, <2>1, <2>2, <3>1, Zenon DEF ImportSteps, Forward, DirsAre
  <2>5. ASSUME outcome' = "none" PROVE ImportAlone'
    <3>1. OldAside /\ guest = NoApk
      BY <1>0, <1>2, <2>5, Zenon DEF PluginInv, Importing, Forward, ImportAlone
    <3>2. OldAside'
      BY <1>0, <2>1, <3>1, Zenon DEF OldAside, DirsAre
    <3>. QED  BY <1>0, <1>2, <2>1, <2>2, <3>1, <3>2, Zenon DEF ImportAlone, DirsAre
  <2>6. ImportOver' /\ Plugin!ImportKeeps'
    BY <1>0, <1>2, Zenon DEF PluginInv, ImportOver, Plugin!ImportKeeps
  <2>. QED  BY <2>3, <2>4, <2>5, <2>6, Zenon DEF PluginInv
<1>. QED  BY <1>1, <1>2, Zenon DEF Plugin!MoveNew, Plugin!ends

LEMMA MoveChildKeeps == ASSUME PluginFacts, PluginInv, Plugin!MoveChild PROVE PluginInv'
<1>. DEFINE T == plugin_dir["target"]
            B == plugin_dir["backup"]
            old == Plugin!DataOf(B)
            NewT == IF old = {} THEN T \cup {Plugin!Empty} ELSE (T \ Plugin!Data) \cup old
            NewB == IF B = NoDir THEN NoDir ELSE B \ old
<1>0. /\ plugin_pc = "move_child" /\ new' = new /\ movedOld' = movedOld /\ before' = before /\ deleting' = deleting
      /\ guest' = guest /\ saved' = saved /\ errors' = errors /\ crashes' = crashes
  BY Zenon DEF Plugin!MoveChild, Plugin!imports, Plugin!faults
<1>1. CASE Plugin!Throw /\ plugin_dir' = plugin_dir
  <2>1. plugin_pc \in Throwing /\ errors' \in 0..MaxErrors
    BY <1>0, Zenon DEF Throwing, PluginInv, Plugin!TypeOK
  <2>. QED  BY <1>0, <1>1, <2>1, ThrowKeeps, Zenon
<1>2. CASE /\ plugin_dir' = [plugin_dir EXCEPT !["target"] = NewT, !["backup"] = NewB]
           /\ plugin_pc' = "drop_old" /\ outcome' = outcome /\ first' = first
  <2>1. old \subseteq Plugin!Data /\ old \subseteq Plugin!Parts
    BY Zenon DEF Plugin!DataOf, PluginFacts
  <2>2. new \in Apks /\ first = "none" /\ TheNew' = TheNew /\ T \in SUBSET Plugin!Parts
    BY <1>0, Zenon DEF PluginInv, ImportSteps, Importing, Forward, TheNew
  <2>3. B \in {NoDir} \cup SUBSET Plugin!Parts
    BY DirTyped, Zenon
  <2>4. NewT \in SUBSET Plugin!Parts /\ NewB \in {NoDir} \cup SUBSET Plugin!Parts
    BY <2>1, <2>2, <2>3, Zenon DEF PluginFacts
  <2>5. DirsAre(NewT, plugin_dir["staging"], NewB)
    <3>. HIDE DEF NewT, NewB
    <3>1. "target" \in Plugin!Dirs /\ "staging" \in Plugin!Dirs /\ "backup" \in Plugin!Dirs
      BY Zenon DEF PluginFacts
    <3>2. plugin_dir \in [Plugin!Dirs -> {NoDir} \cup SUBSET Plugin!Parts]
      BY DirTyped, Zenon
    <3>. QED  BY <1>2, <2>4, <3>1, <3>2, Zenon DEF DirsAre
  <2>. HIDE DEF NewT, NewB
  <2>6. Plugin!TypeOK'
    <3>1. plugin_pc' \in Plugin!PCs
      BY <1>2, Zenon DEF Plugin!PCs
    <3>. QED  BY <1>0, <1>2, <2>5, <3>1, Zenon DEF PluginInv, Plugin!TypeOK, DirsAre
  <2>7. ImportSteps'
    BY <1>0, <1>2, <2>2, Zenon DEF ImportSteps, Forward
  <2>8. ASSUME outcome' = "none" PROVE ImportAlone'
    <3>1. OldAside /\ guest = NoApk /\ T = TheNew
      BY <1>0, <1>2, <2>8, Zenon DEF PluginInv, Importing, Forward, ImportAlone
    <3>2. TheNew \subseteq NewT
      BY <2>2, <3>1, Zenon DEF NewT, TheNew, PluginFacts
    <3>3. ASSUME Plugin!User \in Plugin!DataOf(before) PROVE Plugin!User \in NewT
      <4>1. before # NoDir /\ B = before
        BY <3>1, <3>3, Zenon DEF Plugin!DataOf, OldAside
      <4>2. Plugin!User \in old
        BY <3>3, <4>1, Zenon
      <4>. QED  BY <4>2, Zenon DEF NewT
    <3>4. NewInPlace'
      BY <1>0, <2>2, <2>5, <3>2, <3>3, Zenon DEF NewInPlace, DirsAre, Plugin!DataOf
    <3>. QED  BY <1>0, <1>2, <3>1, <3>4, Zenon DEF ImportAlone
  <2>9. ImportOver' /\ Plugin!ImportKeeps'
    BY <1>0, <1>2, Zenon DEF PluginInv, ImportOver, Plugin!ImportKeeps
  <2>. QED  BY <2>6, <2>7, <2>8, <2>9, Zenon DEF PluginInv
<1>. QED  BY <1>1, <1>2, Zenon DEF Plugin!MoveChild, Plugin!ends

\* A directory is deleted part by part.
LEMMA DeletedIs ==
    ASSUME Plugin!Deleting
    PROVE  /\ plugin_pc \in {"clear", "discard", "drop", "drop_old", "undo_target", "delete"}
           /\ plugin_pc \in {"clear", "discard"} => Plugin!Deleted = "staging"
           /\ plugin_pc \in {"drop", "drop_old"} => Plugin!Deleted = "backup"
           /\ plugin_pc = "undo_target" => Plugin!Deleted = "target"
           /\ plugin_pc = "delete" => Plugin!Deleted = deleting
BY Zenon DEF Plugin!Deleting, Plugin!Deleted

\* Where the store deletes, whatever of the deleted directory is left.
LEMMA ShrinkKeeps ==
    ASSUME PluginFacts, PluginInv, Plugin!Deleting, NEW x \in {NoDir} \cup SUBSET Plugin!Parts,
           Plugin!Deleted = "staging" /\ x # NoDir => x \cap Plugin!Data = {},
           plugin_dir' = [plugin_dir EXCEPT ![Plugin!Deleted] = x]
    PROVE  /\ plugin_dir' \in [Plugin!Dirs -> {NoDir} \cup SUBSET Plugin!Parts]
           /\ plugin_dir'["staging"] # NoDir => plugin_dir'["staging"] \cap Plugin!Data = {}
           /\ plugin_pc \in {"clear", "discard"} => DirsAre(plugin_dir["target"], x, plugin_dir["backup"])
           /\ plugin_pc \in {"drop", "drop_old"} => DirsAre(plugin_dir["target"], plugin_dir["staging"], x)
           /\ plugin_pc = "undo_target" => DirsAre(x, plugin_dir["staging"], plugin_dir["backup"])
           /\ Plugin!Deleted # "target" => plugin_dir'["target"] = plugin_dir["target"]
           /\ Plugin!Deleted = "target" => plugin_dir'["target"] = x
<1>1. Plugin!Deleted \in {"target", "staging", "backup"}
  BY DeletedIs, Zenon DEF PluginInv, Plugin!TypeOK, PluginFacts
<1>2. plugin_dir["staging"] # NoDir => plugin_dir["staging"] \cap Plugin!Data = {}
  BY Zenon DEF PluginInv, Plugin!TypeOK
<1>3. CASE Plugin!Deleted = "target"
  <2>1. DirsAre(x, plugin_dir["staging"], plugin_dir["backup"])
    BY <1>3, DirPut, Zenon
  <2>. QED  BY <1>2, <1>3, <2>1, DeletedIs, Zenon DEF DirsAre
<1>4. CASE Plugin!Deleted = "staging"
  <2>1. DirsAre(plugin_dir["target"], x, plugin_dir["backup"])
    BY <1>4, DirPut, Zenon
  <2>. QED  BY <1>4, <2>1, DeletedIs, Zenon DEF DirsAre
<1>5. CASE Plugin!Deleted = "backup"
  <2>1. DirsAre(plugin_dir["target"], plugin_dir["staging"], x)
    BY <1>5, DirPut, Zenon
  <2>. QED  BY <1>2, <1>5, <2>1, DeletedIs, Zenon DEF DirsAre
<1>. QED  BY <1>1, <1>3, <1>4, <1>5, Zenon

LEMMA DeletePartDirs ==
    ASSUME PluginFacts, PluginInv, Plugin!DeletePart
    PROVE  \E x \in SUBSET Plugin!Parts :
             /\ x \subseteq plugin_dir[Plugin!Deleted] /\ plugin_dir[Plugin!Deleted] # NoDir
             /\ plugin_dir' = [plugin_dir EXCEPT ![Plugin!Deleted] = x]
             /\ Plugin!Deleted = "staging" => x \cap Plugin!Data = {}
<1>1. PICK part \in plugin_dir[Plugin!Deleted] :
        plugin_dir' = [plugin_dir EXCEPT ![Plugin!Deleted] = plugin_dir[Plugin!Deleted] \ {part}]
  BY DEF Plugin!DeletePart
<1>2. Plugin!Deleting /\ plugin_dir[Plugin!Deleted] # NoDir
  BY Zenon DEF Plugin!DeletePart, Plugin!Gone
<1>3. Plugin!Deleted \in {"target", "staging", "backup"}
  BY <1>2, DeletedIs, Zenon DEF PluginInv, Plugin!TypeOK, PluginFacts
<1>4. plugin_dir[Plugin!Deleted] \in SUBSET Plugin!Parts
  BY <1>2, <1>3, DirTyped, Zenon
<1>5. Plugin!Deleted = "staging" => plugin_dir[Plugin!Deleted] \cap Plugin!Data = {}
  BY <1>2, Zenon DEF PluginInv, Plugin!TypeOK
<1>. DEFINE x == plugin_dir[Plugin!Deleted] \ {part}
<1>6. /\ x \in SUBSET Plugin!Parts /\ x \subseteq plugin_dir[Plugin!Deleted]
      /\ Plugin!Deleted = "staging" => x \cap Plugin!Data = {}
  BY <1>4, <1>5, Zenon
<1>. QED  BY <1>1, <1>2, <1>6, Zenon

LEMMA DeletePartKeeps == ASSUME PluginFacts, PluginInv, Plugin!DeletePart PROVE PluginInv'
<1>0. Plugin!Deleting /\ plugin_pc' = plugin_pc /\ StoreKept
  BY Zenon DEF Plugin!DeletePart, StoreKept, Plugin!imports, Plugin!ends, Plugin!faults
<1>1. PICK x \in SUBSET Plugin!Parts :
        /\ plugin_dir' = [plugin_dir EXCEPT ![Plugin!Deleted] = x]
        /\ Plugin!Deleted = "staging" => x \cap Plugin!Data = {}
  BY DeletePartDirs, Zenon
<1>2. x \in {NoDir} \cup SUBSET Plugin!Parts
  OBVIOUS
<1>3. /\ plugin_dir' \in [Plugin!Dirs -> {NoDir} \cup SUBSET Plugin!Parts]
      /\ plugin_dir'["staging"] # NoDir => plugin_dir'["staging"] \cap Plugin!Data = {}
      /\ plugin_pc \in {"clear", "discard"} => DirsAre(plugin_dir["target"], x, plugin_dir["backup"])
      /\ plugin_pc \in {"drop", "drop_old"} => DirsAre(plugin_dir["target"], plugin_dir["staging"], x)
      /\ plugin_pc = "undo_target" => DirsAre(x, plugin_dir["staging"], plugin_dir["backup"])
  BY <1>0, <1>1, <1>2, ShrinkKeeps, Zenon
<1>4. Plugin!TypeOK'
  BY <1>0, <1>3, Zenon DEF PluginInv, Plugin!TypeOK, StoreKept
<1>5. plugin_pc \in {"clear", "discard", "drop", "drop_old", "undo_target", "delete"}
  BY <1>0, DeletedIs, Zenon
<1>6. ImportSteps'
  <2>1. TheNew' = TheNew
    BY <1>0, Zenon DEF TheNew, StoreKept
  <2>. QED  BY <1>0, <1>3, <1>5, <2>1, Zenon DEF PluginInv, ImportSteps, Importing, Forward, StoreKept, DirsAre
<1>7. ASSUME Importing', outcome' = "none" PROVE ImportAlone'
  <2>1. ImportAlone
    BY <1>0, <1>7, Zenon DEF PluginInv, Importing, StoreKept
  <2>2. plugin_pc \in {"clear", "discard", "drop", "drop_old"} => plugin_dir'["target"] = plugin_dir["target"]
    BY <1>3, Zenon DEF DirsAre
  <2>3. plugin_pc \in {"clear", "discard", "undo_target"} => plugin_dir'["backup"] = plugin_dir["backup"]
    BY <1>3, Zenon DEF DirsAre
  <2>4. plugin_pc = "undo_target" /\ OldAside => OldAside'
    BY <1>0, <2>3, Zenon DEF OldAside, StoreKept
  <2>5. plugin_pc \in {"discard", "drop_old"} /\ NewInPlace => NewInPlace'
    BY <1>0, <2>2, Zenon DEF NewInPlace, StoreKept, TheNew, Plugin!DataOf
  <2>. QED  BY <1>0, <1>5, <2>1, <2>2, <2>4, <2>5, Zenon DEF ImportAlone, StoreKept
<1>8. ImportOver' /\ Plugin!ImportKeeps'
  BY <1>0, <1>5, Zenon DEF PluginInv, ImportOver, Plugin!ImportKeeps, StoreKept
<1>. QED  BY <1>4, <1>6, <1>7, <1>8, Zenon DEF PluginInv

LEMMA DeleteDoneKeeps == ASSUME PluginFacts, PluginInv, Plugin!DeleteDone PROVE PluginInv'
<1>0. /\ Plugin!Deleting /\ plugin_pc # "clear" /\ plugin_dir' = [plugin_dir EXCEPT ![Plugin!Deleted] = NoDir]
      /\ new' = new /\ movedOld' = movedOld /\ before' = before /\ deleting' = deleting /\ guest' = guest
      /\ saved' = saved /\ first' = first /\ errors' = errors /\ crashes' = crashes
  BY Zenon DEF Plugin!DeleteDone, Plugin!imports, Plugin!faults
<1>1. plugin_pc \in {"discard", "drop", "drop_old", "undo_target", "delete"}
  BY <1>0, DeletedIs, Zenon
<1>2. /\ plugin_pc = "drop" => plugin_pc' = "move_old"
      /\ plugin_pc = "drop_old" => plugin_pc' = "read"
      /\ plugin_pc = "undo_target" => plugin_pc' = "undo_old"
      /\ plugin_pc \in {"discard", "delete"} => plugin_pc' = "idle"
      /\ plugin_pc # "discard" => outcome' = outcome
      /\ plugin_pc = "discard" => outcome' = Plugin!Ended(IF first = "none" THEN "ok" ELSE "failed")
  BY Zenon DEF Plugin!DeleteDone
<1>3. /\ plugin_dir' \in [Plugin!Dirs -> {NoDir} \cup SUBSET Plugin!Parts]
      /\ plugin_dir'["staging"] # NoDir => plugin_dir'["staging"] \cap Plugin!Data = {}
      /\ plugin_pc = "discard" => DirsAre(plugin_dir["target"], NoDir, plugin_dir["backup"])
      /\ plugin_pc \in {"drop", "drop_old"} => DirsAre(plugin_dir["target"], plugin_dir["staging"], NoDir)
      /\ plugin_pc = "undo_target" => DirsAre(NoDir, plugin_dir["staging"], plugin_dir["backup"])
  <2>1. NoDir \in {NoDir} \cup SUBSET Plugin!Parts
    OBVIOUS
  <2>. QED  BY <1>0, <2>1, ShrinkKeeps, Zenon
<1>4. outcome \in {"none", "shared"} /\ outcome' \in {"none", "shared", "ok", "failed"}
      /\ (outcome' # "shared" => outcome = "none")
      /\ (outcome' = "ok" => plugin_pc = "discard" /\ first = "none")
      /\ (outcome' = "failed" => plugin_pc = "discard" /\ first # "none")
  BY <1>1, <1>2, Zenon DEF PluginInv, ImportOver, Plugin!TypeOK, Plugin!Ended
<1>5. Plugin!TypeOK'
  <2>1. plugin_pc' \in Plugin!PCs
    BY <1>1, <1>2, Zenon DEF Plugin!PCs
  <2>. QED  BY <1>0, <1>3, <1>4, <2>1, Zenon DEF PluginInv, Plugin!TypeOK
<1>6. ImportSteps'
  <2>1. TheNew' = TheNew
    BY <1>0, Zenon DEF TheNew
  <2>. QED  BY <1>0, <1>1, <1>2, <1>3, <2>1, Zenon DEF PluginInv, ImportSteps, Importing, Forward, DirsAre
<1>7. outcome' # "shared" /\ plugin_pc # "delete" => ImportAlone
  BY <1>1, <1>4, Zenon DEF PluginInv, Importing, Forward
<1>8. plugin_pc = "drop_old" \/ plugin_pc = "discard" => (NewInPlace => NewInPlace')
  <2>1. plugin_pc = "drop_old" \/ plugin_pc = "discard" => plugin_dir'["target"] = plugin_dir["target"]
    BY <1>3, Zenon DEF DirsAre
  <2>. QED  BY <1>0, <2>1, Zenon DEF NewInPlace, TheNew, Plugin!DataOf
<1>9. ASSUME Importing', outcome' = "none" PROVE ImportAlone'
  <2>1. ImportAlone /\ plugin_pc # "discard" /\ plugin_pc # "delete"
    BY <1>2, <1>7, <1>9, Zenon DEF Importing, Forward
  <2>2. plugin_pc = "undo_target" /\ OldAside => OldAside'
    BY <1>0, <1>3, Zenon DEF OldAside, DirsAre
  <2>. QED  BY <1>0, <1>1, <1>2, <1>3, <1>8, <2>1, <2>2, Zenon DEF ImportAlone, DirsAre
<1>10. ImportOver' /\ Plugin!ImportKeeps'
  <2>1. outcome' \in {"ok", "failed"} =>
          ImportAlone /\ plugin_pc = "discard" /\ plugin_dir'["target"] = plugin_dir["target"]
    BY <1>3, <1>4, <1>7, Zenon DEF DirsAre
  <2>2. outcome' = "ok" => NewInPlace'
    BY <1>4, <1>8, <2>1, Zenon DEF ImportAlone
  <2>3. Plugin!ImportKeeps'
    BY <1>0, <1>4, <2>1, <2>2, Zenon DEF ImportAlone, NewInPlace, TheNew, Plugin!ImportKeeps, Plugin!DataOf
  <2>. QED  BY <1>0, <1>2, <2>1, <2>3, Zenon DEF ImportAlone, ImportOver
<1>. QED  BY <1>5, <1>6, <1>9, <1>10, Zenon DEF PluginInv

LEMMA CrashKeeps == ASSUME PluginAssumption, PluginFacts, PluginInv, Plugin!Crash PROVE PluginInv'
<1>0. /\ plugin_pc # "idle" /\ plugin_pc' = "idle" /\ crashes < MaxCrashes /\ crashes' = crashes + 1
      /\ plugin_dir' = plugin_dir /\ new' = new /\ movedOld' = movedOld /\ before' = before /\ deleting' = deleting
      /\ guest' = guest /\ saved' = saved /\ outcome' = outcome /\ first' = first /\ errors' = errors
  BY Zenon DEF Plugin!Crash, Plugin!imports, Plugin!ends
<1>1. Plugin!TypeOK'
  <2>1. crashes \in 0..MaxCrashes
    BY Zenon DEF PluginInv, Plugin!TypeOK
  <2>2. crashes' \in 0..MaxCrashes /\ plugin_pc' \in Plugin!PCs
    BY <1>0, <2>1 DEF PluginAssumption, Plugin!PCs
  <2>. QED  BY <1>0, <2>2, Zenon DEF PluginInv, Plugin!TypeOK
<1>2. ImportSteps' /\ ~Importing'
  BY <1>0, Zenon DEF ImportSteps, Importing, Forward
<1>3. ImportOver' /\ Plugin!ImportKeeps'
  BY <1>0, Zenon DEF PluginInv, ImportOver, Plugin!ImportKeeps
<1>. QED  BY <1>1, <1>2, <1>3, Zenon DEF PluginInv

LEMMA DeletePluginKeeps ==
    ASSUME PluginFacts, PluginInv, NEW d \in Plugin!Dirs, Plugin!DeletePlugin(d)
    PROVE  PluginInv'
<1>0. /\ plugin_pc' = "delete" /\ deleting' = d /\ guest' = NoApk /\ saved' = (saved /\ ~Plugin!Holds(d, Plugin!User))
      /\ outcome' = "none" /\ first' = "none" /\ plugin_dir' = plugin_dir /\ new' = new /\ movedOld' = movedOld
      /\ before' = before /\ errors' = errors /\ crashes' = crashes
  BY Zenon DEF Plugin!DeletePlugin, Plugin!imports, Plugin!faults
<1>1. Plugin!TypeOK'
  <2>1. plugin_pc' \in Plugin!PCs
    BY <1>0, Zenon DEF Plugin!PCs
  <2>2. saved' \in BOOLEAN
    BY <1>0, Zenon DEF PluginInv, Plugin!TypeOK
  <2>. QED  BY <1>0, <2>1, <2>2, Zenon DEF PluginInv, Plugin!TypeOK
<1>2. ImportSteps' /\ ~Importing'
  BY <1>0, Zenon DEF ImportSteps, Importing, Forward
<1>3. ImportOver' /\ Plugin!ImportKeeps'
  BY <1>0, Zenon DEF ImportOver, Plugin!ImportKeeps
<1>. QED  BY <1>1, <1>2, <1>3, Zenon DEF PluginInv

\* What the :guest process makes of the plugin's directory.
LEMMA GuestDirs ==
    ASSUME PluginFacts, PluginInv, NEW x \in SUBSET Plugin!Parts, plugin_dir' = [plugin_dir EXCEPT !["target"] = x],
           plugin_pc' = plugin_pc, new' = new, movedOld' = movedOld, first' = first
    PROVE  /\ DirsAre(x, plugin_dir["staging"], plugin_dir["backup"])
           /\ plugin_dir'["staging"] # NoDir => plugin_dir'["staging"] \cap Plugin!Data = {}
           /\ ImportSteps'
<1>1. x \in {NoDir} \cup SUBSET Plugin!Parts
  OBVIOUS
<1>2. DirsAre(x, plugin_dir["staging"], plugin_dir["backup"])
  BY <1>1, DirPut, Zenon
<1>3. plugin_dir'["staging"] # NoDir => plugin_dir'["staging"] \cap Plugin!Data = {}
  BY <1>2, Zenon DEF PluginInv, Plugin!TypeOK, DirsAre
<1>4. TheNew' = TheNew
  BY Zenon DEF TheNew
<1>5. ImportSteps'
  BY <1>2, <1>4, Zenon DEF PluginInv, ImportSteps, Importing, DirsAre
<1>. QED  BY <1>2, <1>3, <1>5, Zenon

LEMMA LaunchKeeps == ASSUME PluginFacts, PluginInv, NEW v \in Apks, Plugin!Launch(v) PROVE PluginInv'
<1>. DEFINE T == plugin_dir["target"]
            x == IF T \cap Plugin!Data = {} THEN T \cup {Plugin!Empty} ELSE T
<1>0. /\ T # NoDir /\ guest' = v /\ plugin_dir' = [plugin_dir EXCEPT !["target"] = x]
      /\ outcome' = IF plugin_pc = "idle" THEN "none" ELSE "shared"
      /\ plugin_pc' = plugin_pc /\ new' = new /\ movedOld' = movedOld /\ before' = before /\ deleting' = deleting
      /\ saved' = saved /\ first' = first /\ errors' = errors /\ crashes' = crashes
  BY Zenon DEF Plugin!Launch, Plugin!Holds, Plugin!imports, Plugin!faults
<1>1. x \in SUBSET Plugin!Parts
  BY <1>0, DirTyped, Zenon DEF PluginFacts
<1>. HIDE DEF x
<1>2. /\ DirsAre(x, plugin_dir["staging"], plugin_dir["backup"])
      /\ plugin_dir'["staging"] # NoDir => plugin_dir'["staging"] \cap Plugin!Data = {}
      /\ ImportSteps'
  BY <1>0, <1>1, GuestDirs, Zenon
<1>3. outcome' \in {"none", "shared"} /\ (Importing' => outcome' = "shared")
  BY <1>0, Zenon DEF Importing, Forward
<1>4. Plugin!TypeOK'
  <2>1. outcome' \in {"none", "shared", "ok", "failed"}
    BY <1>3, Zenon
  <2>. QED  BY <1>0, <1>2, <2>1, Zenon DEF PluginInv, Plugin!TypeOK, DirsAre
<1>5. ImportOver' /\ Plugin!ImportKeeps' /\ (Importing' => outcome' # "none")
  BY <1>3, Zenon DEF ImportOver, Plugin!ImportKeeps
<1>. QED  BY <1>2, <1>4, <1>5, Zenon DEF PluginInv

LEMMA PlayKeeps == ASSUME PluginFacts, PluginInv, Plugin!Play PROVE PluginInv'
<1>. DEFINE T == plugin_dir["target"]
            x == (IF T = NoDir THEN {} ELSE T \ {Plugin!Empty}) \cup {Plugin!User}
<1>0. /\ guest # NoApk /\ plugin_dir' = [plugin_dir EXCEPT !["target"] = x] /\ saved' = TRUE
      /\ plugin_pc' = plugin_pc /\ new' = new /\ movedOld' = movedOld /\ before' = before /\ deleting' = deleting
      /\ guest' = guest /\ outcome' = outcome /\ first' = first /\ errors' = errors /\ crashes' = crashes
  BY Zenon DEF Plugin!Play, Plugin!imports, Plugin!ends, Plugin!faults
<1>1. x \in SUBSET Plugin!Parts
  BY DirTyped, Zenon DEF PluginFacts
<1>. HIDE DEF x
<1>2. /\ DirsAre(x, plugin_dir["staging"], plugin_dir["backup"])
      /\ plugin_dir'["staging"] # NoDir => plugin_dir'["staging"] \cap Plugin!Data = {}
      /\ ImportSteps'
  BY <1>0, <1>1, GuestDirs, Zenon
<1>3. Plugin!TypeOK'
  BY <1>0, <1>2, Zenon DEF PluginInv, Plugin!TypeOK, DirsAre
<1>4. /\ outcome \notin {"ok", "failed"}
      /\ ~(Importing /\ outcome = "none")
  BY <1>0, Zenon DEF PluginInv, ImportOver, ImportAlone
<1>5. ImportOver' /\ Plugin!ImportKeeps' /\ ~(Importing' /\ outcome' = "none")
  BY <1>0, <1>4, Zenon DEF ImportOver, Plugin!ImportKeeps, Importing
<1>. QED  BY <1>2, <1>3, <1>5, Zenon DEF PluginInv

\* The plugin ends, or nothing happens.
LEMMA GuestGone ==
    ASSUME PluginInv, guest' \in {guest, NoApk}, plugin_dir' = plugin_dir, plugin_pc' = plugin_pc, new' = new,
           movedOld' = movedOld, before' = before, deleting' = deleting, saved' = saved, outcome' = outcome,
           first' = first, errors' = errors, crashes' = crashes
    PROVE  PluginInv'
<1>1. Plugin!TypeOK'
  <2>1. guest' \in Apks \cup {NoApk}
    BY Zenon DEF PluginInv, Plugin!TypeOK
  <2>. QED  BY <2>1, Zenon DEF PluginInv, Plugin!TypeOK
<1>2. ImportSteps' /\ Importing' = Importing
  BY Zenon DEF PluginInv, ImportSteps, Importing, TheNew
<1>3. ImportAlone => ImportAlone'
  BY Zenon DEF ImportAlone, OldAside, NewInPlace, TheNew, Plugin!DataOf
<1>4. ImportOver'
  BY Zenon DEF PluginInv, ImportOver
<1>5. Plugin!ImportKeeps'
  BY Zenon DEF PluginInv, Plugin!ImportKeeps, Plugin!DataOf
<1>. QED  BY <1>1, <1>2, <1>3, <1>4, <1>5, Zenon DEF PluginInv

LEMMA PluginNext ==
    ASSUME PluginAssumption, PluginInv, [Plugin!Next]_(Plugin!vars)
    PROVE  PluginInv'
<1>0. PluginFacts
  BY PluginFactsHold, Zenon
<1>1. ASSUME Plugin!EndGuest \/ UNCHANGED Plugin!vars PROVE PluginInv'
  <2>1. /\ guest' \in {guest, NoApk} /\ plugin_dir' = plugin_dir /\ plugin_pc' = plugin_pc /\ new' = new
        /\ movedOld' = movedOld /\ before' = before /\ deleting' = deleting /\ saved' = saved /\ outcome' = outcome
        /\ first' = first /\ errors' = errors /\ crashes' = crashes
    BY <1>1, Zenon DEF Plugin!EndGuest, Plugin!vars, Plugin!imports, Plugin!ends, Plugin!faults
  <2>. QED  BY <2>1, GuestGone, Zenon
<1>2. ASSUME NEW v \in Apks, Plugin!Import(v) \/ Plugin!Launch(v) PROVE PluginInv'
  BY <1>0, <1>2, PluginImportInv, LaunchKeeps, Zenon
<1>. QED  BY <1>0, <1>1, <1>2, DeletePartKeeps, MakeStagingKeeps, ExtractKeeps, SaveKeeps, DeleteDoneKeeps, MoveOldKeeps,
            MoveNewKeeps, MoveChildKeeps, ReadBackKeeps, UndoOldKeeps, IoErrorKeeps, CrashKeeps, DeletePluginKeeps,
            PlayKeeps, Zenon DEF Plugin!Next

\* A record appears under the plugin's name.
RecordAppears == ~Plugin!HasRecord(plugin_dir["target"]) /\ Plugin!HasRecord(plugin_dir'["target"])
RecordWhole == \/ \E v \in Apks : {Plugin!Apk(v), Plugin!Meta(v)} \subseteq plugin_dir'["target"]
               \/ movedOld /\ plugin_dir'["target"] = plugin_dir["backup"]

LEMMA NoNewRecord ==
    ASSUME \/ plugin_dir'["target"] \in {NoDir, plugin_dir["target"]}
           \/ /\ plugin_dir["target"] # NoDir
              /\ \A v \in Apks : Plugin!Meta(v) \in plugin_dir'["target"] => Plugin!Meta(v) \in plugin_dir["target"]
           \/ \A v \in Apks : Plugin!Meta(v) \notin plugin_dir'["target"]
    PROVE  ~RecordAppears
<1>1. CASE plugin_dir'["target"] = NoDir
  BY <1>1, Zenon DEF RecordAppears, Plugin!HasRecord
<1>2. CASE plugin_dir'["target"] = plugin_dir["target"]
  BY <1>2, Zenon DEF RecordAppears
<1>3. CASE /\ plugin_dir["target"] # NoDir
           /\ \A v \in Apks : Plugin!Meta(v) \in plugin_dir'["target"] => Plugin!Meta(v) \in plugin_dir["target"]
  BY <1>3, Zenon DEF RecordAppears, Plugin!HasRecord
<1>4. CASE \A v \in Apks : Plugin!Meta(v) \notin plugin_dir'["target"]
  BY <1>4, Zenon DEF RecordAppears, Plugin!HasRecord
<1>. QED  BY <1>1, <1>2, <1>3, <1>4, Zenon

LEMMA MoveNewWhole == ASSUME PluginFacts, PluginInv, Plugin!MoveNew PROVE RecordAppears => RecordWhole
<1>1. CASE plugin_dir' = plugin_dir
  BY <1>1, NoNewRecord, Zenon
<1>2. CASE Plugin!Move("staging", "target")
  <2>1. plugin_dir'["target"] = plugin_dir["staging"]
    BY <1>2, DirMove, Zenon DEF DirsAre
  <2>2. plugin_pc = "move_new"
    BY Zenon DEF Plugin!MoveNew
  <2>3. new \in Apks /\ plugin_dir["staging"] = TheNew
    BY <2>2, Zenon DEF PluginInv, ImportSteps, Importing, Forward
  <2>. QED  BY <2>1, <2>3, Zenon DEF TheNew, RecordWhole
<1>. QED  BY <1>1, <1>2, Zenon DEF Plugin!MoveNew

LEMMA MoveChildWhole == ASSUME PluginFacts, PluginInv, Plugin!MoveChild PROVE ~RecordAppears
<1>. DEFINE T == plugin_dir["target"]
            B == plugin_dir["backup"]
            old == Plugin!DataOf(B)
            NewT == IF old = {} THEN T \cup {Plugin!Empty} ELSE (T \ Plugin!Data) \cup old
<1>1. CASE plugin_dir' = plugin_dir
  BY <1>1, NoNewRecord, Zenon
<1>2. CASE plugin_dir' = [plugin_dir EXCEPT !["target"] = NewT, !["backup"] = IF B = NoDir THEN NoDir ELSE B \ old]
  <2>1. plugin_dir'["target"] = NewT
    <3>1. plugin_dir \in [Plugin!Dirs -> {NoDir} \cup SUBSET Plugin!Parts] /\ "target" \in Plugin!Dirs
      BY DirTyped, Zenon DEF PluginFacts
    <3>. HIDE DEF NewT, old
    <3>. QED  BY <1>2, <3>1, Zenon
  <2>2. plugin_pc = "move_child"
    BY Zenon DEF Plugin!MoveChild
  <2>3. T # NoDir
    BY <2>2, Zenon DEF PluginInv, ImportSteps, PluginFacts
  <2>4. \A v \in Apks : Plugin!Meta(v) \in NewT => Plugin!Meta(v) \in T
    BY Zenon DEF Plugin!DataOf, PluginFacts
  <2>. QED  BY <2>1, <2>3, <2>4, NoNewRecord, Zenon
<1>. QED  BY <1>1, <1>2, Zenon DEF Plugin!MoveChild

LEMMA UndoOldWhole == ASSUME PluginFacts, PluginInv, Plugin!UndoOld PROVE RecordAppears => RecordWhole
<1>1. CASE plugin_dir' = plugin_dir
  BY <1>1, NoNewRecord, Zenon
<1>2. CASE movedOld /\ Plugin!Move("backup", "target")
  BY <1>2, DirMove, Zenon DEF DirsAre, RecordWhole
<1>. QED  BY <1>1, <1>2, Zenon DEF Plugin!UndoOld

LEMMA DeletesWhole ==
    ASSUME PluginFacts, PluginInv, Plugin!DeletePart \/ Plugin!DeleteDone
    PROVE  ~RecordAppears
<1>1. CASE Plugin!DeletePart
  <2>1. PICK x \in SUBSET Plugin!Parts :
          /\ x \subseteq plugin_dir[Plugin!Deleted] /\ plugin_dir[Plugin!Deleted] # NoDir
          /\ plugin_dir' = [plugin_dir EXCEPT ![Plugin!Deleted] = x]
          /\ Plugin!Deleted = "staging" => x \cap Plugin!Data = {}
    BY <1>1, DeletePartDirs, Zenon
  <2>2. Plugin!Deleting /\ x \in {NoDir} \cup SUBSET Plugin!Parts
    BY <1>1, Zenon DEF Plugin!DeletePart
  <2>3. /\ Plugin!Deleted # "target" => plugin_dir'["target"] = plugin_dir["target"]
        /\ Plugin!Deleted = "target" => plugin_dir'["target"] = x
    BY <2>1, <2>2, ShrinkKeeps, Zenon
  <2>4. CASE Plugin!Deleted # "target"
    BY <2>3, <2>4, NoNewRecord, Zenon
  <2>5. CASE Plugin!Deleted = "target"
    <3>1. plugin_dir["target"] # NoDir /\ plugin_dir'["target"] = x /\ x \subseteq plugin_dir["target"]
      BY <2>1, <2>3, <2>5, Zenon
    <3>. QED  BY <3>1, NoNewRecord, Zenon
  <2>. QED  BY <2>4, <2>5, Zenon
<1>2. CASE Plugin!DeleteDone
  <2>1. Plugin!Deleting /\ plugin_dir' = [plugin_dir EXCEPT ![Plugin!Deleted] = NoDir]
    BY <1>2, Zenon DEF Plugin!DeleteDone
  <2>2. NoDir \in {NoDir} \cup SUBSET Plugin!Parts
    OBVIOUS
  <2>3. /\ Plugin!Deleted # "target" => plugin_dir'["target"] = plugin_dir["target"]
        /\ Plugin!Deleted = "target" => plugin_dir'["target"] = NoDir
    BY <2>1, <2>2, ShrinkKeeps, Zenon
  <2>. QED  BY <2>3, NoNewRecord, Zenon
<1>. QED  BY <1>1, <1>2, Zenon

\* Staging alone changes, or the old directory is set aside.
LEMMA StagingWhole ==
    ASSUME PluginFacts, PluginInv, Plugin!MakeStaging \/ Plugin!Extract \/ Plugin!Save \/ Plugin!MoveOld
    PROVE  ~RecordAppears
<1>0. plugin_dir \in [Plugin!Dirs -> {NoDir} \cup SUBSET Plugin!Parts] /\ "target" \in Plugin!Dirs
      /\ "staging" \in Plugin!Dirs
  BY DirTyped, Zenon DEF PluginFacts
<1>1. CASE plugin_dir' = plugin_dir
  BY <1>1, NoNewRecord, Zenon
<1>2. CASE \E s : plugin_dir' = [plugin_dir EXCEPT !["staging"] = s]
  <2>1. plugin_dir'["target"] = plugin_dir["target"]
    BY <1>0, <1>2, Zenon
  <2>. QED  BY <2>1, NoNewRecord, Zenon
<1>3. CASE Plugin!Move("target", "backup")
  <2>1. plugin_dir'["target"] = NoDir
    BY <1>3, DirMove, Zenon DEF DirsAre
  <2>. QED  BY <2>1, NoNewRecord, Zenon
<1>. QED  BY <1>1, <1>2, <1>3, Zenon DEF Plugin!MakeStaging, Plugin!Extract, Plugin!Save, Plugin!MoveOld

LEMMA GuestWhole ==
    ASSUME PluginFacts, PluginInv, Plugin!Play \/ \E v \in Apks : Plugin!Launch(v)
    PROVE  ~RecordAppears
<1>. DEFINE T == plugin_dir["target"]
<1>0. plugin_dir \in [Plugin!Dirs -> {NoDir} \cup SUBSET Plugin!Parts] /\ "target" \in Plugin!Dirs
  BY DirTyped, Zenon DEF PluginFacts
<1>1. CASE Plugin!Play
  <2>. DEFINE x == (IF T = NoDir THEN {} ELSE T \ {Plugin!Empty}) \cup {Plugin!User}
  <2>1. plugin_dir' = [plugin_dir EXCEPT !["target"] = x]
    BY <1>1, Zenon DEF Plugin!Play
  <2>2. plugin_dir'["target"] = x
    <3>. HIDE DEF x
    <3>. QED  BY <1>0, <2>1, Zenon
  <2>3. CASE T = NoDir
    <3>1. \A v \in Apks : Plugin!Meta(v) \notin x
      BY <2>3 DEF PluginFacts
    <3>. QED  BY <2>2, <3>1, NoNewRecord, ZenonT(30)
  <2>4. CASE T # NoDir
    <3>1. \A v \in Apks : Plugin!Meta(v) \in x => Plugin!Meta(v) \in T
      BY <2>4, Zenon DEF PluginFacts
    <3>. QED  BY <2>2, <2>4, <3>1, NoNewRecord, Zenon
  <2>. QED  BY <2>3, <2>4, Zenon
<1>2. CASE \E v \in Apks : Plugin!Launch(v)
  <2>1. Plugin!HasRecord(T)
    BY <1>2, Zenon DEF Plugin!Launch
  <2>. QED  BY <2>1, Zenon DEF RecordAppears
<1>. QED  BY <1>1, <1>2, Zenon

LEMMA PublishesWhole ==
    ASSUME PluginAssumption, PluginInv, [Plugin!Next]_(Plugin!vars)
    PROVE  RecordAppears => RecordWhole
<1>0. PluginFacts
  BY PluginFactsHold, Zenon
<1>1. CASE plugin_dir' = plugin_dir
  BY <1>1, NoNewRecord, Zenon
<1>2. \/ Plugin!ReadBack \/ Plugin!IoError \/ Plugin!Crash \/ Plugin!EndGuest \/ UNCHANGED Plugin!vars
      \/ \E v \in Apks : Plugin!Import(v)
      \/ \E d \in Plugin!Dirs : Plugin!DeletePlugin(d)
      => plugin_dir' = plugin_dir
  BY Zenon DEF Plugin!ReadBack, Plugin!IoError, Plugin!Crash, Plugin!EndGuest, Plugin!vars, Plugin!Import,
               Plugin!DeletePlugin
<1>. QED  BY <1>0, <1>1, <1>2, MoveNewWhole, MoveChildWhole, UndoOldWhole, DeletesWhole, StagingWhole, GuestWhole,
            Zenon DEF Plugin!Next

-----------------------------------------------------------------------------
\* The last copy of the user's data.
UserIn(parts) == parts # NoDir /\ Plugin!User \in parts

\* The old plugin is set aside over nothing, its backup is dropped without the
\* data, and an import that no one disturbed undoes a target without data.
UserInv ==
    /\ plugin_pc \in {"move_old", "drop_old"} => ~UserIn(plugin_dir["backup"])
    /\ plugin_pc = "undo_target" /\ outcome = "none" /\ first # "move_old" => ~UserIn(plugin_dir["target"])

UserStays ==
    UserIn(plugin_dir["target"]) \/ UserIn(plugin_dir["staging"]) \/ UserIn(plugin_dir["backup"])
    => UserIn(plugin_dir'["target"]) \/ UserIn(plugin_dir'["staging"]) \/ UserIn(plugin_dir'["backup"])

UserLost ==
    \/ plugin_pc = "delete"
    \/ plugin_pc = "drop" /\ UserIn(plugin_dir["backup"])
    \/ plugin_pc = "undo_target" /\ (first = "move_old" \/ outcome = "shared")

LEMMA UserExists ==
    ASSUME PluginFacts
    PROVE  Plugin!UserDataExists <=>
             UserIn(plugin_dir["target"]) \/ UserIn(plugin_dir["staging"]) \/ UserIn(plugin_dir["backup"])
BY Zenon DEF PluginFacts, Plugin!UserDataExists, Plugin!Holds, UserIn

LEMMA UserExistsNext ==
    ASSUME PluginFacts
    PROVE  Plugin!UserDataExists' <=>
             UserIn(plugin_dir'["target"]) \/ UserIn(plugin_dir'["staging"]) \/ UserIn(plugin_dir'["backup"])
BY Zenon DEF PluginFacts, Plugin!UserDataExists, Plugin!Holds, UserIn

LEMMA NotStaged == ASSUME PluginFacts, PluginInv PROVE ~UserIn(plugin_dir["staging"])
BY Zenon DEF PluginFacts, PluginInv, Plugin!TypeOK, UserIn

LEMMA GoneHasNone == ASSUME NEW d, Plugin!Gone(d) PROVE ~UserIn(plugin_dir[d])
BY Zenon DEF Plugin!Gone, UserIn

\* Staging alone changes.
LEMMA StagingUser ==
    ASSUME PluginFacts, PluginInv, Plugin!MakeStaging \/ Plugin!Extract \/ Plugin!Save
    PROVE  UserStays /\ UserInv'
<1>0. plugin_dir \in [Plugin!Dirs -> {NoDir} \cup SUBSET Plugin!Parts] /\ "target" \in Plugin!Dirs
      /\ "staging" \in Plugin!Dirs /\ "backup" \in Plugin!Dirs
  BY DirTyped, Zenon DEF PluginFacts
<1>1. PICK s : plugin_dir' = [plugin_dir EXCEPT !["staging"] = s]
  BY Zenon DEF Plugin!MakeStaging, Plugin!Extract, Plugin!Save
<1>2. plugin_dir'["target"] = plugin_dir["target"] /\ plugin_dir'["backup"] = plugin_dir["backup"]
  BY <1>0, <1>1, Zenon
<1>3. plugin_pc' \in {"extract", "save", "drop"}
  BY Zenon DEF Plugin!MakeStaging, Plugin!Extract, Plugin!Save
<1>. QED  BY <1>2, <1>3, NotStaged, Zenon DEF UserStays, UserInv

LEMMA MoveUser ==
    ASSUME PluginFacts, PluginInv, UserInv, Plugin!MoveOld \/ Plugin!MoveNew \/ Plugin!UndoOld
    PROVE  UserStays /\ UserInv'
<1>1. CASE Plugin!MoveOld
  <2>1. plugin_pc = "move_old" /\ plugin_pc' = "move_new"
    BY <1>1, Zenon DEF Plugin!MoveOld
  <2>2. plugin_dir' = plugin_dir \/ DirsAre(NoDir, plugin_dir["staging"], plugin_dir["target"])
    BY <1>1, DirMove, Zenon DEF Plugin!MoveOld
  <2>. QED  BY <2>1, <2>2, NotStaged, Zenon DEF UserStays, UserInv, DirsAre
<1>2. CASE Plugin!UndoOld
  <2>1. plugin_pc' = "discard"
    BY <1>2, Zenon DEF Plugin!UndoOld
  <2>2. CASE plugin_dir' = plugin_dir
    BY <2>1, <2>2, Zenon DEF UserStays, UserInv
  <2>3. CASE Plugin!CanMove("backup", "target") /\ Plugin!Move("backup", "target")
    <3>1. ~UserIn(plugin_dir["target"]) /\ DirsAre(plugin_dir["backup"], plugin_dir["staging"], NoDir)
      BY <2>3, GoneHasNone, DirMove, Zenon DEF Plugin!CanMove
    <3>. QED  BY <2>1, <3>1, NotStaged, Zenon DEF UserStays, UserInv, DirsAre
  <2>. QED  BY <1>2, <2>2, <2>3, Zenon DEF Plugin!UndoOld
<1>3. CASE Plugin!MoveNew
  <2>1. plugin_pc = "move_new"
    BY <1>3, Zenon DEF Plugin!MoveNew
  <2>2. CASE Plugin!CanMove("staging", "target") /\ Plugin!Move("staging", "target") /\ plugin_pc' = "move_child"
    <3>1. ~UserIn(plugin_dir["target"]) /\ DirsAre(plugin_dir["staging"], NoDir, plugin_dir["backup"])
      BY <2>2, GoneHasNone, DirMove, Zenon DEF Plugin!CanMove
    <3>. QED  BY <2>2, <3>1, NotStaged, Zenon DEF UserStays, UserInv, DirsAre
  <2>3. CASE Plugin!Throw /\ plugin_dir' = plugin_dir
    <3>1. plugin_pc' = "undo_target" /\ outcome' = outcome
      BY <2>1, <2>3, Zenon DEF Plugin!Throw
    <3>2. outcome = "none" => plugin_dir["target"] = NoDir
      BY <2>1, Zenon DEF PluginInv, Importing, Forward, ImportAlone
    <3>. QED  BY <2>3, <3>1, <3>2, Zenon DEF UserStays, UserInv, UserIn
  <2>. QED  BY <1>3, <2>2, <2>3, Zenon DEF Plugin!MoveNew
<1>. QED  BY <1>1, <1>2, <1>3, Zenon

\* What turns back from moving the data leaves a target without it.
LEMMA ThrowUser ==
    ASSUME PluginFacts, PluginInv, Plugin!Throw, plugin_dir' = plugin_dir, plugin_pc \in Throwing
    PROVE  UserStays /\ UserInv'
<1>1. /\ plugin_pc = "clear" => plugin_pc' = "idle"
      /\ plugin_pc \in {"extract", "save", "undo_old", "read"} => plugin_pc' = "discard"
      /\ plugin_pc \in {"move_old", "move_new", "move_child"} => plugin_pc' = "undo_target" /\ outcome' = outcome
      /\ plugin_pc = "move_old" => first' = "move_old"
  BY Zenon DEF Plugin!Throw, PluginInv, ImportSteps, Forward
<1>2. outcome = "none" /\ plugin_pc \in {"move_new", "move_child"} => plugin_dir["target"] \in {NoDir, TheNew}
  BY Zenon DEF PluginInv, Importing, Forward, ImportAlone
<1>3. plugin_pc \in Forward => Plugin!User \notin TheNew
  BY Zenon DEF PluginFacts, TheNew, PluginInv, ImportSteps, Importing
<1>. QED  BY <1>1, <1>2, <1>3, Zenon DEF UserStays, UserInv, UserIn, Throwing, Forward

LEMMA MoveChildUser ==
    ASSUME PluginFacts, PluginInv, Plugin!MoveChild
    PROVE  UserStays /\ UserInv'
<1>. DEFINE T == plugin_dir["target"]
            B == plugin_dir["backup"]
            old == Plugin!DataOf(B)
            NewT == IF old = {} THEN T \cup {Plugin!Empty} ELSE (T \ Plugin!Data) \cup old
            NewB == IF B = NoDir THEN NoDir ELSE B \ old
<1>0. plugin_pc = "move_child"
  BY Zenon DEF Plugin!MoveChild
<1>1. CASE Plugin!Throw /\ plugin_dir' = plugin_dir
  BY <1>0, <1>1, ThrowUser, Zenon DEF Throwing
<1>2. CASE /\ IF old = {} THEN Plugin!DataOf(T) = {} ELSE Plugin!User \notin Plugin!DataOf(T)
           /\ plugin_dir' = [plugin_dir EXCEPT !["target"] = NewT, !["backup"] = NewB]
           /\ plugin_pc' = "drop_old"
  <2>1. Plugin!User \in Plugin!Data /\ old \subseteq Plugin!Parts /\ T \in SUBSET Plugin!Parts
    BY <1>0, Zenon DEF Plugin!DataOf, PluginFacts, PluginInv, ImportSteps
  <2>2. plugin_dir'["target"] = NewT /\ plugin_dir'["backup"] = NewB
    <3>. HIDE DEF NewT, NewB
    <3>1. "target" \in Plugin!Dirs /\ "backup" \in Plugin!Dirs
      BY Zenon DEF PluginFacts
    <3>2. plugin_dir \in [Plugin!Dirs -> {NoDir} \cup SUBSET Plugin!Parts]
      BY DirTyped, Zenon
    <3>. QED  BY <1>2, <3>1, <3>2, Zenon
  <2>3. NewT \in SUBSET Plugin!Parts
    BY <2>1, Zenon DEF PluginFacts
  <2>4. NewT # NoDir
    BY <2>3, Zenon DEF PluginFacts
  <2>5. ~UserIn(NewB) /\ (UserIn(B) => Plugin!User \in old)
    BY <2>1, Zenon DEF UserIn, Plugin!DataOf
  <2>6. ~UserIn(T)
    BY <1>2, <2>1, Zenon DEF UserIn, Plugin!DataOf
  <2>7. Plugin!User \in old => UserIn(NewT)
    BY <2>4, Zenon DEF UserIn
  <2>. QED  BY <1>2, <2>2, <2>5, <2>6, <2>7, NotStaged, Zenon DEF UserStays, UserInv
<1>. QED  BY <1>1, <1>2, Zenon DEF Plugin!MoveChild

LEMMA DeleteUser ==
    ASSUME PluginFacts, PluginInv, UserInv, Plugin!DeletePart \/ Plugin!DeleteDone
    PROVE  (UserStays \/ UserLost) /\ UserInv'
<1>1. PICK x \in {NoDir} \cup SUBSET Plugin!Parts :
        /\ Plugin!Deleting /\ plugin_dir' = [plugin_dir EXCEPT ![Plugin!Deleted] = x]
        /\ UserIn(x) => UserIn(plugin_dir[Plugin!Deleted])
        /\ Plugin!Deleted = "staging" /\ x # NoDir => x \cap Plugin!Data = {}
  <2>1. CASE Plugin!DeletePart
    <3>1. PICK x \in SUBSET Plugin!Parts :
            /\ x \subseteq plugin_dir[Plugin!Deleted] /\ plugin_dir[Plugin!Deleted] # NoDir
            /\ plugin_dir' = [plugin_dir EXCEPT ![Plugin!Deleted] = x]
            /\ Plugin!Deleted = "staging" => x \cap Plugin!Data = {}
      BY <2>1, DeletePartDirs, Zenon
    <3>2. Plugin!Deleting /\ x \in {NoDir} \cup SUBSET Plugin!Parts
      BY <2>1, Zenon DEF Plugin!DeletePart
    <3>. QED  BY <3>1, <3>2, Zenon DEF UserIn
  <2>2. CASE Plugin!DeleteDone
    <3>1. Plugin!Deleting /\ plugin_dir' = [plugin_dir EXCEPT ![Plugin!Deleted] = NoDir] /\ ~UserIn(NoDir)
          /\ NoDir \in {NoDir} \cup SUBSET Plugin!Parts
      BY <2>2, Zenon DEF Plugin!DeleteDone, UserIn
    <3>. QED  BY <3>1, Zenon
  <2>. QED  BY <2>1, <2>2, Zenon
<1>2. /\ plugin_pc \in {"clear", "discard"} => DirsAre(plugin_dir["target"], x, plugin_dir["backup"])
      /\ plugin_pc \in {"drop", "drop_old"} => DirsAre(plugin_dir["target"], plugin_dir["staging"], x)
      /\ plugin_pc = "undo_target" => DirsAre(x, plugin_dir["staging"], plugin_dir["backup"])
  BY <1>1, ShrinkKeeps, Zenon
<1>3. plugin_pc \in {"clear", "discard", "drop", "drop_old", "undo_target", "delete"}
      /\ (plugin_pc \in {"drop", "drop_old"} => Plugin!Deleted = "backup")
      /\ (plugin_pc = "undo_target" => Plugin!Deleted = "target")
  BY <1>1, DeletedIs, Zenon
<1>4. outcome \in {"none", "shared"} \/ plugin_pc # "undo_target"
  BY Zenon DEF PluginInv, ImportOver, Plugin!TypeOK
<1>5. UserStays \/ UserLost
  <2>1. CASE plugin_pc \in {"clear", "discard"}
    BY <1>2, <2>1, NotStaged, Zenon DEF UserStays, DirsAre
  <2>2. CASE plugin_pc \in {"drop", "drop_old"}
    BY <1>2, <2>2, Zenon DEF UserStays, UserLost, UserInv, DirsAre
  <2>3. CASE plugin_pc = "undo_target"
    BY <1>2, <1>4, <2>3, Zenon DEF UserStays, UserLost, UserInv, DirsAre
  <2>. QED  BY <1>3, <2>1, <2>2, <2>3, Zenon DEF UserLost
<1>6. CASE Plugin!DeletePart
  <2>1. plugin_pc' = plugin_pc /\ outcome' = outcome /\ first' = first
    BY <1>6, Zenon DEF Plugin!DeletePart, Plugin!ends
  <2>. QED  BY <1>1, <1>2, <1>3, <1>5, <2>1, Zenon DEF UserInv, DirsAre
<1>7. CASE Plugin!DeleteDone
  <2>1. /\ plugin_dir' = [plugin_dir EXCEPT ![Plugin!Deleted] = NoDir] /\ plugin_pc # "clear"
        /\ plugin_pc = "drop" => plugin_pc' = "move_old"
        /\ plugin_pc = "drop_old" => plugin_pc' = "read"
        /\ plugin_pc = "undo_target" => plugin_pc' = "undo_old"
        /\ plugin_pc \in {"discard", "delete"} => plugin_pc' = "idle"
    BY <1>7, Zenon DEF Plugin!DeleteDone
  <2>2. plugin_pc = "drop" => ~UserIn(plugin_dir'["backup"])
    <3>1. "backup" \in Plugin!Dirs /\ plugin_dir \in [Plugin!Dirs -> {NoDir} \cup SUBSET Plugin!Parts]
      BY DirTyped, Zenon DEF PluginFacts
    <3>2. plugin_pc = "drop" => plugin_dir'["backup"] = NoDir
      BY <1>3, <2>1, <3>1, Zenon
    <3>. QED  BY <3>2, Zenon DEF UserIn
  <2>. QED  BY <1>3, <1>5, <2>1, <2>2, Zenon DEF UserInv
<1>. QED  BY <1>6, <1>7, Zenon

LEMMA GuestUser ==
    ASSUME PluginFacts, PluginInv, UserInv, Plugin!Play \/ \E v \in Apks : Plugin!Launch(v)
    PROVE  UserStays /\ UserInv'
<1>. DEFINE T == plugin_dir["target"]
<1>0. plugin_dir \in [Plugin!Dirs -> {NoDir} \cup SUBSET Plugin!Parts] /\ "target" \in Plugin!Dirs
      /\ "staging" \in Plugin!Dirs /\ "backup" \in Plugin!Dirs
  BY DirTyped, Zenon DEF PluginFacts
<1>1. PICK x \in SUBSET Plugin!Parts :
        plugin_dir' = [plugin_dir EXCEPT !["target"] = x] /\ (UserIn(T) => Plugin!User \in x)
  <2>1. CASE Plugin!Play
    <3>. DEFINE y == (IF T = NoDir THEN {} ELSE T \ {Plugin!Empty}) \cup {Plugin!User}
    <3>1. y \in SUBSET Plugin!Parts /\ Plugin!User \in y
      BY DirTyped, Zenon DEF PluginFacts
    <3>2. plugin_dir' = [plugin_dir EXCEPT !["target"] = y]
      BY <2>1, Zenon DEF Plugin!Play
    <3>. HIDE DEF y
    <3>. QED  BY <3>1, <3>2, Zenon
  <2>2. CASE \E v \in Apks : Plugin!Launch(v)
    <3>. DEFINE y == IF T \cap Plugin!Data = {} THEN T \cup {Plugin!Empty} ELSE T
    <3>1. T # NoDir /\ plugin_dir' = [plugin_dir EXCEPT !["target"] = y]
      BY <2>2, Zenon DEF Plugin!Launch, Plugin!Holds
    <3>2. y \in SUBSET Plugin!Parts /\ (UserIn(T) => Plugin!User \in y)
      BY <3>1, DirTyped, Zenon DEF PluginFacts, UserIn
    <3>. HIDE DEF y
    <3>. QED  BY <3>1, <3>2, Zenon
  <2>. QED  BY <2>1, <2>2, Zenon
<1>2. plugin_dir'["target"] = x /\ plugin_dir'["backup"] = plugin_dir["backup"] /\ x # NoDir
      /\ plugin_dir'["staging"] = plugin_dir["staging"]
  BY <1>0, <1>1, Zenon DEF PluginFacts
<1>3. plugin_pc' = plugin_pc /\ (outcome' = "none" => plugin_pc = "idle" \/ (outcome = "none" /\ guest # NoApk))
  BY Zenon DEF Plugin!Play, Plugin!Launch, Plugin!ends
<1>4. plugin_pc = "undo_target" /\ outcome = "none" => guest = NoApk
  BY Zenon DEF PluginInv, Importing, ImportAlone
<1>. QED  BY <1>1, <1>2, <1>3, <1>4, Zenon DEF UserStays, UserInv, UserIn

LEMMA UserNext ==
    ASSUME PluginAssumption, PluginInv, UserInv, [Plugin!Next]_(Plugin!vars)
    PROVE  (UserStays \/ UserLost) /\ UserInv'
<1>0. PluginFacts
  BY PluginFactsHold, Zenon
<1>1. ASSUME Plugin!ReadBack \/ Plugin!Crash \/ (\E v \in Apks : Plugin!Import(v))
               \/ (\E d \in Plugin!Dirs : Plugin!DeletePlugin(d))
      PROVE  UserStays /\ UserInv'
  <2>1. plugin_dir' = plugin_dir /\ plugin_pc' \in {"discard", "idle", "clear", "delete"}
    BY <1>1, Zenon DEF Plugin!ReadBack, Plugin!Crash, Plugin!Import, Plugin!DeletePlugin
  <2>. QED  BY <2>1, Zenon DEF UserStays, UserInv
<1>2. ASSUME Plugin!EndGuest \/ UNCHANGED Plugin!vars PROVE UserStays /\ UserInv'
  <2>1. plugin_dir' = plugin_dir /\ plugin_pc' = plugin_pc /\ outcome' = outcome /\ first' = first
    BY <1>2, Zenon DEF Plugin!EndGuest, Plugin!vars, Plugin!ends
  <2>. QED  BY <2>1, Zenon DEF UserStays, UserInv
<1>3. ASSUME Plugin!IoError PROVE UserStays /\ UserInv'
  <2>1. Plugin!Throw /\ plugin_dir' = plugin_dir /\ plugin_pc \in Throwing
    BY <1>3, Zenon DEF Plugin!IoError, Throwing
  <2>. QED  BY <1>0, <2>1, ThrowUser, Zenon
<1>. QED  BY <1>0, <1>1, <1>2, <1>3, StagingUser, MoveUser, MoveChildUser, DeleteUser, GuestUser, Zenon DEF Plugin!Next

(***************************************************************************)
(* What an import does to a plugin, for any APKs and any numbers of I/O    *)
(* errors and crashes.  One that ends well has published the whole new     *)
(* program over the data it found in the plugin's directory; one that      *)
(* fails has restored that directory, but for the failures and the launch  *)
(* that ImportKeeps names.  The last copy of the user's data is deleted by *)
(* the user or in one of the two deletions of replaceDirectoryKeeping that *)
(* DataLostOnly names, a crash before it or not.  A record never appears   *)
(* without its program (the completion marker of importApk).               *)
(***************************************************************************)
THEOREM ImportsKeepThePlugin == ASSUME PluginAssumption PROVE Plugin!Spec => Plugin!ImportsSafe
<1>1. Plugin!Init => PluginInv
  BY PluginInit, Zenon
<1>2. PluginInv /\ [Plugin!Next]_(Plugin!vars) => PluginInv'
  BY PluginNext, Zenon
<1>3. PluginInv => Plugin!TypeOK /\ Plugin!ImportKeeps
  BY Zenon DEF PluginInv
<1>4. PluginInv /\ [Plugin!Next]_(Plugin!vars) =>
        [~Plugin!HasRecord(plugin_dir["target"]) /\ Plugin!HasRecord(plugin_dir'["target"])
           => \/ \E v \in Apks : {Plugin!Apk(v), Plugin!Meta(v)} \subseteq plugin_dir'["target"]
              \/ movedOld /\ plugin_dir'["target"] = plugin_dir["backup"]]_(Plugin!vars)
  BY PublishesWhole, Zenon DEF RecordAppears, RecordWhole
<1>5. Plugin!Init => UserInv
  BY Zenon DEF Plugin!Init, UserInv
<1>6. PluginInv /\ UserInv /\ [Plugin!Next]_(Plugin!vars) => UserInv'
  BY UserNext, Zenon
<1>7. PluginInv /\ UserInv /\ [Plugin!Next]_(Plugin!vars) =>
        [Plugin!UserDataExists /\ ~Plugin!UserDataExists'
           => \/ plugin_pc = "delete"
              \/ plugin_pc = "drop" /\ Plugin!Holds("backup", Plugin!User)
              \/ plugin_pc = "undo_target" /\ (first = "move_old" \/ outcome = "shared")]_(Plugin!vars)
  <2>1. UserLost => \/ plugin_pc = "delete"
                    \/ plugin_pc = "drop" /\ Plugin!Holds("backup", Plugin!User)
                    \/ plugin_pc = "undo_target" /\ (first = "move_old" \/ outcome = "shared")
    BY Zenon DEF UserLost, Plugin!Holds, UserIn
  <2>. QED  BY <2>1, UserNext, UserExists, UserExistsNext, PluginFactsHold, Zenon DEF UserStays
<1>. QED  BY <1>1, <1>2, <1>3, <1>4, <1>5, <1>6, <1>7,
            PTL DEF Plugin!Spec, Plugin!ImportsSafe, Plugin!PublishedWhole, Plugin!DataLostOnly

-----------------------------------------------------------------------------
\* What the launcher keeps, of the bundled runtime and of a plugin.
LauncherSafe == [](TypeOK /\ OneVersion) /\ Plugin!ImportsSafe

(***************************************************************************)
(* The bundled runtime that RuntimeBundle.install unpacks without a lock   *)
(* never mixes versions, and every import of PluginStore keeps or restores *)
(* the plugin's directory with the exceptions of ImportKeeps, and loses    *)
(* the user's data only where DataLostOnly says.                           *)
(***************************************************************************)
THEOREM LauncherKeepsBoth ==
    ASSUME ~FileLocked, PluginAssumption
    PROVE  Spec /\ Plugin!Spec => LauncherSafe
<1>1. Spec => [](TypeOK /\ OneVersion)
  BY BundleTyped, VersionsNeverMix, PTL
<1>. QED  BY <1>1, ImportsKeepThePlugin, PTL DEF LauncherSafe
=============================================================================
