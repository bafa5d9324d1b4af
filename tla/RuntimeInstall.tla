--------------------------- MODULE RuntimeInstall ---------------------------
(***************************************************************************)
(* Installing the 32-bit runtime files into an app's private directory, by *)
(* the processes of the app, across crashes, I/O errors and app updates:   *)
(* RuntimeInstaller.install of an installed app, with FileLocked, and      *)
(* RuntimeBundle.install with PluginFiles.replaceDirectory of the          *)
(* launcher, without.                                                      *)
(*                                                                         *)
(* The two follow the same steps.  RuntimeInstaller holds a file lock      *)
(* while it works and looks for every file; RuntimeBundle excludes only    *)
(* the threads of its own process, looks for a few files, and looks for    *)
(* them in the staged directory too.                                       *)
(*                                                                         *)
(* A directory is Absent or the set of the files in it, each with the      *)
(* version it comes from.  It is deleted file by file, and renamed in one  *)
(* step.  The files survive a crash; the lock does not.                    *)
(***************************************************************************)
EXTENDS Naturals

CONSTANTS
    Procs,          \* processes of the app
    Files,          \* the files of zb-files.txt
    Checked,        \* the files an installed runtime is checked for
    Versions,       \* values of zb-version.txt
    FileLocked,     \* the installer holds zb-install.lock
    MaxFaults,      \* bound: crashes, updates and I/O errors
    Marker, Absent, None

ASSUME RuntimeInstallAssumption ==
    /\ Marker \notin Files
    /\ Checked \subseteq Files
    /\ FileLocked \in BOOLEAN
    /\ MaxFaults \in Nat
    /\ None \notin Procs
    /\ \A files \in SUBSET ((Files \cup {Marker}) \X Versions) : Absent # files

VARIABLES
    dir,        \* "target", "staging" and "backup"
    version,    \* the version of the installed app
    pc,
    copied,     \* files a process has copied
    moved,      \* movedOld
    lock,       \* the holder of the file lock
    faults

vars == <<dir, version, pc, copied, moved, lock, faults>>

Dirs == {"target", "staging", "backup"}
Entries == (Files \cup {Marker}) \X Versions
Complete(v) == (Files \cup {Marker}) \X {v}

Ended == {"idle", "done", "failed"}
PCs == Ended \cup {"clear", "copy", "verify", "drop", "move_old", "move_new", "restore", "drop_old",
                   "discard"}

\* Directories and steps have their types, and the lock is at the process at work.
TypeOK ==
    /\ dir \in [Dirs -> {Absent} \cup SUBSET Entries]
    /\ version \in Versions
    /\ pc \in [Procs -> PCs]
    /\ copied \in [Procs -> SUBSET Files]
    /\ moved \in [Procs -> BOOLEAN]
    /\ lock \in Procs \cup {None}
    /\ \A p \in Procs : FileLocked => (lock = p <=> pc[p] \notin Ended)
    /\ faults \in 0..MaxFaults

Init ==
    /\ dir = [d \in Dirs |-> Absent]
    /\ version \in Versions
    /\ pc = [p \in Procs |-> "idle"]
    /\ copied = [p \in Procs |-> {}]
    /\ moved = [p \in Procs |-> FALSE]
    /\ lock = None
    /\ faults = 0

-----------------------------------------------------------------------------
Go(p, next) == pc' = [pc EXCEPT ![p] = next]

\* install returns or throws, and the lock is closed.
Leave(p, end) ==
    /\ Go(p, end)
    /\ lock' = IF lock = p THEN None ELSE lock

Has(d, f) == dir[d] # Absent /\ \E v \in Versions : <<f, v>> \in dir[d]

Installed ==
    /\ dir["target"] # Absent /\ <<Marker, version>> \in dir["target"]
    /\ \A f \in Checked : Has("target", f)

CheckInstalled(p) ==
    /\ pc[p] = "idle"
    /\ FileLocked => lock = None
    /\ Go(p, IF Installed THEN "done" ELSE "clear")
    /\ lock' = IF FileLocked /\ ~Installed THEN p ELSE lock
    /\ copied' = [copied EXCEPT ![p] = {}]
    /\ moved' = [moved EXCEPT ![p] = FALSE]
    /\ UNCHANGED <<dir, version, faults>>

\* deleteTree and deleteRecursive: a file at a time, then the directory.
Deletes == [clear |-> "staging", drop |-> "backup", drop_old |-> "backup", discard |-> "staging"]
Gone(d) == dir[d] \in {Absent, {}}

DeleteFile(p) ==
    /\ pc[p] \in DOMAIN Deletes
    /\ LET d == Deletes[pc[p]]
       IN  ~Gone(d) /\ \E e \in dir[d] : dir' = [dir EXCEPT ![d] = @ \ {e}]
    /\ UNCHANGED <<version, pc, copied, moved, lock, faults>>

MakeStaging(p) ==
    /\ pc[p] = "clear" /\ Gone("staging")
    /\ dir' = [dir EXCEPT !["staging"] = {}]
    /\ Go(p, "copy")
    /\ UNCHANGED <<version, copied, moved, lock, faults>>

\* The directories of a file are made again if another process removed them.
Write(p, f) ==
    dir' = [dir EXCEPT !["staging"] = (IF @ = Absent THEN {} ELSE @) \cup {<<f, version>>}]

CopyFile(p) ==
    /\ pc[p] = "copy"
    /\ \E f \in Files \ copied[p] :
         /\ Write(p, f)
         /\ copied' = [copied EXCEPT ![p] = @ \cup {f}]
    /\ UNCHANGED <<version, pc, moved, lock, faults>>

WriteMarker(p) ==
    /\ pc[p] = "copy"
    /\ copied[p] = Files
    /\ Write(p, Marker)
    /\ Go(p, IF FileLocked THEN "drop" ELSE "verify")
    /\ UNCHANGED <<version, copied, moved, lock, faults>>

\* Only RuntimeBundle: "generated runtime bundle is incomplete".
VerifyStaging(p) ==
    /\ pc[p] = "verify"
    /\ Go(p, IF \A f \in Checked : Has("staging", f) THEN "drop" ELSE "discard")
    /\ UNCHANGED <<dir, version, copied, moved, lock, faults>>

\* Mistake: the backup an earlier install left behind stays.
BackupKept(p) ==
    /\ pc[p] = "drop"
    /\ Go(p, "move_old")
    /\ UNCHANGED <<dir, version, copied, moved, lock, faults>>

DropBackup(p) ==
    /\ pc[p] = "drop" /\ Gone("backup")
    /\ dir' = [dir EXCEPT !["backup"] = Absent]
    /\ Go(p, "move_old")
    /\ UNCHANGED <<version, copied, moved, lock, faults>>

CanMove(from, to) == dir[from] # Absent /\ Gone(to) /\ (FileLocked => dir[to] = Absent)
Move(from, to) == dir' = [dir EXCEPT ![to] = dir[from], ![from] = Absent]

MoveOld(p) ==
    /\ pc[p] = "move_old"
    /\ \/ dir["target"] = Absent /\ Go(p, "move_new") /\ UNCHANGED <<dir, moved>>
       \/ /\ CanMove("target", "backup") /\ Move("target", "backup")
          /\ moved' = [moved EXCEPT ![p] = TRUE]
          /\ Go(p, "move_new")
       \/ /\ dir["target"] # Absent /\ ~CanMove("target", "backup")
          /\ Go(p, "discard") /\ UNCHANGED <<dir, moved>>
    /\ UNCHANGED <<version, copied, lock, faults>>

MoveNew(p) ==
    /\ pc[p] = "move_new"
    /\ \/ CanMove("staging", "target") /\ Move("staging", "target") /\ Go(p, "drop_old")
       \/ ~CanMove("staging", "target") /\ Go(p, "restore") /\ UNCHANGED dir
    /\ UNCHANGED <<version, copied, moved, lock, faults>>

RestoreOld(p) ==
    /\ pc[p] = "restore"
    /\ IF moved[p] /\ dir["backup"] # Absent /\ dir["target"] = Absent
         THEN Move("backup", "target")
         ELSE UNCHANGED dir
    /\ Go(p, "discard")
    /\ UNCHANGED <<version, copied, moved, lock, faults>>

\* The last deletions: of the backup, and of the staging that was not published.
Finish(p) ==
    /\ pc[p] \in {"drop_old", "discard"}
    /\ LET d == Deletes[pc[p]]
       IN  Gone(d) /\ dir' = [dir EXCEPT ![d] = Absent]
    /\ Leave(p, IF pc[p] = "drop_old" THEN "done" ELSE "failed")
    /\ UNCHANGED <<version, copied, moved, faults>>

\* An I/O error throws out of the step.
Fail(p) ==
    /\ faults < MaxFaults
    /\ \/ pc[p] \in {"clear", "drop_old", "discard"} /\ Leave(p, "failed")
       \/ pc[p] \in {"copy", "drop", "move_old", "restore"} /\ Go(p, "discard") /\ UNCHANGED lock
       \/ pc[p] = "move_new" /\ Go(p, "restore") /\ UNCHANGED lock
    /\ faults' = faults + 1
    /\ UNCHANGED <<dir, version, copied, moved>>

\* The process dies.
Crash(p) ==
    /\ pc[p] \notin Ended
    /\ faults < MaxFaults
    /\ Leave(p, "idle")
    /\ faults' = faults + 1
    /\ UNCHANGED <<dir, version, copied, moved>>

\* An app update ends every process.
Update ==
    /\ faults < MaxFaults
    /\ version' \in Versions \ {version}
    /\ pc' = [p \in Procs |-> "idle"]
    /\ lock' = None
    /\ faults' = faults + 1
    /\ UNCHANGED <<dir, copied, moved>>

\* The process ends after install and is started again later.
Relaunch(p) ==
    /\ pc[p] \in {"done", "failed"}
    /\ Go(p, "idle")
    /\ UNCHANGED <<dir, version, copied, moved, lock, faults>>

Step(p) ==
    \/ CheckInstalled(p) \/ DeleteFile(p) \/ MakeStaging(p) \/ CopyFile(p) \/ WriteMarker(p)
    \/ VerifyStaging(p) \/ DropBackup(p) \/ MoveOld(p) \/ MoveNew(p) \/ RestoreOld(p) \/ Finish(p)

Next ==
    \/ \E p \in Procs : Step(p) \/ Fail(p) \/ Crash(p) \/ Relaunch(p)
    \/ Update

Spec == Init /\ [][Next]_vars

\* A process takes its next step, the lock is granted to a process that waits
\* for it, and an app whose start failed is started again.
FairSpec ==
    /\ Spec
    /\ \A p \in Procs : WF_vars(Step(p) \/ (pc[p] = "failed" /\ Relaunch(p)))
                        /\ SF_vars(CheckInstalled(p))

-----------------------------------------------------------------------------
(***************************************************************************)
(* What install leaves under the name "zb" is the whole of one version: no *)
(* crash, failed move or second process ever leaves a part of it there.    *)
(***************************************************************************)
PublishedComplete ==
    dir["target"] # Absent => \E v \in Versions : dir["target"] = Complete(v)

(***************************************************************************)
(* Once install has returned, the runtime of the installed app's version   *)
(* is in place, and other processes that install leave it there.           *)
(***************************************************************************)
StaysInstalled == \A p \in Procs : pc[p] = "done" => dir["target"] = Complete(version)

(***************************************************************************)
(* Files of two versions are never found in one directory, not even when   *)
(* two processes stage at once.                                            *)
(***************************************************************************)
OneVersion ==
    \A d \in Dirs : dir[d] # Absent => \A e, f \in dir[d] : e[2] = f[2]

(***************************************************************************)
(* What a crash left behind never blocks a later install.                  *)
(***************************************************************************)
InstallRecovers == \A p \in Procs : pc[p] = "idle" ~> pc[p] = "done"

(***************************************************************************)
(* RuntimeBundle publishes no directory without the files it requires: it  *)
(* throws "generated runtime bundle is incomplete" first.                  *)
(***************************************************************************)
RequiredPublished == dir["target"] # Absent => \A f \in Checked : Has("target", f)
=============================================================================
