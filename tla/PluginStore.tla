----------------------------- MODULE PluginStore -----------------------------
(***************************************************************************)
(* Importing, running and deleting one plugin of the launcher:             *)
(* PluginStore.importApk and delete, PluginFiles.replaceDirectoryKeeping,  *)
(* and the LibraryActivity handlers that call them, across crashes and I/O *)
(* errors.                                                                 *)
(*                                                                         *)
(* The plugin's directory ("target"), the one an import prepares           *)
(* ("staging") and the old one it sets aside ("backup") are Absent or sets *)
(* of parts: the program (the APK with its libraries), the record          *)
(* meta.properties, and the data directory.  A directory is deleted part   *)
(* by part in any order, and renamed in one step.                          *)
(***************************************************************************)
EXTENDS Naturals

CONSTANTS
    Versions,       \* APKs of the plugin
    MaxErrors,      \* bound: I/O errors
    MaxCrashes,     \* bound: deaths of the launcher process
    LaunchDuringImport,  \* a shortcut may start the plugin during an import
    Absent, None

VARIABLES
    dir,        \* the three directories
    pc,         \* the step of the import or the deletion
    new,        \* the version being imported
    movedOld,
    deleting,   \* the directory the user deletes
    guest,      \* the version the :guest process runs, or None
    saved,      \* the user has data and did not ask to delete it
    before,     \* the plugin's directory when the import started
    outcome,    \* how the last import ended; "shared" if the plugin was started during it
    first,      \* the step that failed first; undo_old when the undoing failed too
    errors, crashes

imports == <<new, movedOld, before>>
ends == <<outcome, first>>
faults == <<errors, crashes>>
vars == <<dir, pc, imports, deleting, guest, saved, ends, faults>>

Dirs == {"target", "staging", "backup"}
Apk(v) == <<"apk", v>>
Meta(v) == <<"meta", v>>
Empty == <<"data", "empty">>
User == <<"data", "user">>
Data == {Empty, User}
Parts == {Apk(v) : v \in Versions} \cup {Meta(v) : v \in Versions} \cup Data

PCs == {"idle", "clear", "extract", "save", "drop", "move_old", "move_new", "move_child", "drop_old", "read",
        "undo_target", "undo_old", "discard", "delete"}

\* The state has its types, and staging never holds data of the plugin.
TypeOK ==
    /\ dir \in [Dirs -> {Absent} \cup SUBSET Parts]
    /\ pc \in PCs
    /\ new \in Versions \cup {None}
    /\ movedOld \in BOOLEAN
    /\ deleting \in Dirs
    /\ guest \in Versions \cup {None}
    /\ saved \in BOOLEAN
    /\ before \in {Absent} \cup SUBSET Parts
    /\ outcome \in {"none", "shared", "ok", "failed"} /\ first \in PCs \cup {"none"}
    /\ errors \in 0..MaxErrors /\ crashes \in 0..MaxCrashes
    /\ dir["staging"] # Absent => dir["staging"] \cap Data = {}

Init ==
    /\ dir = [d \in Dirs |-> Absent]
    /\ pc = "idle"
    /\ new = None /\ movedOld = FALSE /\ before = Absent
    /\ deleting = "target"
    /\ guest = None /\ saved = FALSE
    /\ outcome = "none" /\ first = "none"
    /\ errors = 0 /\ crashes = 0

-----------------------------------------------------------------------------
Gone(d) == dir[d] \in {Absent, {}}
DataOf(parts) == IF parts = Absent THEN {} ELSE parts \cap Data
HasRecord(parts) == parts # Absent /\ \E v \in Versions : Meta(v) \in parts
Holds(d, part) == dir[d] # Absent /\ part \in dir[d]

\* rename(2) replaces an empty directory.
CanMove(from, to) == dir[from] # Absent /\ Gone(to)
Move(from, to) == dir' = [dir EXCEPT ![to] = dir[from], ![from] = Absent]

Ended(result) == IF outcome = "shared" THEN "shared" ELSE result

\* importApk stops the :guest process and starts the import thread.
Import(v) ==
    /\ pc = "idle"
    /\ pc' = "clear"
    /\ new' = v /\ movedOld' = FALSE /\ before' = dir["target"]
    /\ outcome' = "none" /\ first' = "none"
    /\ guest' = None
    /\ UNCHANGED <<dir, deleting, saved, faults>>

\* deleteRecursive, part by part.
Deleted == CASE pc \in {"clear", "discard"} -> "staging"
             [] pc \in {"drop", "drop_old"} -> "backup"
             [] pc = "undo_target" -> "target"
             [] pc = "delete" -> deleting
Deleting == pc \in {"clear", "discard", "drop", "drop_old", "undo_target", "delete"}

DeletePart ==
    /\ Deleting /\ ~Gone(Deleted)
    /\ \E part \in dir[Deleted] : dir' = [dir EXCEPT ![Deleted] = @ \ {part}]
    /\ UNCHANGED <<pc, imports, deleting, guest, saved, ends, faults>>

MakeStaging ==
    /\ pc = "clear" /\ Gone("staging")
    /\ dir' = [dir EXCEPT !["staging"] = {}]
    /\ pc' = "extract"
    /\ UNCHANGED <<imports, deleting, guest, saved, ends, faults>>

Extract ==
    /\ pc = "extract"
    /\ dir' = [dir EXCEPT !["staging"] = @ \cup {Apk(new)}]
    /\ pc' = "save"
    /\ UNCHANGED <<imports, deleting, guest, saved, ends, faults>>

\* "Completion marker: never write this until extraction and all in-place
\* fixups pass."
Save ==
    /\ pc = "save"
    /\ dir' = [dir EXCEPT !["staging"] = @ \cup {Meta(new)}]
    /\ pc' = "drop"
    /\ UNCHANGED <<imports, deleting, guest, saved, ends, faults>>

\* The other deletions end.
DeleteDone ==
    /\ Deleting /\ pc # "clear" /\ Gone(Deleted)
    /\ dir' = [dir EXCEPT ![Deleted] = Absent]
    /\ pc' = CASE pc = "drop" -> "move_old"
               [] pc = "drop_old" -> "read"
               [] pc = "undo_target" -> "undo_old"
               [] pc \in {"discard", "delete"} -> "idle"
    /\ outcome' = IF pc = "discard" THEN Ended(IF first = "none" THEN "ok" ELSE "failed") ELSE outcome
    /\ UNCHANGED <<imports, deleting, guest, saved, first, faults>>

\* An IOException: before the staging directory is made the import just ends,
\* before the directories are moved staging is discarded, then the moves are
\* undone.  (movedChild is set when nothing is left that can throw, so the
\* code that moves the data back never runs.)
Throw ==
    /\ first' = IF first = "none" \/ pc = "undo_old" THEN pc ELSE first
    /\ pc' = CASE pc = "clear" -> "idle"
               [] pc \in {"extract", "save", "undo_old", "read"} -> "discard"
               [] pc \in {"move_old", "move_new", "move_child"} -> "undo_target"
    /\ outcome' = IF pc = "clear" THEN Ended("failed") ELSE outcome

MoveOld ==
    /\ pc = "move_old"
    /\ IF dir["target"] = Absent
         THEN UNCHANGED <<dir, movedOld>>
         ELSE Move("target", "backup") /\ movedOld' = TRUE
    /\ pc' = "move_new"
    /\ UNCHANGED <<new, before, deleting, guest, saved, ends, faults>>

MoveNew ==
    /\ pc = "move_new"
    /\ IF CanMove("staging", "target")
         THEN Move("staging", "target") /\ pc' = "move_child" /\ UNCHANGED ends
         ELSE Throw /\ UNCHANGED dir
    /\ UNCHANGED <<imports, deleting, guest, saved, faults>>

\* The old data directory moves over (also onto an empty one), or an empty one
\* is made.
MoveChild ==
    /\ pc = "move_child"
    /\ LET old == DataOf(dir["backup"])
       IN  IF IF old = {} THEN DataOf(dir["target"]) = {} ELSE User \notin DataOf(dir["target"])
             THEN /\ dir' = [dir EXCEPT
                              !["target"] = IF old = {} THEN @ \cup {Empty} ELSE (@ \ Data) \cup old,
                              !["backup"] = IF @ = Absent THEN Absent ELSE @ \ old]
                  /\ pc' = "drop_old" /\ UNCHANGED ends
             ELSE Throw /\ UNCHANGED dir
    /\ UNCHANGED <<imports, deleting, guest, saved, faults>>

\* The import answers with the record it published.
ReadBack ==
    /\ pc = "read"
    /\ pc' = "discard"
    /\ UNCHANGED <<dir, imports, deleting, guest, saved, ends, faults>>

\* Mistake: the old directory is not put back.
UndoForgotten ==
    /\ pc = "undo_old"
    /\ pc' = "discard"
    /\ UNCHANGED <<dir, imports, deleting, guest, saved, ends, faults>>

UndoOld ==
    /\ pc = "undo_old"
    /\ IF movedOld /\ CanMove("backup", "target") THEN Move("backup", "target") ELSE UNCHANGED dir
    /\ pc' = "discard"
    /\ UNCHANGED <<imports, deleting, guest, saved, ends, faults>>

\* A step that can throw does.
IoError ==
    /\ pc \in {"clear", "extract", "save", "move_old", "move_new", "move_child", "undo_old", "read"}
    /\ pc = "move_old" => dir["target"] # Absent
    /\ errors < MaxErrors
    /\ Throw
    /\ errors' = errors + 1
    /\ UNCHANGED <<dir, imports, deleting, guest, saved, crashes>>

\* The launcher process dies.
Crash ==
    /\ pc # "idle"
    /\ crashes < MaxCrashes
    /\ crashes' = crashes + 1
    /\ pc' = "idle"
    /\ UNCHANGED <<dir, imports, deleting, guest, saved, ends, errors>>

\* Every directory with a record is listed, the staging and the backup of an
\* import that crashed included, and can be deleted.  The :guest process is
\* stopped first.
DeletePlugin(d) ==
    /\ pc = "idle"
    /\ HasRecord(dir[d])
    /\ pc' = "delete" /\ deleting' = d
    /\ guest' = None
    /\ saved' = (saved /\ ~Holds(d, User))
    /\ outcome' = "none" /\ first' = "none"
    /\ UNCHANGED <<dir, imports, faults>>

\* The :guest process loads the plugin under its own name and makes its data
\* directory.
Launch(v) ==
    /\ guest = None
    /\ pc = "idle" \/ LaunchDuringImport
    /\ Holds("target", Apk(v)) /\ HasRecord(dir["target"])
    /\ guest' = v
    /\ dir' = [dir EXCEPT !["target"] = IF @ \cap Data = {} THEN @ \cup {Empty} ELSE @]
    /\ outcome' = IF pc = "idle" THEN "none" ELSE "shared"
    /\ UNCHANGED <<pc, imports, deleting, saved, first, faults>>

\* The plugin writes data; PluginContext makes the directories it misses.
Play ==
    /\ guest # None
    /\ dir' = [dir EXCEPT !["target"] = (IF @ = Absent THEN {} ELSE @ \ {Empty}) \cup {User}]
    /\ saved' = TRUE
    /\ UNCHANGED <<pc, imports, deleting, guest, ends, faults>>

EndGuest ==
    /\ guest # None
    /\ guest' = None
    /\ UNCHANGED <<dir, pc, imports, deleting, saved, ends, faults>>

Next ==
    \/ \E v \in Versions : Import(v) \/ Launch(v)
    \/ DeletePart \/ MakeStaging \/ Extract \/ Save \/ DeleteDone
    \/ MoveOld \/ MoveNew \/ MoveChild \/ ReadBack \/ UndoOld \/ IoError \/ Crash
    \/ \E d \in Dirs : DeletePlugin(d)
    \/ Play \/ EndGuest

Spec == Init /\ [][Next]_vars

-----------------------------------------------------------------------------
(***************************************************************************)
(* The launcher finds a plugin by its record, and a record appears under   *)
(* the plugin's name only with the program it describes ("Completion       *)
(* marker"), or when the directory set aside is put back as it was.        *)
(***************************************************************************)
PublishedWhole ==
    [][~HasRecord(dir["target"]) /\ HasRecord(dir'["target"])
         => \/ \E v \in Versions : {Apk(v), Meta(v)} \subseteq dir'["target"]
            \/ movedOld /\ dir'["target"] = dir["backup"]]_vars

(***************************************************************************)
(* An import that ends, well or not, keeps the data the plugin's own       *)
(* directory held when it started, and one that fails restores that        *)
(* directory, unless it fails to set the old one aside, to put it back or  *)
(* to read the record it has published, or the plugin was started while it *)
(* ran.  (Data that an earlier import left in its backup is not in the     *)
(* plugin's directory: DataLostOnly.)                                      *)
(***************************************************************************)
ImportKeeps ==
    /\ outcome = "ok" => /\ Apk(new) \in dir["target"] /\ Meta(new) \in dir["target"]
                         /\ User \in DataOf(before) => User \in dir["target"]
    /\ outcome = "failed" /\ first \notin {"move_old", "undo_old", "read"} => dir["target"] = before

UserDataExists == \E d \in Dirs : Holds(d, User)

(***************************************************************************)
(* Through any crashes, errors and imports, the last copy of the user's    *)
(* data goes only where the user deletes it and in two deletions of        *)
(* replaceDirectoryKeeping: of the backup it finds when it starts          *)
(* (PluginFiles.java:185), which holds the data after an import that       *)
(* crashed between its renames or failed to put the plugin back; and of    *)
(* the target when it undoes (:213) though it never set the target aside,  *)
(* or though the plugin was started meanwhile.                             *)
(***************************************************************************)
DataLostOnly ==
    [][UserDataExists /\ ~UserDataExists'
         => \/ pc = "delete"
            \/ pc = "drop" /\ Holds("backup", User)
            \/ pc = "undo_target" /\ (first = "move_old" \/ outcome = "shared")]_vars

(* The three, with the types.                                              *)
ImportsSafe == [](TypeOK /\ ImportKeeps) /\ PublishedWhole /\ DataLostOnly

(***************************************************************************)
(* replaceDirectoryKeeping: "restoring the old target if publication       *)
(* fails" and "keeps one process-data child from the previous target".  So *)
(* what the user saved is kept until the user deletes it.                  *)
(***************************************************************************)
DataKept == saved => UserDataExists
=============================================================================
