--------------------------- MODULE MCHostServices ---------------------------
(***************************************************************************)
(* The services beside the guest kernel: windows, bitmaps, input, assets   *)
(* and configurations, the runtime report, the slots of the hang watchdog, *)
(* the bundle of the runtime and the store of plugins.  They share no      *)
(* state here, so a behaviour works on one of them.                        *)
(***************************************************************************)
EXTENDS HostBitmap, HostInput, HangWatchdog, TLC

CONSTANTS
    Drawers,    \* the threads that draw on a window
    AssetAddresses,  \* those the platform gives to assets
    ApkVersions, \* the versions of a plugin
    Absent      \* a model value: no directory

VARIABLES part,
          windows_, references_, locks_, given, native_refs, native_lock, owned, refused_refs, blocks, window_at,
          managers_, opened, assets_, asset_handles, asset_buffers_, buffered_bytes_, guest_copies,
          copies_made, copying, nested, dirs, directory_names_, open_fds, guest_fds, configs_, live_configs,
          report_topic, facts, made, opened_path, early, observed, reporting, writer, temporary, report_file, last_, write_failed, dead, notes, rows,
          bundle_dir, version, bundle_pc, copied, moved, lock, faults,
          plugin_dir, plugin_pc, new, movedOld, deleting, guest, saved, before, outcome, first, errors, crashes

windows == <<windows_, references_, locks_, given, native_refs, native_lock, owned, refused_refs, blocks, window_at>>
assets == <<managers_, opened, assets_, asset_handles, asset_buffers_, buffered_bytes_, guest_copies,
            copies_made, copying, nested, dirs, directory_names_, open_fds, guest_fds, configs_, live_configs>>
report == <<report_topic, facts, made, opened_path, early, observed, reporting, writer, temporary, report_file, last_, write_failed, dead, notes, rows>>
bundle == <<bundle_dir, version, bundle_pc, copied, moved, lock, faults>>
plugin == <<plugin_dir, plugin_pc, new, movedOld, deleting, guest, saved, before, outcome, first, errors, crashes>>

Window == INSTANCE HostNativeWindow WITH
            Surfaces <- {"w1"}, MaxWindows <- 2, MaxOwned <- 2
Assets == INSTANCE HostAssets WITH
            FileLength <- [a |-> 2, b |-> 5], AssetPointers <- AssetAddresses, DirPointers <- {"d"}, Budget <- 6,
            Int32Max <- 3, AssetHandles <- 3, MaxCopies <- 2, MaxNested <- 2, Configs <- {"c1", "c2"}, MaxFds <- 1, MaxManagers <- 1
Report == INSTANCE RuntimeReport WITH Reporters <- {"t1", "t2"}, MaxFacts <- 3, MaxNotes <- 4, Cap <- 2
Bundle == INSTANCE RuntimeInstall WITH
            Procs <- {"p1", "p2"}, Files <- {"f1"}, Checked <- {"f1"}, Versions <- {"v1", "v2"},
            FileLocked <- FALSE, MaxFaults <- 1, Marker <- "marker", Absent <- Absent, None <- "none",
            dir <- bundle_dir, pc <- bundle_pc
Plugin == INSTANCE PluginStore WITH
            Versions <- ApkVersions, MaxErrors <- 2, MaxCrashes <- 1, LaunchDuringImport <- TRUE,
            Absent <- Absent, None <- "none", dir <- plugin_dir, pc <- plugin_pc

MCActivities == [t1 |-> {"a", "b"}, t2 |-> {"a"}]
MCMaxRecords == [t1 |-> 2, t2 |-> 1]

\* The drawing threads, the addresses and the versions of a plugin are interchangeable.
Symmetry == Permutations(Drawers) \cup Permutations(AssetAddresses) \cup Permutations(ApkVersions)

Services == {"window", "bitmap", "input", "assets", "configurations", "report", "watch", "bundle", "plugin"}

MCInit ==
    /\ part \in Services
    /\ Window!Init /\ BitmapInit /\ Assets!Init /\ WatchInit /\ Plugin!Init
    /\ (IF part = "input" THEN TRUE ELSE input_topic = "queue") /\ InputInit
    /\ (IF part = "report" THEN TRUE ELSE report_topic = "file") /\ Report!Init
    /\ (IF part = "bundle" THEN TRUE ELSE version = "v1") /\ Bundle!Init

MCNext ==
    /\ UNCHANGED part
    /\ \/ part = "window" /\ Window!Next /\ UNCHANGED <<bitmapVars, inputVars, assets, report, watchVars, bundle, plugin>>
       \/ part = "bitmap" /\ BitmapNext /\ UNCHANGED <<windows, inputVars, assets, report, watchVars, bundle, plugin>>
       \/ part = "input" /\ InputNext /\ UNCHANGED <<windows, bitmapVars, assets, report, watchVars, bundle, plugin>>
       \/ part = "assets" /\ Assets!Next /\ UNCHANGED <<windows, bitmapVars, inputVars, report, watchVars, bundle, plugin>>
       \/ /\ part = "configurations" /\ Assets!ConfigurationNext
          /\ UNCHANGED <<windows, bitmapVars, inputVars, report, watchVars, bundle, plugin>>
       \/ part = "report" /\ Report!Next /\ UNCHANGED <<windows, bitmapVars, inputVars, assets, watchVars, bundle, plugin>>
       \/ part = "watch" /\ WatchNext /\ UNCHANGED <<windows, bitmapVars, inputVars, assets, report, bundle, plugin>>
       \/ part = "bundle" /\ Bundle!Next /\ UNCHANGED <<windows, bitmapVars, inputVars, assets, report, watchVars, plugin>>
       \/ part = "plugin" /\ Plugin!Next /\ UNCHANGED <<windows, bitmapVars, inputVars, assets, report, watchVars, bundle>>

MCSpec == MCInit /\ [][MCNext]_<<part, windows, bitmapVars, inputVars, assets, report, watchVars, bundle, plugin>>
-----------------------------------------------------------------------------
(* Every call of the window backend names a window the platform still holds *)
(* for the guest, frames are written only under the platform's lock, and    *)
(* neither a reference, a frame's memory nor a reservation is lost on any   *)
(* error path, whatever two threads do with one window.                     *)
WindowsSafe ==
    part = "window" =>
        /\ Window!TypeOK /\ Window!WindowAlive /\ Window!ReferencesConserved
        /\ Window!FrameHeld /\ Window!BlocksOwned /\ Window!ReservationEnds

(* The copy a guest has of an asset is of the file now open at that         *)
(* address, the bytes counted are those of the copies there are, and every  *)
(* allocation, asset, descriptor and configuration can still be given back, *)
(* also when the guest's allocator makes asset calls in the middle of a     *)
(* copy, unless it closes or copies the very asset that is being copied.    *)
AssetsSafe ==
    part \in {"assets", "configurations"} =>
        Assets!TypeOK /\ Assets!BufferCurrent /\ Assets!BudgetKept /\ Assets!NothingStranded

(* Whenever the process dies the report file is a whole report, a line in   *)
(* it stays while the report has it, and once every thread is back from its *)
(* note it holds the lines noted under an observer, unless the last write   *)
(* failed.  The bounded tables keep what they say they keep, but for the    *)
(* number of distinct host calls, which past the end of the list counts     *)
(* repeated calls too.                                                      *)
ReportSafe ==
    /\ [](part = "report" =>
            /\ Report!TypeOK /\ Report!FileWhole /\ Report!FileCurrent /\ Report!OpenedAreLast
            /\ Report!DetailsAreFirst /\ Report!TotalsAgree /\ Report!MismatchTrue /\ Report!NativesExact)
    /\ Report!FileKeeps

(* The launcher's directories across crashes, errors and each other.        *)
(* Files of two versions are never found in one runtime directory, not even *)
(* when two processes stage a bundle at once.  An import that ends keeps    *)
(* the data it finds in the plugin's directory, and one that fails restores *)
(* the plugin, with the exceptions PluginStore names; the last copy of the  *)
(* user's data is deleted by the user or in one of the two places that      *)
(* DataLostOnly names; and a record appears only with its program.          *)
LauncherSafe ==
    /\ [](part = "bundle" => Bundle!TypeOK /\ Bundle!OneVersion)
    /\ Plugin!ImportsSafe
=============================================================================
