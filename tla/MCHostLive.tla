----------------------------- MODULE MCHostLive -----------------------------
(***************************************************************************)
(* The parts of the host in which something must eventually happen: the    *)
(* installation of the runtime, loopers, and the hang watchdog.  They      *)
(* share no state here, so a behaviour works on one of them and leaves the *)
(* others alone.                                                           *)
(***************************************************************************)
EXTENDS RuntimeInstall, HostLooper

VARIABLES part,
          g_slots, slot_of, recording, records, recorded, sampler, previous_, notes_written_, watch_keys

watch == <<g_slots, slot_of, recording, records, recorded, sampler, previous_, notes_written_, watch_keys>>

Watch == INSTANCE HangWatchdog WITH
            Guests <- {"t1", "t2"}, Activities <- [t1 |-> {"a"}, t2 |-> {"a"}], kMaxSlots <- 1,
            MaxRecords <- [t1 |-> 2, t2 |-> 2], kStuckThreshold <- 2, kMaxNotes <- 2, WatchCap <- 3,
            MaxChunks <- 1

MCInit ==
    /\ part \in {"install", "looper", "watch"}
    /\ Init /\ LooperInit /\ Watch!WatchInit
    /\ part # "install" => version = CHOOSE v \in Versions : TRUE

MCNext ==
    /\ \/ part = "install" /\ Next /\ UNCHANGED <<looperVars, watch>>
       \/ part = "looper" /\ LooperNext /\ UNCHANGED <<vars, watch>>
       \/ part = "watch" /\ Watch!WatchNext /\ UNCHANGED <<vars, looperVars>>
    /\ UNCHANGED part

(* The fairness of FairSpec and LooperFairSpec, for the part that runs; the *)
(* thread of the watchdog runs.                                             *)
MCFairness ==
    /\ \A p \in Procs : /\ WF_vars(part = "install" /\ (Step(p) \/ (pc[p] = "failed" /\ Relaunch(p))))
                        /\ SF_vars(part = "install" /\ CheckInstalled(p))
    /\ \A o \in Owners : WF_looperVars(part = "looper" /\ OwnerStep(o))
    /\ \A o \in Owners, fd \in Fds : SF_looperVars(part = "looper" /\ Fires(o, fd))
    /\ \A t \in Owners \cup Callers : WF_looperVars(part = "looper" /\ Tell(t))
    /\ WF_watch(part = "watch" /\ Watch!Sampling)

MCSpec == MCInit /\ [][MCNext]_<<part, vars, looperVars, watch>> /\ MCFairness
-----------------------------------------------------------------------------
(* The processes and the descriptors are interchangeable, and what holds    *)
(* for one of them holds for all: the properties below that something       *)
(* happens name one.                                                        *)
AProcess == CHOOSE p \in Procs : TRUE
AnOwner == CHOOSE o \in Owners : TRUE
ADescriptor == CHOOSE fd \in Fds : TRUE

(* What a crash left behind never blocks a later install, and what install  *)
(* leaves under its name is the whole of one version, which stays while a   *)
(* process that installed it runs.                                          *)
InstallsRecover ==
    /\ [](PublishedComplete /\ StaysInstalled)
    /\ (part = "install" /\ pc[AProcess] = "idle") ~> pc[AProcess] = "done"

(* No event is lost: the callback of a descriptor that stays ready and      *)
(* registered is called.                                                    *)
ReadyServed == ServedWhenReady(AnOwner, ADescriptor)

(* A thread that stops for good is reported by the sampler, until it has    *)
(* left all its notes in the report or the report's table is full.          *)
HangReported == Watch!HangReported
=============================================================================
