--------------------------- MODULE LibraryRuntime ---------------------------
(***************************************************************************)
(* Library mode (core/src/library_runtime.cpp, guest/zbhost/zbhost.c).     *)
(*                                                                         *)
(* The service guest thread sits in its READY host call and serves a queue *)
(* of commands from host threads.  A host thread that wants to run guest   *)
(* code itself has the service spawn a carrier (a guest pthread that parks *)
(* in its PARK host call), leases a parked carrier, builds a borrower JIT  *)
(* that runs under the carrier's identity, and later releases the carrier, *)
(* which returns from PARK and exits.                                      *)
(*                                                                         *)
(* Each critical section of Impl::mutex is one step.  GuestThread::park    *)
(* sleeps only while the park word still equals the token the thread read: *)
(* moved[t] says that the word changed since then.  Signals are abstracted *)
(* to whether an unblocked one is pending.  The order of the deque of      *)
(* available carriers is abstracted: a lease takes any of them.            *)
(***************************************************************************)
EXTENDS Integers, Sequences, FiniteSets

CONSTANTS
    Callers,    \* host threads that load, look up or call on the service
    Borrowers,  \* host threads that borrow a carrier
    Carriers,   \* addresses of carrier GuestThreads; an address is reused
    Signalled,  \* the guest threads that receive signals
    MaxIds,     \* processor ids (Process::kMaxThreads)
    Service,    \* the service guest thread, Process::main_
    None        \* nullptr

Clients == Callers \cup Borrowers
Parkers == Carriers \cup {Service}

ASSUME LibraryRuntimeAssumption ==
    /\ IsFiniteSet(Callers) /\ IsFiniteSet(Borrowers)
    /\ Callers \cap Borrowers = {}
    /\ IsFiniteSet(Carriers)
    /\ Signalled \subseteq Parkers
    /\ Service \notin Carriers
    /\ None \notin Parkers \cup Clients
    /\ MaxIds \in Nat
    /\ 0 < MaxIds
    /\ MaxIds <= Cardinality(Carriers) + 1

VARIABLES
    up,             \* the host process has not called _Exit
    ready,          \* Impl::ready
    finished,       \* Impl::finished
    startup_error,  \* Impl::startup_error is not empty
    exiting,        \* Process::exiting_
    commands,       \* Impl::commands; a command is named by its client
    swapped,        \* the commands the runner took when the guest ended
    cmd,            \* the command the service executes
    result,         \* what execute returned for it
    spc,            \* where the service thread is
    reply,          \* the promise of a client's command
    kpc,            \* where a client is
    lease,          \* Carrier::State::parked of a client
    available,      \* Impl::available
    carriers,       \* keys of Impl::carriers
    state,          \* ParkedCarrier::state
    listed,         \* ParkedCarrier::listed
    cpc,            \* where a carrier is; "none" while no thread has the address
    attached,       \* the carrier's host thread names it in t_current_thread
    moved,          \* the park word changed since the thread read its token
    pending,        \* an unblocked signal is pending
    borrowers,      \* carriers with an entry in Process::borrowers_
    bpending,       \* carriers whose borrower has a signal pending
    ids             \* free processor ids

runtimeVars == <<ready, finished, startup_error, exiting>>
serviceVars == <<commands, swapped, cmd, result, spc>>
clientVars == <<reply, kpc, lease>>
carrierVars == <<available, carriers, state, listed, cpc, attached>>
threadVars == <<moved, pending, borrowers, bpending, ids>>
vars == <<up, runtimeVars, serviceVars, clientVars, carrierVars, threadVars>>

ServicePCs == {"off", "boot", "token", "signals", "pop", "park", "deliver", "execute", "answer",
               "return", "notify", "fail"}
LeasePCs == {"create", "abandon", "list", "hold", "move", "free", "release"}
ClientPCs == {"idle", "wake", "future", "await", "cvwait"} \cup LeasePCs
ParkPCs == {"token", "check", "notify", "park"}
CarrierPCs == {"none", "guest", "deliver", "leave", "exit"} \cup ParkPCs

\* Every thread is at one of its places, and the ids stay within their count.
TypeOK ==
    /\ up \in BOOLEAN /\ ready \in BOOLEAN /\ finished \in BOOLEAN
    /\ startup_error \in BOOLEAN /\ exiting \in BOOLEAN
    /\ commands \in Seq(Clients)
    /\ swapped \in Seq(Clients)
    /\ cmd \in Clients \cup {None}
    /\ result \in {"none", "ok", "failed"}
    /\ spc \in ServicePCs
    /\ reply \in [Clients -> {"none", "ok", "failed"}]
    /\ kpc \in [Clients -> ClientPCs]
    /\ lease \in [Clients -> Carriers \cup {None}]
    /\ available \subseteq Carriers
    /\ carriers \subseteq Carriers
    /\ state \in [Carriers -> {"Available", "Leased", "Released"}]
    /\ listed \in [Carriers -> BOOLEAN]
    /\ cpc \in [Carriers -> CarrierPCs]
    /\ attached \in [Carriers -> BOOLEAN]
    /\ moved \in [Parkers -> BOOLEAN]
    /\ pending \in [Parkers -> BOOLEAN]
    /\ borrowers \subseteq Carriers
    /\ bpending \subseteq Carriers
    /\ ids \in Nat

Init ==
    /\ up = TRUE
    /\ ready = FALSE /\ finished = FALSE /\ startup_error = FALSE /\ exiting = FALSE
    /\ commands = <<>> /\ swapped = <<>> /\ cmd = None /\ result = "none" /\ spc = "off"
    /\ reply = [k \in Clients |-> "none"]
    /\ kpc = [k \in Clients |-> "idle"]
    /\ lease = [k \in Clients |-> None]
    /\ available = {} /\ carriers = {}
    /\ state = [c \in Carriers |-> "Available"]
    /\ listed = [c \in Carriers |-> FALSE]
    /\ cpc = [c \in Carriers |-> "none"]
    /\ attached = [c \in Carriers |-> FALSE]
    /\ moved = [t \in Parkers |-> FALSE]
    /\ pending = [t \in Parkers |-> FALSE]
    /\ borrowers = {} /\ bpending = {}
    /\ ids = MaxIds

-----------------------------------------------------------------------------
(***************************************************************************)
(* Pieces the steps share.                                                 *)
(***************************************************************************)
Registered == {c \in Carriers : cpc[c] # "none"}

\* A fatal signal, a fault or exit_group: with other guest threads registered
\* the host process ends, else the only thread leaves its loop.
EndsProcess(others) == up' = (others = {})

\* Mistake: the carrier is published without notifying carrier_cv.
NotifyForgotten == kpc' = kpc

NotifyCarrierCv == kpc' = [k \in Clients |-> IF kpc[k] = "cvwait" THEN "await" ELSE kpc[k]]

\* Mistake: Released without the wake.
ReleaseWithoutWake(k) ==
    /\ state' = [state EXCEPT ![lease[k]] = "Released"]
    /\ lease' = [lease EXCEPT ![k] = None]
    /\ kpc' = [kpc EXCEPT ![k] = "idle"]
    /\ UNCHANGED moved

\* ~Carrier, and the borrow that finds no processor id: Released and wake
\* under one lock.
ReleaseCarrier(k) ==
    /\ state' = [state EXCEPT ![lease[k]] = "Released"]
    /\ moved' = [moved EXCEPT ![lease[k]] = TRUE]
    /\ lease' = [lease EXCEPT ![k] = None]
    /\ kpc' = [kpc EXCEPT ![k] = "idle"]

-----------------------------------------------------------------------------
(***************************************************************************)
(* The service thread and the runner.                                      *)
(***************************************************************************)

\* start: the runner enters Process::run, which takes the first processor id.
Start ==
    /\ spc = "off"
    /\ spc' = "boot"
    /\ ids' = ids - 1
    /\ UNCHANGED <<up, runtimeVars, commands, swapped, cmd, result, clientVars, carrierVars, moved,
                   pending, borrowers, bpending>>

\* zbhost ends before READY (bad arguments, SDK level or preload), or its
\* READY fails to seal text relocations or to validate the service table.
StartupFails ==
    /\ spc = "boot"
    /\ ~ready
    /\ startup_error' = TRUE
    /\ exiting' = TRUE
    /\ spc' = "return"
    /\ UNCHANGED <<up, ready, finished, commands, swapped, cmd, result, clientVars, carrierVars,
                   threadVars>>

\* handle_ready, for the first READY and for the one after every AGAIN.
HandleReady ==
    /\ spc = "boot"
    /\ ready' = TRUE
    /\ spc' = "token"
    /\ UNCHANGED <<up, finished, startup_error, exiting, commands, swapped, cmd, result, clientVars,
                   carrierVars, threadVars>>

ServeToken ==
    /\ spc = "token"
    /\ moved' = [moved EXCEPT ![Service] = FALSE]
    /\ spc' = "signals"
    /\ UNCHANGED <<up, runtimeVars, commands, swapped, cmd, result, clientVars, carrierVars, pending,
                   borrowers, bpending, ids>>

ServeSignals ==
    /\ spc = "signals"
    /\ spc' = IF pending[Service] THEN "deliver" ELSE "pop"
    /\ UNCHANGED <<up, runtimeVars, commands, swapped, cmd, result, clientVars, carrierVars,
                   threadVars>>

ServePop ==
    /\ spc = "pop"
    /\ IF commands = <<>>
         THEN spc' = "park" /\ UNCHANGED <<commands, cmd>>
         ELSE spc' = "execute" /\ cmd' = Head(commands) /\ commands' = Tail(commands)
    /\ UNCHANGED <<up, runtimeVars, swapped, result, clientVars, carrierVars, threadVars>>

ServePark ==
    /\ spc = "park"
    /\ moved[Service]
    /\ spc' = "token"
    /\ UNCHANGED <<up, runtimeVars, commands, swapped, cmd, result, clientVars, carrierVars,
                   threadVars>>

\* AGAIN: the thread returns to zbhost, after_stop delivers what is pending,
\* and zbhost calls READY again.
DeliverService ==
    /\ spc = "deliver"
    /\ pending' = [pending EXCEPT ![Service] = FALSE]
    /\ spc' = "boot"
    /\ UNCHANGED <<up, runtimeVars, commands, swapped, cmd, result, clientVars, carrierVars, moved,
                   borrowers, bpending, ids>>

DeliverServiceFatal ==
    /\ spc = "deliver"
    /\ EndsProcess(Registered)
    /\ exiting' = TRUE
    /\ spc' = "return"
    /\ UNCHANGED <<ready, finished, startup_error, commands, swapped, cmd, result, clientVars,
                   carrierVars, threadVars>>

\* execute for Load, Symbol and Call: the guest call returns, well or not.
ExecuteCall ==
    /\ spc = "execute"
    /\ cmd \in Callers
    /\ result' \in {"ok", "failed"}
    /\ spc' = "answer"
    /\ UNCHANGED <<up, runtimeVars, commands, swapped, cmd, clientVars, carrierVars, threadVars>>

\* execute for SpawnCarrier: pthread_create in zbhost, clone_thread in the
\* core.  The child is registered before its host thread starts.
ExecuteSpawn ==
    /\ spc = "execute"
    /\ cmd \in Borrowers
    /\ ids > 0
    /\ \E c \in Carriers \ Registered :
         /\ cpc' = [cpc EXCEPT ![c] = "guest"]
         /\ attached' = [attached EXCEPT ![c] = TRUE]
    /\ ids' = ids - 1
    /\ result' = "ok"
    /\ spc' = "answer"
    /\ UNCHANGED <<up, runtimeVars, commands, swapped, cmd, clientVars, available, carriers, state,
                   listed, moved, pending, borrowers, bpending>>

\* Mistake: the result of pthread_create is not looked at.
ExecuteSpawnIgnored ==
    /\ spc = "execute"
    /\ cmd \in Borrowers
    /\ ids = 0
    /\ result' = "ok"
    /\ spc' = "answer"
    /\ UNCHANGED <<up, runtimeVars, commands, swapped, cmd, clientVars, carrierVars, threadVars>>

\* clone_thread finds no processor id: EAGAIN.
ExecuteSpawnFails ==
    /\ spc = "execute"
    /\ cmd \in Borrowers
    /\ ids = 0
    /\ result' = "failed"
    /\ spc' = "answer"
    /\ UNCHANGED <<up, runtimeVars, commands, swapped, cmd, clientVars, carrierVars, threadVars>>

\* The guest dies inside the call.
ExecuteFatal ==
    /\ spc = "execute"
    /\ EndsProcess(Registered)
    /\ exiting' = TRUE
    /\ result' = "failed"
    /\ spc' = "answer"
    /\ UNCHANGED <<ready, finished, startup_error, commands, swapped, cmd, clientVars, carrierVars,
                   threadVars>>

Answer ==
    /\ spc = "answer"
    /\ reply' = [reply EXCEPT ![cmd] = result]
    /\ cmd' = None
    /\ result' = "none"
    /\ spc' = IF exiting THEN "return" ELSE "token"
    /\ UNCHANGED <<up, runtimeVars, commands, swapped, kpc, lease, carrierVars,
                   threadVars>>

\* Mistake: the runner fails a copy of the queue and leaves the queue.
RunnerFinishCopies ==
    /\ spc = "return"
    /\ finished' = TRUE
    /\ startup_error' = (startup_error \/ ~ready)
    /\ swapped' = commands
    /\ ids' = ids + 1
    /\ spc' = "notify"
    /\ UNCHANGED <<up, ready, exiting, commands, cmd, result, clientVars, carrierVars, moved, pending,
                   borrowers, bpending>>

\* Process::run returned: the runner ends the runtime under the lock.
RunnerFinish ==
    /\ spc = "return"
    /\ finished' = TRUE
    /\ startup_error' = (startup_error \/ ~ready)
    /\ swapped' = commands
    /\ commands' = <<>>
    /\ ids' = ids + 1
    /\ spc' = "notify"
    /\ UNCHANGED <<up, ready, exiting, cmd, result, clientVars, carrierVars, moved, pending,
                   borrowers, bpending>>

RunnerNotify ==
    /\ spc = "notify"
    /\ NotifyCarrierCv
    /\ spc' = "fail"
    /\ UNCHANGED <<up, runtimeVars, commands, swapped, cmd, result, reply, lease, carrierVars,
                   threadVars>>

RunnerFail ==
    /\ spc = "fail"
    /\ swapped # <<>>
    /\ reply' = [reply EXCEPT ![Head(swapped)] = "failed"]
    /\ swapped' = Tail(swapped)
    /\ UNCHANGED <<up, runtimeVars, commands, cmd, result, spc, kpc, lease, carrierVars,
                   threadVars>>

-----------------------------------------------------------------------------
(***************************************************************************)
(* Clients: submit, borrow and the life of a lease.                        *)
(***************************************************************************)

\* submit queues the command under the lock (a runtime that is not ready, or
\* has finished, refuses it and changes nothing) ...
Submit(k) ==
    /\ kpc[k] = "idle"
    /\ ready /\ ~finished
    /\ commands' = Append(commands, k)
    /\ kpc' = [kpc EXCEPT ![k] = "wake"]
    /\ UNCHANGED <<up, runtimeVars, swapped, cmd, result, spc, reply, lease, carrierVars, threadVars>>

\* Mistake: the service is not woken.
WakeForgotten(k) ==
    /\ kpc[k] = "wake"
    /\ kpc' = [kpc EXCEPT ![k] = "future"]
    /\ UNCHANGED <<up, runtimeVars, serviceVars, reply, lease, carrierVars, threadVars>>

\* ... wakes the service after unlocking ...
WakeService(k) ==
    /\ kpc[k] = "wake"
    /\ moved' = [moved EXCEPT ![Service] = TRUE]
    /\ kpc' = [kpc EXCEPT ![k] = "future"]
    /\ UNCHANGED <<up, runtimeVars, serviceVars, reply, lease, carrierVars, pending, borrowers,
                   bpending, ids>>

\* ... and waits for the promise, with no timeout.
FutureGet(k) ==
    /\ kpc[k] = "future"
    /\ reply[k] # "none"
    /\ reply' = [reply EXCEPT ![k] = "none"]
    /\ kpc' = [kpc EXCEPT ![k] = IF k \in Borrowers /\ reply[k] = "ok" THEN "await" ELSE "idle"]
    /\ UNCHANGED <<up, runtimeVars, serviceVars, lease, carrierVars, threadVars>>

\* borrow leases an available carrier and wakes it under the lock.
LeaseCarrier(k, c) ==
    /\ kpc[k] = "await"
    /\ c \in available
    /\ available' = available \ {c}
    /\ listed' = [listed EXCEPT ![c] = FALSE]
    /\ state' = [state EXCEPT ![c] = "Leased"]
    /\ moved' = [moved EXCEPT ![c] = TRUE]
    /\ lease' = [lease EXCEPT ![k] = c]
    /\ kpc' = [kpc EXCEPT ![k] = "create"]
    /\ UNCHANGED <<up, runtimeVars, serviceVars, reply, carriers, cpc, attached, pending,
                   borrowers, bpending, ids>>

\* No carrier is available: wait on carrier_cv, or give up if zbhost exited.
AwaitCarrier(k) ==
    /\ kpc[k] = "await"
    /\ available = {}
    /\ kpc' = [kpc EXCEPT ![k] = IF finished THEN "idle" ELSE "cvwait"]
    /\ UNCHANGED <<up, runtimeVars, serviceVars, reply, lease, carrierVars, threadVars>>

\* The wait times out (kCarrierParkTimeout) and still finds none.
BorrowTimeout(k) ==
    /\ kpc[k] = "cvwait"
    /\ available = {}
    /\ kpc' = [kpc EXCEPT ![k] = "idle"]
    /\ UNCHANGED <<up, runtimeVars, serviceVars, reply, lease, carrierVars, threadVars>>

\* create_borrower: take a processor id, build the JIT ...
AllocateBorrower(k) ==
    /\ kpc[k] = "create"
    /\ IF ids > 0
         THEN ids' = ids - 1 /\ kpc' = [kpc EXCEPT ![k] = "list"]
         ELSE kpc' = [kpc EXCEPT ![k] = "abandon"] /\ UNCHANGED ids
    /\ UNCHANGED <<up, runtimeVars, serviceVars, reply, lease, carrierVars, moved, pending,
                   borrowers, bpending>>

\* ... and list it, which moves the routing of the carrier's tid to it.
ListBorrower(k) ==
    /\ kpc[k] = "list"
    /\ borrowers' = borrowers \cup {lease[k]}
    /\ kpc' = [kpc EXCEPT ![k] = "hold"]
    /\ UNCHANGED <<up, runtimeVars, serviceVars, reply, lease, carrierVars, moved, pending,
                   bpending, ids>>

AbandonLease(k) ==
    /\ kpc[k] = "abandon"
    /\ ReleaseCarrier(k)
    /\ UNCHANGED <<up, runtimeVars, serviceVars, reply, available, carriers, listed, cpc,
                   attached, pending, borrowers, bpending, ids>>

\* Carrier::call: guest code runs on the borrower and takes its signals.
CallOnBorrower(k) ==
    /\ kpc[k] = "hold"
    /\ lease[k] \in bpending
    /\ bpending' = bpending \ {lease[k]}
    /\ UNCHANGED <<up, runtimeVars, serviceVars, clientVars, carrierVars, moved, pending, borrowers,
                   ids>>

CallOnBorrowerFatal(k) ==
    /\ kpc[k] = "hold"
    /\ EndsProcess(Registered)
    /\ exiting' = TRUE
    /\ UNCHANGED <<ready, finished, startup_error, serviceVars, clientVars, carrierVars, threadVars>>

\* ~Carrier.  destroy_borrower unlists the borrower, moves what is pending on
\* it to the carrier, frees the JIT and gives the processor id back ...
UnlistBorrower(k) ==
    /\ kpc[k] = "hold"
    /\ borrowers' = borrowers \ {lease[k]}
    /\ kpc' = [kpc EXCEPT ![k] = "move"]
    /\ UNCHANGED <<up, runtimeVars, serviceVars, reply, lease, carrierVars, moved, pending,
                   bpending, ids>>

MoveSignals(k) ==
    /\ kpc[k] = "move"
    /\ IF lease[k] \in bpending
         THEN /\ pending' = [pending EXCEPT ![lease[k]] = TRUE]
              /\ moved' = [moved EXCEPT ![lease[k]] = TRUE]
              /\ bpending' = bpending \ {lease[k]}
         ELSE UNCHANGED <<pending, moved, bpending>>
    /\ kpc' = [kpc EXCEPT ![k] = "free"]
    /\ UNCHANGED <<up, runtimeVars, serviceVars, reply, lease, carrierVars, borrowers, ids>>

FreeBorrower(k) ==
    /\ kpc[k] = "free"
    /\ ids' = ids + 1
    /\ kpc' = [kpc EXCEPT ![k] = "release"]
    /\ UNCHANGED <<up, runtimeVars, serviceVars, reply, lease, carrierVars, moved, pending,
                   borrowers, bpending>>

\* ... and the carrier is released.
ReleaseLease(k) ==
    /\ kpc[k] = "release"
    /\ ReleaseCarrier(k)
    /\ UNCHANGED <<up, runtimeVars, serviceVars, reply, available, carriers, listed, cpc,
                   attached, pending, borrowers, bpending, ids>>

-----------------------------------------------------------------------------
(***************************************************************************)
(* Carriers: carrier_main in zbhost and the PARK host call.                *)
(***************************************************************************)

\* carrier_main calls PARK: find or create the record of this thread.  A new
\* record is Available and not listed, as CheckReleased leaves an erased one.
ParkEnter(c) ==
    /\ cpc[c] = "guest"
    /\ carriers' = carriers \cup {c}
    /\ cpc' = [cpc EXCEPT ![c] = "token"]
    /\ UNCHANGED <<up, runtimeVars, serviceVars, clientVars, available, state, listed, attached,
                   threadVars>>

ParkToken(c) ==
    /\ cpc[c] = "token"
    /\ moved' = [moved EXCEPT ![c] = FALSE]
    /\ cpc' = [cpc EXCEPT ![c] = "check"]
    /\ UNCHANGED <<up, runtimeVars, serviceVars, clientVars, available, carriers, state, listed,
                   attached, pending, borrowers, bpending, ids>>

\* The critical section of the PARK loop, by the state of the record.
CheckReleased(c) ==
    /\ cpc[c] = "check"
    /\ state[c] = "Released"
    /\ carriers' = carriers \ {c}
    /\ state' = [state EXCEPT ![c] = "Available"]
    /\ attached' = [attached EXCEPT ![c] = TRUE]
    /\ cpc' = [cpc EXCEPT ![c] = "leave"]
    /\ UNCHANGED <<up, runtimeVars, serviceVars, clientVars, available, listed, threadVars>>

\* Mistake: the carrier returns to guest code and stays listed.
CheckSignalsListed(c) ==
    /\ cpc[c] = "check"
    /\ state[c] = "Available"
    /\ pending[c]
    /\ cpc' = [cpc EXCEPT ![c] = "deliver"]
    /\ UNCHANGED <<up, runtimeVars, serviceVars, clientVars, available, carriers, state, listed,
                   attached, threadVars>>

\* A pending signal sends an unleased carrier back to guest code, unlisted.
CheckSignals(c) ==
    /\ cpc[c] = "check"
    /\ state[c] = "Available"
    /\ pending[c]
    /\ available' = available \ {c}
    /\ listed' = [listed EXCEPT ![c] = FALSE]
    /\ cpc' = [cpc EXCEPT ![c] = "deliver"]
    /\ UNCHANGED <<up, runtimeVars, serviceVars, clientVars, carriers, state, attached, threadVars>>

CheckAvailable(c) ==
    /\ cpc[c] = "check"
    /\ state[c] = "Available"
    /\ ~pending[c]
    /\ available' = available \cup {c}
    /\ listed' = [listed EXCEPT ![c] = TRUE]
    /\ cpc' = [cpc EXCEPT ![c] = IF listed[c] THEN "park" ELSE "notify"]
    /\ UNCHANGED <<up, runtimeVars, serviceVars, clientVars, carriers, state, attached, threadVars>>

\* While leased, the carrier's host thread stops naming it.
CheckLeased(c) ==
    /\ cpc[c] = "check"
    /\ state[c] = "Leased"
    /\ attached' = [attached EXCEPT ![c] = FALSE]
    /\ cpc' = [cpc EXCEPT ![c] = "park"]
    /\ UNCHANGED <<up, runtimeVars, serviceVars, clientVars, available, carriers, state, listed,
                   threadVars>>

ParkNotify(c) ==
    /\ cpc[c] = "notify"
    /\ NotifyCarrierCv
    /\ cpc' = [cpc EXCEPT ![c] = "park"]
    /\ UNCHANGED <<up, runtimeVars, serviceVars, reply, lease, available, carriers, state,
                   listed, attached, threadVars>>

ParkSleep(c) ==
    /\ cpc[c] = "park"
    /\ moved[c]
    /\ cpc' = [cpc EXCEPT ![c] = "token"]
    /\ UNCHANGED <<up, runtimeVars, serviceVars, clientVars, available, carriers, state, listed,
                   attached, threadVars>>

\* after_stop delivers the signals; carrier_main calls PARK again after AGAIN.
DeliverCarrier(c) ==
    /\ cpc[c] \in {"deliver", "leave"}
    /\ pending' = [pending EXCEPT ![c] = FALSE]
    /\ cpc' = [cpc EXCEPT ![c] = IF cpc[c] = "deliver" THEN "guest" ELSE "exit"]
    /\ UNCHANGED <<up, runtimeVars, serviceVars, clientVars, available, carriers, state, listed,
                   attached, moved, borrowers, bpending, ids>>

DeliverCarrierFatal(c) ==
    /\ cpc[c] \in {"deliver", "leave"}
    /\ pending[c]
    /\ EndsProcess((Registered \ {c}) \cup {Service})
    /\ exiting' = TRUE
    /\ UNCHANGED <<ready, finished, startup_error, serviceVars, clientVars, carrierVars, threadVars>>

\* The carrier exits through bionic: unregister_thread, then the free.
CarrierExit(c) ==
    /\ cpc[c] = "exit"
    /\ cpc' = [cpc EXCEPT ![c] = "none"]
    /\ attached' = [attached EXCEPT ![c] = FALSE]
    /\ moved' = [moved EXCEPT ![c] = FALSE]
    /\ pending' = [pending EXCEPT ![c] = FALSE]
    /\ ids' = ids + 1
    /\ UNCHANGED <<up, runtimeVars, serviceVars, clientVars, available, carriers, state, listed,
                   borrowers, bpending>>

-----------------------------------------------------------------------------
(***************************************************************************)
(* Signals, and returns from the futex that nobody asked for.              *)
(***************************************************************************)
\* Mistake: post_signal does not wake a parked thread.
PostWithoutWake(t) ==
    /\ pending' = [pending EXCEPT ![t] = TRUE]
    /\ UNCHANGED <<moved, bpending>>

PostTo(t) ==
    /\ pending' = [pending EXCEPT ![t] = TRUE]
    /\ moved' = [moved EXCEPT ![t] = TRUE]
    /\ UNCHANGED bpending

\* Process::post_signal_to a carrier's tid: the borrower first.
TkillCarrier(c) ==
    /\ c \in Registered \cap Signalled
    /\ IF c \in borrowers
         THEN bpending' = bpending \cup {c} /\ UNCHANGED <<pending, moved>>
         ELSE PostTo(c)
    /\ UNCHANGED <<up, runtimeVars, serviceVars, clientVars, carrierVars, borrowers, ids>>

\* A host signal lands on the carrier's host thread: forward_host_signal.
HostSignal(c) ==
    /\ c \in Registered \cap Signalled
    /\ PostTo(IF attached[c] THEN c ELSE Service)
    /\ UNCHANGED <<up, runtimeVars, serviceVars, clientVars, carrierVars, borrowers, ids>>

\* A process-directed signal reaches the service, the process signal target.
SignalService ==
    /\ Service \in Signalled
    /\ spc \notin {"off", "return", "notify", "fail"}
    /\ PostTo(Service)
    /\ UNCHANGED <<up, runtimeVars, serviceVars, clientVars, carrierVars, borrowers, ids>>

Signal == SignalService \/ \E c \in Carriers : TkillCarrier(c) \/ HostSignal(c)

SpuriousWake ==
    \/ /\ spc = "park"
       /\ spc' = "token"
       /\ UNCHANGED <<up, runtimeVars, commands, swapped, cmd, result, clientVars, carrierVars,
                      threadVars>>
    \/ \E c \in Carriers :
       /\ cpc[c] = "park"
       /\ cpc' = [cpc EXCEPT ![c] = "token"]
       /\ UNCHANGED <<up, runtimeVars, serviceVars, clientVars, available, carriers, state, listed,
                      attached, threadVars>>
    \/ \E k \in Clients :
       /\ kpc[k] = "cvwait"
       /\ kpc' = [kpc EXCEPT ![k] = "await"]
       /\ UNCHANGED <<up, runtimeVars, serviceVars, reply, lease, carrierVars, threadVars>>

-----------------------------------------------------------------------------
ServiceStep ==
    \/ Start \/ StartupFails \/ HandleReady
    \/ ServeToken \/ ServeSignals \/ ServePop \/ ServePark
    \/ DeliverService \/ DeliverServiceFatal
    \/ ExecuteCall \/ ExecuteSpawn \/ ExecuteSpawnFails \/ ExecuteFatal \/ Answer
    \/ RunnerFinish \/ RunnerNotify \/ RunnerFail

\* What a client that made a request goes on to do by itself.
ClientStep(k) ==
    \/ WakeService(k) \/ FutureGet(k)
    \/ \E c \in Carriers : LeaseCarrier(k, c)
    \/ AwaitCarrier(k)
    \/ AllocateBorrower(k) \/ ListBorrower(k) \/ AbandonLease(k)
    \/ MoveSignals(k) \/ FreeBorrower(k) \/ ReleaseLease(k)

\* What a client may choose to do, and the timeout of borrow.
ClientChoice(k) ==
    \/ Submit(k)
    \/ BorrowTimeout(k)
    \/ CallOnBorrower(k) \/ CallOnBorrowerFatal(k) \/ UnlistBorrower(k)

CarrierStep(c) ==
    \/ ParkEnter(c) \/ ParkToken(c)
    \/ CheckReleased(c) \/ CheckSignals(c) \/ CheckAvailable(c) \/ CheckLeased(c)
    \/ ParkNotify(c) \/ ParkSleep(c)
    \/ DeliverCarrier(c) \/ DeliverCarrierFatal(c) \/ CarrierExit(c)

\* Nothing is left to do: the host process ended, or the guest did and every
\* later request is refused.
Ended ==
    \/ ~up
    \/ /\ spc = "fail" /\ swapped = <<>>
       /\ \A k \in Clients : kpc[k] = "idle"

Next ==
    \/ /\ up
       /\ \/ ServiceStep
          \/ \E k \in Clients : ClientStep(k) \/ ClientChoice(k)
          \/ \E c \in Carriers : CarrierStep(c)
          \/ Signal
          \/ SpuriousWake
    \/ Ended /\ UNCHANGED vars

Spec == Init /\ [][Next]_vars

(***************************************************************************)
(* The kernel runs every host thread that can run, and guest code that the *)
(* service or a carrier enters comes back.  A signal, a spurious return, a *)
(* timeout and a client's next request need never come.                    *)
(***************************************************************************)
Fairness ==
    /\ WF_vars(up /\ ServiceStep)
    /\ \A k \in Clients : WF_vars(up /\ ClientStep(k))
    /\ \A c \in Carriers : WF_vars(up /\ CarrierStep(c))

FairSpec == Spec /\ Fairness

-----------------------------------------------------------------------------
(***************************************************************************)
(* Safety.                                                                 *)
(***************************************************************************)
Holders(c) == {k \in Clients : kpc[k] \in LeasePCs /\ lease[k] = c}

(***************************************************************************)
(* ParkedCarrier: "Only a carrier that is inside PARK is listed as         *)
(* available, so a lease never starts while the carrier runs guest code; a *)
(* leased carrier does not leave PARK until it is released."  Hence while  *)
(* a client works under a carrier's identity the carrier's own thread      *)
(* exists and runs no guest code, and no other client holds the lease.     *)
(***************************************************************************)
LeaseSafe ==
    /\ \A c \in available : cpc[c] \in ParkPCs /\ Holders(c) = {}
    /\ \A k \in Clients : kpc[k] \in LeasePCs =>
         /\ cpc[lease[k]] \in ParkPCs
         /\ Holders(lease[k]) = {k}

InQueue(q, k) == Cardinality({i \in DOMAIN q : q[i] = k})

(***************************************************************************)
(* A command is answered through its promise exactly once: from submit     *)
(* until the client takes the answer, the command is in the queue, with    *)
(* the service, with the runner that fails what is left, or answered, and  *)
(* in only one of these places.                                            *)
(***************************************************************************)
AnsweredOnce ==
    \A k \in Clients :
        InQueue(commands, k) + InQueue(swapped, k) + (IF cmd = k THEN 1 ELSE 0)
          = IF kpc[k] \in {"wake", "future"} /\ reply[k] = "none" THEN 1 ELSE 0

Waiting == {k \in Clients : kpc[k] \in {"await", "cvwait"}}
Unleased == {c \in Registered : cpc[c] \notin {"leave", "exit"} /\ state[c] = "Available"}

(***************************************************************************)
(* borrow waits for "any carrier", not for the one it had spawned.  Still  *)
(* every waiting borrow has an unleased carrier to wait for, however the   *)
(* clients overtake each other and whatever earlier borrows timed out.     *)
(***************************************************************************)
CarrierForEveryWaiter == up => Cardinality(Waiting) <= Cardinality(Unleased)

Jits == {k \in Clients : kpc[k] \in {"list", "hold", "move", "free"}}

(***************************************************************************)
(* Processor ids are neither leaked nor handed out twice: the service, the *)
(* registered carriers and the borrower JITs hold all that are not free.   *)
(***************************************************************************)
IdsConserved ==
    ids = MaxIds - Cardinality(Registered) - Cardinality(Jits)
            - (IF spc \in {"off", "notify", "fail"} THEN 0 ELSE 1)

(***************************************************************************)
(* When the runtime reports that zbhost ended, no carrier is left behind   *)
(* and no client holds or waits for one: with a carrier registered the     *)
(* host process ends instead.                                              *)
(***************************************************************************)
FinishedIsQuiet ==
    finished /\ up => /\ Registered = {}
                      /\ \A k \in Clients : kpc[k] \in {"idle", "wake", "future"}

(***************************************************************************)
(* Through timeouts, failed spawns and the end of the process, every       *)
(* command is answered once, every processor id is free or has one owner,  *)
(* and nobody is left behind when the runtime reports the end.             *)
(***************************************************************************)
NothingLost == AnsweredOnce /\ IdsConserved /\ FinishedIsQuiet

-----------------------------------------------------------------------------
(***************************************************************************)
(* Liveness.  A guest thread that is signalled again and again may spend   *)
(* its time delivering signals, so what needs its service is promised once *)
(* signals stop coming; that each signal is delivered is a property of its *)
(* own and needs no such premise.                                          *)
(***************************************************************************)
ServiceQuiet == <>[](~pending[Service])
CarriersQuiet == <>[](\A c \in Carriers : pending[c] => state[c] = "Leased")

(***************************************************************************)
(* Every submitted command is answered, although future.get() has no       *)
(* timeout: no wakeup of the service is lost, and a guest exit answers     *)
(* what is queued.                                                         *)
(***************************************************************************)
CommandsAnswered ==
    ServiceQuiet => \A k \in Clients : kpc[k] = "wake" ~> (kpc[k] \in {"idle", "await"} \/ ~up)

(***************************************************************************)
(* A borrow asleep on carrier_cv does not depend on its timeout: once the  *)
(* carriers are left alone it is woken, with a carrier to take unless      *)
(* another borrow was faster.                                              *)
(***************************************************************************)
BorrowWoken ==
    CarriersQuiet => \A k \in Borrowers : kpc[k] = "cvwait" ~> (kpc[k] # "cvwait" \/ ~up)

(***************************************************************************)
(* A released carrier leaves PARK and its thread exits.                    *)
(***************************************************************************)
ReleasedExits == \A c \in Carriers : state[c] = "Released" ~> (cpc[c] = "none" \/ ~up)

(***************************************************************************)
(* A signal for the service or for a parked carrier is delivered, unless a *)
(* lease takes the carrier first ("deliver its signals while it is         *)
(* unleased") or the guest ends.                                           *)
(***************************************************************************)
SignalsDelivered ==
    /\ \A c \in Carriers :
         (pending[c] /\ state[c] = "Available") ~> (~pending[c] \/ state[c] # "Available" \/ ~up)
    /\ pending[Service] ~> (~pending[Service] \/ finished \/ ~up)

=============================================================================
