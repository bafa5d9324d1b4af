----------------------------- MODULE HostLooper -----------------------------
(***************************************************************************)
(* HostLooper (core/src/android/host_looper.cpp): the ALooper of a guest   *)
(* thread, used by that thread and by others.                              *)
(*                                                                         *)
(* A looper is named by its Owner, the guest thread that prepared it.  On  *)
(* a guest-created thread ALooper_pollOnce polls the descriptors here.  On *)
(* a borrower they are handed to the Android looper of its host thread     *)
(* (the "real" looper), whose callbacks enter the guest again.             *)
(*                                                                         *)
(* add_fd and remove_fd change the table under the mutex and tell the      *)
(* poller or the real looper after it: call[t] is what thread t has still  *)
(* to tell.  A registration and its binding are named by their serial.     *)
(* The counters of the runtime report are left out, and so are the         *)
(* reference counts, which nothing reads.                                  *)
(***************************************************************************)
EXTENDS Naturals

CONSTANTS
    Owners,         \* guest threads that prepare a looper
    Borrowers,      \* those of them that came from Java
    Callers,        \* other guest threads
    Fds,
    MaxSerial       \* bound: registrations

ASSUME LooperAssumption == MaxSerial \in Nat

Threads == Owners \cup Callers
Serials == 1..MaxSerial

VARIABLES
    looper,         \* none, polled here ("guest"), or "attached"
    registrations,  \* the serial of a registered descriptor, or 0
    callbacks,      \* serials registered with a guest callback, not an ident
    bindings,       \* the serial of the active binding of a descriptor, or 0
    next_serial,
    woken,          \* the eventfd wake_fd is readable
    real,           \* the serial of the binding the real looper holds, or 0
    ready,          \* descriptors with an event (level-triggered)
    looper_pc,      \* where a thread is in pollOnce or in the real looper's callback
    snapshot,       \* descriptors pollOnce polls, with their serials
    serving,        \* the registration whose callback runs
    call,           \* the second half of an add_fd or remove_fd
    finished,       \* the runtime has ended: guest code cannot be called
    overlapped      \* history: add_fd or remove_fd of it ran in two threads at once

table == <<looper, registrations, callbacks, bindings, next_serial>>
outside == <<ready, finished>>
polls == <<looper_pc, snapshot, serving>>
looperVars == <<table, woken, real, outside, polls, call, overlapped>>

Idle == [op |-> "none"]
Nothing == <<0, 0>>
Calls == {Idle} \cup [op : {"add", "remove"}, looper : Owners, fd : Fds, serial : 0..MaxSerial]

\* Registrations, bindings and the poll of every looper have their types.
LooperTypeOK ==
    /\ looper \in [Owners -> {"none", "guest", "attached"}]
    /\ registrations \in [Owners -> [Fds -> 0..MaxSerial]]
    /\ bindings \in [Owners -> [Fds -> 0..MaxSerial]]
    /\ callbacks \subseteq Serials
    /\ next_serial \in 1..MaxSerial + 1
    /\ woken \subseteq {o \in Owners : looper[o] = "guest"}
    /\ real \in [Owners -> [Fds -> 0..MaxSerial]]
    /\ ready \subseteq Fds
    /\ looper_pc \in [Owners -> {"idle", "poll", "drain", "serve", "callback", "fired", "unregister"}]
    /\ snapshot \in [Owners -> SUBSET (Fds \X Serials)]
    /\ serving \in [Owners -> {Nothing} \cup (Fds \X Serials)]
    /\ call \in [Threads -> Calls]
    /\ finished \in BOOLEAN
    /\ overlapped \subseteq Owners \X Fds
    /\ \A o \in Owners : looper[o] # "attached" => \A fd \in Fds : bindings[o][fd] = 0 /\ real[o][fd] = 0

LooperInit ==
    /\ looper = [o \in Owners |-> "none"]
    /\ registrations = [o \in Owners |-> [fd \in Fds |-> 0]]
    /\ bindings = registrations /\ real = registrations
    /\ callbacks = {} /\ next_serial = 1
    /\ woken = {} /\ ready = {}
    /\ looper_pc = [o \in Owners |-> "idle"]
    /\ snapshot = [o \in Owners |-> {}] /\ serving = [o \in Owners |-> Nothing]
    /\ call = [t \in Threads |-> Idle]
    /\ finished = FALSE /\ overlapped = {}

-----------------------------------------------------------------------------
Goes(o, next) == looper_pc' = [looper_pc EXCEPT ![o] = next]

\* A borrower's looper is attached if the backend has a real one for it.
Prepare(o) ==
    /\ looper[o] = "none"
    /\ \E kind \in {"guest"} \cup (IF o \in Borrowers THEN {"attached"} ELSE {}) :
         looper' = [looper EXCEPT ![o] = kind]
    /\ UNCHANGED <<registrations, callbacks, bindings, next_serial, woken, real, outside, polls, call,
                   overlapped>>

\* Guest code runs in thread t: it is not inside of poll or of the real looper.
Runs(t) == t \in Owners => looper[t] # "none" /\ looper_pc[t] \in {"idle", "callback"}

Begins(t, op, o, fd, serial) ==
    /\ Runs(t) /\ call[t] = Idle
    /\ call' = [call EXCEPT ![t] = [op |-> op, looper |-> o, fd |-> fd, serial |-> serial]]
    /\ overlapped' = IF \E u \in Threads : call[u] # Idle /\ call[u].looper = o /\ call[u].fd = fd
                       THEN overlapped \cup {<<o, fd>>} ELSE overlapped
    /\ UNCHANGED <<looper, woken, real, outside, polls>>

\* bind_locked with retire_locked: one active binding of a descriptor.
Bind(o, fd, serial) ==
    bindings' = IF looper[o] = "attached" THEN [bindings EXCEPT ![o][fd] = serial] ELSE bindings

Register(o, fd, serial) ==
    /\ registrations' = [registrations EXCEPT ![o][fd] = serial]
    /\ Bind(o, fd, serial)

\* add_fd, under the mutex.
AddFd(t, o, fd, callback) ==
    /\ looper[o] # "none" /\ next_serial <= MaxSerial
    /\ Register(o, fd, next_serial)
    /\ callbacks' = IF callback THEN callbacks \cup {next_serial} ELSE callbacks
    /\ next_serial' = next_serial + 1
    /\ Begins(t, "add", o, fd, next_serial)

\* remove_fd, under the mutex.
RemoveFd(t, o, fd) ==
    /\ registrations[o][fd] # 0
    /\ Register(o, fd, 0)
    /\ Begins(t, "remove", o, fd, 0)
    /\ UNCHANGED <<callbacks, next_serial>>

\* drop_registration_locked: "a later re-registration is untouched".
Drop(o, fd, serial) ==
    IF registrations[o][fd] = serial THEN Register(o, fd, 0) ELSE UNCHANGED <<registrations, bindings>>

\* Mistake: the poller is not woken for a new descriptor.
TellGuestRemoved(t) ==
    /\ call[t] # Idle /\ looper[call[t].looper] = "guest"
    /\ woken' = IF call[t].op = "remove" THEN woken \cup {call[t].looper} ELSE woken
    /\ call' = [call EXCEPT ![t] = Idle]
    /\ UNCHANGED <<table, real, outside, polls, overlapped>>

\* signal_eventfd
TellGuest(t) ==
    /\ call[t] # Idle /\ looper[call[t].looper] = "guest"
    /\ woken' = woken \cup {call[t].looper}
    /\ call' = [call EXCEPT ![t] = Idle]
    /\ UNCHANGED <<table, real, outside, polls, overlapped>>

\* Mistake: the registration stays when the real looper refuses it.
TellRealRefusedKept(t) ==
    /\ call[t] # Idle /\ looper[call[t].looper] = "attached"
    /\ \/ real' = [real EXCEPT ![call[t].looper][call[t].fd] = call[t].serial]
       \/ call[t].op = "add" /\ UNCHANGED real
    /\ call' = [call EXCEPT ![t] = Idle]
    /\ UNCHANGED <<table, woken, outside, polls, overlapped>>

\* backend->add_fd and remove_fd.  An add_fd that the real looper refuses takes
\* its registration back.
TellReal(t) ==
    /\ call[t] # Idle /\ looper[call[t].looper] = "attached"
    /\ LET o == call[t].looper  fd == call[t].fd  serial == call[t].serial
       IN  \/ real' = [real EXCEPT ![o][fd] = serial] /\ UNCHANGED <<registrations, bindings>>
           \/ call[t].op = "add" /\ Drop(o, fd, serial) /\ UNCHANGED real
    /\ call' = [call EXCEPT ![t] = Idle]
    /\ UNCHANGED <<looper, callbacks, next_serial, woken, outside, polls, overlapped>>

\* ALooper_wake; the wake of a real looper changes nothing here.
Wake(o) ==
    /\ looper[o] = "guest"
    /\ woken' = woken \cup {o}
    /\ UNCHANGED <<table, real, outside, polls, call, overlapped>>

-----------------------------------------------------------------------------
(***************************************************************************)
(* ALooper_pollOnce of a looper polled here.  (On an attached one it only  *)
(* answers POLL_WAKE.)                                                     *)
(***************************************************************************)
PollOnce(o) ==
    /\ looper[o] = "guest" /\ looper_pc[o] = "idle" /\ call[o] = Idle
    /\ snapshot' = [snapshot EXCEPT ![o] =
                      {<<fd, registrations[o][fd]>> : fd \in {f \in Fds : registrations[o][f] # 0}}]
    /\ Goes(o, "poll")
    /\ UNCHANGED <<table, woken, real, outside, serving, call, overlapped>>

Hot(o) == {e \in snapshot[o] : e[1] \in ready}

PollReturns(o) ==
    /\ looper_pc[o] = "poll"
    /\ Hot(o) # {} \/ o \in woken
    /\ snapshot' = [snapshot EXCEPT ![o] = Hot(o)]
    /\ Goes(o, IF o \in woken THEN "drain" ELSE "serve")
    /\ UNCHANGED <<table, woken, real, outside, serving, call, overlapped>>

PollTimesOut(o) ==
    /\ looper_pc[o] = "poll"
    /\ Hot(o) = {} /\ o \notin woken
    /\ snapshot' = [snapshot EXCEPT ![o] = {}]
    /\ Goes(o, "idle")
    /\ UNCHANGED <<table, woken, real, outside, serving, call, overlapped>>

\* drain_eventfd
Drain(o) ==
    /\ looper_pc[o] = "drain"
    /\ woken' = woken \ {o}
    /\ Goes(o, "serve")
    /\ UNCHANGED <<table, real, outside, snapshot, serving, call, overlapped>>

\* The next guest callback of this poll.
ServeCallback(o) ==
    /\ looper_pc[o] = "serve"
    /\ \E e \in snapshot[o] :
         /\ e[2] \in callbacks
         /\ serving' = [serving EXCEPT ![o] = e]
         /\ snapshot' = [snapshot EXCEPT ![o] = @ \ {e}]
    /\ Goes(o, "callback")
    /\ UNCHANGED <<table, woken, real, outside, call, overlapped>>

\* An ident is reported when no callback was called.
PollEnds(o) ==
    /\ looper_pc[o] = "serve"
    /\ \A e \in snapshot[o] : e[2] \notin callbacks
    /\ snapshot' = [snapshot EXCEPT ![o] = {}]
    /\ Goes(o, "idle")
    /\ UNCHANGED <<table, woken, real, outside, serving, call, overlapped>>

\* The callback returns 1 to stay registered or 0; from the real looper it came
\* through dispatch_attached.
CallbackReturns(o, keep) ==
    /\ looper_pc[o] = "callback" /\ call[o] = Idle
    /\ ~finished /\ serving[o][2] \in callbacks
    /\ IF keep THEN UNCHANGED <<registrations, bindings>> ELSE Drop(o, serving[o][1], serving[o][2])
    /\ Goes(o, IF looper[o] = "guest" THEN "serve" ELSE IF keep THEN "idle" ELSE "unregister")
    /\ serving' = IF looper[o] = "guest" \/ keep THEN [serving EXCEPT ![o] = Nothing] ELSE serving
    /\ UNCHANGED <<looper, callbacks, next_serial, woken, real, outside, snapshot, call, overlapped>>

\* The guest cannot be entered: pollOnce answers POLL_ERROR, dispatch_attached
\* unregisters the descriptor.  An ident on an attached looper has no callback
\* and is dispatched all the same: the call of address 0 faults.
CallbackFails(o) ==
    /\ looper_pc[o] = "callback" /\ call[o] = Idle
    /\ finished \/ serving[o][2] \notin callbacks
    /\ finished' = TRUE
    /\ IF looper[o] = "guest"
         THEN /\ Goes(o, "idle")
              /\ snapshot' = [snapshot EXCEPT ![o] = {}] /\ serving' = [serving EXCEPT ![o] = Nothing]
              /\ UNCHANGED <<registrations, bindings>>
         ELSE /\ Goes(o, "unregister")
              /\ Drop(o, serving[o][1], serving[o][2])
              /\ UNCHANGED <<snapshot, serving>>
    /\ UNCHANGED <<looper, callbacks, next_serial, woken, real, ready, call, overlapped>>

-----------------------------------------------------------------------------
(***************************************************************************)
(* The real looper, on the host thread of its owner.                       *)
(***************************************************************************)
Fires(o, fd) ==
    /\ looper_pc[o] = "idle" /\ call[o] = Idle
    /\ real[o][fd] # 0 /\ fd \in ready
    /\ serving' = [serving EXCEPT ![o] = <<fd, real[o][fd]>>]
    /\ Goes(o, "fired")
    /\ UNCHANGED <<table, woken, real, outside, snapshot, call, overlapped>>

\* Mistake: a binding that was replaced or removed is served all the same.
DispatchRetired(o) ==
    /\ looper_pc[o] = "fired"
    /\ Goes(o, "callback")
    /\ UNCHANGED <<table, woken, real, outside, snapshot, serving, call, overlapped>>

\* attached_callback, dispatch_attached: a retired binding only unregisters.
DispatchAttached(o) ==
    /\ looper_pc[o] = "fired"
    /\ Goes(o, IF bindings[o][serving[o][1]] = serving[o][2] THEN "callback" ELSE "unregister")
    /\ UNCHANGED <<table, woken, real, outside, snapshot, serving, call, overlapped>>

\* A callback that returns 0 is dropped by its sequence number.
Unregister(o) ==
    /\ looper_pc[o] = "unregister"
    /\ LET fd == serving[o][1]
       IN  real' = [real EXCEPT ![o][fd] = IF @ = serving[o][2] THEN 0 ELSE @]
    /\ serving' = [serving EXCEPT ![o] = Nothing]
    /\ Goes(o, "idle")
    /\ UNCHANGED <<table, woken, outside, snapshot, call, overlapped>>

\* Descriptors become ready and are read, and the runtime ends.
Event ==
    /\ \E fd \in Fds : ready' \in {ready \cup {fd}, ready \ {fd}}
    /\ UNCHANGED <<table, woken, real, finished, polls, call, overlapped>>

EndRuntime ==
    /\ finished' = TRUE
    /\ UNCHANGED <<table, woken, real, ready, polls, call, overlapped>>

Tell(t) == TellGuest(t) \/ TellReal(t)

OwnerStep(o) ==
    \/ PollOnce(o) \/ PollReturns(o) \/ Drain(o) \/ ServeCallback(o) \/ PollEnds(o)
    \/ \E keep \in BOOLEAN : CallbackReturns(o, keep)
    \/ CallbackFails(o) \/ DispatchAttached(o) \/ Unregister(o)

LooperNext ==
    \/ \E o \in Owners :
         \/ Prepare(o) \/ OwnerStep(o) \/ PollTimesOut(o) \/ Wake(o)
         \/ \E fd \in Fds : Fires(o, fd)
    \/ \E t \in Threads :
         \/ Tell(t)
         \/ \E o \in Owners, fd \in Fds :
              RemoveFd(t, o, fd) \/ \E callback \in BOOLEAN : AddFd(t, o, fd, callback)
    \/ Event \/ EndRuntime

LooperSpec == LooperInit /\ [][LooperNext]_looperVars

\* The guest polls its looper in a loop, callbacks return, calls are completed,
\* and the real looper serves every descriptor that is ready.
LooperFairSpec ==
    /\ LooperSpec
    /\ \A o \in Owners : WF_looperVars(OwnerStep(o)) /\ \A fd \in Fds : SF_looperVars(Fires(o, fd))
    /\ \A t \in Threads : WF_looperVars(Tell(t))

-----------------------------------------------------------------------------
Current(o, fd) == registrations[o][fd] # 0 /\ <<o, fd>> \notin overlapped
Telling(o, fd) == \E t \in Threads : call[t] # Idle /\ call[t].looper = o /\ call[t].fd = fd

\* What the real looper holds of a descriptor is what the table says, unless a call is
\* still to tell it.
RealIsTold ==
    \A o \in Owners, fd \in Fds :
        looper[o] = "attached" /\ Current(o, fd) /\ ~Telling(o, fd) =>
            real[o][fd] = registrations[o][fd] /\ bindings[o][fd] = registrations[o][fd]

(***************************************************************************)
(* A descriptor registered with an attached looper is registered with the  *)
(* real one, under the binding in force, once add_fd has returned,         *)
(* whatever callbacks and other calls do meanwhile.  (Two threads that     *)
(* change one descriptor at the same time may tell the real looper in the  *)
(* wrong order.)                                                           *)
(***************************************************************************)
RegisteredIsPolled == LooperTypeOK /\ RealIsTold

(***************************************************************************)
(* A registration ends only by an add_fd or remove_fd of the descriptor,   *)
(* by the result of its own callback, or because the real looper refused   *)
(* it: what a callback or another thread has registered anew survives the  *)
(* end of the old registration.                                            *)
(***************************************************************************)
RegistrationKept ==
    [][\A o \in Owners, fd \in Fds :
         registrations[o][fd] # 0 /\ registrations'[o][fd] # registrations[o][fd] =>
             \/ Telling(o, fd)'
             \/ serving[o] = <<fd, registrations[o][fd]>>
             \/ \E t \in Threads : call[t] # Idle /\ call[t].serial = registrations[o][fd]]_looperVars

(***************************************************************************)
(* dispatch_attached accepts a callback only for the registration in       *)
(* force: none is accepted for a descriptor that was removed or registered *)
(* anew, although the real looper still holds the old binding or has       *)
(* already fired it.  (A removal in another thread after the test of       *)
(* `active` finds the callback running.)                                   *)
(***************************************************************************)
NoStaleDispatch ==
    [][\A o \in Owners :
         looper[o] = "attached" /\ looper_pc[o] # "callback" /\ looper_pc'[o] = "callback" =>
             registrations[o][serving[o][1]] = serving[o][2]]_looperVars

(***************************************************************************)
(* Both: whatever ends of an old registration, before its callback is      *)
(* accepted or after, touches the old registration only.                   *)
(***************************************************************************)
RegistrationsKept == NoStaleDispatch /\ RegistrationKept

Served(o, fd, s) ==
    \/ looper_pc[o] = "callback" /\ serving[o] = <<fd, s>>
    \/ registrations[o][fd] # s \/ fd \notin ready \/ <<o, fd>> \in overlapped \/ finished

(***************************************************************************)
(* No event is lost: the callback of a descriptor that stays ready and     *)
(* registered is called, also when it is registered while the owner sleeps *)
(* in poll.                                                                *)
(***************************************************************************)
ServedWhenReady(o, fd) ==
    \A s \in Serials : (s \in callbacks /\ registrations[o][fd] = s) ~> Served(o, fd, s)
=============================================================================
