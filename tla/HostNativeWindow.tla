-------------------------- MODULE HostNativeWindow --------------------------
(***************************************************************************)
(* HostNativeWindow (core/src/android/host_native_window.cpp) and its      *)
(* backend (core/android/native_window_driver_backend.cpp): the            *)
(* ANativeWindow of a guest.                                               *)
(*                                                                         *)
(* A guest owns references to a window by its handle and locks a window to *)
(* draw: the frame is copied to a guest allocation, and copied back when   *)
(* it is posted.  lock_window and unlock_window hold surfaces_mutex_ only  *)
(* while they look at locks_, so they are steps; window_at[t] is where     *)
(* thread t is.  A guest thread uses a handle only while it owns a         *)
(* reference to it, as the NDK asks, and may give one to another thread.   *)
(* Pixels are left out: what matters is when the frame may be touched.     *)
(***************************************************************************)
EXTENDS Naturals, FiniteSets, Functions

CONSTANTS Drawers,      \* guest threads
          Surfaces,     \* windows of the platform
          MaxWindows,   \* bound: handles ever given out (the table is full then)
          MaxOwned      \* bound: references a thread owns to a handle, and refused releases of it

Handles == 1..MaxWindows

VARIABLES
    windows_,     \* the window of a live handle
    references_,  \* references the guest holds to it, as counted here
    locks_,       \* the lock of a handle: its guest allocation (0: not yet) and owner
    given,        \* handles given out
    native_refs,  \* platform: references to a window
    native_lock,  \* platform: windows with a dequeued frame
    owned,        \* guest: references a thread owns to a handle
    refused_refs, \* guest: releases that were refused because the window was locked
    blocks,       \* guest: live allocations, each with the handle it was made for
    window_at     \* the call a thread is in

host == <<windows_, references_, given>>
native == <<native_refs, native_lock>>
guest == <<owned, refused_refs>>
windowVars == <<host, locks_, native, guest, blocks, window_at>>

Addresses == Handles \X Drawers
NoAddress == <<0, 0>>
Out == [at |-> "out", handle |-> 0, window |-> "none", address |-> NoAddress]
In(at, h, address) == [at |-> at, handle |-> h, window |-> windows_[h], address |-> address]

Init ==
    /\ windows_ = <<>> /\ references_ = <<>> /\ locks_ = <<>> /\ given = 0
    /\ native_refs = [w \in Surfaces |-> 0] /\ native_lock = {}
    /\ owned = [t \in Drawers |-> [h \in Handles |-> 0]]
    /\ refused_refs = [h \in Handles |-> 0] /\ blocks = {}
    /\ window_at = [t \in Drawers |-> Out]

Put(f, k, v) == [x \in DOMAIN f \cup {k} |-> IF x = k THEN v ELSE f[x]]
Without(f, k) == Restrict(f, DOMAIN f \ {k})
Goes(t, step) == window_at' = [window_at EXCEPT ![t] = step]
Continues(t, at, address) == window_at' = [window_at EXCEPT ![t].at = at, ![t].address = address]
Releases == {"release", "release_last"}
Calls(t, h) == window_at[t].at = "out" /\ owned[t][h] > 0
Owned(t, h, n) == owned' = [owned EXCEPT ![t][h] = n]
At(t, at) == window_at[t].at = at
Handle(t) == window_at[t].handle
Window(t) == window_at[t].window   \* resolved when the call began
-----------------------------------------------------------------------------

NoHandle(w) == UNCHANGED native

(* ANativeWindow_fromSurface: the platform's reference is the handle's      *)
(* first; without a handle it is given back.                                *)
fromSurface(t, w) ==
    /\ At(t, "out")
    /\ IF given = MaxWindows THEN NoHandle(w) /\ UNCHANGED <<host, guest>>
       ELSE /\ given' = given + 1
            /\ windows_' = Put(windows_, given', w)
            /\ references_' = Put(references_, given', 1)
            /\ native_refs' = [native_refs EXCEPT ![w] = @ + 1]
            /\ Owned(t, given', 1)
            /\ UNCHANGED <<native_lock, refused_refs>>
    /\ UNCHANGED <<locks_, blocks, window_at>>

acquire(t, h) ==
    /\ Calls(t, h) /\ owned[t][h] < MaxOwned
    /\ native_refs' = [native_refs EXCEPT ![windows_[h]] = @ + 1]
    /\ references_' = [references_ EXCEPT ![h] = @ + 1]
    /\ Owned(t, h, owned[t][h] + 1)
    /\ UNCHANGED <<windows_, given, native_lock, refused_refs, locks_, blocks, window_at>>

(* Mistake: a window is released while a frame of it is locked.             *)
ReleasableAlways(h) == TRUE

Releasable(h) == h \notin DOMAIN locks_

(* ANativeWindow_release: the count under the mutex, the platform's         *)
(* reference and the handle after it.  A locked window keeps its reference. *)
release(t, h) ==
    /\ Calls(t, h)
    /\ Owned(t, h, owned[t][h] - 1)
    /\ IF Releasable(h)
       THEN /\ references_' = IF references_[h] = 1 THEN Without(references_, h)
                                ELSE [references_ EXCEPT ![h] = @ - 1]
            /\ Goes(t, In(IF references_[h] = 1 THEN "release_last" ELSE "release", h, NoAddress))
            /\ UNCHANGED refused_refs
       ELSE /\ refused_refs[h] < MaxOwned
            /\ refused_refs' = [refused_refs EXCEPT ![h] = @ + 1]
            /\ UNCHANGED <<references_, window_at>>
    /\ UNCHANGED <<windows_, given, native, locks_, blocks>>

ReleaseNative(t) ==
    /\ window_at[t].at \in Releases
    /\ native_refs' = [native_refs EXCEPT ![Window(t)] = @ - 1]
    /\ windows_' = IF At(t, "release_last") THEN Without(windows_, Handle(t)) ELSE windows_
    /\ Goes(t, Out)
    /\ UNCHANGED <<references_, given, native_lock, guest, locks_, blocks>>

(* Guest: thread t gives one of its references to thread u.                 *)
HandOver(t, u, h) ==
    /\ Calls(t, h) /\ t # u /\ owned[u][h] < MaxOwned
    /\ owned' = [owned EXCEPT ![t][h] = @ - 1, ![u][h] = @ + 1]
    /\ UNCHANGED <<host, native, refused_refs, locks_, blocks, window_at>>
-----------------------------------------------------------------------------

Reservable(h) == h \notin DOMAIN locks_

(* lock_window: a bad buffer or dirty rectangle, or a lock that is held     *)
(* (-EBUSY), ends the call before anything is done.                         *)
lock_window(t, h) ==
    /\ Calls(t, h) /\ Reservable(h)
    /\ locks_' = Put(locks_, h, [address |-> NoAddress, owner |-> t])
    /\ Goes(t, In("lock", h, NoAddress))
    /\ UNCHANGED <<host, native, guest, blocks>>

(* The platform refuses a window that has a frame out, under any handle.    *)
LockNative(t) ==
    /\ At(t, "lock")
    /\ \/ Continues(t, "unreserve", NoAddress) /\ UNCHANGED native_lock
       \/ /\ Window(t) \notin native_lock
          /\ native_lock' = native_lock \cup {Window(t)}
          /\ \E next \in {"copy", "abandon"} :   \* a frame of a format or size not handled
               Continues(t, next, NoAddress)
    /\ UNCHANGED <<host, native_refs, guest, locks_, blocks>>

CopyFails(t) == UNCHANGED blocks   \* never made, or freed again

(* The guest allocation is made, or refused, or found unusable.             *)
LockCopy(t) ==
    /\ At(t, "copy")
    /\ \/ /\ blocks' = blocks \cup {<<Handle(t), t>>}
          /\ Continues(t, "publish", <<Handle(t), t>>)
       \/ CopyFails(t) /\ Continues(t, "abandon", NoAddress)
    /\ UNCHANGED <<host, native, guest, locks_>>

LockPublish(t) ==
    /\ At(t, "publish")
    /\ locks_' = [locks_ EXCEPT ![Handle(t)].address = window_at[t].address]
    /\ Goes(t, Out)
    /\ UNCHANGED <<host, native, guest, blocks>>

Abandon(t) == native_lock' = native_lock \ {Window(t)}

LockAbandon(t) ==
    /\ At(t, "abandon")
    /\ Abandon(t)
    /\ Continues(t, "unreserve", NoAddress)
    /\ UNCHANGED <<host, native_refs, guest, locks_, blocks>>

LockUnreserve(t) ==
    /\ At(t, "unreserve")
    /\ locks_' = Without(locks_, Handle(t))
    /\ Goes(t, Out)
    /\ UNCHANGED <<host, native, guest, blocks>>

(* Not locked (-EINVAL), being locked (-EBUSY) or by another (-EPERM).      *)
Unlockable(t, h) == h \in DOMAIN locks_ /\ locks_[h].address # NoAddress /\ locks_[h].owner = t

unlock_window(t, h) ==
    /\ Calls(t, h) /\ Unlockable(t, h)
    /\ Goes(t, In("write_back", h, locks_[h].address))
    /\ locks_' = Without(locks_, h)
    /\ UNCHANGED <<host, native, guest, blocks>>

(* The guest's pixels to the frame, if they can still be read; then freed.  *)
WriteBack(t) ==
    /\ At(t, "write_back")
    /\ blocks' = blocks \ {window_at[t].address}
    /\ Continues(t, "post", NoAddress)
    /\ UNCHANGED <<host, native, guest, locks_>>

Post(t) ==
    /\ At(t, "post")
    /\ native_lock' = native_lock \ {Window(t)}
    /\ Goes(t, Out)
    /\ UNCHANGED <<host, native_refs, guest, locks_, blocks>>

Next ==
    \/ \E t \in Drawers :
         \/ \E w \in Surfaces : fromSurface(t, w)
         \/ \E h \in Handles : acquire(t, h) \/ release(t, h) \/ lock_window(t, h) \/ unlock_window(t, h)
         \/ \E h \in Handles, u \in Drawers : HandOver(t, u, h)
         \/ ReleaseNative(t)
         \/ LockNative(t) \/ LockCopy(t) \/ LockPublish(t) \/ LockAbandon(t) \/ LockUnreserve(t)
         \/ WriteBack(t) \/ Post(t)
-----------------------------------------------------------------------------
Steps == Releases \cup {"out", "lock", "copy", "publish", "abandon", "unreserve", "write_back", "post"}

(* The type of the state.                                                   *)
TypeOK ==
    /\ given \in 0..MaxWindows
    /\ DOMAIN windows_ \subseteq 1..given /\ \A h \in DOMAIN windows_ : windows_[h] \in Surfaces
    /\ DOMAIN references_ \subseteq DOMAIN windows_
    /\ \A h \in DOMAIN references_ : references_[h] \in Nat \ {0}
    /\ DOMAIN locks_ \subseteq Handles
    /\ \A h \in DOMAIN locks_ : locks_[h] \in [address : Addresses \cup {NoAddress}, owner : Drawers]
    /\ native_refs \in [Surfaces -> Nat] /\ native_lock \subseteq Surfaces
    /\ owned \in [Drawers -> [Handles -> 0..MaxOwned]]
    /\ refused_refs \in [Handles -> Nat] /\ blocks \subseteq Addresses
    /\ \A t \in Drawers : window_at[t].at \in Steps

Uses(t, w) == window_at[t].at \in Steps \ {"out", "unreserve"} /\ Window(t) = w

(* Every call of the backend names a window the platform still holds a      *)
(* reference to, and a window whose references are all given back is gone   *)
(* (ANativeWindow_release: the count is taken under the mutex, the platform *)
(* is told after it, and lock_window keeps a locked window alive).          *)
WindowAlive ==
    /\ \A t \in Drawers, w \in Surfaces : Uses(t, w) => native_refs[w] > 0
    /\ \A h \in DOMAIN locks_ : h \in DOMAIN windows_ /\ native_refs[windows_[h]] > 0

(* The platform's references are those of the guest's threads, the releases *)
(* under way and the releases refused while the window was locked: the last *)
(* are never given back, whoever held the lock.                             *)
ReferencesConserved ==
    \A w \in Surfaces :
        native_refs[w] =
            Cardinality({t \in Drawers : window_at[t].at \in Releases /\ Window(t) = w})
            + SumFunction([h \in {x \in DOMAIN windows_ : windows_[x] = w} |->
                refused_refs[h] + SumFunction([t \in Drawers |-> owned[t][h]])])

FrameOut(w) ==
    {h \in DOMAIN locks_ : windows_[h] = w /\ locks_[h].address # NoAddress}
    \cup {Handle(t) : t \in {u \in Drawers : window_at[u].at \in {"copy", "publish", "abandon", "write_back", "post"}
                                             /\ Window(u) = w}}

(* A frame is written, and a guest told it may draw, only while the         *)
(* platform has the window locked for that handle: `bits` of an             *)
(* ANativeWindow_lock is good until unlockAndPost, and two handles may name *)
(* one window.                                                              *)
FrameHeld ==
    \A w \in Surfaces : Cardinality(FrameOut(w)) = (IF w \in native_lock THEN 1 ELSE 0)

(* A guest allocation belongs to the lock it was made for or to the call    *)
(* that makes or frees it, and a window with no call under way and no lock  *)
(* has none: no error path of lock_window leaks one or frees one twice.     *)
BlocksOwned ==
    blocks = {locks_[h].address : h \in {x \in DOMAIN locks_ : locks_[x].address # NoAddress}}
             \cup {window_at[t].address : t \in {u \in Drawers : window_at[u].at \in {"publish", "write_back"}}}

(* A lock without an allocation is being made: a call that fails takes its  *)
(* reservation back, so that a window does not answer -EBUSY for ever.      *)
ReservationEnds ==
    \A h \in DOMAIN locks_ : locks_[h].address = NoAddress =>
        Cardinality({t \in Drawers : window_at[t].at \in {"lock", "copy", "publish", "abandon", "unreserve"}
                                     /\ Handle(t) = h}) = 1
=============================================================================
