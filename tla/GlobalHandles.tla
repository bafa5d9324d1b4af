---------------------------- MODULE GlobalHandles ----------------------------
(***************************************************************************)
(* The global references of the process (GlobalHandles in                  *)
(* core/src/jni/handles.cpp; the weak ones are a second instance) and the  *)
(* host calls that use them (core/src/jni/host_jni_objects.cpp).           *)
(*                                                                         *)
(* add and remove hold the table's mutex.  NewGlobalRef makes the host     *)
(* reference before it adds it, DeleteGlobalRef removes the handle before  *)
(* it deletes the host reference; other threads run in between.            *)
(***************************************************************************)
EXTENDS JniHandles

CONSTANT Threads    \* host threads that serve JNI calls

VARIABLES
    global_refs,     \* refs_
    global_serials,  \* serials_
    free,            \* free_
    host,            \* host global references that exist
    pc,              \* where a thread is in NewGlobalRef or DeleteGlobalRef
    ref,             \* the host reference the call holds
    global_aborted   \* the process called abort

globalVars == <<global_refs, global_serials, free, host, pc, ref, global_aborted>>

\* The table stays within kMaxSlots and its serials within kRetiredSerial.
GlobalTypeOK ==
    /\ global_refs \in Seq(Refs \cup {Null}) /\ Len(global_refs) <= MaxSlots
    /\ global_serials \in Seq(0..RetiredSerial)
    /\ free \in Seq(Slots)
    /\ host \subseteq Refs
    /\ pc \in [Threads -> {"idle", "created", "removed"}]
    /\ ref \in [Threads -> Refs \cup {Null}]
    /\ global_aborted \in BOOLEAN

GlobalInit ==
    /\ global_refs = <<>> /\ global_serials = <<>> /\ free = <<>>
    /\ host = {}
    /\ pc = [t \in Threads |-> "idle"]
    /\ ref = [t \in Threads |-> Null]
    /\ global_aborted = FALSE

-----------------------------------------------------------------------------
GlobalGet(h) ==
          IF h[1] <= Len(global_refs) /\ global_refs[h[1]] # Null /\ h[2] = global_serials[h[1]]
      THEN global_refs[h[1]] ELSE Null

\* NewGlobalRef: the backend makes a reference the table does not hold ...
CreateHost(t) ==
    /\ pc[t] = "idle"
    /\ \E r \in Refs \ host :
         /\ host' = host \cup {r}
         /\ ref' = [ref EXCEPT ![t] = r]
    /\ pc' = [pc EXCEPT ![t] = "created"]
    /\ UNCHANGED <<global_refs, global_serials, free, global_aborted>>

\* ... and add puts it into the slot freed last, into a new slot when none is
\* free, or aborts when the table is full.
AddFreed(t) ==
    /\ pc[t] = "created"
    /\ free # <<>>
    /\ global_refs' = [global_refs EXCEPT ![free[Len(free)]] = ref[t]]
    /\ free' = SubSeq(free, 1, Len(free) - 1)
    /\ pc' = [pc EXCEPT ![t] = "idle"]
    /\ ref' = [ref EXCEPT ![t] = Null]
    /\ UNCHANGED <<global_serials, host, global_aborted>>

AddNew(t) ==
    /\ pc[t] = "created"
    /\ free = <<>>
    /\ Len(global_refs) < MaxSlots
    /\ global_refs' = Append(global_refs, ref[t])
    /\ global_serials' = Append(global_serials, 0)
    /\ pc' = [pc EXCEPT ![t] = "idle"]
    /\ ref' = [ref EXCEPT ![t] = Null]
    /\ UNCHANGED <<free, host, global_aborted>>

AddFull(t) ==
    /\ pc[t] = "created"
    /\ free = <<>>
    /\ Len(global_refs) >= MaxSlots
    /\ global_aborted' = TRUE
    /\ UNCHANGED <<global_refs, global_serials, free, host, pc, ref>>

\* Mistake: the slot keeps the reference that is about to be deleted.
RemoveKept(t, h) ==
    /\ pc[t] = "idle"
    /\ GlobalGet(h) # Null
    /\ UNCHANGED <<global_refs, global_serials, free>>
    /\ ref' = [ref EXCEPT ![t] = GlobalGet(h)]
    /\ pc' = [pc EXCEPT ![t] = "removed"]
    /\ UNCHANGED <<host, global_aborted>>

\* DeleteGlobalRef of a valid handle: remove ends the handle, and puts the
\* slot on the free list unless its serial is used up ...
GlobalRemove(t, h) ==
    /\ pc[t] = "idle"
    /\ GlobalGet(h) # Null
    /\ global_refs' = [global_refs EXCEPT ![h[1]] = Null]
    /\ global_serials' = [global_serials EXCEPT ![h[1]] = @ + 1]
    /\ free' = IF global_serials[h[1]] + 1 < RetiredSerial THEN Append(free, h[1]) ELSE free
    /\ ref' = [ref EXCEPT ![t] = GlobalGet(h)]
    /\ pc' = [pc EXCEPT ![t] = "removed"]
    /\ UNCHANGED <<host, global_aborted>>

\* ... and then the backend deletes the host reference.
DeleteHost(t) ==
    /\ pc[t] = "removed"
    /\ host' = host \ {ref[t]}
    /\ ref' = [ref EXCEPT ![t] = Null]
    /\ pc' = [pc EXCEPT ![t] = "idle"]
    /\ UNCHANGED <<global_refs, global_serials, free, global_aborted>>

\* DeleteGlobalRef or any use of another handle is fatal.
UseInvalid(t, h) ==
    /\ pc[t] = "idle"
    /\ GlobalGet(h) = Null
    /\ global_aborted' = TRUE
    /\ UNCHANGED <<global_refs, global_serials, free, host, pc, ref>>

GlobalNext ==
    \/ /\ ~global_aborted
       /\ \E t \in Threads :
            \/ CreateHost(t) \/ AddFreed(t) \/ AddNew(t) \/ AddFull(t) \/ DeleteHost(t)
            \/ \E h \in Handles : GlobalRemove(t, h) \/ UseInvalid(t, h)
    \/ global_aborted /\ UNCHANGED globalVars

GlobalSpec == GlobalInit /\ [][GlobalNext]_globalVars

-----------------------------------------------------------------------------
Issued(h) == h[1] <= Len(global_serials) /\ (h[2] < global_serials[h[1]] \/ GlobalGet(h) # Null)

(***************************************************************************)
(* jni_handles.h: "a stale handle can never become valid again during the  *)
(* process lifetime".  A handle that was issued is not issued again, and   *)
(* while it is valid it names the host reference it was issued for.        *)
(***************************************************************************)
StaleStaysStale ==
    [][\A h \in Handles : Issued(h) => Issued(h)' /\ GlobalGet(h)' \in {GlobalGet(h), Null}]_globalVars

FreeSlots == {i \in DOMAIN global_refs : global_refs[i] = Null /\ global_serials[i] < RetiredSerial}

(***************************************************************************)
(* The free list holds every slot that is neither used nor retired, once:  *)
(* no slot is lost, and no two references are ever given the same slot.    *)
(***************************************************************************)
FreeListExact ==
    /\ Len(global_serials) = Len(global_refs)
    /\ \A i \in DOMAIN free : free[i] \in FreeSlots
    /\ \A i, j \in DOMAIN free : free[i] = free[j] => i = j
    /\ \A s \in FreeSlots : \E i \in DOMAIN free : free[i] = s

Owns(r) ==
    {<<"slot", i>> : i \in {j \in DOMAIN global_refs : global_refs[j] = r}}
      \cup {<<"call", t>> : t \in {u \in Threads : ref[u] = r}}

(***************************************************************************)
(* A valid handle names a host reference that exists, and every host       *)
(* reference is owned once, by a slot or by the call that makes or deletes *)
(* it: none is deleted under a handle, deleted twice, or leaked.           *)
(***************************************************************************)
HostRefsOwnedOnce ==
    \A r \in Refs :
        /\ r \in host <=> Owns(r) # {}
        /\ \A a, b \in Owns(r) : a = b
=============================================================================
