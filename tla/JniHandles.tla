----------------------------- MODULE JniHandles -----------------------------
(***************************************************************************)
(* Guest-visible JNI references (core/include/zb/jni_handles.h).           *)
(*                                                                         *)
(* A handle is <<slot, serial>>, the two fields make_handle packs beside   *)
(* the kind; its mask leaves a serial of a handle below RetiredSerial.     *)
(* Vector positions count from 1.                                          *)
(***************************************************************************)
EXTENDS Integers, Sequences

CONSTANTS
    Refs,           \* host references other than null
    Null,           \* the null host reference, which marks a free slot
    MaxSlots,       \* kMaxSlots
    RetiredSerial   \* kRetiredSerial

ASSUME JniHandlesAssumption ==
    /\ Null \notin Refs
    /\ MaxSlots \in Nat
    /\ RetiredSerial \in Nat \ {0}

Slots == 1..MaxSlots
Handles == Slots \X (0..RetiredSerial - 1)
=============================================================================
