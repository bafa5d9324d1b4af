---------------------------- MODULE LocalHandles ----------------------------
(***************************************************************************)
(* The local references of one host thread (LocalHandles in                *)
(* core/src/jni/handles.cpp) and their reset by DetachCurrentThread        *)
(* (core/src/jni/host_jni_vm.cpp).                                         *)
(*                                                                         *)
(* A frame is one of call_native or of PushLocalFrame.  Next is the life   *)
(* of one table; ThreadNext is the thread's, which replaces its table when *)
(* it detaches.                                                            *)
(***************************************************************************)
EXTENDS JniHandles, FiniteSetsExt

CONSTANT MaxFrames      \* bound: frames open at once

VARIABLES refs, serials, frame_starts, retired_prefix, aborted

vars == <<refs, serials, frame_starts, retired_prefix, aborted>>

\* The vectors stay within their limits and a frame starts inside the table.
TypeOK ==
    /\ refs \in Seq(Refs \cup {Null})
    /\ serials \in Seq(0..RetiredSerial)
    /\ Len(refs) <= Len(serials) /\ Len(serials) <= MaxSlots
    /\ frame_starts \in Seq(0..Len(refs))
    /\ retired_prefix \in 0..Len(serials)
    /\ aborted \in BOOLEAN

Init ==
    /\ refs = <<>>
    /\ serials = <<>>
    /\ frame_starts = <<>>
    /\ retired_prefix = 0
    /\ aborted = FALSE

-----------------------------------------------------------------------------
Get(h) ==
    IF h[1] <= Len(refs) /\ refs[h[1]] # Null /\ h[2] = serials[h[1]] THEN refs[h[1]] ELSE Null

\* A slot's serial moves on when its handle dies and stops at RetiredSerial.
Bump(serial) == IF serial < RetiredSerial THEN serial + 1 ELSE serial

\* The first slot past the references that is not retired.
NextSlot ==
    Min({p \in 1..Len(serials) + 1 :
           /\ p > Len(refs) /\ p > retired_prefix
           /\ p <= Len(serials) => serials[p] # RetiredSerial})

PushFrame ==
    /\ Len(frame_starts) < MaxFrames
    /\ frame_starts' = Append(frame_starts, Len(refs))
    /\ UNCHANGED <<refs, serials, retired_prefix, aborted>>

\* Mistake: a popped handle keeps its serial.
PopFrameUnserialled ==
    /\ frame_starts # <<>>
    /\ refs' = SubSeq(refs, 1, frame_starts[Len(frame_starts)])
    /\ frame_starts' = SubSeq(frame_starts, 1, Len(frame_starts) - 1)
    /\ UNCHANGED <<serials, retired_prefix, aborted>>

PopFrame ==
    /\ frame_starts # <<>>
    /\ LET start == frame_starts[Len(frame_starts)]
       IN  /\ serials' = [p \in DOMAIN serials |->
                            IF p \in start + 1..Len(refs) THEN Bump(serials[p]) ELSE serials[p]]
           /\ refs' = SubSeq(refs, 1, start)
    /\ frame_starts' = SubSeq(frame_starts, 1, Len(frame_starts) - 1)
    /\ retired_prefix' = Max({n \in retired_prefix..Len(serials) :
                                \A p \in retired_prefix + 1..n : serials'[p] = RetiredSerial})
    /\ UNCHANGED aborted

\* add returns <<p, serials'[p]>>; a full table aborts the process.
Add(r) ==
    LET p == NextSlot
    IN  /\ frame_starts' = IF frame_starts = <<>> THEN <<Len(refs)>> ELSE frame_starts
        /\ IF p > MaxSlots
             THEN aborted' = TRUE /\ UNCHANGED <<refs, serials>>
             ELSE /\ refs' = [i \in 1..p |-> IF i = p THEN r ELSE IF i <= Len(refs) THEN refs[i] ELSE Null]
                  /\ serials' = IF p <= Len(serials) THEN serials ELSE Append(serials, 0)
                  /\ UNCHANGED aborted
        /\ UNCHANGED retired_prefix

\* DeleteLocalRef of a valid handle.  Deleted slots at the end of the top
\* frame are dropped.
Remove(h) ==
    /\ Get(h) # Null
    /\ serials' = [serials EXCEPT ![h[1]] = Bump(@)]
    /\ LET floor == IF frame_starts = <<>> THEN 0 ELSE frame_starts[Len(frame_starts)]
           left == [refs EXCEPT ![h[1]] = Null]
           keep == Max({n \in 0..Len(refs) : n <= floor \/ left[n] # Null})
       IN  refs' = SubSeq(left, 1, keep)
    /\ UNCHANGED <<frame_starts, retired_prefix, aborted>>

\* DeleteLocalRef of any other handle is fatal.
RemoveInvalid(h) ==
    /\ Get(h) = Null
    /\ aborted' = TRUE
    /\ UNCHANGED <<refs, serials, frame_starts, retired_prefix>>

\* DetachCurrentThread: state.locals = LocalHandles().
Detach ==
    /\ ~aborted
    /\ refs' = <<>>
    /\ serials' = <<>>
    /\ frame_starts' = <<>>
    /\ retired_prefix' = 0
    /\ UNCHANGED aborted

Next ==
    \/ /\ ~aborted
       /\ \/ PushFrame \/ PopFrame
          \/ \E r \in Refs : Add(r)
          \/ \E h \in Handles : Remove(h) \/ RemoveInvalid(h)
    \/ aborted /\ UNCHANGED vars

ThreadNext == Next \/ Detach

Spec == Init /\ [][Next]_vars

-----------------------------------------------------------------------------
(***************************************************************************)
(* The table implements JniRefs.                                           *)
(***************************************************************************)
LiveHandles == {h \in Handles : Get(h) # Null}
Unissued(h) == Get(h) = Null /\ (h[1] <= Len(serials) => h[2] >= serials[h[1]])
FrameEnd(j) == IF j = Len(frame_starts) THEN Len(refs) ELSE frame_starts[j + 1]

Table == INSTANCE JniRefs WITH
    fresh <- {h \in Handles : Unissued(h)},
    live <- [h \in LiveHandles |-> Get(h)],
    frames <- [j \in DOMAIN frame_starts |->
                 {h \in LiveHandles : h[1] \in frame_starts[j] + 1..FrameEnd(j)}]

(***************************************************************************)
(* Every operation of the slots, serials and frame starts is the operation *)
(* of JniRefs on handles: a handle dies with its frame or its deletion and *)
(* this table does not give it out a second time, whatever is pushed,      *)
(* popped and deleted.  (A thread that detaches starts another table.)     *)
(* RefinesRefs is Table!Spec, with the steps that leave the table alone    *)
(* first.                                                                  *)
(***************************************************************************)
RefinesRefs == Table!Init /\ [][vars' = vars \/ Table!Next]_(Table!vars)
ImplementsRefs == []TypeOK /\ RefinesRefs
=============================================================================
