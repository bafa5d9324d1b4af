------------------------------- MODULE JniRefs -------------------------------
(***************************************************************************)
(* What a table of JNI references promises the guest, without slots and    *)
(* serials: a handle is given out while it is fresh, names one host        *)
(* reference until it is deleted or its frame is popped, and is never      *)
(* given out again.                                                        *)
(***************************************************************************)
EXTENDS Integers, Sequences

CONSTANTS
    Handles,    \* guest-visible references other than null
    Refs        \* host references other than null

VARIABLES
    fresh,      \* handles that may still be given out
    live,       \* the host reference every valid handle names
    frames      \* the valid handles of every open frame, outermost first

vars == <<fresh, live, frames>>

Init ==
    /\ fresh = Handles
    /\ live = [h \in {} |-> h]
    /\ frames = <<>>

Without(H) == [h \in DOMAIN live \ H |-> live[h]]

\* The first reference opens a base frame.
Add(r, h) ==
    /\ h \in fresh
    /\ fresh' \subseteq fresh \ {h}
    /\ live' = [g \in DOMAIN live \cup {h} |-> IF g = h THEN r ELSE live[g]]
    /\ frames' = IF frames = <<>> THEN <<{h}>>
                                  ELSE [frames EXCEPT ![Len(frames)] = @ \cup {h}]

Remove(h) ==
    /\ h \in DOMAIN live
    /\ fresh' \subseteq fresh
    /\ live' = Without({h})
    /\ frames' = [i \in DOMAIN frames |-> frames[i] \ {h}]

PushFrame ==
    /\ frames' = Append(frames, {})
    /\ UNCHANGED <<fresh, live>>

PopFrame ==
    /\ frames # <<>>
    /\ fresh' \subseteq fresh
    /\ live' = Without(frames[Len(frames)])
    /\ frames' = SubSeq(frames, 1, Len(frames) - 1)

Next ==
    \/ \E h \in Handles : Remove(h) \/ \E r \in Refs : Add(r, h)
    \/ PushFrame
    \/ PopFrame

Spec == Init /\ [][Next]_vars
=============================================================================
