------------------------- MODULE HandleTablesProofs -------------------------
(***************************************************************************)
(* The tables of core/src/jni/handles.cpp, for any numbers of threads,     *)
(* references, slots and serials: the local references of a thread refine  *)
(* JniRefs, the global ones are owned once and never reissued, and a       *)
(* jmethodID keeps its method and its shorty.                              *)
(***************************************************************************)
EXTENDS LocalHandles, GlobalHandles, JniIds, WellFoundedInduction, TLAPS

-----------------------------------------------------------------------------
(***************************************************************************)
(* Least and greatest members.                                             *)
(***************************************************************************)
LEMMA LeastExists ==
    ASSUME NEW S \in SUBSET Nat, S # {}
    PROVE  \E m \in S : \A k \in S : m <= k
<1>. DEFINE R == OpToRel(<, Nat)
<1>1. \A k, m \in Nat : k < m => <<k, m>> \in R
  BY Zenon DEF OpToRel
<1>2. IsWellFoundedOn(R, Nat)
  BY NatLessThanWellFounded, Zenon
<1>. HIDE DEF R
<1>3. PICK m \in S : \A k \in S : ~(<<k, m>> \in R)
  BY <1>2, WFMin, Zenon
<1>4. ASSUME NEW k \in S PROVE m <= k
  <2>1. ~(k < m)
    BY <1>1, <1>3, Zenon
  <2>. QED  BY <2>1
<1>. QED  BY <1>4, Zenon

LEMMA MinIs ==
    ASSUME NEW S \in SUBSET Nat, S # {}
    PROVE  Min(S) \in S /\ \A k \in S : Min(S) <= k
<1>1. \E m \in S : \A k \in S : m <= k
  BY LeastExists, Zenon
<1>. QED  BY <1>1, Zenon DEF Min

LEMMA MaxIs ==
    ASSUME NEW N \in Nat, NEW S \in SUBSET (0..N), S # {}
    PROVE  Max(S) \in S /\ \A k \in S : Max(S) >= k
<1>. DEFINE D == {N - k : k \in S}
<1>1. D \in SUBSET Nat /\ D # {}
  <2>1. \A k \in S : N - k \in Nat
    OBVIOUS
  <2>. QED  BY <2>1, Zenon
<1>2. PICK d \in D : \A e \in D : d <= e
  BY <1>1, LeastExists, Zenon
<1>3. PICK m \in S : d = N - m
  OBVIOUS
<1>4. ASSUME NEW k \in S PROVE m >= k
  <2>1. N - k \in D
    BY Zenon
  <2>. QED  BY <1>2, <1>3, <2>1
<1>. QED  BY <1>4, Zenon DEF Max

LEMMA SubsetsEqual ==
    ASSUME NEW U, NEW A \in SUBSET U, NEW B \in SUBSET U, \A x \in U : x \in A <=> x \in B
    PROVE  A = B
BY Zenon

-----------------------------------------------------------------------------
(***************************************************************************)
(* Sequences.                                                              *)
(***************************************************************************)
LEMMA EmptySeq ==
    ASSUME NEW S
    PROVE  /\ << >> \in Seq(S) /\ Len(<< >>) = 0
           /\ \A s \in Seq(S) : s # << >> => Len(s) \in Nat \ {0}
OBVIOUS

LEMMA LenProperties ==
    ASSUME NEW S, NEW s \in Seq(S)
    PROVE  Len(s) \in Nat /\ s \in [1..Len(s) -> S] /\ DOMAIN s = 1..Len(s)
OBVIOUS

LEMMA ElementOfSeq ==
    ASSUME NEW S, NEW s \in Seq(S), NEW n \in 1..Len(s)
    PROVE  s[n] \in S
OBVIOUS

LEMMA SeqEqual ==
    ASSUME NEW S, NEW s \in Seq(S), NEW t \in Seq(S), Len(s) = Len(t),
           \A i \in 1..Len(s) : s[i] = t[i]
    PROVE  s = t
OBVIOUS

LEMMA AppendProperties ==
    ASSUME NEW S, NEW s \in Seq(S), NEW e \in S
    PROVE  /\ Append(s, e) \in Seq(S) /\ Append(s, e) # << >>
           /\ Len(Append(s, e)) = Len(s) + 1
           /\ \A i \in 1..Len(s) : Append(s, e)[i] = s[i]
           /\ Append(s, e)[Len(s) + 1] = e
OBVIOUS

LEMMA ExceptSeq ==
    ASSUME NEW S, NEW s \in Seq(S), NEW i \in 1..Len(s), NEW e \in S
    PROVE  /\ [s EXCEPT ![i] = e] \in Seq(S) /\ Len([s EXCEPT ![i] = e]) = Len(s)
OBVIOUS

LEMMA FunIsSeq ==
    ASSUME NEW S, NEW k \in Nat, NEW f \in [1..k -> S]
    PROVE  f \in Seq(S) /\ Len(f) = k
OBVIOUS

-----------------------------------------------------------------------------
(***************************************************************************)
(* LocalHandles.  Its invariant: a reference's serial is one a handle can  *)
(* have, and the frames follow one another from the first slot on.         *)
(***************************************************************************)
Framed ==
    /\ \A i, j \in 1..Len(frame_starts) : i <= j => frame_starts[i] <= frame_starts[j]
    /\ frame_starts = <<>> => refs = <<>>
    /\ frame_starts # <<>> => frame_starts[1] = 0

Serialled == \A p \in 1..Len(refs) : refs[p] # Null => serials[p] < RetiredSerial

LInv == TypeOK /\ Framed /\ Serialled

LEMMA HandleParts ==
    ASSUME NEW h \in Handles
    PROVE  /\ h[1] \in 1..MaxSlots /\ h[1] \in Nat
           /\ h[2] \in Nat /\ h[2] < RetiredSerial
           /\ h = <<h[1], h[2]>>
BY JniHandlesAssumption DEF Handles, Slots

LEMMA BumpIs ==
    ASSUME NEW s \in 0..RetiredSerial
    PROVE  /\ Bump(s) \in 0..RetiredSerial
           /\ \A k \in Nat : k < RetiredSerial /\ k >= Bump(s) => k >= s /\ k # s
BY JniHandlesAssumption DEF Bump

\* The tables as functions of their positions.
LEMMA Vectors ==
    ASSUME TypeOK
    PROVE  /\ Len(refs) \in Nat /\ DOMAIN refs = 1..Len(refs)
           /\ Len(serials) \in Nat /\ DOMAIN serials = 1..Len(serials)
           /\ Len(frame_starts) \in Nat /\ DOMAIN frame_starts = 1..Len(frame_starts)
           /\ \A p \in 1..Len(refs) : refs[p] \in Refs \cup {Null}
           /\ \A p \in 1..Len(serials) : serials[p] \in 0..RetiredSerial
           /\ \A i \in 1..Len(frame_starts) : frame_starts[i] \in 0..Len(refs)
           /\ Len(refs) <= Len(serials) /\ Len(serials) <= MaxSlots
<1>1. Len(refs) \in Nat /\ DOMAIN refs = 1..Len(refs)
      /\ \A p \in 1..Len(refs) : refs[p] \in Refs \cup {Null}
  BY DEF TypeOK
<1>2. Len(serials) \in Nat /\ DOMAIN serials = 1..Len(serials)
      /\ \A p \in 1..Len(serials) : serials[p] \in 0..RetiredSerial
  BY LenProperties, ElementOfSeq, Zenon DEF TypeOK
<1>3. Len(frame_starts) \in Nat /\ DOMAIN frame_starts = 1..Len(frame_starts)
      /\ \A i \in 1..Len(frame_starts) : frame_starts[i] \in 0..Len(refs)
  BY DEF TypeOK
<1>4. Len(refs) <= Len(serials) /\ Len(serials) <= MaxSlots
  BY Zenon DEF TypeOK
<1>. QED  BY <1>1, <1>2, <1>3, <1>4, Zenon

LEMMA GetIs ==
    ASSUME TypeOK, NEW h \in Handles, Get(h) # Null
    PROVE  /\ h[1] \in 1..Len(refs) /\ h[1] \in 1..Len(serials)
           /\ refs[h[1]] # Null /\ Get(h) = refs[h[1]] /\ h[2] = serials[h[1]]
           /\ Get(h) \in Refs
<1>1. h[1] <= Len(refs) /\ refs[h[1]] # Null /\ Get(h) = refs[h[1]] /\ h[2] = serials[h[1]]
  BY Zenon DEF Get
<1>2. h[1] \in 1..Len(refs) /\ h[1] \in 1..Len(serials)
  BY <1>1, HandleParts, Vectors
<1>. QED  BY <1>1, <1>2, Vectors, Zenon

\* A slot has one valid handle.
LEMMA OneHandlePerSlot ==
    ASSUME TypeOK, NEW g \in Handles, NEW h \in Handles,
           Get(g) # Null, Get(h) # Null, g[1] = h[1]
    PROVE  g = h
<1>1. g[2] = h[2]
  BY GetIs, Zenon
<1>. QED  BY <1>1, HandleParts, Zenon

-----------------------------------------------------------------------------
(***************************************************************************)
(* The refinement mapping.                                                 *)
(***************************************************************************)
Fresh == {h \in Handles : Unissued(h)}
Live == [h \in LiveHandles |-> Get(h)]
FrameOf(j) == {h \in LiveHandles : h[1] \in frame_starts[j] + 1..FrameEnd(j)}
Frames == [j \in DOMAIN frame_starts |-> FrameOf(j)]

FramesShaped ==
    /\ Frames \in Seq(SUBSET Handles)
    /\ Len(Frames) = Len(frame_starts)
    /\ \A j \in 1..Len(frame_starts) : Frames[j] = FrameOf(j)

LEMMA FramesIs == TypeOK => FramesShaped
<1>. SUFFICES ASSUME TypeOK PROVE FramesShaped
  OBVIOUS
<1>1. Frames = [j \in 1..Len(frame_starts) |-> FrameOf(j)] /\ Len(frame_starts) \in Nat
  BY Vectors, Zenon DEF Frames
<1>2. \A j \in 1..Len(frame_starts) : FrameOf(j) \in SUBSET Handles
  BY Zenon DEF FrameOf, LiveHandles
<1>3. Frames \in [1..Len(frame_starts) -> SUBSET Handles]
  BY <1>1, <1>2, Zenon
<1>4. Frames \in Seq(SUBSET Handles) /\ Len(Frames) = Len(frame_starts)
  BY <1>1, <1>3
<1>5. \A j \in 1..Len(frame_starts) : Frames[j] = FrameOf(j)
  BY <1>1, Zenon
<1>. QED  BY <1>4, <1>5, Zenon DEF FramesShaped

LEMMA FramesIsNext == TypeOK' => FramesShaped'
BY FramesIs, PTL

LEMMA FrameOfIs ==
    ASSUME TypeOK, NEW j \in 1..Len(frame_starts), NEW h \in Handles
    PROVE  h \in FrameOf(j) <=> /\ Get(h) # Null
                                /\ h[1] > frame_starts[j]
                                /\ h[1] <= FrameEnd(j)
<1>1. h[1] \in Nat /\ frame_starts[j] \in Nat /\ FrameEnd(j) \in Nat
  <2>0. Len(frame_starts) \in Nat /\ Len(refs) \in Nat
    BY Vectors, Zenon
  <2>1. j = Len(frame_starts) \/ j + 1 \in 1..Len(frame_starts)
    BY <2>0
  <2>2. \A i \in 1..Len(frame_starts) : frame_starts[i] \in 0..Len(refs)
    BY Vectors, Zenon
  <2>3. FrameEnd(j) = Len(refs) \/ FrameEnd(j) \in 0..Len(refs)
    BY <2>1, <2>2, Zenon DEF FrameEnd
  <2>. QED  BY <2>0, <2>2, <2>3, HandleParts
<1>2. h[1] \in frame_starts[j] + 1..FrameEnd(j) <=> h[1] > frame_starts[j] /\ h[1] <= FrameEnd(j)
  BY <1>1
<1>. QED  BY <1>2, Zenon DEF FrameOf, LiveHandles

FrameMembers ==
    \A j \in 1..Len(frame_starts), h \in Handles :
        h \in FrameOf(j) <=> Get(h) # Null /\ h[1] > frame_starts[j] /\ h[1] <= FrameEnd(j)

LEMMA FrameMembersIs == TypeOK => FrameMembers
BY FrameOfIs, Zenon DEF FrameMembers

LEMMA FrameMembersNext == TypeOK' => FrameMembers'
BY FrameMembersIs, PTL

\* The steps of JniRefs under the mapping.
LEMMA MappedPush ==
    ASSUME Fresh' = Fresh, Live' = Live, Frames' = Append(Frames, {})
    PROVE  Table!PushFrame
BY Zenon DEF Table!PushFrame, Fresh, Live, Frames, FrameOf

LEMMA MappedPop ==
    ASSUME Frames # <<>>, Fresh' \subseteq Fresh,
           Live' = [h \in DOMAIN Live \ Frames[Len(Frames)] |-> Live[h]],
           Frames' = SubSeq(Frames, 1, Len(Frames) - 1)
    PROVE  Table!PopFrame
BY Zenon DEF Table!PopFrame, Table!Without, Fresh, Live, Frames, FrameOf

LEMMA MappedRemove ==
    ASSUME NEW h \in DOMAIN Live, Fresh' \subseteq Fresh,
           Live' = [g \in DOMAIN Live \ {h} |-> Live[g]],
           Frames' = [i \in DOMAIN Frames |-> Frames[i] \ {h}]
    PROVE  Table!Remove(h)
BY Zenon DEF Table!Remove, Table!Without, Fresh, Live, Frames, FrameOf

LEMMA MappedAdd ==
    ASSUME NEW h \in Fresh, NEW r, Fresh' \subseteq Fresh \ {h},
           Live' = [g \in DOMAIN Live \cup {h} |-> IF g = h THEN r ELSE Live[g]],
           Frames' = IF Frames = <<>> THEN <<{h}>>
                                      ELSE [Frames EXCEPT ![Len(Frames)] = @ \cup {h}]
    PROVE  Table!Add(r, h)
BY Zenon DEF Table!Add, Fresh, Live, Frames, FrameOf

LEMMA MappedStutter ==
    ASSUME Fresh' = Fresh, Live' = Live, Frames' = Frames
    PROVE  UNCHANGED Table!vars
BY Zenon DEF Table!vars, Fresh, Live, Frames, FrameOf

-----------------------------------------------------------------------------
(***************************************************************************)
(* The steps.  Each has its effect on the vectors, then on what a handle   *)
(* names, then on the mapping.                                             *)
(***************************************************************************)
\* PushLocalFrame, and call_native's frame.
LEMMA PushEffect ==
    ASSUME LInv, PushFrame
    PROVE  /\ frame_starts' \in Seq(0..Len(refs))
           /\ Len(frame_starts') = Len(frame_starts) + 1
           /\ \A i \in 1..Len(frame_starts) : frame_starts'[i] = frame_starts[i]
           /\ frame_starts'[Len(frame_starts) + 1] = Len(refs)
<1>1. frame_starts \in Seq(0..Len(refs)) /\ Len(refs) \in 0..Len(refs)
  BY Vectors DEF LInv, TypeOK
<1>2. frame_starts' = Append(frame_starts, Len(refs))
  BY Zenon DEF PushFrame
<1>3. /\ Append(frame_starts, Len(refs)) \in Seq(0..Len(refs))
      /\ Len(Append(frame_starts, Len(refs))) = Len(frame_starts) + 1
      /\ \A i \in 1..Len(frame_starts) : Append(frame_starts, Len(refs))[i] = frame_starts[i]
      /\ Append(frame_starts, Len(refs))[Len(frame_starts) + 1] = Len(refs)
  BY <1>1, AppendProperties
<1>. QED  BY <1>2, <1>3, Zenon

LEMMA PushLInv ==
    ASSUME LInv, PushFrame
    PROVE  LInv'
<1>. DEFINE n == Len(frame_starts)
<1>0. UNCHANGED <<refs, serials, retired_prefix, aborted>>
  BY Zenon DEF PushFrame
<1>1. TypeOK'
  BY <1>0, PushEffect, Zenon DEF LInv, TypeOK
<1>2. Serialled'
  BY <1>0, Zenon DEF LInv, Serialled
<1>3. Framed'
  <2>0. n \in Nat /\ Len(refs) \in Nat /\ \A i \in 1..n : frame_starts[i] \in 0..Len(refs)
    BY Vectors, Zenon DEF LInv
  <2>1. ASSUME NEW i \in 1..Len(frame_starts'), NEW j \in 1..Len(frame_starts'), i <= j
        PROVE  frame_starts'[i] <= frame_starts'[j]
    <3>1. CASE j \in 1..n
      <4>1. i \in 1..n
        BY <2>0, <2>1, <3>1
      <4>. QED  BY <4>1, <3>1, <2>1, PushEffect, Zenon DEF LInv, Framed
    <3>2. CASE j = n + 1
      <4>1. i \in 1..n \/ i = n + 1
        BY <2>0, <2>1, <3>2, PushEffect
      <4>2. frame_starts'[i] \in 0..Len(refs)
        <5>1. CASE i \in 1..n  BY <5>1, <2>0, PushEffect, Zenon
        <5>2. CASE i = n + 1   BY <5>2, <2>0, PushEffect
        <5>. QED  BY <4>1, <5>1, <5>2, Zenon
      <4>. QED  BY <4>2, <3>2, <2>0, PushEffect
    <3>. QED  BY <2>0, <3>1, <3>2, PushEffect
  <2>2. frame_starts' # <<>>
    BY <2>0, PushEffect
  <2>3. frame_starts'[1] = 0
    <3>1. CASE frame_starts = <<>>
      BY <3>1, PushEffect DEF LInv, Framed
    <3>2. CASE frame_starts # <<>>
      <4>1. n # 0
        BY <3>2, EmptySeq, Zenon DEF LInv, TypeOK
      <4>2. 1 \in 1..n
        BY <4>1, <2>0
      <4>. QED  BY <4>2, <3>2, PushEffect, Zenon DEF LInv, Framed
    <3>. QED  BY <3>1, <3>2, Zenon
  <2>. QED  BY <2>1, <2>2, <2>3, Zenon DEF Framed
<1>. QED  BY <1>1, <1>2, <1>3, Zenon DEF LInv

LEMMA PushImplements ==
    ASSUME LInv, PushFrame
    PROVE  Table!PushFrame
<1>. DEFINE n == Len(frame_starts)
<1>0. UNCHANGED <<refs, serials, retired_prefix, aborted>>
  BY Zenon DEF PushFrame
<1>t. TypeOK /\ TypeOK'
  BY PushLInv, Zenon DEF LInv
<1>1. \A h : Get(h)' = Get(h) /\ (Unissued(h)' <=> Unissued(h))
  BY <1>0, Zenon DEF Get, Unissued
<1>2. Fresh' = Fresh
  BY <1>1, Zenon DEF Fresh
<1>3. Live' = Live
  BY <1>1, Zenon DEF Live, LiveHandles
<1>4. Frames' = Append(Frames, {})
  <2>0. n \in Nat /\ Len(refs) \in Nat
    BY <1>t, Vectors, Zenon
  <2>1. Frames \in Seq(SUBSET Handles) /\ Len(Frames) = n
    BY <1>t, FramesIs, Zenon DEF FramesShaped
  <2>2. Frames' \in Seq(SUBSET Handles) /\ Len(Frames') = n + 1
    BY <1>t, FramesIsNext, PushEffect, Zenon DEF FramesShaped
  <2>3. ASSUME NEW j \in 1..n PROVE Frames'[j] = Frames[j]
    <3>1. j \in 1..n + 1 /\ j # n + 1
      BY <2>0
    <3>2. FrameEnd(j)' = FrameEnd(j)
      <4>1. CASE j = n
        BY <4>1, <3>1, PushEffect, Zenon DEF FrameEnd
      <4>2. CASE j # n
        <5>1. j + 1 \in 1..n
          BY <4>2, <2>0
        <5>. QED  BY <5>1, <4>2, <3>1, PushEffect, Zenon DEF FrameEnd
      <4>. QED  BY <4>1, <4>2, Zenon
    <3>3. frame_starts'[j] = frame_starts[j]
      BY PushEffect, Zenon
    <3>4. FrameOf(j)' = FrameOf(j)
      BY <3>2, <3>3, <1>1, Zenon DEF FrameOf, LiveHandles
    <3>. QED  BY <3>1, <3>4, <1>t, FramesIs, FramesIsNext, PushEffect, Zenon DEF FramesShaped
  <2>4. Frames'[n + 1] = {}
    <3>1. PICK m \in 1..n + 1 : m = n + 1
      BY <2>0
    <3>2. Frames'[m] = FrameOf(m)'
      BY <3>1, <1>t, FramesIsNext, PushEffect, Zenon DEF FramesShaped
    <3>3. frame_starts'[m] = Len(refs) /\ FrameEnd(m)' = Len(refs)
      BY <1>0, <3>1, PushEffect, Zenon DEF FrameEnd
    <3>4. frame_starts'[m] + 1..FrameEnd(m)' = {}
      BY <2>0, <3>3
    <3>. QED  BY <3>1, <3>2, <3>4, Zenon DEF FrameOf
  <2>5. {} \in SUBSET Handles
    OBVIOUS
  <2>6. /\ Append(Frames, {}) \in Seq(SUBSET Handles)
        /\ Len(Append(Frames, {})) = n + 1
        /\ \A j \in 1..n : Append(Frames, {})[j] = Frames[j]
        /\ Append(Frames, {})[n + 1] = {}
    BY <2>1, <2>5, AppendProperties
  <2>7. \A j \in 1..n + 1 : Frames'[j] = Append(Frames, {})[j]
    <3>1. \A j \in 1..n + 1 : j \in 1..n \/ j = n + 1
      BY <2>0
    <3>. QED  BY <3>1, <2>3, <2>4, <2>6, Zenon
  <2>. QED  BY <2>2, <2>6, <2>7, SeqEqual, Zenon
<1>. QED  BY <1>2, <1>3, <1>4, MappedPush, Zenon

\* PopLocalFrame, and call_native's frame.
LEMMA PopEffect ==
    ASSUME LInv, PopFrame, NEW n, n = Len(frame_starts), NEW start, start = frame_starts[n]
    PROVE  /\ n \in Nat \ {0} /\ start \in 0..Len(refs)
           /\ refs' \in Seq(Refs \cup {Null}) /\ Len(refs') = start
           /\ \A p \in 1..start : refs'[p] = refs[p]
           /\ serials' \in Seq(0..RetiredSerial) /\ Len(serials') = Len(serials)
           /\ \A p \in 1..Len(serials) :
                serials'[p] = IF p \in start + 1..Len(refs) THEN Bump(serials[p]) ELSE serials[p]
           /\ frame_starts' \in Seq(0..start) /\ Len(frame_starts') = n - 1
           /\ \A i \in 1..n - 1 : frame_starts'[i] = frame_starts[i]
           /\ retired_prefix' \in 0..Len(serials)
<1>t. TypeOK
  BY Zenon DEF LInv
<1>0. n \in Nat /\ Len(refs) \in Nat /\ Len(serials) \in Nat
  BY <1>t, Vectors, Zenon
<1>1. n \in Nat \ {0}
  BY EmptySeq, Zenon DEF PopFrame, LInv, TypeOK
<1>2. n \in 1..n
  BY <1>1
<1>3. start \in 0..Len(refs)
  BY <1>t, <1>2, Vectors, Zenon
<1>4. refs' = SubSeq(refs, 1, start)
  BY Zenon DEF PopFrame
<1>5. refs \in Seq(Refs \cup {Null})
  BY Zenon DEF LInv, TypeOK
<1>6. /\ refs' \in Seq(Refs \cup {Null}) /\ Len(refs') = start
      /\ \A p \in 1..start : refs'[p] = refs[p]
  BY <1>0, <1>3, <1>4, <1>5
<1>7. serials' = [p \in 1..Len(serials) |->
                    IF p \in start + 1..Len(refs) THEN Bump(serials[p]) ELSE serials[p]]
  BY <1>t, Vectors, Zenon DEF PopFrame
<1>8. serials' \in [1..Len(serials) -> 0..RetiredSerial]
  BY <1>t, <1>7, Vectors, BumpIs, Zenon
<1>9. serials' \in Seq(0..RetiredSerial) /\ Len(serials') = Len(serials)
  BY <1>0, <1>7, <1>8
<1>10. \A p \in 1..Len(serials) :
         serials'[p] = IF p \in start + 1..Len(refs) THEN Bump(serials[p]) ELSE serials[p]
  BY <1>7, Zenon
<1>11. frame_starts' = SubSeq(frame_starts, 1, n - 1)
  BY Zenon DEF PopFrame
<1>12. frame_starts \in Seq(0..Len(refs))
  BY Zenon DEF LInv, TypeOK
<1>13. /\ frame_starts' \in Seq(0..Len(refs)) /\ Len(frame_starts') = n - 1
       /\ \A i \in 1..n - 1 : frame_starts'[i] = frame_starts[i]
  BY <1>1, <1>11, <1>12
<1>14. \A i \in 1..n - 1 : frame_starts'[i] \in 0..start
  <2>1. ASSUME NEW i \in 1..n - 1 PROVE frame_starts'[i] \in 0..start
    <3>1. i \in 1..n /\ i <= n
      BY <1>1
    <3>2. frame_starts[i] <= frame_starts[n]
      BY <3>1, <1>2, Zenon DEF LInv, Framed
    <3>3. frame_starts[i] \in 0..Len(refs)
      BY <3>1, <1>t, Vectors, Zenon
    <3>4. frame_starts[i] \in 0..start
      BY <3>2, <3>3, <1>3, <1>0
    <3>. QED  BY <3>4, <1>13, Zenon
  <2>. QED  BY <2>1, Zenon
<1>15. frame_starts' \in Seq(0..start)
  <2>1. n - 1 \in Nat /\ DOMAIN frame_starts' = 1..n - 1
    BY <1>1, <1>13
  <2>2. frame_starts' = [i \in 1..n - 1 |-> frame_starts'[i]]
    BY <2>1, <1>13
  <2>3. frame_starts' \in [1..n - 1 -> 0..start]
    BY <2>2, <1>14, Zenon
  <2>. QED  BY <2>1, <2>3, FunIsSeq, Zenon
<1>16. retired_prefix' \in 0..Len(serials)
  <2>. DEFINE S == {k \in retired_prefix..Len(serials) :
                      \A p \in retired_prefix + 1..k : serials'[p] = RetiredSerial}
  <2>1. retired_prefix' = Max(S)
    BY Zenon DEF PopFrame
  <2>2. retired_prefix \in 0..Len(serials)
    BY Zenon DEF LInv, TypeOK
  <2>3. S \in SUBSET (0..Len(serials)) /\ retired_prefix \in S
    BY <2>2, <1>0
  <2>. HIDE DEF S
  <2>4. Max(S) \in S
    BY <2>3, <1>0, MaxIs, Zenon
  <2>. QED  BY <2>1, <2>3, <2>4, Zenon
<1>. QED  BY <1>1, <1>3, <1>6, <1>9, <1>10, <1>13, <1>15, <1>16, Zenon

LEMMA PopLInv ==
    ASSUME LInv, PopFrame
    PROVE  LInv'
<1>. PICK n : n = Len(frame_starts)
  BY Zenon
<1>. PICK start : start = frame_starts[n]
  OBVIOUS
<1>t. TypeOK
  BY Zenon DEF LInv
<1>0. /\ Len(refs) \in Nat /\ Len(serials) \in Nat /\ Len(refs) <= Len(serials)
      /\ Len(serials) <= MaxSlots /\ n \in Nat \ {0} /\ start \in 0..Len(refs)
  BY <1>t, Vectors, PopEffect, Zenon
<1>1. TypeOK'
  <2>1. Len(refs') <= Len(serials')
    BY <1>0, PopEffect
  <2>2. aborted' \in BOOLEAN
    BY Zenon DEF LInv, TypeOK, PopFrame
  <2>3. frame_starts' \in Seq(0..Len(refs'))
    BY PopEffect, Zenon
  <2>. QED  BY <2>1, <2>2, <2>3, <1>0, PopEffect, Zenon DEF TypeOK
<1>2. Serialled'
  <2>1. ASSUME NEW p \in 1..Len(refs'), refs'[p] # Null
        PROVE  serials'[p] < RetiredSerial
    <3>1. p \in 1..start
      BY PopEffect, Zenon
    <3>2. p \in 1..Len(refs) /\ p \in 1..Len(serials) /\ p \notin start + 1..Len(refs)
      BY <3>1, <1>0
    <3>3. serials'[p] = serials[p] /\ refs'[p] = refs[p]
      BY <3>1, <3>2, PopEffect, ZenonT(40)
    <3>. QED  BY <2>1, <3>2, <3>3, Zenon DEF LInv, Serialled
  <2>. QED  BY <2>1, Zenon DEF Serialled
<1>3. Framed'
  <2>1. ASSUME NEW i \in 1..Len(frame_starts'), NEW j \in 1..Len(frame_starts'), i <= j
        PROVE  frame_starts'[i] <= frame_starts'[j]
    <3>1. i \in 1..n - 1 /\ j \in 1..n - 1
      BY PopEffect, Zenon
    <3>2. i \in 1..n /\ j \in 1..n
      BY <3>1, <1>0
    <3>3. frame_starts'[i] = frame_starts[i] /\ frame_starts'[j] = frame_starts[j]
      BY <3>1, PopEffect, Zenon
    <3>. QED  BY <2>1, <3>2, <3>3, Zenon DEF LInv, Framed
  <2>2. frame_starts # <<>> /\ frame_starts[1] = 0
    BY Zenon DEF LInv, Framed, PopFrame
  <2>3. frame_starts' = <<>> => refs' = <<>>
    <3>1. SUFFICES ASSUME frame_starts' = <<>> PROVE refs' = <<>>
      OBVIOUS
    <3>2. n - 1 = 0
      BY <3>1, EmptySeq, PopEffect, Zenon
    <3>3. start = 0
      BY <3>2, <2>2, <1>0
    <3>4. Len(refs') = 0 /\ refs' \in Seq(Refs \cup {Null})
      BY <3>3, PopEffect, Zenon
    <3>. QED  BY <3>4
  <2>4. frame_starts' # <<>> => frame_starts'[1] = 0
    <3>1. SUFFICES ASSUME frame_starts' # <<>> PROVE frame_starts'[1] = 0
      OBVIOUS
    <3>2. n - 1 \in Nat \ {0}
      <4>1. frame_starts' \in Seq(0..start) /\ Len(frame_starts') = n - 1
        BY PopEffect, Zenon
      <4>2. Len(frame_starts') \in Nat \ {0}
        BY <3>1, <4>1, EmptySeq, Zenon
      <4>. QED  BY <4>1, <4>2, Zenon
    <3>3. 1 \in 1..n - 1
      BY <3>2
    <3>. QED  BY <3>3, <2>2, PopEffect, Zenon
  <2>. QED  BY <2>1, <2>3, <2>4, Zenon DEF Framed
<1>. QED  BY <1>1, <1>2, <1>3, Zenon DEF LInv

LEMMA PopImplements ==
    ASSUME LInv, PopFrame
    PROVE  Table!PopFrame
<1>. PICK n : n = Len(frame_starts)
  BY Zenon
<1>. PICK start : start = frame_starts[n]
  OBVIOUS
<1>t. TypeOK /\ TypeOK'
  BY PopLInv, Zenon DEF LInv
<1>0. /\ Len(refs) \in Nat /\ Len(serials) \in Nat /\ Len(refs) <= Len(serials)
      /\ n \in Nat \ {0} /\ start \in 0..Len(refs)
  BY <1>t, Vectors, PopEffect, Zenon
<1>1. ASSUME NEW h \in Handles
      PROVE  Get(h)' = IF h[1] <= start THEN Get(h) ELSE Null
  <2>0. h[1] \in Nat /\ h[1] >= 1
    BY HandleParts
  <2>1. CASE h[1] <= start
    <3>1. /\ h[1] \in 1..start /\ h[1] <= Len(refs) /\ h[1] \in 1..Len(serials)
          /\ h[1] \notin start + 1..Len(refs)
      BY <2>0, <2>1, <1>0
    <3>2. refs'[h[1]] = refs[h[1]] /\ serials'[h[1]] = serials[h[1]] /\ Len(refs') = start
      BY <3>1, PopEffect, ZenonT(40)
    <3>. QED  BY <2>1, <3>1, <3>2, Zenon DEF Get
  <2>2. CASE ~(h[1] <= start)
    <3>1. Len(refs') = start
      BY PopEffect, Zenon
    <3>. QED  BY <2>2, <3>1, Zenon DEF Get
  <2>. QED  BY <2>1, <2>2, Zenon
<1>2. Fresh' \subseteq Fresh
  <2>1. ASSUME NEW h \in Handles, Unissued(h)' PROVE Unissued(h)
    <3>0. h[1] \in Nat /\ h[1] >= 1 /\ h[2] \in Nat /\ h[2] < RetiredSerial
      BY HandleParts
    <3>1. Get(h)' = Null /\ (h[1] <= Len(serials) => h[2] >= serials'[h[1]])
      BY <2>1, PopEffect, Zenon DEF Unissued
    <3>2. CASE h[1] \in start + 1..Len(refs)
      <4>1. h[1] \in 1..Len(serials) /\ h[1] <= Len(serials)
        BY <3>2, <1>0
      <4>2. serials'[h[1]] = Bump(serials[h[1]])
        BY <4>1, <3>2, PopEffect, Zenon
      <4>3. serials[h[1]] \in 0..RetiredSerial
        BY <4>1, <1>t, Vectors, Zenon
      <4>4. h[2] >= serials[h[1]] /\ h[2] # serials[h[1]]
        BY <4>1, <4>2, <4>3, <3>0, <3>1, BumpIs, Zenon
      <4>. QED  BY <4>4, Zenon DEF Unissued, Get
    <3>3. CASE h[1] \notin start + 1..Len(refs)
      <4>1. h[1] <= Len(serials) => h[1] \in 1..Len(serials)
        BY <3>0, <1>0
      <4>2. h[1] <= Len(serials) => h[2] >= serials[h[1]]
        BY <4>1, <3>1, <3>3, PopEffect, ZenonT(40)
      <4>3. h[1] <= start \/ ~(h[1] <= Len(refs))
        BY <3>0, <3>3, <1>0
      <4>4. Get(h) = Null
        BY <4>3, <3>1, <1>1, Zenon DEF Get
      <4>. QED  BY <4>2, <4>4, Zenon DEF Unissued
    <3>. QED  BY <3>2, <3>3, Zenon
  <2>. QED  BY <2>1, Zenon DEF Fresh
<1>3. Frames # <<>> /\ Frames \in Seq(SUBSET Handles) /\ Len(Frames) = n
  <2>1. Frames \in Seq(SUBSET Handles) /\ Len(Frames) = n
    BY <1>t, FramesIs, Zenon DEF FramesShaped
  <2>. QED  BY <2>1, <1>0, Zenon
<1>4. ASSUME NEW h \in Handles
      PROVE  h \in Frames[n] <=> Get(h) # Null /\ h[1] > start
  <2>1. n \in 1..n
    BY <1>0
  <2>2. Frames[n] = FrameOf(n)
    BY <2>1, <1>t, FramesIs, Zenon DEF FramesShaped
  <2>3. h \in FrameOf(n) <=> Get(h) # Null /\ h[1] > start /\ h[1] <= Len(refs)
    BY <2>1, <1>t, FrameOfIs, Zenon DEF FrameEnd
  <2>4. Get(h) # Null => h[1] <= Len(refs)
    BY Zenon DEF Get
  <2>. QED  BY <2>2, <2>3, <2>4, Zenon
<1>5. Live' = [h \in DOMAIN Live \ Frames[Len(Frames)] |-> Live[h]]
  <2>1. DOMAIN Live = LiveHandles /\ \A h \in LiveHandles : Live[h] = Get(h)
    BY Zenon DEF Live
  <2>2. ASSUME NEW h \in Handles
        PROVE  Get(h)' # Null <=> Get(h) # Null /\ h \notin Frames[n]
    <3>1. h[1] <= start <=> ~(h[1] > start)
      BY HandleParts, <1>0
    <3>. QED  BY <3>1, <1>1, <1>4, Zenon
  <2>3. LiveHandles' = LiveHandles \ Frames[n]
    BY <2>2, Zenon DEF LiveHandles
  <2>4. \A h \in LiveHandles' : Get(h)' = Get(h)
    BY <1>1, Zenon DEF LiveHandles
  <2>5. Live' = [h \in LiveHandles' |-> Get(h)']
    BY Zenon DEF Live
  <2>6. Live' = [h \in LiveHandles \ Frames[n] |-> Live[h]]
    BY <2>1, <2>3, <2>4, <2>5, Zenon
  <2>. QED  BY <2>1, <2>6, <1>3, Zenon
<1>6. Frames' = SubSeq(Frames, 1, Len(Frames) - 1)
  <2>1. Frames' \in Seq(SUBSET Handles) /\ Len(Frames') = n - 1
    BY <1>t, FramesIsNext, PopEffect, Zenon DEF FramesShaped
  <2>2. /\ SubSeq(Frames, 1, n - 1) \in Seq(SUBSET Handles)
        /\ Len(SubSeq(Frames, 1, n - 1)) = n - 1
        /\ \A j \in 1..n - 1 : SubSeq(Frames, 1, n - 1)[j] = Frames[j]
    BY <1>0, <1>3
  <2>3. ASSUME NEW j \in 1..n - 1 PROVE Frames'[j] = Frames[j]
    <3>1. j \in 1..n /\ j # n /\ j + 1 \in 1..n /\ n - 1 \in Nat
      BY <1>0
    <3>2. Frames[j] = FrameOf(j)
      BY <3>1, <1>t, FramesIs, Zenon DEF FramesShaped
    <3>3. Frames'[j] = FrameOf(j)'
      BY <1>t, FramesIsNext, PopEffect, Zenon DEF FramesShaped
    <3>4. frame_starts'[j] = frame_starts[j]
      BY PopEffect, Zenon
    <3>5. FrameEnd(j)' = FrameEnd(j)
      <4>1. FrameEnd(j) = frame_starts[j + 1]
        BY <3>1, Zenon DEF FrameEnd
      <4>2. CASE j = n - 1
        <5>1. FrameEnd(j) = start
          BY <4>1, <4>2, <3>1, <1>0
        <5>2. FrameEnd(j)' = start
          BY <4>2, PopEffect, Zenon DEF FrameEnd
        <5>. QED  BY <5>1, <5>2, Zenon
      <4>3. CASE j # n - 1
        <5>1. j + 1 \in 1..n - 1
          BY <4>3, <1>0
        <5>. QED  BY <5>1, <4>1, <4>3, PopEffect, Zenon DEF FrameEnd
      <4>. QED  BY <4>2, <4>3, Zenon
    <3>6. FrameEnd(j) <= start /\ FrameEnd(j) \in Nat
      <4>0. j + 1 <= n /\ n \in 1..n
        BY <3>1, <1>0
      <4>1. frame_starts[j + 1] <= start
        BY <3>1, <4>0, Zenon DEF LInv, Framed
      <4>2. frame_starts[j + 1] \in 0..Len(refs)
        BY <3>1, <1>t, Vectors, Zenon
      <4>. QED  BY <4>1, <4>2, <3>1, <1>0 DEF FrameEnd
    <3>7. ASSUME NEW h \in Handles, h[1] \in frame_starts[j] + 1..FrameEnd(j)
          PROVE  Get(h)' = Get(h)
      <4>1. frame_starts[j] \in Nat
        BY <3>1, <1>t, Vectors
      <4>2. h[1] <= start
        BY <4>1, <3>6, <3>7, <1>0
      <4>. QED  BY <4>2, <1>1, Zenon
    <3>8. FrameOf(j)' = FrameOf(j)
      BY <3>4, <3>5, <3>7, Zenon DEF FrameOf, LiveHandles
    <3>. QED  BY <3>2, <3>3, <3>8, Zenon
  <2>4. Frames' = SubSeq(Frames, 1, n - 1)
    BY <2>1, <2>2, <2>3, SeqEqual, Zenon
  <2>. QED  BY <2>4, <1>3, Zenon
<1>. QED  BY <1>2, <1>3, <1>5, <1>6, MappedPop, Zenon

\* LocalHandles::add.
LEMMA NextSlotIs ==
    ASSUME TypeOK
    PROVE  /\ NextSlot \in 1..Len(serials) + 1
           /\ NextSlot > Len(refs)
           /\ NextSlot <= Len(serials) => serials[NextSlot] # RetiredSerial
<1>. DEFINE S == {p \in 1..Len(serials) + 1 :
                    /\ p > Len(refs) /\ p > retired_prefix
                    /\ p <= Len(serials) => serials[p] # RetiredSerial}
<1>0. /\ Len(refs) \in Nat /\ Len(serials) \in Nat /\ Len(refs) <= Len(serials)
      /\ retired_prefix \in 0..Len(serials)
  BY Vectors, Zenon DEF TypeOK
<1>1. Len(serials) + 1 \in S /\ S \in SUBSET Nat
  BY <1>0
<1>2. NextSlot = Min(S)
  BY Zenon DEF NextSlot
<1>3. NextSlot \in S
  <2>. HIDE DEF S
  <2>. QED  BY <1>1, <1>2, MinIs, Zenon
<1>. QED  BY <1>3, Zenon

LEMMA AddEffect ==
    ASSUME LInv, NEW r \in Refs, Add(r), NEW p, p = NextSlot, p <= MaxSlots
    PROVE  /\ p \in 1..MaxSlots /\ p > Len(refs)
           /\ refs' \in Seq(Refs \cup {Null}) /\ Len(refs') = p
           /\ \A i \in 1..p : refs'[i] = IF i = p THEN r ELSE IF i <= Len(refs) THEN refs[i] ELSE Null
           /\ serials' \in Seq(0..RetiredSerial)
           /\ Len(serials') \in Nat /\ Len(serials) <= Len(serials') /\ Len(serials') <= MaxSlots
           /\ p \in 1..Len(serials')
           /\ \A i \in 1..Len(serials) : serials'[i] = serials[i]
           /\ serials'[p] \in Nat /\ serials'[p] < RetiredSerial
           /\ frame_starts' = IF frame_starts = <<>> THEN <<Len(refs)>> ELSE frame_starts
           /\ UNCHANGED <<retired_prefix, aborted>>
<1>t. TypeOK
  BY Zenon DEF LInv
<1>0. /\ Len(refs) \in Nat /\ Len(serials) \in Nat /\ Len(refs) <= Len(serials)
      /\ Len(serials) <= MaxSlots
  BY <1>t, Vectors, Zenon
<1>1. p \in 1..Len(serials) + 1 /\ p > Len(refs) /\ (p <= Len(serials) => serials[p] # RetiredSerial)
  BY <1>t, NextSlotIs, Zenon
<1>2. p \in Nat /\ p \in 1..MaxSlots /\ ~(p > MaxSlots)
  BY <1>0, <1>1, JniHandlesAssumption
<1>3. /\ refs' = [i \in 1..p |-> IF i = p THEN r ELSE IF i <= Len(refs) THEN refs[i] ELSE Null]
      /\ serials' = IF p <= Len(serials) THEN serials ELSE Append(serials, 0)
      /\ frame_starts' = IF frame_starts = <<>> THEN <<Len(refs)>> ELSE frame_starts
      /\ UNCHANGED <<retired_prefix, aborted>>
  BY <1>2, Zenon DEF Add
<1>4. refs' \in [1..p -> Refs \cup {Null}]
  <2>1. \A i \in 1..p : i <= Len(refs) => i \in 1..Len(refs)
    BY <1>0, <1>2
  <2>2. \A i \in 1..Len(refs) : refs[i] \in Refs \cup {Null}
    BY <1>t, Vectors, Zenon
  <2>. QED  BY <2>1, <2>2, <1>3, Zenon
<1>5. refs' \in Seq(Refs \cup {Null}) /\ Len(refs') = p
  BY <1>2, <1>4, FunIsSeq, Zenon
<1>6. serials \in Seq(0..RetiredSerial) /\ 0 \in 0..RetiredSerial /\ RetiredSerial > 0
  BY JniHandlesAssumption DEF LInv, TypeOK
<1>7. CASE p <= Len(serials)
  <2>1. serials' = serials /\ p \in 1..Len(serials)
    BY <1>0, <1>1, <1>3, <1>7
  <2>2. serials[p] \in 0..RetiredSerial
    BY <2>1, <1>t, Vectors, Zenon
  <2>3. serials[p] \in Nat /\ serials[p] < RetiredSerial
    BY <2>2, <1>1, <1>7, JniHandlesAssumption
  <2>. QED  BY <2>1, <2>3, <1>0, <1>1, <1>2, <1>3, <1>5, <1>6
<1>8. CASE ~(p <= Len(serials))
  <2>1. serials' = Append(serials, 0) /\ p = Len(serials) + 1
    BY <1>0, <1>1, <1>3, <1>8
  <2>2. /\ Append(serials, 0) \in Seq(0..RetiredSerial)
        /\ Len(Append(serials, 0)) = Len(serials) + 1
        /\ \A i \in 1..Len(serials) : Append(serials, 0)[i] = serials[i]
        /\ Append(serials, 0)[Len(serials) + 1] = 0
    BY <1>6, AppendProperties
  <2>3. /\ serials' \in Seq(0..RetiredSerial) /\ Len(serials') = p
        /\ \A i \in 1..Len(serials) : serials'[i] = serials[i]
        /\ serials'[p] = 0
    BY <2>1, <2>2, Zenon
  <2>4. /\ Len(serials') \in Nat /\ Len(serials) <= Len(serials') /\ Len(serials') <= MaxSlots
        /\ p \in 1..Len(serials') /\ serials'[p] \in Nat /\ serials'[p] < RetiredSerial
    BY <2>1, <2>3, <1>0, <1>2, <1>6
  <2>. QED  BY <2>3, <2>4, <1>1, <1>2, <1>3, <1>5, Zenon
<1>. QED  BY <1>7, <1>8, Zenon

\* The first reference opens the base frame.
LEMMA BaseFrame ==
    ASSUME LInv, frame_starts = <<>>, frame_starts' = <<Len(refs)>>
    PROVE  /\ Len(frame_starts) = 0 /\ Len(refs) = 0
           /\ frame_starts' \in Seq({0}) /\ Len(frame_starts') = 1 /\ frame_starts'[1] = 0
           /\ frame_starts' # <<>>
<1>1. Len(frame_starts) = 0 /\ Len(refs) = 0
  BY Zenon DEF LInv, Framed
<1>2. frame_starts' = <<0>>
  BY <1>1, Zenon
<1>. QED  BY <1>1, <1>2

\* Frame starts up to the table's end stay so when the table grows.
LEMMA AddFramed ==
    ASSUME LInv, NEW l \in Nat, Len(refs) <= l, Len(refs') = l,
           frame_starts' = IF frame_starts = <<>> THEN <<Len(refs)>> ELSE frame_starts
    PROVE  Framed' /\ frame_starts' \in Seq(0..l)
<1>1. CASE frame_starts = <<>>
  <2>1. /\ frame_starts' \in Seq({0}) /\ Len(frame_starts') = 1 /\ frame_starts'[1] = 0
        /\ frame_starts' # <<>>
    BY <1>1, BaseFrame, Zenon
  <2>2. frame_starts' \in Seq(0..l)
    BY <2>1
  <2>3. \A i \in 1..1 : i = 1
    OBVIOUS
  <2>4. \A i, j \in 1..Len(frame_starts') : i <= j => frame_starts'[i] <= frame_starts'[j]
    BY <2>1, <2>3
  <2>. QED  BY <2>1, <2>2, <2>4, Zenon DEF Framed
<1>2. CASE frame_starts # <<>>
  <2>1. frame_starts' = frame_starts
    BY <1>2, Zenon
  <2>2. Framed'
    BY <1>2, <2>1, Zenon DEF LInv, Framed
  <2>3. frame_starts \in Seq(0..Len(refs)) /\ Len(refs) \in Nat
    BY Vectors, Zenon DEF LInv, TypeOK
  <2>4. frame_starts \in [1..Len(frame_starts) -> 0..Len(refs)] /\ Len(frame_starts) \in Nat
    BY <2>3, LenProperties, Zenon
  <2>5. \A i \in 0..Len(refs) : i \in 0..l
    BY <2>3
  <2>6. frame_starts \in [1..Len(frame_starts) -> 0..l]
    BY <2>4, <2>5, Zenon
  <2>7. frame_starts \in Seq(0..l)
    BY <2>4, <2>6, FunIsSeq, Zenon
  <2>. QED  BY <2>1, <2>2, <2>7, Zenon
<1>. QED  BY <1>1, <1>2, Zenon

LEMMA AddLInv ==
    ASSUME LInv, NEW r \in Refs, Add(r)
    PROVE  LInv'
<1>. PICK p : p = NextSlot
  OBVIOUS
<1>t. TypeOK
  BY Zenon DEF LInv
<1>0. /\ Len(refs) \in Nat /\ Len(serials) \in Nat /\ Len(refs) <= Len(serials)
      /\ Len(serials) <= MaxSlots /\ MaxSlots \in Nat /\ p \in Nat
  <2>1. p \in 1..Len(serials) + 1
    BY <1>t, NextSlotIs, Zenon
  <2>2. Len(refs) \in Nat /\ Len(serials) \in Nat /\ Len(refs) <= Len(serials) /\ Len(serials) <= MaxSlots
    BY <1>t, Vectors, Zenon
  <2>. QED  BY <2>1, <2>2, JniHandlesAssumption
<1>1. CASE p > MaxSlots
  <2>1. /\ UNCHANGED <<refs, serials, retired_prefix>> /\ aborted' = TRUE
        /\ frame_starts' = IF frame_starts = <<>> THEN <<Len(refs)>> ELSE frame_starts
    BY <1>1, Zenon DEF Add
  <2>2. Framed' /\ frame_starts' \in Seq(0..Len(refs))
    <3>1. PICK l \in Nat : l = Len(refs)
      BY <1>0, Zenon
    <3>2. Len(refs) <= l
      BY <3>1
    <3>. QED  BY <3>1, <3>2, <2>1, AddFramed, Zenon
  <2>3. Serialled' /\ TypeOK'
    BY <2>1, <2>2, Zenon DEF LInv, Serialled, TypeOK
  <2>. QED  BY <2>2, <2>3, Zenon DEF LInv
<1>2. CASE ~(p > MaxSlots)
  <2>0. p <= MaxSlots
    BY <1>0, <1>2
  <2>1. Framed' /\ frame_starts' \in Seq(0..p)
    <3>1. Len(refs) <= p
      BY <2>0, <1>0, AddEffect
    <3>. QED  BY <3>1, <2>0, <1>0, AddEffect, AddFramed, Zenon
  <2>2. TypeOK'
    <3>1. Len(refs') <= Len(serials')
      BY <2>0, AddEffect
    <3>2. retired_prefix' \in 0..Len(serials')
      <4>1. retired_prefix \in 0..Len(serials)
        BY Zenon DEF LInv, TypeOK
      <4>2. /\ Len(serials') \in Nat /\ Len(serials) <= Len(serials')
            /\ retired_prefix' = retired_prefix
        BY <2>0, AddEffect, Zenon
      <4>. QED  BY <4>1, <4>2, <1>0
    <3>3. aborted' \in BOOLEAN
      BY <2>0, AddEffect, Zenon DEF LInv, TypeOK
    <3>. QED  BY <3>1, <3>2, <3>3, <2>0, <2>1, AddEffect, Zenon DEF TypeOK
  <2>3. Serialled'
    <3>1. ASSUME NEW i \in 1..Len(refs'), refs'[i] # Null PROVE serials'[i] < RetiredSerial
      <4>1. i \in 1..p
        BY <2>0, AddEffect, Zenon
      <4>2. CASE i = p
        BY <4>2, <2>0, AddEffect, Zenon
      <4>3. CASE i # p
        <5>0. refs'[i] = IF i = p THEN r ELSE IF i <= Len(refs) THEN refs[i] ELSE Null
          BY <4>1, <2>0, AddEffect, Zenon
        <5>1. i <= Len(refs) /\ refs[i] # Null
          BY <5>0, <4>3, <3>1, Zenon
        <5>2. i \in 1..Len(refs) /\ i \in 1..Len(serials)
          BY <5>1, <4>1, <1>0
        <5>3. serials[i] < RetiredSerial
          BY <5>1, <5>2, Zenon DEF LInv, Serialled
        <5>. QED  BY <5>2, <5>3, <2>0, AddEffect, Zenon
      <4>. QED  BY <4>2, <4>3, Zenon
    <3>. QED  BY <3>1, Zenon DEF Serialled
  <2>. QED  BY <2>1, <2>2, <2>3, Zenon DEF LInv
<1>. QED  BY <1>1, <1>2, Zenon

LEMMA AddImplements ==
    ASSUME LInv, NEW r \in Refs, Add(r), NextSlot <= MaxSlots
    PROVE  \E h \in Handles : Table!Add(r, h)
<1>. PICK p : p = NextSlot
  OBVIOUS
<1>. PICK n : n = Len(frame_starts)
  BY Zenon
<1>t. TypeOK /\ TypeOK' /\ LInv'
  BY AddLInv, Zenon DEF LInv
<1>0. /\ Len(refs) \in Nat /\ Len(serials) \in Nat /\ Len(refs) <= Len(serials)
      /\ n \in Nat /\ p \in 1..MaxSlots /\ p > Len(refs) /\ Len(refs') = p
  BY <1>t, Vectors, AddEffect, Zenon
<1>1. PICK h \in Handles : h[1] = p /\ h[2] = serials'[p]
  <2>1. serials'[p] \in Nat /\ serials'[p] < RetiredSerial
    BY AddEffect, Zenon
  <2>2. <<p, serials'[p]>> \in Handles
    BY <2>1, <1>0, JniHandlesAssumption DEF Handles, Slots
  <2>. QED  BY <2>2, Zenon
<1>2. ASSUME NEW g \in Handles PROVE Get(g)' = IF g = h THEN r ELSE Get(g)
  <2>0. g[1] \in Nat /\ g[1] >= 1
    BY HandleParts
  <2>1. CASE g[1] <= Len(refs)
    <3>1. /\ g[1] \in 1..p /\ g[1] # p /\ g[1] <= p /\ g[1] \in 1..Len(serials)
      BY <2>0, <2>1, <1>0
    <3>2. refs'[g[1]] = refs[g[1]] /\ serials'[g[1]] = serials[g[1]]
      BY <2>1, <3>1, AddEffect, Zenon
    <3>3. g # h
      BY <3>1, <1>1, Zenon
    <3>. QED  BY <2>1, <3>1, <3>2, <3>3, <1>0, Zenon DEF Get
  <2>2. CASE ~(g[1] <= Len(refs)) /\ g[1] # p
    <3>1. Get(g) = Null /\ g # h
      BY <2>2, <1>1, Zenon DEF Get
    <3>2. g[1] <= p => refs'[g[1]] = Null
      <4>1. g[1] <= p => g[1] \in 1..p
        BY <2>0, <1>0
      <4>. QED  BY <4>1, <2>2, AddEffect, ZenonT(40)
    <3>. QED  BY <3>1, <3>2, <1>0, Zenon DEF Get
  <2>3. CASE g[1] = p
    <3>1. Get(g) = Null /\ g[1] <= Len(refs') /\ p \in 1..p
      <4>1. ~(g[1] <= Len(refs)) /\ g[1] <= Len(refs') /\ p \in 1..p
        BY <2>3, <1>0
      <4>. QED  BY <4>1, Zenon DEF Get
    <3>2. refs'[g[1]] = r /\ r # Null
      <4>1. refs'[p] = IF p = p THEN r ELSE IF p <= Len(refs) THEN refs[p] ELSE Null
        BY <3>1, AddEffect, Zenon
      <4>. QED  BY <4>1, <2>3, JniHandlesAssumption, Zenon
    <3>3. g = h <=> g[2] = serials'[p]
      BY <2>3, <1>1, HandleParts, Zenon
    <3>. QED  BY <3>1, <3>2, <3>3, <2>3, Zenon DEF Get
  <2>. QED  BY <2>1, <2>2, <2>3, Zenon
<1>3. Get(h) = Null /\ r # Null
  <2>1. ~(h[1] <= Len(refs))
    BY <1>0, <1>1
  <2>. QED  BY <2>1, JniHandlesAssumption, Zenon DEF Get
<1>4. h \in Fresh
  <2>1. ASSUME h[1] <= Len(serials) PROVE h[2] >= serials[h[1]]
    <3>1. p \in 1..Len(serials)
      BY <2>1, <1>0, <1>1
    <3>2. h[2] = serials[h[1]] /\ h[2] \in Nat
      BY <3>1, <1>1, AddEffect, HandleParts, Zenon
    <3>. QED  BY <3>2
  <2>. QED  BY <2>1, <1>3, Zenon DEF Fresh, Unissued
<1>5. Fresh' \subseteq Fresh \ {h}
  <2>1. ASSUME NEW g \in Handles, Unissued(g)' PROVE Unissued(g) /\ g # h
    <3>1. Get(g)' = Null /\ (g[1] <= Len(serials') => g[2] >= serials'[g[1]])
      BY <2>1, Zenon DEF Unissued
    <3>2. g # h /\ Get(g) = Null
      BY <3>1, <1>2, <1>3, Zenon
    <3>3. ASSUME g[1] <= Len(serials) PROVE g[2] >= serials[g[1]]
      <4>1. g[1] \in 1..Len(serials)
        BY <3>3, <1>0, HandleParts
      <4>2. Len(serials') \in Nat /\ Len(serials) <= Len(serials') /\ serials'[g[1]] = serials[g[1]]
        BY <4>1, AddEffect, Zenon
      <4>3. g[1] <= Len(serials')
        BY <4>1, <4>2, <1>0
      <4>. QED  BY <4>2, <4>3, <3>1, Zenon
    <3>. QED  BY <3>2, <3>3, Zenon DEF Unissued
  <2>. QED  BY <2>1, Zenon DEF Fresh
<1>6. LiveHandles' = LiveHandles \cup {h}
  BY <1>2, <1>3, Zenon DEF LiveHandles
<1>7. Live' = [g \in DOMAIN Live \cup {h} |-> IF g = h THEN r ELSE Live[g]]
  <2>1. DOMAIN Live = LiveHandles /\ \A g \in LiveHandles : Live[g] = Get(g) /\ g \in Handles
    BY Zenon DEF Live, LiveHandles
  <2>2. Live' = [g \in LiveHandles' |-> Get(g)']
    BY Zenon DEF Live
  <2>3. \A g \in LiveHandles \cup {h} : Get(g)' = IF g = h THEN r ELSE Live[g]
    BY <2>1, <1>2, Zenon
  <2>. QED  BY <2>1, <2>2, <2>3, <1>6, Zenon
<1>8. Frames' = IF Frames = <<>> THEN <<{h}>>
                                 ELSE [Frames EXCEPT ![Len(Frames)] = @ \cup {h}]
  <2>1. Frames \in Seq(SUBSET Handles) /\ Len(Frames) = n
    BY <1>t, FramesIs, Zenon DEF FramesShaped
  <2>2. Frames' \in Seq(SUBSET Handles) /\ Len(Frames') = Len(frame_starts')
    BY <1>t, FramesIsNext, Zenon DEF FramesShaped
  <2>3. frame_starts' = IF frame_starts = <<>> THEN <<Len(refs)>> ELSE frame_starts
    BY AddEffect, Zenon
  <2>4. CASE frame_starts = <<>>
    <3>1. n = 0 /\ Len(refs) = 0 /\ Len(frame_starts') = 1 /\ frame_starts'[1] = 0
      BY <2>3, <2>4, BaseFrame, Zenon
    <3>2. Frames = <<>>
      BY <2>1, <3>1
    <3>3. Frames'[1] = FrameOf(1)' /\ FrameEnd(1)' = p
      BY <3>1, <1>0, <1>t, FramesIsNext DEF FramesShaped, FrameEnd
    <3>4. ASSUME NEW g \in Handles PROVE g \in FrameOf(1)' <=> g = h
      <4>1. g \in FrameOf(1)' <=> Get(g)' # Null /\ g[1] > 0 /\ g[1] <= p
        <5>1. 1 \in 1..Len(frame_starts')
          BY <3>1
        <5>. QED  BY <5>1, <3>1, <3>3, <1>t, FrameMembersNext, ZenonT(40) DEF FrameMembers
      <4>2. Get(g) = Null
        <5>1. ~(g[1] <= Len(refs))
          BY <3>1, HandleParts
        <5>. QED  BY <5>1, Zenon DEF Get
      <4>3. h[1] > 0 /\ h[1] <= p
        BY <1>0, <1>1
      <4>. QED  BY <4>1, <4>2, <4>3, <1>2, <1>3, Zenon
    <3>5. Frames'[1] \in SUBSET Handles
      BY <2>2, <3>1
    <3>6. Frames'[1] = {h}
      BY <3>3, <3>4, <3>5, Zenon
    <3>7. Frames' = <<{h}>>
      BY <2>2, <3>1, <3>6
    <3>. QED  BY <3>2, <3>7, Zenon
  <2>5. CASE frame_starts # <<>>
    <3>1. frame_starts' = frame_starts /\ n \in Nat \ {0} /\ n \in 1..n
      <4>1. n \in Nat \ {0}
        BY <2>5, EmptySeq, Zenon DEF LInv, TypeOK
      <4>. QED  BY <4>1, <2>3, <2>5
    <3>2. ASSUME NEW j \in 1..n
          PROVE  Frames'[j] = IF j = n THEN Frames[n] \cup {h} ELSE Frames[j]
      <4>1. Frames'[j] = FrameOf(j)' /\ Frames[j] = FrameOf(j)
        BY <3>1, <1>t, FramesIs, FramesIsNext, Zenon DEF FramesShaped
      <4>2. Frames'[j] \in SUBSET Handles /\ Frames[j] \in SUBSET Handles
        BY <3>1, <2>1, <2>2
      <4>3. ASSUME NEW g \in Handles
            PROVE  /\ g \in FrameOf(j) <=> Get(g) # Null /\ g[1] > frame_starts[j] /\ g[1] <= FrameEnd(j)
                   /\ g \in FrameOf(j)' <=> Get(g)' # Null /\ g[1] > frame_starts[j] /\ g[1] <= FrameEnd(j)'
        BY <3>1, <1>t, FrameMembersIs, FrameMembersNext, Zenon DEF FrameMembers
      <4>4. frame_starts[j] \in 0..Len(refs)
        BY <1>t, Vectors, Zenon
      <4>5. CASE j = n
        <5>1. FrameEnd(j) = Len(refs) /\ FrameEnd(j)' = p
          BY <4>5, <3>1, <1>0, Zenon DEF FrameEnd
        <5>2. h[1] > frame_starts[j] /\ h[1] <= p
          BY <4>4, <1>0, <1>1
        <5>3. ASSUME NEW g \in Handles PROVE g \in FrameOf(j)' <=> g \in FrameOf(j) \/ g = h
          <6>1. Get(g) # Null => g[1] <= Len(refs)
            BY Zenon DEF Get
          <6>2. g[1] <= Len(refs) => g[1] <= p
            BY <1>0, HandleParts
          <6>. QED  BY <6>1, <6>2, <5>1, <5>2, <4>3, <1>2, <1>3, Zenon
        <5>. QED  BY <5>3, <4>1, <4>2, <4>5, Zenon
      <4>6. CASE j # n
        <5>1. j + 1 \in 1..n
          BY <4>6, <3>1
        <5>2. FrameEnd(j) = frame_starts[j + 1] /\ FrameEnd(j)' = frame_starts[j + 1]
          BY <4>6, <3>1, Zenon DEF FrameEnd
        <5>3. frame_starts[j + 1] \in 0..Len(refs)
          BY <5>1, <1>t, Vectors, Zenon
        <5>4. ~(h[1] <= FrameEnd(j))
          BY <5>2, <5>3, <1>0, <1>1
        <5>5. ASSUME NEW g \in Handles PROVE g \in FrameOf(j)' <=> g \in FrameOf(j)
          BY <5>2, <5>4, <4>3, <1>2, Zenon
        <5>6. Frames'[j] = Frames[j]
          <6>1. \A g \in Handles : g \in Frames'[j] <=> g \in Frames[j]
            BY <5>5, <4>1, Zenon
          <6>. QED  BY <6>1, <4>2, SubsetsEqual, Zenon
        <5>. QED  BY <5>6, <4>6, Zenon
      <4>. QED  BY <4>5, <4>6, Zenon
    <3>3. Frames' = [j \in 1..n |-> IF j = n THEN Frames[n] \cup {h} ELSE Frames[j]]
      <4>1. DOMAIN Frames' = 1..n /\ Frames' = [j \in DOMAIN Frames' |-> Frames'[j]]
        BY <2>2, <3>1
      <4>. QED  BY <4>1, <3>2, Zenon
    <3>4. DOMAIN Frames = 1..n /\ Frames # <<>> /\ Len(Frames) = n
      BY <2>1, <3>1
    <3>5. [Frames EXCEPT ![n] = @ \cup {h}] = [j \in 1..n |-> IF j = n THEN Frames[n] \cup {h} ELSE Frames[j]]
      BY <3>4, Zenon
    <3>. QED  BY <3>3, <3>4, <3>5, Zenon
  <2>. QED  BY <2>4, <2>5, Zenon
<1>. QED  BY <1>4, <1>5, <1>7, <1>8, MappedAdd, Zenon

\* A full table aborts the process, with a base frame opened before.
LEMMA AddFullImplements ==
    ASSUME LInv, NEW r \in Refs, Add(r), NextSlot > MaxSlots
    PROVE  Table!PushFrame \/ UNCHANGED Table!vars
<1>0. /\ UNCHANGED <<refs, serials, retired_prefix>>
      /\ frame_starts' = IF frame_starts = <<>> THEN <<Len(refs)>> ELSE frame_starts
  BY Zenon DEF Add
<1>t. TypeOK /\ TypeOK'
  BY AddLInv, Zenon DEF LInv
<1>1. \A h : Get(h)' = Get(h) /\ (Unissued(h)' <=> Unissued(h))
  BY <1>0, Zenon DEF Get, Unissued
<1>2. Fresh' = Fresh
  BY <1>1, Zenon DEF Fresh
<1>3. Live' = Live
  BY <1>1, Zenon DEF Live, LiveHandles
<1>4. CASE frame_starts = <<>>
  <2>1. /\ Len(frame_starts) = 0 /\ Len(refs) = 0
        /\ Len(frame_starts') = 1 /\ frame_starts'[1] = 0
    BY <1>0, <1>4, BaseFrame, Zenon
  <2>2. Frames = <<>>
    <3>1. Frames \in Seq(SUBSET Handles) /\ Len(Frames) = 0
      BY <1>t, <2>1, FramesIs, Zenon DEF FramesShaped
    <3>. QED  BY <3>1
  <2>3. Frames' \in Seq(SUBSET Handles) /\ Len(Frames') = 1 /\ Frames'[1] = FrameOf(1)'
    BY <1>t, <2>1, FramesIsNext DEF FramesShaped
  <2>4. frame_starts'[1] + 1..FrameEnd(1)' = {}
    BY <1>0, <2>1 DEF FrameEnd
  <2>5. Frames'[1] = {}
    BY <2>3, <2>4, Zenon DEF FrameOf
  <2>6. Frames' = Append(Frames, {})
    BY <2>2, <2>3, <2>5
  <2>. QED  BY <2>6, <1>2, <1>3, MappedPush, Zenon
<1>5. CASE frame_starts # <<>>
  <2>1. UNCHANGED <<frame_starts, refs>>
    BY <1>0, <1>5, Zenon
  <2>2. Frames' = Frames
    BY <2>1, <1>1, Zenon DEF Frames, FrameOf, LiveHandles, FrameEnd
  <2>. QED  BY <2>2, <1>2, <1>3, MappedStutter, Zenon
<1>. QED  BY <1>4, <1>5, Zenon

\* DeleteLocalRef.
LEMMA RemoveEffect ==
    ASSUME LInv, NEW h \in Handles, Remove(h)
    PROVE  /\ refs' \in Seq(Refs \cup {Null}) /\ Len(refs') \in 0..Len(refs)
           /\ \A p \in 1..Len(refs') : refs'[p] = IF p = h[1] THEN Null ELSE refs[p]
           /\ \A p \in 1..Len(refs) : p > Len(refs') => p = h[1] \/ refs[p] = Null
           /\ serials' \in Seq(0..RetiredSerial) /\ Len(serials') = Len(serials)
           /\ \A p \in 1..Len(serials) :
                serials'[p] = IF p = h[1] THEN Bump(serials[p]) ELSE serials[p]
           /\ frame_starts # <<>> => frame_starts[Len(frame_starts)] <= Len(refs')
           /\ UNCHANGED <<frame_starts, retired_prefix, aborted>>
<1>. DEFINE floor == IF frame_starts = <<>> THEN 0 ELSE frame_starts[Len(frame_starts)]
            left == [refs EXCEPT ![h[1]] = Null]
            S == {n \in 0..Len(refs) : n <= floor \/ left[n] # Null}
            keep == Max(S)
<1>t. TypeOK
  BY Zenon DEF LInv
<1>0. /\ Len(refs) \in Nat /\ Len(serials) \in Nat /\ Len(refs) <= Len(serials)
      /\ DOMAIN refs = 1..Len(refs) /\ DOMAIN serials = 1..Len(serials)
  BY <1>t, Vectors, Zenon
<1>1. h[1] \in 1..Len(refs) /\ h[1] \in 1..Len(serials)
  BY <1>t, GetIs, Zenon DEF Remove
<1>2. floor \in 0..Len(refs)
  <2>1. CASE frame_starts = <<>>
    BY <2>1, <1>0
  <2>2. CASE frame_starts # <<>>
    <3>1. Len(frame_starts) \in Nat \ {0}
      BY <2>2, EmptySeq, Zenon DEF LInv, TypeOK
    <3>2. Len(frame_starts) \in 1..Len(frame_starts)
      BY <3>1
    <3>3. frame_starts[Len(frame_starts)] \in 0..Len(refs)
      BY <3>2, <1>t, Vectors, Zenon
    <3>. QED  BY <2>2, <3>3, Zenon
  <2>. QED  BY <2>1, <2>2, Zenon
<1>3. refs \in Seq(Refs \cup {Null}) /\ left \in Seq(Refs \cup {Null}) /\ Len(left) = Len(refs)
  BY <1>0, <1>1 DEF LInv, TypeOK
<1>4. \A p \in 1..Len(refs) : left[p] = IF p = h[1] THEN Null ELSE refs[p]
  BY <1>0, <1>1, Zenon
<1>5. refs' = SubSeq(left, 1, keep)
  BY Zenon DEF Remove
<1>. HIDE DEF left, floor
<1>6. S \in SUBSET (0..Len(refs)) /\ floor \in S
  BY <1>0, <1>2
<1>. HIDE DEF S
<1>7. keep \in S /\ \A k \in S : keep >= k
  BY <1>0, <1>6, MaxIs, Zenon
<1>8. keep \in 0..Len(refs) /\ floor <= keep
  BY <1>2, <1>6, <1>7, Zenon
<1>9. ASSUME NEW p \in 1..Len(refs), p > keep PROVE left[p] = Null
  <2>1. p \notin S /\ p \in 0..Len(refs)
    BY <1>7, <1>8, <1>9, <1>0
  <2>. QED  BY <2>1, Zenon DEF S
<1>. HIDE DEF keep
<1>10. /\ refs' \in Seq(Refs \cup {Null}) /\ Len(refs') = keep
       /\ \A p \in 1..keep : refs'[p] = left[p] /\ p \in 1..Len(refs)
  BY <1>0, <1>3, <1>5, <1>8
<1>11. \A p \in 1..Len(refs') : refs'[p] = IF p = h[1] THEN Null ELSE refs[p]
  BY <1>4, <1>10, Zenon
<1>12. \A p \in 1..Len(refs) : p > Len(refs') => p = h[1] \/ refs[p] = Null
  BY <1>4, <1>9, <1>10, Zenon
<1>13. serials' = [serials EXCEPT ![h[1]] = Bump(@)] /\ serials \in Seq(0..RetiredSerial)
  BY Zenon DEF Remove, LInv, TypeOK
<1>14. Bump(serials[h[1]]) \in 0..RetiredSerial
  BY <1>1, <1>t, Vectors, BumpIs, Zenon
<1>15. serials' \in Seq(0..RetiredSerial) /\ Len(serials') = Len(serials)
  BY <1>1, <1>13, <1>14, ExceptSeq
<1>16. \A p \in 1..Len(serials) : serials'[p] = IF p = h[1] THEN Bump(serials[p]) ELSE serials[p]
  BY <1>0, <1>1, <1>13, Zenon
<1>17. frame_starts # <<>> => frame_starts[Len(frame_starts)] <= Len(refs')
  BY <1>8, <1>10, Zenon DEF floor
<1>18. UNCHANGED <<frame_starts, retired_prefix, aborted>>
  BY Zenon DEF Remove
<1>. QED  BY <1>8, <1>10, <1>11, <1>12, <1>15, <1>16, <1>17, <1>18, Zenon

LEMMA RemoveLInv ==
    ASSUME LInv, NEW h \in Handles, Remove(h)
    PROVE  LInv'
<1>t. TypeOK
  BY Zenon DEF LInv
<1>0. /\ Len(refs) \in Nat /\ Len(serials) \in Nat /\ Len(refs) <= Len(serials)
      /\ Len(serials) <= MaxSlots /\ Len(frame_starts) \in Nat
  BY <1>t, Vectors, Zenon
<1>1. Len(refs') \in 0..Len(refs) /\ Len(serials') = Len(serials)
  BY RemoveEffect, Zenon
<1>2. \A i \in 1..Len(frame_starts) : frame_starts[i] \in 0..Len(refs')
  <2>1. ASSUME NEW i \in 1..Len(frame_starts) PROVE frame_starts[i] \in 0..Len(refs')
    <3>1. frame_starts # <<>> /\ i <= Len(frame_starts) /\ Len(frame_starts) \in 1..Len(frame_starts)
      BY <1>0
    <3>2. frame_starts[i] <= frame_starts[Len(frame_starts)]
      BY <3>1, Zenon DEF LInv, Framed
    <3>3. frame_starts[Len(frame_starts)] <= Len(refs')
      BY <3>1, RemoveEffect, Zenon
    <3>4. frame_starts[i] \in 0..Len(refs) /\ frame_starts[Len(frame_starts)] \in 0..Len(refs)
      BY <3>1, <1>t, Vectors, Zenon
    <3>. QED  BY <3>2, <3>3, <3>4, <1>0, <1>1
  <2>. QED  BY <2>1, Zenon
<1>3. TypeOK'
  <2>1. frame_starts \in [1..Len(frame_starts) -> 0..Len(refs)]
    BY LenProperties, Zenon DEF LInv, TypeOK
  <2>2. frame_starts \in [1..Len(frame_starts) -> 0..Len(refs')]
    BY <2>1, <1>2, Zenon
  <2>3. frame_starts \in Seq(0..Len(refs'))
    BY <2>2, <1>0, FunIsSeq, Zenon
  <2>4. Len(refs') <= Len(serials')
    BY <1>0, <1>1
  <2>. QED  BY <2>3, <2>4, <1>0, <1>1, RemoveEffect, ZenonT(40) DEF LInv, TypeOK
<1>4. Serialled'
  <2>1. ASSUME NEW p \in 1..Len(refs'), refs'[p] # Null PROVE serials'[p] < RetiredSerial
    <3>1. p \in 1..Len(refs) /\ p \in 1..Len(serials)
      BY <1>0, <1>1
    <3>2. p # h[1] /\ refs[p] # Null
      BY <2>1, RemoveEffect, Zenon
    <3>3. serials'[p] = serials[p]
      BY <3>1, <3>2, RemoveEffect, Zenon
    <3>. QED  BY <3>1, <3>2, <3>3, Zenon DEF LInv, Serialled
  <2>. QED  BY <2>1, Zenon DEF Serialled
<1>5. Framed'
  <2>1. refs # <<>>
    <3>1. h[1] \in 1..Len(refs)
      BY <1>t, GetIs, Zenon DEF Remove
    <3>. QED  BY <3>1, <1>0
  <2>2. frame_starts' = frame_starts
    BY RemoveEffect, Zenon
  <2>. QED  BY <2>1, <2>2, Zenon DEF LInv, Framed
<1>. QED  BY <1>3, <1>4, <1>5, Zenon DEF LInv

LEMMA RemoveImplements ==
    ASSUME LInv, NEW h \in Handles, Remove(h)
    PROVE  Table!Remove(h)
<1>. PICK n : n = Len(frame_starts)
  BY Zenon
<1>t. TypeOK /\ TypeOK'
  BY RemoveLInv, Zenon DEF LInv
<1>0. /\ Len(refs) \in Nat /\ Len(serials) \in Nat /\ Len(refs) <= Len(serials)
      /\ n \in Nat /\ Len(refs') \in 0..Len(refs) /\ frame_starts' = frame_starts
      /\ Len(serials') = Len(serials)
  BY <1>t, Vectors, RemoveEffect, Zenon
<1>1. Get(h) # Null /\ h[2] = serials[h[1]]
  BY <1>t, GetIs, Zenon DEF Remove
<1>2. ASSUME NEW g \in Handles PROVE Get(g)' = IF g = h THEN Null ELSE Get(g)
  <2>0. g[1] \in Nat /\ g[1] >= 1
    BY HandleParts
  <2>1. CASE g[1] = h[1]
    <3>1. Get(g)' = Null
      <4>1. g[1] <= Len(refs') => g[1] \in 1..Len(refs')
        BY <2>0, <1>0
      <4>2. g[1] <= Len(refs') => refs'[g[1]] = Null
        BY <4>1, <2>1, RemoveEffect, Zenon
      <4>. QED  BY <4>2, Zenon DEF Get
    <3>2. g # h => Get(g) = Null
      BY <2>1, <1>t, <1>1, OneHandlePerSlot, Zenon
    <3>. QED  BY <3>1, <3>2, Zenon
  <2>2. CASE g[1] # h[1]
    <3>0. g # h
      BY <2>2, Zenon
    <3>1. CASE g[1] <= Len(refs')
      <4>1. g[1] \in 1..Len(refs') /\ g[1] <= Len(refs) /\ g[1] \in 1..Len(serials)
        BY <3>1, <2>0, <1>0
      <4>2. refs'[g[1]] = refs[g[1]]
        BY <4>1, <2>2, RemoveEffect, Zenon
      <4>3. serials'[g[1]] = serials[g[1]]
        BY <4>1, <2>2, RemoveEffect, Zenon
      <4>4. Get(g)' = Get(g)
        BY <4>1, <4>2, <4>3, <3>1, Zenon DEF Get
      <4>. QED  BY <4>4, <3>0, Zenon
    <3>2. CASE ~(g[1] <= Len(refs'))
      <4>1. g[1] <= Len(refs) => g[1] \in 1..Len(refs) /\ g[1] > Len(refs')
        BY <3>2, <2>0, <1>0
      <4>2. g[1] <= Len(refs) => refs[g[1]] = Null
        BY <4>1, <2>2, RemoveEffect, Zenon
      <4>3. Get(g) = Null /\ Get(g)' = Null
        BY <4>2, <3>2, Zenon DEF Get
      <4>. QED  BY <4>3, Zenon
    <3>. QED  BY <3>1, <3>2, Zenon
  <2>. QED  BY <2>1, <2>2, Zenon
<1>3. Fresh' \subseteq Fresh
  <2>1. ASSUME NEW g \in Handles, Unissued(g)' PROVE Unissued(g)
    <3>0. g[1] \in Nat /\ g[1] >= 1 /\ g[2] \in Nat /\ g[2] < RetiredSerial
      BY HandleParts
    <3>1. Get(g)' = Null /\ (g[1] <= Len(serials) => g[2] >= serials'[g[1]])
      BY <2>1, <1>0, Zenon DEF Unissued
    <3>2. g[1] <= Len(serials) => g[1] \in 1..Len(serials)
      BY <3>0, <1>0
    <3>3. CASE g[1] = h[1]
      <4>1. g[1] \in 1..Len(serials) /\ g[1] <= Len(serials)
        <5>1. h[1] \in 1..Len(serials)
          BY <1>t, <1>1, GetIs, Zenon
        <5>. QED  BY <5>1, <3>3, <1>0
      <4>2. serials'[g[1]] = Bump(serials[g[1]])
        BY <4>1, <3>3, RemoveEffect, Zenon
      <4>3. serials[g[1]] \in 0..RetiredSerial
        BY <4>1, <1>t, Vectors, Zenon
      <4>4. g[2] >= serials[g[1]] /\ g[2] # serials[g[1]]
        BY <4>1, <4>2, <4>3, <3>0, <3>1, BumpIs, Zenon
      <4>. QED  BY <4>4, Zenon DEF Unissued, Get
    <3>4. CASE g[1] # h[1]
      <4>1. g # h
        BY <3>4, Zenon
      <4>2. Get(g) = Null
        BY <4>1, <3>1, <1>2, Zenon
      <4>3. g[1] <= Len(serials) => g[2] >= serials[g[1]]
        BY <3>1, <3>2, <3>4, RemoveEffect, Zenon
      <4>. QED  BY <4>2, <4>3, Zenon DEF Unissued
    <3>. QED  BY <3>3, <3>4, Zenon
  <2>. QED  BY <2>1, Zenon DEF Fresh
<1>4. LiveHandles' = LiveHandles \ {h}
  BY <1>2, Zenon DEF LiveHandles
<1>5. DOMAIN Live = LiveHandles /\ \A g \in LiveHandles : Live[g] = Get(g) /\ g \in Handles
  BY Zenon DEF Live, LiveHandles
<1>6. Live' = [g \in DOMAIN Live \ {h} |-> Live[g]]
  <2>1. Live' = [g \in LiveHandles' |-> Get(g)']
    BY Zenon DEF Live
  <2>2. \A g \in LiveHandles \ {h} : Get(g)' = Live[g]
    BY <1>2, <1>5, Zenon
  <2>. QED  BY <2>1, <2>2, <1>4, <1>5, Zenon
<1>7. Frames' = [i \in DOMAIN Frames |-> Frames[i] \ {h}]
  <2>1. DOMAIN Frames = 1..n
    BY <1>t, Vectors, Zenon DEF Frames
  <2>2. Frames' = [j \in 1..n |-> FrameOf(j)']
    BY <1>t, <1>0, Vectors, Zenon DEF Frames
  <2>3. ASSUME NEW j \in 1..n PROVE FrameOf(j)' = Frames[j] \ {h}
    <3>1. Frames[j] = FrameOf(j)
      BY <1>t, FramesIs, Zenon DEF FramesShaped
    <3>2. FrameOf(j)' \in SUBSET Handles /\ FrameOf(j) \in SUBSET Handles
      BY Zenon DEF FrameOf, LiveHandles
    <3>3. ASSUME NEW g \in Handles
          PROVE  /\ g \in FrameOf(j) <=> Get(g) # Null /\ g[1] > frame_starts[j] /\ g[1] <= FrameEnd(j)
                 /\ g \in FrameOf(j)' <=> Get(g)' # Null /\ g[1] > frame_starts[j] /\ g[1] <= FrameEnd(j)'
      BY <1>0, <1>t, FrameMembersIs, FrameMembersNext, Zenon DEF FrameMembers
    <3>4. ASSUME NEW g \in Handles, Get(g)' # Null
          PROVE  g[1] <= FrameEnd(j) <=> g[1] <= FrameEnd(j)'
      <4>1. CASE j = n
        <5>1. FrameEnd(j) = Len(refs) /\ FrameEnd(j)' = Len(refs')
          BY <4>1, <1>0, Zenon DEF FrameEnd
        <5>2. g[1] <= Len(refs')
          BY <3>4, Zenon DEF Get
        <5>. QED  BY <5>1, <5>2, <1>0, HandleParts
      <4>2. CASE j # n
        BY <4>2, <1>0, Zenon DEF FrameEnd
      <4>. QED  BY <4>1, <4>2, Zenon
    <3>5. \A g \in Handles : g \in FrameOf(j)' <=> g \in FrameOf(j) \ {h}
      BY <3>3, <3>4, <1>2, Zenon
    <3>6. FrameOf(j) \ {h} \in SUBSET Handles
      BY <3>2, Zenon
    <3>7. FrameOf(j)' = FrameOf(j) \ {h}
      BY <3>2, <3>5, <3>6, SubsetsEqual, Zenon
    <3>. QED  BY <3>1, <3>7, Zenon
  <2>. QED  BY <2>1, <2>2, <2>3, Zenon
<1>8. h \in DOMAIN Live
  BY <1>1, <1>5, Zenon DEF LiveHandles
<1>. QED  BY <1>3, <1>6, <1>7, <1>8, MappedRemove, Zenon

\* An empty table maps to the initial table of JniRefs.
Emptied == refs = <<>> /\ serials = <<>> /\ frame_starts = <<>>

LEMMA EmptiedIs == Emptied => Fresh = Handles /\ Live = [h \in {} |-> h] /\ Frames = <<>>
<1>. SUFFICES ASSUME Emptied PROVE Fresh = Handles /\ Live = [h \in {} |-> h] /\ Frames = <<>>
  OBVIOUS
<1>0. Len(refs) = 0 /\ Len(serials) = 0 /\ DOMAIN frame_starts = {}
  BY DEF Emptied
<1>1. ASSUME NEW h \in Handles PROVE Get(h) = Null /\ Unissued(h)
  <2>1. ~(h[1] <= Len(refs)) /\ ~(h[1] <= Len(serials))
    BY <1>0, HandleParts
  <2>. QED  BY <2>1, Zenon DEF Get, Unissued
<1>2. Fresh = Handles
  BY <1>1, Zenon DEF Fresh
<1>3. LiveHandles = {}
  BY <1>1, Zenon DEF LiveHandles
<1>4. Live = [h \in {} |-> h]
  BY <1>3, Zenon DEF Live
<1>5. Frames = <<>>
  <2>1. Frames = [j \in {} |-> FrameOf(j)]
    BY <1>0, Zenon DEF Frames
  <2>. QED  BY <2>1
<1>. QED  BY <1>2, <1>4, <1>5, Zenon

LEMMA EmptiedLInv ==
    Emptied /\ retired_prefix = 0 /\ aborted \in BOOLEAN => LInv
<1>. SUFFICES ASSUME Emptied, retired_prefix = 0, aborted \in BOOLEAN PROVE LInv
  OBVIOUS
<1>0. Len(refs) = 0 /\ Len(serials) = 0 /\ Len(frame_starts) = 0
  BY Zenon DEF Emptied
<1>1. refs \in Seq(Refs \cup {Null}) /\ serials \in Seq(0..RetiredSerial) /\ frame_starts \in Seq(0..Len(refs))
  BY EmptySeq, Zenon DEF Emptied
<1>2. Len(refs) <= Len(serials) /\ Len(serials) <= MaxSlots /\ retired_prefix \in 0..Len(serials)
  BY <1>0, JniHandlesAssumption
<1>3. 1..0 = {}
  OBVIOUS
<1>. QED  BY <1>0, <1>1, <1>2, <1>3, Zenon DEF LInv, TypeOK, Framed, Serialled, Emptied

LEMMA InitImplements == Init => LInv /\ Table!Init
<1>. SUFFICES ASSUME Init PROVE LInv /\ Table!Init
  OBVIOUS
<1>1. Emptied /\ retired_prefix = 0 /\ aborted \in BOOLEAN
  BY Zenon DEF Init, Emptied
<1>2. Fresh = Handles /\ Live = [h \in {} |-> h] /\ Frames = <<>>
  BY <1>1, EmptiedIs, Zenon
<1>. QED  BY <1>1, <1>2, EmptiedLInv, Zenon DEF Table!Init, Fresh, Live, Frames, FrameOf

\* A step that changes only aborted.
LEMMA SameTable ==
    ASSUME UNCHANGED <<refs, serials, frame_starts>>
    PROVE  UNCHANGED Table!vars
<1>1. \A h : Get(h)' = Get(h) /\ (Unissued(h)' <=> Unissued(h))
  BY Zenon DEF Get, Unissued
<1>2. Fresh' = Fresh
  BY <1>1, Zenon DEF Fresh
<1>3. Live' = Live
  BY <1>1, Zenon DEF Live, LiveHandles
<1>4. Frames' = Frames
  BY <1>1, Zenon DEF Frames, FrameOf, LiveHandles, FrameEnd
<1>. QED  BY <1>2, <1>3, <1>4, MappedStutter, Zenon

LEMMA StepImplements ==
    LInv /\ [Next]_vars => LInv' /\ [vars' = vars \/ Table!Next]_(Table!vars)
<1>. SUFFICES ASSUME LInv, [Next]_vars
              PROVE  LInv' /\ (Table!Next \/ UNCHANGED Table!vars)
  BY Zenon
<1>1. CASE PushFrame
  BY <1>1, PushLInv, PushImplements, Zenon DEF Table!Next
<1>2. CASE PopFrame
  BY <1>2, PopLInv, PopImplements, Zenon DEF Table!Next
<1>3. ASSUME NEW r \in Refs, Add(r)
      PROVE  LInv' /\ (Table!Next \/ UNCHANGED Table!vars)
  <2>1. LInv'
    BY <1>3, AddLInv, Zenon
  <2>2. NextSlot <= MaxSlots \/ NextSlot > MaxSlots
    <3>1. NextSlot \in 1..Len(serials) + 1 /\ Len(serials) \in Nat
      BY NextSlotIs, Vectors, Zenon DEF LInv
    <3>. QED  BY <3>1, JniHandlesAssumption
  <2>3. CASE NextSlot <= MaxSlots
    BY <1>3, <2>1, <2>3, AddImplements, Zenon DEF Table!Next
  <2>4. CASE NextSlot > MaxSlots
    BY <1>3, <2>1, <2>4, AddFullImplements, Zenon DEF Table!Next
  <2>. QED  BY <2>2, <2>3, <2>4, Zenon
<1>4. ASSUME NEW h \in Handles, Remove(h)
      PROVE  LInv' /\ (Table!Next \/ UNCHANGED Table!vars)
  BY <1>4, RemoveLInv, RemoveImplements, Zenon DEF Table!Next
<1>5. ASSUME NEW h \in Handles, RemoveInvalid(h)
      PROVE  LInv' /\ (Table!Next \/ UNCHANGED Table!vars)
  <2>1. UNCHANGED <<refs, serials, frame_starts, retired_prefix>> /\ aborted' = TRUE
    BY <1>5, Zenon DEF RemoveInvalid
  <2>2. LInv'
    BY <2>1, Zenon DEF LInv, TypeOK, Framed, Serialled
  <2>. QED  BY <2>1, <2>2, SameTable, Zenon
<1>6. CASE UNCHANGED vars
  <2>1. UNCHANGED <<refs, serials, frame_starts, retired_prefix, aborted>>
    BY <1>6, Zenon DEF vars
  <2>2. LInv'
    BY <2>1, Zenon DEF LInv, TypeOK, Framed, Serialled
  <2>. QED  BY <2>1, <2>2, SameTable, Zenon
<1>. QED  BY <1>1, <1>2, <1>3, <1>4, <1>5, <1>6, Zenon DEF Next

(***************************************************************************)
(* LocalHandles keeps its vectors within their limits and implements the   *)
(* abstract table, whatever native code and the guest push, pop, add and   *)
(* delete: a local handle names one host reference until it is deleted or  *)
(* its frame is popped, and one table gives no handle out twice            *)
(* (push_frame, pop_frame, add and remove of core/src/jni/handles.cpp).    *)
(* It speaks of one table: DetachCurrentThread starts another.             *)
(***************************************************************************)
THEOREM LocalTableImplements == Spec => ImplementsRefs
<1>1. Init => LInv
  BY InitImplements, Zenon
<1>2. Init => Table!Init
  BY InitImplements, Zenon
<1>3. LInv /\ [Next]_vars => LInv'
  BY StepImplements, Zenon
<1>4. LInv /\ [Next]_vars => [vars' = vars \/ Table!Next]_(Table!vars)
  BY StepImplements, Zenon
<1>5. LInv => TypeOK
  BY Zenon DEF LInv
<1>. QED  BY <1>1, <1>2, <1>3, <1>4, <1>5, PTL DEF Spec, ImplementsRefs, RefinesRefs

-----------------------------------------------------------------------------
(***************************************************************************)
(* GlobalHandles.                                                          *)
(***************************************************************************)
\* A call holds a host reference from the moment it has one to the moment it
\* gives it to the table or deletes it.
Calls ==
    /\ \A t \in Threads : pc[t] = "idle" <=> ref[t] = Null
    /\ \A t \in Threads : ref[t] # Null => ref[t] \in host
    /\ \A t, u \in Threads : ref[t] # Null /\ ref[t] = ref[u] => t = u

\* So does a slot, and no host reference is without an owner.
Owners ==
    /\ \A i \in DOMAIN global_refs : global_refs[i] # Null => global_refs[i] \in host
    /\ \A i, j \in DOMAIN global_refs : global_refs[i] # Null /\ global_refs[i] = global_refs[j] => i = j
    /\ \A i \in DOMAIN global_refs, t \in Threads : global_refs[i] # Null => global_refs[i] # ref[t]
    /\ \A r \in host : \/ \E i \in DOMAIN global_refs : global_refs[i] = r
                       \/ \E t \in Threads : ref[t] = r

GlobalIInv == GlobalTypeOK /\ FreeListExact /\ Calls /\ Owners

-----------------------------------------------------------------------------
\* A valid handle names a slot in use, with the slot's current serial.
LEMMA ValidHandle ==
    ASSUME NEW h \in Handles, GlobalTypeOK, FreeListExact, GlobalGet(h) # Null
    PROVE  /\ h[1] \in DOMAIN global_refs /\ h[1] \in DOMAIN global_serials /\ h[1] \in Slots
           /\ global_refs[h[1]] = GlobalGet(h) /\ global_refs[h[1]] # Null /\ global_refs[h[1]] \in Refs
           /\ global_serials[h[1]] \in Nat /\ global_serials[h[1]] < RetiredSerial
           /\ h[2] = global_serials[h[1]]
BY JniHandlesAssumption DEF GlobalGet, Handles, Slots, GlobalTypeOK, FreeListExact

\* The free list's last slot is free.
LEMMA LastFree ==
    ASSUME GlobalTypeOK, FreeListExact, free # <<>>
    PROVE  /\ Len(free) \in DOMAIN free
           /\ free[Len(free)] \in DOMAIN global_refs /\ free[Len(free)] \in DOMAIN global_serials
           /\ global_refs[free[Len(free)]] = Null
           /\ global_serials[free[Len(free)]] < RetiredSerial
<1>1. Len(free) \in Nat /\ Len(free) > 0 /\ DOMAIN free = 1..Len(free)
  BY DEF GlobalTypeOK
<1>2. Len(free) \in DOMAIN free
  BY <1>1
<1>. QED  BY <1>2 DEF GlobalTypeOK, FreeListExact, FreeSlots

LEMMA InitGlobal == GlobalInit => GlobalIInv
<1>. SUFFICES ASSUME GlobalInit PROVE GlobalIInv
  OBVIOUS
<1>. USE DEF GlobalInit
<1>1. DOMAIN global_refs = {} /\ DOMAIN free = {} /\ Len(global_refs) = 0 /\ Len(global_serials) = 0
  OBVIOUS
<1>2. GlobalTypeOK
  <2>1. global_refs \in Seq(Refs \cup {Null}) /\ global_serials \in Seq(0..RetiredSerial) /\ free \in Seq(Slots)
    OBVIOUS
  <2>2. pc \in [Threads -> {"idle", "created", "removed"}]
    OBVIOUS
  <2>3. Len(global_refs) <= MaxSlots
    BY <1>1, JniHandlesAssumption
  <2>4. host \subseteq Refs /\ ref \in [Threads -> Refs \cup {Null}] /\ global_aborted \in BOOLEAN
    BY Zenon
  <2>. QED  BY <2>1, <2>2, <2>3, <2>4, Zenon DEF GlobalTypeOK
<1>3. FreeListExact
  BY <1>1, Zenon DEF FreeListExact, FreeSlots
<1>4. Calls /\ Owners
  BY <1>1, Zenon DEF Calls, Owners
<1>. QED  BY <1>2, <1>3, <1>4, Zenon DEF GlobalIInv

\* NewGlobalRef's first half.
LEMMA CreateHostGlobal ==
    ASSUME GlobalIInv, NEW t \in Threads, CreateHost(t)
    PROVE  GlobalIInv'
<1>. USE DEF GlobalIInv
<1>. PICK r \in Refs \ host : host' = host \cup {r} /\ ref' = [ref EXCEPT ![t] = r]
  BY Zenon DEF CreateHost
<1>0. r # Null /\ ref[t] = Null /\ pc' = [pc EXCEPT ![t] = "created"]
      /\ UNCHANGED <<global_refs, global_serials, free, global_aborted>>
  BY JniHandlesAssumption, Zenon DEF CreateHost, Calls
<1>1. GlobalTypeOK'
  BY <1>0, Zenon DEF GlobalTypeOK
<1>2. FreeListExact'
  BY <1>0, Zenon DEF FreeListExact, FreeSlots
<1>3. Calls'
  BY <1>0, Zenon DEF Calls, GlobalTypeOK
<1>4. Owners'
  <2>1. \A i \in DOMAIN global_refs : global_refs[i] # Null => global_refs[i] \in host' /\ \A u \in Threads : global_refs[i] # ref'[u]
    BY <1>0, Zenon DEF Owners, GlobalTypeOK
  <2>2. ASSUME NEW x \in host'
        PROVE  (\E i \in DOMAIN global_refs : global_refs[i] = x) \/ (\E u \in Threads : ref'[u] = x)
    <3>1. CASE x = r
      BY <3>1, Zenon DEF GlobalTypeOK
    <3>2. CASE x # r
      <4>1. x \in host /\ x # Null
        BY <3>2, JniHandlesAssumption, Zenon DEF GlobalTypeOK
      <4>. QED  BY <1>0, <4>1, Zenon DEF Owners, GlobalTypeOK
    <3>. QED  BY <3>1, <3>2, Zenon
  <2>. QED  BY <1>0, <2>1, <2>2, Zenon DEF Owners
<1>. QED  BY <1>1, <1>2, <1>3, <1>4, Zenon

\* add into the slot freed last.
LEMMA AddFreedGlobal ==
    ASSUME GlobalIInv, NEW t \in Threads, AddFreed(t)
    PROVE  GlobalIInv'
<1>. USE DEF GlobalIInv
<1>. DEFINE s == free[Len(free)]
<1>0. /\ Len(free) \in DOMAIN free
      /\ s \in DOMAIN global_refs /\ s \in DOMAIN global_serials
      /\ global_refs[s] = Null /\ global_serials[s] < RetiredSerial
      /\ ref[t] \in Refs /\ ref[t] # Null
  BY LastFree, Zenon DEF AddFreed, Calls, GlobalTypeOK
<1>1. GlobalTypeOK'
  BY <1>0 DEF AddFreed, GlobalTypeOK
<1>2. FreeListExact'
  <2>1. /\ DOMAIN global_refs' = DOMAIN global_refs /\ Len(global_refs') = Len(global_refs)
        /\ global_refs'[s] # Null
        /\ \A i \in DOMAIN global_refs : i # s => global_refs'[i] = global_refs[i]
        /\ global_serials' = global_serials
    BY <1>0 DEF AddFreed, GlobalTypeOK
  <2>2. FreeSlots' = FreeSlots \ {s}
    BY <2>1, Zenon DEF FreeSlots
  <2>3. /\ DOMAIN free' = DOMAIN free \ {Len(free)}
        /\ \A i \in DOMAIN free' : free'[i] = free[i]
    BY <1>0 DEF AddFreed, GlobalTypeOK
  <2>4. \A i \in DOMAIN free' : free'[i] \in FreeSlots'
    BY <1>0, <2>2, <2>3, Zenon DEF FreeListExact
  <2>5. \A i, j \in DOMAIN free' : free'[i] = free'[j] => i = j
    BY <2>3, Zenon DEF FreeListExact
  <2>6. \A x \in FreeSlots' : \E i \in DOMAIN free' : free'[i] = x
    BY <2>2, <2>3, Zenon DEF FreeListExact
  <2>. QED  BY <2>1, <2>4, <2>5, <2>6, Zenon DEF FreeListExact
<1>3. Calls'
  BY Zenon DEF AddFreed, Calls, GlobalTypeOK
<1>4. Owners'
  <2>. HIDE DEF s
  <2>1. /\ global_refs' = [global_refs EXCEPT ![s] = ref[t]]
        /\ ref' = [ref EXCEPT ![t] = Null] /\ host' = host
    BY Zenon DEF AddFreed, s
  <2>2. /\ DOMAIN global_refs' = DOMAIN global_refs /\ global_refs'[s] = ref[t]
        /\ \A i \in DOMAIN global_refs : i # s => global_refs'[i] = global_refs[i]
        /\ ref'[t] = Null /\ \A u \in Threads : u # t => ref'[u] = ref[u]
    BY <1>0, <2>1, Zenon DEF GlobalTypeOK
  <2>3. \A i \in DOMAIN global_refs : global_refs'[i] # Null => global_refs'[i] \in host
    BY <1>0, <2>2, Zenon DEF Owners, Calls
  <2>4. \A i, j \in DOMAIN global_refs : global_refs'[i] # Null /\ global_refs'[i] = global_refs'[j] => i = j
    BY <1>0, <2>2 DEF Owners
  <2>5. \A i \in DOMAIN global_refs, u \in Threads : global_refs'[i] # Null => global_refs'[i] # ref'[u]
    BY <1>0, <2>2 DEF Owners, Calls
  <2>6. ASSUME NEW x \in host
        PROVE  (\E i \in DOMAIN global_refs : global_refs'[i] = x) \/ (\E u \in Threads : ref'[u] = x)
    <3>1. x # Null
      BY JniHandlesAssumption, Zenon DEF GlobalTypeOK
    <3>2. CASE \E i \in DOMAIN global_refs : global_refs[i] = x
      BY <1>0, <2>2, <3>1, <3>2, Zenon
    <3>3. CASE \E u \in Threads : ref[u] = x
      BY <1>0, <2>2, <3>3, Zenon
    <3>. QED  BY <3>2, <3>3, Zenon DEF Owners
  <2>. QED  BY <2>1, <2>2, <2>3, <2>4, <2>5, <2>6, Zenon DEF Owners
<1>. QED  BY <1>1, <1>2, <1>3, <1>4, Zenon

\* add into a new slot.
LEMMA AddNewGlobal ==
    ASSUME GlobalIInv, NEW t \in Threads, AddNew(t)
    PROVE  GlobalIInv'
<1>. USE DEF GlobalIInv
<1>0. ref[t] \in Refs /\ ref[t] # Null /\ Len(global_serials) = Len(global_refs)
  BY Zenon DEF AddNew, Calls, GlobalTypeOK, FreeListExact
<1>1. GlobalTypeOK'
  BY <1>0, JniHandlesAssumption DEF AddNew, GlobalTypeOK
<1>2. /\ DOMAIN global_refs' = DOMAIN global_refs \cup {Len(global_refs) + 1}
      /\ Len(global_refs) + 1 \notin DOMAIN global_refs
      /\ global_refs'[Len(global_refs) + 1] = ref[t]
      /\ \A i \in DOMAIN global_refs : global_refs'[i] = global_refs[i] /\ global_serials'[i] = global_serials[i]
      /\ Len(global_serials') = Len(global_refs')
  BY <1>0 DEF AddNew, GlobalTypeOK
<1>3. FreeListExact'
  <2>1. FreeSlots' = FreeSlots
    BY <1>0, <1>2, Zenon DEF FreeSlots, GlobalTypeOK, Calls
  <2>. QED  BY <1>2, <2>1 DEF FreeListExact, AddNew
<1>4. Calls'
  BY Zenon DEF AddNew, Calls, GlobalTypeOK
<1>5. Owners'
  <2>1. ref' = [ref EXCEPT ![t] = Null] /\ host' = host
    BY Zenon DEF AddNew
  <2>. QED  BY <1>0, <1>2, <2>1 DEF Owners, Calls, GlobalTypeOK
<1>. QED  BY <1>1, <1>3, <1>4, <1>5, Zenon

\* remove.
LEMMA RemoveGlobal ==
    ASSUME GlobalIInv, NEW t \in Threads, NEW h \in Handles, GlobalRemove(t, h)
    PROVE  GlobalIInv'
<1>. USE DEF GlobalIInv
<1>. DEFINE s == h[1]
<1>0. /\ s \in DOMAIN global_refs /\ s \in DOMAIN global_serials /\ s \in Slots
      /\ global_refs[s] = GlobalGet(h) /\ global_refs[s] # Null /\ global_refs[s] \in Refs
      /\ global_serials[s] \in Nat /\ global_serials[s] < RetiredSerial
  BY ValidHandle, Zenon DEF GlobalRemove
<1>1. GlobalTypeOK'
  <2>1. free' \in Seq(Slots)
    BY <1>0 DEF GlobalRemove, GlobalTypeOK
  <2>2. global_serials' \in Seq(0..RetiredSerial) /\ global_refs' \in Seq(Refs \cup {Null}) /\ Len(global_refs') = Len(global_refs)
    <3>1. global_serials[s] + 1 \in 0..RetiredSerial
      BY <1>0, JniHandlesAssumption
    <3>2. global_serials' = [global_serials EXCEPT ![s] = global_serials[s] + 1] /\ global_refs' = [global_refs EXCEPT ![s] = Null]
      BY Zenon DEF GlobalRemove
    <3>. HIDE DEF s
    <3>3. global_serials' \in Seq(0..RetiredSerial)
      BY <1>0, <3>1, <3>2 DEF GlobalTypeOK
    <3>4. global_refs' \in Seq(Refs \cup {Null}) /\ Len(global_refs') = Len(global_refs)
      BY <1>0, <3>2 DEF GlobalTypeOK
    <3>. QED  BY <3>3, <3>4, Zenon
  <2>. QED  BY <1>0, <2>1, <2>2, Zenon DEF GlobalRemove, GlobalTypeOK
<1>2. /\ DOMAIN global_refs' = DOMAIN global_refs /\ global_refs'[s] = Null /\ global_serials'[s] = global_serials[s] + 1
      /\ \A i \in DOMAIN global_refs : i # s => global_refs'[i] = global_refs[i] /\ global_serials'[i] = global_serials[i]
      /\ Len(global_serials') = Len(global_refs') /\ host' = host
      /\ ref' = [ref EXCEPT ![t] = global_refs[s]] /\ ref[t] = Null
  BY <1>0 DEF GlobalRemove, GlobalTypeOK, Calls, FreeListExact
<1>3. FreeListExact'
  <2>0. s \notin FreeSlots
    BY <1>0, Zenon DEF FreeSlots
  <2>1. CASE global_serials[s] + 1 < RetiredSerial
    <3>1. FreeSlots' = FreeSlots \cup {s}
      BY <1>0, <1>2, <2>1, Zenon DEF FreeSlots
    <3>2. /\ DOMAIN free' = DOMAIN free \cup {Len(free) + 1} /\ Len(free) + 1 \notin DOMAIN free
          /\ free'[Len(free) + 1] = s /\ \A i \in DOMAIN free : free'[i] = free[i]
      BY <2>1 DEF GlobalRemove, GlobalTypeOK
    <3>. QED  BY <1>2, <2>0, <3>1, <3>2 DEF FreeListExact
  <2>2. CASE ~(global_serials[s] + 1 < RetiredSerial)
    <3>1. FreeSlots' = FreeSlots /\ free' = free
      BY <1>0, <1>2, <2>2 DEF FreeSlots, GlobalRemove
    <3>. QED  BY <1>2, <3>1, Zenon DEF FreeListExact
  <2>. QED  BY <2>1, <2>2, Zenon
<1>4. Calls'
  <2>. HIDE DEF s
  <2>1. pc' = [pc EXCEPT ![t] = "removed"]
    BY Zenon DEF GlobalRemove
  <2>2. \A u \in Threads : ref[u] # global_refs[s]
    BY <1>0, Zenon DEF Owners
  <2>. QED  BY <1>0, <1>2, <2>1, <2>2, Zenon DEF Calls, Owners, GlobalTypeOK
<1>5. Owners'
  <2>. HIDE DEF s
  <2>1. ref'[t] = global_refs[s] /\ \A u \in Threads : u # t => ref'[u] = ref[u]
    BY <1>2, Zenon DEF GlobalTypeOK
  <2>2. \A i \in DOMAIN global_refs, u \in Threads : global_refs'[i] # Null => global_refs'[i] # ref'[u]
    BY <1>0, <1>2, <2>1 DEF Owners
  <2>3. ASSUME NEW x \in host
        PROVE  (\E i \in DOMAIN global_refs : global_refs'[i] = x) \/ (\E u \in Threads : ref'[u] = x)
    <3>1. x # Null
      BY JniHandlesAssumption, Zenon DEF GlobalTypeOK
    <3>2. CASE \E i \in DOMAIN global_refs : global_refs[i] = x
      BY <1>0, <1>2, <2>1, <3>2, Zenon
    <3>3. CASE \E u \in Threads : ref[u] = x
      BY <1>2, <2>1, <3>1, <3>3, Zenon
    <3>. QED  BY <3>2, <3>3, Zenon DEF Owners
  <2>. QED  BY <1>0, <1>2, <2>2, <2>3 DEF Owners
<1>. QED  BY <1>1, <1>3, <1>4, <1>5, Zenon

\* DeleteGlobalRef's second half.
LEMMA DeleteHostGlobal ==
    ASSUME GlobalIInv, NEW t \in Threads, DeleteHost(t)
    PROVE  GlobalIInv'
<1>. USE DEF GlobalIInv, DeleteHost
<1>1. GlobalTypeOK'
  BY Zenon DEF GlobalTypeOK
<1>2. FreeListExact'
  BY Zenon DEF FreeListExact, FreeSlots
<1>3. Calls'
  BY Zenon DEF Calls, GlobalTypeOK
<1>4. Owners'
  <2>0. /\ global_refs' = global_refs /\ host' = host \ {ref[t]}
        /\ ref' = [ref EXCEPT ![t] = Null] /\ ref[t] # Null
    BY Zenon DEF Calls
  <2>1. ref'[t] = Null /\ \A u \in Threads : u # t => ref'[u] = ref[u]
    BY <2>0, Zenon DEF GlobalTypeOK
  <2>2. \A i \in DOMAIN global_refs : global_refs[i] # Null =>
          global_refs[i] \in host' /\ \A u \in Threads : global_refs[i] # ref'[u]
    BY <2>0, <2>1 DEF Owners
  <2>3. \A r \in host' : \/ \E i \in DOMAIN global_refs : global_refs[i] = r
                         \/ \E u \in Threads : ref'[u] = r
    BY <2>0, <2>1 DEF Owners
  <2>. QED  BY <2>0, <2>2, <2>3 DEF Owners
<1>. QED  BY <1>1, <1>2, <1>3, <1>4, Zenon

LEMMA NextGlobal == GlobalIInv /\ [GlobalNext]_(globalVars) => GlobalIInv'
<1>. SUFFICES ASSUME GlobalIInv, [GlobalNext]_(globalVars) PROVE GlobalIInv'
  OBVIOUS
<1>1. CASE UNCHANGED globalVars
  BY <1>1 DEF globalVars, GlobalIInv, GlobalTypeOK, FreeListExact, FreeSlots, Calls, Owners
<1>2. ASSUME NEW t \in Threads, AddFull(t) \/ \E h \in Handles : UseInvalid(t, h)
      PROVE  GlobalIInv'
  <2>1. UNCHANGED <<global_refs, global_serials, free, host, pc, ref>> /\ global_aborted' \in BOOLEAN
    BY <1>2, Zenon DEF AddFull, UseInvalid
  <2>. QED  BY <2>1 DEF GlobalIInv, GlobalTypeOK, FreeListExact, FreeSlots, Calls, Owners
<1>. QED
  BY <1>1, <1>2, CreateHostGlobal, AddFreedGlobal, AddNewGlobal, RemoveGlobal, DeleteHostGlobal, Zenon DEF GlobalNext

LEMMA GlobalHolds == GlobalSpec => []GlobalIInv
BY InitGlobal, NextGlobal, PTL DEF GlobalSpec

-----------------------------------------------------------------------------
(***************************************************************************)
(* Every reachable state of the table is well typed: it never grows past   *)
(* the slots a handle can name, and no serial passes kRetiredSerial.       *)
(***************************************************************************)
THEOREM GlobalTypeCorrect == GlobalSpec => []GlobalTypeOK
<1>1. GlobalIInv => GlobalTypeOK
  BY Zenon DEF GlobalIInv
<1>. QED  BY <1>1, GlobalHolds, PTL

(***************************************************************************)
(* The free list of add and remove is exact.                               *)
(***************************************************************************)
THEOREM FreeListCorrect == GlobalSpec => []FreeListExact
<1>1. GlobalIInv => FreeListExact
  BY Zenon DEF GlobalIInv
<1>. QED  BY <1>1, GlobalHolds, PTL

(***************************************************************************)
(* NewGlobalRef and DeleteGlobalRef keep one owner of every host           *)
(* reference, whatever other threads do between their two halves.          *)
(***************************************************************************)
THEOREM HostRefsCorrect == GlobalSpec => []HostRefsOwnedOnce
<1>1. GlobalIInv => HostRefsOwnedOnce
  <2>. SUFFICES ASSUME GlobalIInv, NEW r \in Refs
                PROVE  /\ r \in host <=> Owns(r) # {}
                       /\ \A a, b \in Owns(r) : a = b
    BY Zenon DEF HostRefsOwnedOnce
  <2>. USE JniHandlesAssumption DEF GlobalIInv
  <2>1. r \in host => Owns(r) # {}
    <3>1. ASSUME NEW i \in DOMAIN global_refs, global_refs[i] = r
          PROVE  <<"slot", i>> \in Owns(r)
      BY <3>1, Zenon DEF Owns
    <3>2. ASSUME NEW t \in Threads, ref[t] = r
          PROVE  <<"call", t>> \in Owns(r)
      BY <3>2, Zenon DEF Owns
    <3>. QED  BY <3>1, <3>2, Zenon DEF Owners
  <2>2. Owns(r) # {} => r \in host
    BY DEF Owners, Calls, Owns
  <2>3. ASSUME NEW a \in Owns(r), NEW b \in Owns(r)
        PROVE  a = b
    <3>1. ASSUME NEW i \in DOMAIN global_refs, global_refs[i] = r
          PROVE  /\ \A j \in DOMAIN global_refs : global_refs[j] = r => j = i
                 /\ \A t \in Threads : ref[t] # r
      BY <3>1, Zenon DEF Owners
    <3>2. \A t, u \in Threads : ref[t] = r /\ ref[u] = r => t = u
      BY Zenon DEF Calls
    <3>. QED  BY <2>3, <3>1, <3>2, Zenon DEF Owns
  <2>. QED  BY <2>1, <2>2, <2>3, Zenon
<1>. QED  BY <1>1, GlobalHolds, PTL

(***************************************************************************)
(* A handle of a global reference is never given out again, and as long as *)
(* it is valid it names the reference it was given out for.                *)
(***************************************************************************)
THEOREM StaleHandlesStayStale == GlobalSpec => StaleStaysStale
<1>1. ASSUME GlobalIInv, [GlobalNext]_(globalVars), NEW h \in Handles, Issued(h)
      PROVE  Issued(h)' /\ GlobalGet(h)' \in {GlobalGet(h), Null}
  <2>. USE JniHandlesAssumption DEF GlobalIInv
  <2>0. h[1] \in Slots /\ h[2] \in 0..RetiredSerial - 1 /\ h[1] \in DOMAIN global_serials
        /\ h[1] \in DOMAIN global_refs /\ Len(global_serials) = Len(global_refs) /\ global_serials[h[1]] \in 0..RetiredSerial
    <3>1. h[1] \in Slots /\ h[2] \in 0..RetiredSerial - 1
      BY DEF Handles
    <3>2. /\ h[1] <= Len(global_serials) /\ Len(global_serials) = Len(global_refs)
          /\ global_serials \in Seq(0..RetiredSerial) /\ global_refs \in Seq(Refs \cup {Null})
      BY <1>1, Zenon DEF Issued, GlobalTypeOK, FreeListExact
    <3>3. h[1] \in 1..Len(global_serials)
      BY <3>1, <3>2, LenProperties DEF Slots
    <3>4. DOMAIN global_serials = 1..Len(global_serials) /\ DOMAIN global_refs = 1..Len(global_refs)
      BY <3>2, LenProperties, Zenon
    <3>5. global_serials[h[1]] \in 0..RetiredSerial
      BY <3>2, <3>3, ElementOfSeq, Zenon
    <3>. QED  BY <3>1, <3>2, <3>3, <3>4, <3>5, Zenon
  <2>1. CASE UNCHANGED <<global_refs, global_serials>>
    BY <1>1, <2>1, Zenon DEF Issued, GlobalGet
  <2>2. ASSUME NEW t \in Threads, AddFreed(t)
        PROVE  Issued(h)' /\ GlobalGet(h)' \in {GlobalGet(h), Null}
    <3>. DEFINE s == free[Len(free)]
    <3>1. /\ s \in DOMAIN global_refs /\ global_refs[s] = Null
          /\ global_refs' = [global_refs EXCEPT ![s] = ref[t]] /\ global_serials' = global_serials
      BY <1>1, <2>2, LastFree, Zenon DEF AddFreed
    <3>. HIDE DEF s
    <3>2. CASE h[1] = s
      <4>1. h[2] < global_serials[h[1]]
        BY <1>1, <2>0, <3>1, <3>2, Zenon DEF Issued, GlobalGet
      <4>. QED  BY <2>0, <3>1, <3>2, <4>1 DEF Issued, GlobalGet, GlobalTypeOK
    <3>3. CASE h[1] # s
      BY <1>1, <2>0, <3>1, <3>3 DEF Issued, GlobalGet, GlobalTypeOK
    <3>. QED  BY <3>2, <3>3, Zenon
  <2>3. ASSUME NEW t \in Threads, AddNew(t)
        PROVE  Issued(h)' /\ GlobalGet(h)' \in {GlobalGet(h), Null}
    <3>1. /\ Len(global_refs') = Len(global_refs) + 1 /\ Len(global_serials') = Len(global_serials) + 1
          /\ global_refs'[h[1]] = global_refs[h[1]] /\ global_serials'[h[1]] = global_serials[h[1]]
      <4>1. /\ global_refs' = Append(global_refs, ref[t]) /\ global_serials' = Append(global_serials, 0)
            /\ global_refs \in Seq(Refs \cup {Null}) /\ global_serials \in Seq(0..RetiredSerial)
        BY <1>1, <2>3, Zenon DEF AddNew, GlobalTypeOK
      <4>. QED  BY <2>0, <4>1
    <3>. QED  BY <1>1, <2>0, <3>1 DEF Issued, GlobalGet
  <2>4. ASSUME NEW t \in Threads, NEW g \in Handles, GlobalRemove(t, g)
        PROVE  Issued(h)' /\ GlobalGet(h)' \in {GlobalGet(h), Null}
    <3>1. /\ g[1] \in DOMAIN global_refs /\ global_serials[g[1]] \in Nat /\ global_serials[g[1]] < RetiredSerial
          /\ g[2] = global_serials[g[1]]
      BY <1>1, <2>4, ValidHandle, Zenon DEF GlobalRemove
    <3>2. /\ global_refs' = [global_refs EXCEPT ![g[1]] = Null]
          /\ global_serials' = [global_serials EXCEPT ![g[1]] = global_serials[g[1]] + 1]
      BY <2>4, Zenon DEF GlobalRemove
    <3>3. CASE h[1] = g[1]
      <4>1. h[2] <= global_serials[h[1]]
        BY <1>1, <2>0 DEF Issued, GlobalGet
      <4>2. global_refs'[h[1]] = Null /\ global_serials'[h[1]] = global_serials[h[1]] + 1 /\ Len(global_serials') = Len(global_serials)
            /\ Len(global_refs') = Len(global_refs)
        BY <2>0, <3>2, <3>3 DEF GlobalTypeOK
      <4>. QED  BY <2>0, <4>1, <4>2 DEF Issued, GlobalGet
    <3>4. CASE h[1] # g[1]
      BY <1>1, <2>0, <3>2, <3>4 DEF Issued, GlobalGet, GlobalTypeOK
    <3>. QED  BY <3>3, <3>4, Zenon
  <2>. QED
    BY <1>1, <2>1, <2>2, <2>3, <2>4, Zenon DEF GlobalNext, globalVars, CreateHost, AddFull, DeleteHost, UseInvalid
<1>2. GlobalIInv /\ [GlobalNext]_(globalVars)
        => [\A h \in Handles : Issued(h) => Issued(h)' /\ GlobalGet(h)' \in {GlobalGet(h), Null}]_(globalVars)
  BY <1>1, Zenon
<1>. QED  BY <1>2, GlobalHolds, PTL DEF GlobalSpec, StaleStaysStale

-----------------------------------------------------------------------------
(***************************************************************************)
(* JniIds.                                                                 *)
(***************************************************************************)
\* A shorty is stored before its id is given out, and never changes after that.
IdsInv ==
    /\ ids_ \in Seq(HostIds)
    /\ \A i, j \in 1..Len(ids_) : ids_[i] = ids_[j] => i = j
    /\ shorties \in Seq({ShortyOf[h] : h \in HostIds} \cup {"empty"})
    /\ id_given \subseteq 1..Len(ids_)
    /\ \A id \in id_given : id <= Len(shorties) /\ shorties[id] = ShortyOf[ids_[id]]
    /\ ~id_dead

\* A thread on its way holds an id of the table with its method.
AskingInv ==
    /\ DOMAIN id_asking = Askers
    /\ \A t \in Askers :
         /\ id_asking[t].at = "shorty" => id_asking[t].guest \in 1..Len(ids_) /\ id_asking[t].host = ids_[id_asking[t].guest]
         /\ id_asking[t].at = "call" => id_asking[t].guest \in id_given /\ id_asking[t].host = ids_[id_asking[t].guest]
         /\ id_asking[t].at = "called" => id_asking[t].shorty = ShortyOf[id_asking[t].host]

LEMMA Idle == Nothing.at = "idle"
BY DEF Nothing

Interned(new, hid) ==
    /\ new \in Seq(HostIds) /\ Len(ids_) <= Len(new) /\ Len(new) \in Nat
    /\ \A i \in 1..Len(ids_) : new[i] = ids_[i]
    /\ \A i, j \in 1..Len(new) : new[i] = new[j] => i = j
    /\ \E i \in 1..Len(new) : new[i] = hid

\* intern finds the method's id or makes one.
LEMMA InternIs ==
    ASSUME IdsInv, NEW hid \in HostIds
    PROVE  Interned(intern(hid), hid)
<1>. PICK new : new = intern(hid)
  OBVIOUS
<1>. SUFFICES Interned(new, hid)
  BY Zenon
<1>0. ids_ \in Seq(HostIds) /\ Len(ids_) \in Nat /\ (\A i, j \in 1..Len(ids_) : ids_[i] = ids_[j] => i = j)
  BY LenProperties, Zenon DEF IdsInv
<1>r. hid \in Range(ids_) <=> \E i \in 1..Len(ids_) : ids_[i] = hid
  <2>1. DOMAIN ids_ = 1..Len(ids_)
    BY <1>0, LenProperties, Zenon
  <2>. QED  BY <2>1, Zenon DEF Range
<1>1. CASE \E i \in 1..Len(ids_) : ids_[i] = hid
  <2>1. new = ids_
    BY <1>1, <1>r, Zenon DEF intern
  <2>2. Len(ids_) <= Len(ids_)
    BY <1>0
  <2>. QED  BY <1>0, <1>1, <2>1, <2>2, Zenon DEF Interned
<1>2. CASE ~(\E i \in 1..Len(ids_) : ids_[i] = hid)
  <2>1. new = Append(ids_, hid)
    BY <1>2, <1>r, Zenon DEF intern
  <2>2. /\ new \in Seq(HostIds) /\ Len(new) = Len(ids_) + 1
        /\ \A i \in 1..Len(ids_) : new[i] = ids_[i]
        /\ new[Len(ids_) + 1] = hid
    BY <1>0, <2>1, AppendProperties
  <2>3. Len(ids_) <= Len(new) /\ Len(new) \in Nat /\ Len(ids_) + 1 \in 1..Len(new)
    BY <1>0, <2>2
  <2>4. \A i \in 1..Len(new) : i \in 1..Len(ids_) \/ i = Len(ids_) + 1
    BY <1>0, <2>2
  <2>5. ASSUME NEW i \in 1..Len(new), NEW j \in 1..Len(new), new[i] = new[j] PROVE i = j
    <3>1. CASE i \in 1..Len(ids_) /\ j \in 1..Len(ids_)
      BY <3>1, <2>5, <2>2, <1>0, Zenon
    <3>2. CASE i \in 1..Len(ids_) /\ j = Len(ids_) + 1
      BY <3>2, <2>5, <2>2, <1>2, Zenon
    <3>3. CASE i = Len(ids_) + 1 /\ j \in 1..Len(ids_)
      BY <3>3, <2>5, <2>2, <1>2, Zenon
    <3>. QED  BY <2>4, <3>1, <3>2, <3>3, Zenon
  <2>. QED  BY <2>2, <2>3, <2>5, Zenon DEF Interned
<1>. QED  BY <1>1, <1>2, Zenon

LEMMA GetMethodIDInv ==
    ASSUME IdsInv, AskingInv, NEW t \in Askers, NEW hid \in HostIds, GetMethodID(t, hid)
    PROVE  IdsInv' /\ AskingInv'
<1>0. ids_' = intern(hid) /\ UNCHANGED <<shorties, id_given, id_dead>>
  BY Zenon DEF GetMethodID
<1>1. /\ ids_' \in Seq(HostIds) /\ Len(ids_) <= Len(ids_') /\ Len(ids_') \in Nat
      /\ \A i \in 1..Len(ids_) : ids_'[i] = ids_[i]
      /\ \A i, j \in 1..Len(ids_') : ids_'[i] = ids_'[j] => i = j
      /\ \E i \in 1..Len(ids_') : ids_'[i] = hid
  <2>1. Interned(intern(hid), hid)
    BY InternIs, Zenon
  <2>. QED  BY <1>0, <2>1, Zenon DEF Interned
<1>2. Len(ids_) \in Nat
  BY LenProperties, Zenon DEF IdsInv
<1>3. \A i \in 1..Len(ids_) : i \in 1..Len(ids_') /\ ids_'[i] = ids_[i]
  BY <1>1, <1>2
<1>4. IdsInv'
  <2>0. IdsInv
    OBVIOUS
  <2>1. id_given' \subseteq 1..Len(ids_')
    BY <1>0, <1>3, <2>0, Zenon DEF IdsInv
  <2>2. ASSUME NEW id \in id_given' PROVE id <= Len(shorties') /\ shorties'[id] = ShortyOf[ids_'[id]]
    <3>1. id \in 1..Len(ids_) /\ id <= Len(shorties) /\ shorties[id] = ShortyOf[ids_[id]]
      BY <1>0, <2>0, <2>2, Zenon DEF IdsInv
    <3>. QED  BY <1>0, <1>3, <3>1, Zenon
  <2>3. shorties' \in Seq({ShortyOf[h] : h \in HostIds} \cup {"empty"}) /\ ~id_dead'
    BY <1>0, <2>0, Zenon DEF IdsInv
  <2>. QED  BY <1>1, <2>1, <2>2, <2>3, Zenon DEF IdsInv
<1>5. PICK k \in 1..Len(ids_') : ids_'[k] = hid
  BY <1>1, Zenon
<1>6. (CHOOSE id \in DOMAIN ids_' : ids_'[id] = hid) = k
  <2>1. PICK new : new = ids_'
    OBVIOUS
  <2>2. new \in Seq(HostIds) /\ (\A i, j \in 1..Len(new) : new[i] = new[j] => i = j) /\ k \in 1..Len(new) /\ new[k] = hid
    BY <2>1, <1>1, <1>5, Zenon
  <2>3. DOMAIN new = 1..Len(new)
    BY <2>2, LenProperties, Zenon
  <2>4. k \in DOMAIN new
    BY <2>2, <2>3, Zenon
  <2>. DEFINE c == CHOOSE id \in DOMAIN new : new[id] = hid
  <2>5. c \in DOMAIN new /\ new[c] = hid
    BY <2>2, <2>4, Zenon
  <2>. HIDE DEF c
  <2>6. c = k
    BY <2>2, <2>3, <2>5, Zenon
  <2>. QED  BY <2>1, <2>6, Zenon DEF c
<1>7. id_asking' = [id_asking EXCEPT ![t] = [at |-> "shorty", host |-> hid, guest |-> k]]
  BY <1>6, Zenon DEF GetMethodID, Does
<1>8. id_given \subseteq 1..Len(ids_)
  BY Zenon DEF IdsInv
<1>9. AskingInv'
  <2>1. DOMAIN id_asking' = Askers
    BY <1>7, Zenon DEF AskingInv
  <2>2. id_asking'[t].at = "shorty" /\ id_asking'[t].guest = k /\ id_asking'[t].host = hid
    BY <1>7 DEF AskingInv
  <2>3. ASSUME NEW u \in Askers, u # t PROVE id_asking'[u] = id_asking[u]
    BY <1>7, <2>3, Zenon DEF AskingInv
  <2>4. ASSUME NEW u \in Askers
        PROVE  /\ id_asking'[u].at = "shorty" => id_asking'[u].guest \in 1..Len(ids_') /\ id_asking'[u].host = ids_'[id_asking'[u].guest]
               /\ id_asking'[u].at = "call" => id_asking'[u].guest \in id_given /\ id_asking'[u].host = ids_'[id_asking'[u].guest]
               /\ id_asking'[u].at = "called" => id_asking'[u].shorty = ShortyOf[id_asking'[u].host]
    <3>1. CASE u = t
      <4>1. "shorty" # "call" /\ "shorty" # "called"
        OBVIOUS
      <4>. QED  BY <4>1, <3>1, <2>2, <1>5, Zenon
    <3>2. CASE u # t
      <4>1. id_asking'[u] = id_asking[u]
        BY <3>2, <2>3, Zenon
      <4>2. \A g \in id_given : g \in 1..Len(ids_)
        BY <1>8, Zenon
      <4>3. id_asking[u].at = "shorty" => id_asking[u].guest \in 1..Len(ids_') /\ id_asking[u].host = ids_'[id_asking[u].guest]
        BY <1>3, Zenon DEF AskingInv
      <4>4. id_asking[u].at = "call" => id_asking[u].guest \in id_given /\ id_asking[u].host = ids_'[id_asking[u].guest]
        BY <1>3, <4>2, Zenon DEF AskingInv
      <4>5. id_asking[u].at = "called" => id_asking[u].shorty = ShortyOf[id_asking[u].host]
        BY Zenon DEF AskingInv
      <4>. QED  BY <4>1, <4>3, <4>4, <4>5, Zenon
    <3>. QED  BY <3>1, <3>2, Zenon
  <2>. QED  BY <2>1, <2>4, <1>0, Zenon DEF AskingInv
<1>. QED  BY <1>4, <1>9, Zenon

LEMMA StoreShortyInv ==
    ASSUME IdsInv, AskingInv, NEW t \in Askers, StoreShorty(t)
    PROVE  IdsInv' /\ AskingInv'
<1>. PICK g : g = id_asking[t].guest
  OBVIOUS
<1>. PICK shorty : shorty = ShortyOf[id_asking[t].host]
  OBVIOUS
<1>. PICK size : size = IF Len(shorties) < g THEN g ELSE Len(shorties)
  OBVIOUS
<1>. DEFINE Shorties == {ShortyOf[h] : h \in HostIds} \cup {"empty"}
<1>0. /\ UNCHANGED <<ids_, id_dead>> /\ id_given' = id_given \union {g}
      /\ id_asking' = [id_asking EXCEPT ![t] = Nothing] /\ id_asking[t].at = "shorty"
  BY Zenon DEF StoreShorty, Does, At
<1>1. shorties' = [i \in 1..size |-> IF i = g THEN shorty ELSE IF i <= Len(shorties) THEN shorties[i] ELSE "empty"]
  BY Zenon DEF StoreShorty, shorties_with, Empty
<1>2. g \in 1..Len(ids_) /\ shorty = ShortyOf[ids_[g]]
  BY <1>0, Zenon DEF AskingInv
<1>3. /\ Len(ids_) \in Nat /\ Len(shorties) \in Nat /\ shorties \in [1..Len(shorties) -> Shorties]
      /\ ids_ \in [1..Len(ids_) -> HostIds]
  BY LenProperties, Zenon DEF IdsInv
<1>3a. Len(ids_) \in Nat /\ Len(shorties) \in Nat
  BY <1>3, Zenon
<1>4. size \in Nat /\ g \in 1..size /\ \A i \in 1..Len(shorties) : i \in 1..size
  BY <1>2, <1>3a
<1>5. shorty \in Shorties
  BY <1>2, <1>3, Zenon
<1>6. shorties' \in Seq(Shorties) /\ Len(shorties') = size
  <2>1. \A i \in 1..size : i <= Len(shorties) => i \in 1..Len(shorties)
    BY <1>3a
  <2>2. shorties' \in [1..size -> Shorties]
    BY <1>1, <1>3, <1>5, <2>1, Zenon
  <2>. QED  BY <1>4, <2>2, FunIsSeq, Zenon
<1>7. ASSUME NEW id \in id_given'
      PROVE  id \in 1..Len(ids_) /\ id <= Len(shorties') /\ shorties'[id] = ShortyOf[ids_[id]]
  <2>1. CASE id = g
    <3>1. g <= size
      BY <1>4
    <3>. QED  BY <2>1, <3>1, <1>1, <1>2, <1>4, <1>6, Zenon
  <2>2. CASE id # g
    <3>1. id \in id_given /\ id \in 1..Len(ids_) /\ id <= Len(shorties) /\ shorties[id] = ShortyOf[ids_[id]]
      BY <1>0, <2>2, Zenon DEF IdsInv
    <3>2. id \in 1..size /\ id <= size
      <4>1. id \in 1..Len(ids_) /\ id <= Len(shorties)
        BY <3>1, Zenon
      <4>2. id \in 1..Len(shorties)
        BY <4>1, <1>3a
      <4>3. id \in 1..size
        BY <4>2, <1>4, Zenon
      <4>. QED  BY <4>3, <1>4
    <3>. QED  BY <3>1, <3>2, <2>2, <1>1, <1>6, Zenon
  <2>. QED  BY <2>1, <2>2, Zenon
<1>8. IdsInv'
  <2>. HIDE DEF Shorties
  <2>1. id_given' \subseteq 1..Len(ids_)
    BY <1>7, Zenon
  <2>. QED  BY <2>1, <1>0, <1>6, <1>7, Zenon DEF IdsInv, Shorties
<1>9. AskingInv'
  <2>1. DOMAIN id_asking' = Askers /\ id_asking'[t] = Nothing
    BY <1>0, Zenon DEF AskingInv
  <2>2. \A u \in Askers : u # t => id_asking'[u] = id_asking[u]
    BY <1>0, Zenon DEF AskingInv
  <2>3. "idle" # "shorty" /\ "idle" # "call" /\ "idle" # "called"
    OBVIOUS
  <2>4. id_asking'[t].at = "idle"
    BY <2>1, Idle, Zenon
  <2>5. ASSUME NEW u \in Askers
        PROVE  /\ id_asking'[u].at = "shorty" => id_asking'[u].guest \in 1..Len(ids_) /\ id_asking'[u].host = ids_[id_asking'[u].guest]
               /\ id_asking'[u].at = "call" => id_asking'[u].guest \in id_given' /\ id_asking'[u].host = ids_[id_asking'[u].guest]
               /\ id_asking'[u].at = "called" => id_asking'[u].shorty = ShortyOf[id_asking'[u].host]
    <3>1. CASE u = t
      BY <3>1, <2>3, <2>4, Zenon
    <3>2. CASE u # t
      <4>1. id_asking'[u] = id_asking[u] /\ id_given \subseteq id_given'
        BY <3>2, <2>2, <1>0, Zenon
      <4>. QED  BY <4>1, Zenon DEF AskingInv
    <3>. QED  BY <3>1, <3>2, Zenon
  <2>. QED  BY <2>1, <2>5, <1>0, Zenon DEF AskingInv
<1>. QED  BY <1>8, <1>9, Zenon

\* An id in the guest's hands is in the table, with its shorty.
LEMMA GivenIs ==
    ASSUME \A h \in HostIds : ShortyOf[h] # "empty", IdsInv, NEW id \in id_given
    PROVE  /\ id \in 1..Len(ids_) /\ id <= Len(ids_)
           /\ method_shorty(id) = ShortyOf[ids_[id]] /\ method_shorty(id) # Empty
<1>1. id \in 1..Len(ids_) /\ id <= Len(shorties) /\ shorties[id] = ShortyOf[ids_[id]]
  BY Zenon DEF IdsInv
<1>2. Len(ids_) \in Nat /\ Len(shorties) \in Nat /\ ids_ \in [1..Len(ids_) -> HostIds]
  BY LenProperties, Zenon DEF IdsInv
<1>3. id <= Len(ids_) /\ id # 0 /\ ~(id > Len(shorties))
  BY <1>1, <1>2
<1>4. method_shorty(id) = ShortyOf[ids_[id]]
  BY <1>1, <1>3, Zenon DEF method_shorty
<1>. QED  BY <1>1, <1>2, <1>3, <1>4, Zenon DEF Empty

\* The steps of a call change the thread's place alone.
LEMMA CallInv ==
    ASSUME \A h \in HostIds : ShortyOf[h] # "empty", IdsInv, AskingInv, NEW t \in Askers,
           \/ CallWithShorty(t) \/ CallEnds(t)
           \/ \E id \in id_given : CallMethodA(t, id) \/ GetMethodShorty(t, id)
    PROVE  IdsInv' /\ AskingInv'
<1>. DEFINE Placed(u) ==
       /\ id_asking'[u].at = "shorty" => id_asking'[u].guest \in 1..Len(ids_) /\ id_asking'[u].host = ids_[id_asking'[u].guest]
       /\ id_asking'[u].at = "call" => id_asking'[u].guest \in id_given /\ id_asking'[u].host = ids_[id_asking'[u].guest]
       /\ id_asking'[u].at = "called" => id_asking'[u].shorty = ShortyOf[id_asking'[u].host]
<1>0. UNCHANGED <<ids_, shorties, id_given>>
  BY Zenon DEF CallWithShorty, CallEnds, CallMethodA, GetMethodShorty
<1>1. SUFFICES ~id_dead' /\ (id_asking' = id_asking \/ \E what : id_asking' = [id_asking EXCEPT ![t] = what] /\ Placed(t))
  <2>1. IdsInv'
    BY <1>0, <1>1, Zenon DEF IdsInv
  <2>2. CASE id_asking' = id_asking
    BY <2>1, <2>2, <1>0, Zenon DEF AskingInv
  <2>3. CASE \E what : id_asking' = [id_asking EXCEPT ![t] = what] /\ Placed(t)
    <3>1. DOMAIN id_asking' = Askers /\ \A u \in Askers : u # t => id_asking'[u] = id_asking[u]
      BY <2>3, Zenon DEF AskingInv
    <3>2. \A u \in Askers : Placed(u)
      <4>1. ASSUME NEW u \in Askers, u # t PROVE Placed(u)
        <5>1. id_asking'[u] = id_asking[u]
          BY <3>1, <4>1, Zenon
        <5>. QED  BY <5>1, Zenon DEF AskingInv
      <4>. QED  BY <2>3, <4>1, Zenon
    <3>. QED  BY <2>1, <3>1, <3>2, <1>0, Zenon DEF AskingInv
  <2>. QED  BY <1>1, <2>2, <2>3, Zenon
<1>d. ~id_dead
  BY Zenon DEF IdsInv
<1>e. "idle" # "shorty" /\ "idle" # "call" /\ "idle" # "called" /\ "call" # "shorty" /\ "call" # "called" /\ "called" # "shorty"
  OBVIOUS
<1>2. CASE CallWithShorty(t)
  <2>1. id_asking[t].at = "call"
    BY <1>2, Zenon DEF CallWithShorty, At
  <2>2. PICK id \in id_given : id = id_asking[t].guest /\ id_asking[t].host = ids_[id]
    BY <2>1, Zenon DEF AskingInv
  <2>3. /\ UNCHANGED id_dead
        /\ id_asking' = [id_asking EXCEPT ![t] = [at |-> "called", host |-> ids_[id], shorty |-> ShortyOf[ids_[id]]]]
    BY <1>2, <2>2, GivenIs, Zenon DEF CallWithShorty, Does
  <2>4. id_asking'[t].at = "called" /\ id_asking'[t].host = ids_[id] /\ id_asking'[t].shorty = ShortyOf[ids_[id]]
    BY <2>3 DEF AskingInv
  <2>. QED  BY <2>3, <2>4, <1>d, <1>e, Zenon
<1>3. CASE CallEnds(t)
  <2>1. UNCHANGED id_dead /\ id_asking' = [id_asking EXCEPT ![t] = Nothing]
    BY <1>3, Zenon DEF CallEnds, Does
  <2>2. id_asking'[t].at = "idle"
    BY <2>1, Idle, Zenon DEF AskingInv
  <2>. QED  BY <2>1, <2>2, <1>d, <1>e, Zenon
<1>4. ASSUME NEW id \in id_given, CallMethodA(t, id)
      PROVE  ~id_dead' /\ (id_asking' = id_asking \/ \E what : id_asking' = [id_asking EXCEPT ![t] = what] /\ Placed(t))
  <2>1. UNCHANGED id_dead /\ id_asking' = [id_asking EXCEPT ![t] = [at |-> "call", host |-> ids_[id], guest |-> id]]
    BY <1>4, GivenIs, Zenon DEF CallMethodA, Does
  <2>2. id_asking'[t].at = "call" /\ id_asking'[t].host = ids_[id] /\ id_asking'[t].guest = id
    BY <2>1 DEF AskingInv
  <2>. QED  BY <2>1, <2>2, <1>d, <1>e, Zenon
<1>5. ASSUME NEW id \in id_given, GetMethodShorty(t, id)
      PROVE  ~id_dead' /\ id_asking' = id_asking
  BY <1>5, GivenIs, Zenon DEF GetMethodShorty
<1>. QED  BY <1>2, <1>3, <1>4, <1>5, Zenon

(***************************************************************************)
(* For any threads and methods, none without a shorty: an id in the        *)
(* guest's hands has its shorty, a call reaches ART with the shorty of its *)
(* method, and a method has one id, though table and shorties are under    *)
(* two mutexes (intern_method of core/src/jni/host_jni.cpp).               *)
(***************************************************************************)
THEOREM MethodIdsResolve == IdsSpec => []IdsSafe
<1>. USE IdsAssumption
<1>1. IdsInit => IdsInv /\ AskingInv
  <2>. SUFFICES ASSUME IdsInit PROVE IdsInv /\ AskingInv
    OBVIOUS
  <2>1. Len(ids_) = 0 /\ 1..0 = {}
    BY DEF IdsInit
  <2>2. ids_ \in Seq(HostIds) /\ shorties \in Seq({ShortyOf[h] : h \in HostIds} \cup {"empty"})
    BY DEF IdsInit
  <2>3. "idle" # "shorty" /\ "idle" # "call" /\ "idle" # "called"
    OBVIOUS
  <2>4. IdsInv
    BY <2>1, <2>2, Zenon DEF IdsInit, IdsInv
  <2>5. DOMAIN id_asking = Askers /\ \A t \in Askers : id_asking[t].at = "idle"
    BY Idle, Zenon DEF IdsInit
  <2>. QED  BY <2>3, <2>4, <2>5, Zenon DEF AskingInv
<1>2. (IdsInv /\ AskingInv) /\ [IdsNext]_(idsVars) => (IdsInv /\ AskingInv)'
  <2>. SUFFICES ASSUME IdsInv, AskingInv, [IdsNext]_(idsVars) PROVE IdsInv' /\ AskingInv'
    BY Zenon
  <2>1. CASE UNCHANGED idsVars
    BY <2>1, Zenon DEF idsVars, IdsInv, AskingInv
  <2>. QED  BY <2>1, GetMethodIDInv, StoreShortyInv, CallInv, Zenon DEF IdsNext
<1>3. IdsInv /\ AskingInv => IdsSafe
  <2>. SUFFICES ASSUME IdsInv, AskingInv PROVE IdsSafe
    OBVIOUS
  <2>1. OneIdPerMethod
    <3>1. DOMAIN ids_ = 1..Len(ids_)
      BY LenProperties, Zenon DEF IdsInv
    <3>. QED  BY <3>1, Zenon DEF IdsInv, OneIdPerMethod, IsInjective
  <2>2. IdsResolve
    BY GivenIs, Zenon DEF IdsInv, AskingInv, IdsResolve
  <2>. QED  BY <2>1, <2>2, Zenon DEF IdsSafe
<1>. QED  BY <1>1, <1>2, <1>3, PTL DEF IdsSpec
=============================================================================
