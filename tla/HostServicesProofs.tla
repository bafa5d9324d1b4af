------------------------- MODULE HostServicesProofs -------------------------
(***************************************************************************)
(* Services that the host gives a guest, proved for any numbers of what    *)
(* they serve: the locks of HostBitmap and the queue of HostInput, which   *)
(* work on shared state without a mutex over the whole of an operation,    *)
(* and the vertex arrays of GlArrays, which follow the driver's context.   *)
(***************************************************************************)
EXTENDS HostBitmap, HostInput, GlArrays, FiniteSetTheorems, TLAPS

Steps == {"write_back", "free", "unlock", "release"}
Unlocks == [bitmap : Bitmaps, owner : Painters, serial : 1..MaxLocks, step : Steps]
InCall(t) == unlocking[t].step \in Steps

(* The types of what BitmapTypeOK leaves open.                             *)
BitmapTypes ==
    /\ BitmapTypeOK
    /\ copies \in [DOMAIN copies -> SUBSET (1..MaxLocks)]
    /\ unlocking \in [Painters -> Unlocks \cup {NoLock}]
    /\ finished_draws \subseteq (1..MaxLocks) \X Bitmaps

(* A bitmap has at most one entry, and no two entries or calls under way    *)
(* have one serial: each works on a copy of its own.                        *)
SerialsDistinct ==
    /\ \A l, m \in pixel_locks : l.bitmap = m.bitmap \/ l.serial = m.serial => l = m
    /\ \A l \in pixel_locks : l.serial <= serials
    /\ \A t \in Painters : unlocking[t].serial <= serials
    /\ \A t \in Painters : \A l \in pixel_locks : unlocking[t].serial # l.serial
    /\ \A t, u \in Painters : InCall(t) /\ unlocking[t].serial = unlocking[u].serial => t = u

(* Two who work on one bitmap at once have crossed; the others' copy shows  *)
(* all that the bitmap shows, so writing it back loses nothing.             *)
CopiesCurrent ==
    /\ \A t \in Painters : \A l \in pixel_locks :
         InCall(t) /\ unlocking[t].bitmap = l.bitmap => l.bitmap \in crossed
    /\ \A t, u \in Painters :
         InCall(t) /\ InCall(u) /\ t # u /\ unlocking[t].bitmap = unlocking[u].bitmap
           => unlocking[t].bitmap \in crossed
    /\ \A l \in pixel_locks : l.bitmap \notin crossed => shown[l.bitmap] \subseteq copies[l.serial]
    /\ \A t \in Painters :
         unlocking[t].step = "write_back" /\ unlocking[t].bitmap \notin crossed
           => shown[unlocking[t].bitmap] \subseteq copies[unlocking[t].serial]

BitmapInv ==
    BitmapTypes /\ SerialsDistinct /\ CopiesPaired /\ CopiesCurrent /\ DrawingsKept

(* A lockPixels that fails gives back whatever it had taken.                *)
LEMMA LockFailureUndone ==
  ASSUME NEW b, NEW s, LockFails(b, s)
  PROVE  UNCHANGED <<locked_pixels, copies, retained>>
BY DEF LockFails, GivenBack

(* All but the counting, per action.                                        *)
LEMMA LockKeeps ==
  ASSUME BitmapInv, MaxLocks \in Nat, NEW t \in Painters, NEW b \in Bitmaps, lockPixels(t, b)
  PROVE  BitmapInv'
<1> USE DEF lockPixels, Locked, Outside
<1>1. CASE UNCHANGED <<pixel_locks, crossed>> /\ LockFails(b, serials')
  BY <1>1, LockFailureUndone DEF BitmapInv, BitmapTypes, BitmapTypeOK, SerialsDistinct, CopiesPaired, CopiesCurrent,
     DrawingsKept, InCall, Unlocks, NoLock
<1>2. CASE ~(UNCHANGED <<pixel_locks, crossed>> /\ LockFails(b, serials'))
  <2> DEFINE new == [bitmap |-> b, owner |-> t, serial |-> serials']
  <2>1. /\ pixel_locks' = pixel_locks \cup {new}
        /\ copies' = [s \in DOMAIN copies \cup {serials'} |-> IF s = serials' THEN shown[b] ELSE copies[s]]
        /\ locked_pixels' = [locked_pixels EXCEPT ![b] = @ + 1]
        /\ retained' = [retained EXCEPT ![b] = @ + 1]
        /\ crossed' = IF \E u \in Painters : unlocking[u].bitmap = b THEN crossed \cup {b} ELSE crossed
        /\ UNCHANGED <<shown, unlocking, finished_draws>>
        /\ serials' = serials + 1 /\ serials' \in 1..MaxLocks /\ serials \in 0..MaxLocks
        /\ \A l \in pixel_locks : l.bitmap # b
    BY <1>2 DEF BitmapInv, BitmapTypes, BitmapTypeOK
  <2>2. BitmapTypes'
    BY <2>1 DEF BitmapInv, BitmapTypes, BitmapTypeOK
  <2>3. new.serial = serials' /\ new.bitmap = b
    OBVIOUS
  <2>4. /\ \A l \in pixel_locks : l.serial \in 1..serials
        /\ \A u \in Painters : unlocking[u].serial \in 0..serials
    BY <2>1 DEF BitmapInv, BitmapTypes, BitmapTypeOK, SerialsDistinct, Unlocks, NoLock
  <2>5. SerialsDistinct'
    BY <2>1, <2>3, <2>4 DEF BitmapInv, SerialsDistinct, InCall
  <2>6. DOMAIN copies' = DOMAIN copies \cup {serials'}
    BY <2>1, Zenon
  <2>7. CopiesPaired'
    <3>1. ASSUME NEW s PROVE s \in DOMAIN copies' <=>
            \/ \E m \in pixel_locks' : s = m.serial
            \/ \E u \in Painters : unlocking[u].step \in {"write_back", "free"} /\ s = unlocking[u].serial
      <4>1. s \in DOMAIN copies <=>
              \/ \E m \in pixel_locks : s = m.serial
              \/ \E u \in Painters : unlocking[u].step \in {"write_back", "free"} /\ s = unlocking[u].serial
        BY Zenon DEF BitmapInv, CopiesPaired
      <4>2. (\E m \in pixel_locks' : s = m.serial) <=> (\E m \in pixel_locks : s = m.serial) \/ s = serials'
        <5>1. \A m : m \in pixel_locks' <=> m \in pixel_locks \/ m = new
          BY <2>1, Zenon
        <5> HIDE DEF new
        <5> QED
          BY <2>3, <5>1, Zenon
      <4> QED
        BY <2>6, <4>1, <4>2, Zenon
    <3> QED
      BY <2>1, <3>1 DEF CopiesPaired
  <2>8. serials' \notin DOMAIN copies
    BY <2>1, <2>4 DEF BitmapInv, CopiesPaired
  <2>9. /\ \A l \in pixel_locks : l.serial \in DOMAIN copies
        /\ \A u \in Painters : unlocking[u].step = "write_back" => unlocking[u].serial \in DOMAIN copies
    BY Zenon DEF BitmapInv, CopiesPaired
  <2>10. CopiesCurrent'
    <3>1. \A s \in DOMAIN copies : copies'[s] = copies[s]
      BY <2>1, <2>8, Zenon
    <3>2. copies'[serials'] = shown[b]
      BY <2>1, Zenon
    <3>3. /\ crossed \subseteq crossed'
          /\ (\E u \in Painters : unlocking[u].bitmap = b) => b \in crossed'
      BY <2>1, Zenon
    <3> QED
      BY <2>1, <2>3, <2>9, <3>1, <3>2, <3>3 DEF BitmapInv, CopiesCurrent, InCall
  <2>11. DrawingsKept'
    BY <2>1, Zenon DEF BitmapInv, DrawingsKept
  <2> QED
    BY <2>2, <2>5, <2>7, <2>10, <2>11 DEF BitmapInv
<1> QED
  BY <1>1, <1>2, Zenon

LEMMA DrawKeeps ==
  ASSUME BitmapInv, MaxLocks \in Nat, NEW t \in Painters, Draw(t)
  PROVE  BitmapInv'
<1>1. PICK l \in pixel_locks :
        /\ copies' = [copies EXCEPT ![l.serial] = @ \cup {l.serial}]
        /\ UNCHANGED <<pixel_locks, shown, locked_pixels, retained, unlocking, serials, finished_draws, crossed>>
  BY Zenon DEF Draw
<1>2. l.serial \in DOMAIN copies /\ l.serial \in 1..MaxLocks
  BY Zenon DEF BitmapInv, BitmapTypes, BitmapTypeOK, CopiesPaired
<1>3. /\ DOMAIN copies' = DOMAIN copies
      /\ copies' \in [DOMAIN copies' -> SUBSET (1..MaxLocks)]
      /\ \A s \in DOMAIN copies : copies[s] \subseteq copies'[s] /\ copies'[s] \subseteq 1..MaxLocks
  BY <1>1, <1>2, Zenon DEF BitmapInv, BitmapTypes, BitmapTypeOK
<1>4. BitmapTypes'
  BY <1>1, <1>3, Zenon DEF BitmapInv, BitmapTypes, BitmapTypeOK
<1>5. SerialsDistinct' /\ CopiesPaired' /\ DrawingsKept'
  BY <1>1, <1>3 DEF BitmapInv, SerialsDistinct, CopiesPaired, DrawingsKept, InCall
<1>6. /\ \A m \in pixel_locks : m.serial \in DOMAIN copies
      /\ \A u \in Painters : unlocking[u].step = "write_back" => unlocking[u].serial \in DOMAIN copies
  BY Zenon DEF BitmapInv, CopiesPaired
<1>7. CopiesCurrent'
  BY <1>1, <1>3, <1>6, Zenon DEF BitmapInv, CopiesCurrent, InCall
<1> QED
  BY <1>4, <1>5, <1>7, Zenon DEF BitmapInv

LEMMA UnlockKeeps ==
  ASSUME BitmapInv, MaxLocks \in Nat, NEW t \in Painters, NEW b \in Bitmaps, unlockPixels(t, b)
  PROVE  BitmapInv'
<1>1. PICK l \in pixel_locks :
        /\ l.bitmap = b /\ l.owner = t
        /\ pixel_locks' = pixel_locks \ {l}
        /\ unlocking' = [unlocking EXCEPT ![t] = [bitmap |-> b, owner |-> t, serial |-> l.serial,
                                                 step |-> "write_back"]]
        /\ unlocking[t] = NoLock
        /\ UNCHANGED <<copies, shown, locked_pixels, retained, serials, finished_draws, crossed>>
  BY Zenon DEF unlockPixels, Outside
<1> DEFINE call == [bitmap |-> b, owner |-> t, serial |-> l.serial, step |-> "write_back"]
<1>2. l.serial \in 1..MaxLocks /\ l.serial <= serials /\ call \in Unlocks
  BY <1>1, Zenon DEF BitmapInv, BitmapTypes, BitmapTypeOK, SerialsDistinct, Unlocks, Steps
<1>3. BitmapTypes'
  BY <1>1, <1>2, Zenon DEF BitmapInv, BitmapTypes, BitmapTypeOK
<1>4. /\ \A u \in Painters : u # t => unlocking'[u] = unlocking[u]
      /\ unlocking'[t] = call
      /\ call.bitmap = b /\ call.serial = l.serial /\ call.step = "write_back"
  BY <1>1, Zenon DEF BitmapInv, BitmapTypes
<1>5. SerialsDistinct'
  BY <1>1, <1>2, <1>4 DEF BitmapInv, SerialsDistinct, InCall
<1>6. unlocking[t].step = "out"
  BY <1>1 DEF NoLock
<1>7. CopiesPaired'
  <2>1. ASSUME NEW s PROVE s \in DOMAIN copies <=>
          \/ \E m \in pixel_locks' : s = m.serial
          \/ \E u \in Painters : unlocking'[u].step \in {"write_back", "free"} /\ s = unlocking'[u].serial
    <3>1. s \in DOMAIN copies <=>
            \/ \E m \in pixel_locks : s = m.serial
            \/ \E u \in Painters : unlocking[u].step \in {"write_back", "free"} /\ s = unlocking[u].serial
      BY Zenon DEF BitmapInv, CopiesPaired
    <3> QED
      BY <1>1, <1>4, <1>6, <3>1
  <2> QED
    BY <1>1, <2>1, Zenon DEF CopiesPaired
<1>8. CopiesCurrent'
  <2>1. \A m \in pixel_locks' : m \in pixel_locks /\ m.bitmap # b
    BY <1>1, Zenon DEF BitmapInv, SerialsDistinct
  <2>2. \A u \in Painters : InCall(u) /\ unlocking[u].bitmap = b => b \in crossed
    BY <1>1, Zenon DEF BitmapInv, CopiesCurrent
  <2>3. b \notin crossed => shown[b] \subseteq copies[l.serial]
    BY <1>1, Zenon DEF BitmapInv, CopiesCurrent
  <2>4. /\ \A u \in Painters : \A m \in pixel_locks' :
             InCall(u)' /\ unlocking'[u].bitmap = m.bitmap => m.bitmap \in crossed
        /\ \A m \in pixel_locks' : m.bitmap \notin crossed => shown[m.bitmap] \subseteq copies[m.serial]
    BY <1>4, <2>1, Zenon DEF BitmapInv, CopiesCurrent, InCall
  <2>5. \A u, v \in Painters :
           InCall(u)' /\ InCall(v)' /\ u # v /\ unlocking'[u].bitmap = unlocking'[v].bitmap
             => unlocking'[u].bitmap \in crossed
    BY <1>4, <2>2 DEF BitmapInv, CopiesCurrent, InCall
  <2>6. \A u \in Painters :
           unlocking'[u].step = "write_back" /\ unlocking'[u].bitmap \notin crossed
             => shown[unlocking'[u].bitmap] \subseteq copies[unlocking'[u].serial]
    BY <1>4, <2>3, Zenon DEF BitmapInv, CopiesCurrent
  <2> QED
    BY <1>1, <2>4, <2>5, <2>6, Zenon DEF CopiesCurrent
<1>9. DrawingsKept'
  BY <1>1, Zenon DEF BitmapInv, DrawingsKept
<1> QED
  BY <1>3, <1>5, <1>7, <1>8, <1>9, Zenon DEF BitmapInv

(* What the steps of an unlockPixels under way have in common: the call     *)
(* keeps its bitmap and its serial.                                         *)
LEMMA CallGoesOn ==
  ASSUME BitmapTypes, NEW t \in Painters, NEW step \in Steps, InCall(t), Goes(t, step)
  PROVE  /\ unlocking' \in [Painters -> Unlocks \cup {NoLock}]
         /\ \A u \in Painters : u # t => unlocking'[u] = unlocking[u]
         /\ unlocking[t] \in Unlocks
         /\ unlocking'[t].bitmap = unlocking[t].bitmap /\ unlocking'[t].serial = unlocking[t].serial
         /\ unlocking'[t].step = step
<1>1. unlocking[t] \in Unlocks
  BY DEF BitmapTypes, InCall, Steps, NoLock
<1>2. unlocking' = [unlocking EXCEPT ![t] = [unlocking[t] EXCEPT !.step = step]]
  BY Zenon DEF Goes
<1>3. [unlocking[t] EXCEPT !.step = step] \in Unlocks
  BY <1>1, Zenon DEF Unlocks
<1> QED
  BY <1>1, <1>2, <1>3, Zenon DEF BitmapTypes, Unlocks

LEMMA WriteBackKeeps ==
  ASSUME BitmapInv, MaxLocks \in Nat, NEW t \in Painters, WriteBack(t)
  PROVE  BitmapInv'
<1> DEFINE l == unlocking[t]
<1>1. InCall(t) /\ l.step = "write_back" /\ Goes(t, "free") /\ "free" \in Steps
  BY Zenon DEF WriteBack, At, InCall, Steps
<1>2. /\ unlocking' \in [Painters -> Unlocks \cup {NoLock}]
      /\ \A u \in Painters : u # t => unlocking'[u] = unlocking[u]
      /\ l \in Unlocks
      /\ unlocking'[t].bitmap = l.bitmap /\ unlocking'[t].serial = l.serial
      /\ unlocking'[t].step = "free"
  BY <1>1, CallGoesOn, Zenon DEF BitmapInv
<1>3. /\ UNCHANGED <<pixel_locks, copies, locked_pixels, retained, serials, crossed>>
      /\ \/ /\ shown' = [shown EXCEPT ![l.bitmap] = copies[l.serial]]
            /\ finished_draws' = finished_draws \cup (copies[l.serial] \X {l.bitmap})
         \/ UNCHANGED <<shown, finished_draws>>
  BY Zenon DEF WriteBack
<1>4. l.serial \in DOMAIN copies /\ l.bitmap \in Bitmaps
  BY <1>1, <1>2, Zenon DEF BitmapInv, CopiesPaired, Unlocks
<1>5. copies[l.serial] \subseteq 1..MaxLocks
  BY <1>4, Zenon DEF BitmapInv, BitmapTypes
<1>6. shown' \in [Bitmaps -> SUBSET (1..MaxLocks)] /\ finished_draws' \subseteq (1..MaxLocks) \X Bitmaps
  BY <1>3, <1>4, <1>5, Zenon DEF BitmapInv, BitmapTypes, BitmapTypeOK
<1>7. BitmapTypes'
  BY <1>2, <1>3, <1>6, Zenon DEF BitmapInv, BitmapTypes, BitmapTypeOK
<1>8. SerialsDistinct' /\ CopiesPaired'
  <2>1. SerialsDistinct'
    BY <1>1, <1>2, <1>3 DEF BitmapInv, SerialsDistinct, InCall, Steps
  <2>2. \A u \in Painters : (unlocking'[u].step \in {"write_back", "free"}) = (unlocking[u].step \in {"write_back", "free"})
                           /\ unlocking'[u].serial = unlocking[u].serial
    BY <1>1, <1>2
  <2>3. CopiesPaired'
    BY <1>3, <2>2, Zenon DEF BitmapInv, CopiesPaired
  <2> QED
    BY <2>1, <2>3, Zenon
<1>9. \A c \in Bitmaps : /\ c # l.bitmap => shown'[c] = shown[c]
                         /\ l.bitmap \notin crossed => shown[l.bitmap] \subseteq shown'[l.bitmap]
  BY <1>1, <1>3, <1>4, Zenon DEF BitmapInv, BitmapTypes, BitmapTypeOK, CopiesCurrent
<1>10. CopiesCurrent'
  <2>1. /\ \A m \in pixel_locks : m.bitmap \notin crossed => m.bitmap # l.bitmap
        /\ \A u \in Painters : u # t /\ InCall(u) /\ unlocking[u].bitmap \notin crossed
                               => unlocking[u].bitmap # l.bitmap
    BY <1>1, Zenon DEF BitmapInv, CopiesCurrent
  <2>2. /\ \A m \in pixel_locks : m.bitmap \in Bitmaps
        /\ \A u \in Painters : InCall(u) => unlocking[u].bitmap \in Bitmaps
    BY DEF BitmapInv, BitmapTypes, BitmapTypeOK, InCall, Unlocks, Steps, NoLock
  <2>3. \A u \in Painters : /\ InCall(u)' = InCall(u) /\ unlocking'[u].bitmap = unlocking[u].bitmap
                            /\ unlocking'[u].step = "write_back" => u # t /\ InCall(u) /\ unlocking'[u] = unlocking[u]
    BY <1>1, <1>2 DEF InCall, Steps
  <2>4. /\ \A u \in Painters : \A m \in pixel_locks :
             InCall(u)' /\ unlocking'[u].bitmap = m.bitmap => m.bitmap \in crossed
        /\ \A u, v \in Painters :
             InCall(u)' /\ InCall(v)' /\ u # v /\ unlocking'[u].bitmap = unlocking'[v].bitmap
               => unlocking'[u].bitmap \in crossed
    <3>1. /\ \A u \in Painters : \A m \in pixel_locks :
               InCall(u) /\ unlocking[u].bitmap = m.bitmap => m.bitmap \in crossed
          /\ \A u, v \in Painters :
               InCall(u) /\ InCall(v) /\ u # v /\ unlocking[u].bitmap = unlocking[v].bitmap
                 => unlocking[u].bitmap \in crossed
      BY Zenon DEF BitmapInv, CopiesCurrent
    <3> QED
      BY <2>3, <3>1, Zenon
  <2>5. ASSUME NEW m \in pixel_locks, m.bitmap \notin crossed
        PROVE  shown'[m.bitmap] \subseteq copies[m.serial]
    <3>1. shown[m.bitmap] \subseteq copies[m.serial]
      BY <2>5, Zenon DEF BitmapInv, CopiesCurrent
    <3>2. shown'[m.bitmap] = shown[m.bitmap]
      BY <1>9, <2>1, <2>2, <2>5, Zenon
    <3> QED
      BY <3>1, <3>2, Zenon
  <2>6. ASSUME NEW u \in Painters, unlocking'[u].step = "write_back", unlocking'[u].bitmap \notin crossed
        PROVE  shown'[unlocking'[u].bitmap] \subseteq copies[unlocking'[u].serial]
    <3>1. u # t /\ InCall(u) /\ unlocking'[u] = unlocking[u]
      BY <2>3, <2>6, Zenon
    <3>2. shown'[unlocking[u].bitmap] = shown[unlocking[u].bitmap]
      BY <1>9, <2>1, <2>2, <2>6, <3>1, Zenon
    <3>3. shown[unlocking[u].bitmap] \subseteq copies[unlocking[u].serial]
      BY <2>6, <3>1, Zenon DEF BitmapInv, CopiesCurrent
    <3> QED
      BY <3>1, <3>2, <3>3, Zenon
  <2> QED
    BY <1>3, <2>4, <2>5, <2>6, Zenon DEF CopiesCurrent
<1>11. DrawingsKept'
  <2>1. ASSUME NEW d \in finished_draws', d[2] \notin crossed
        PROVE  d[1] \in shown'[d[2]]
    <3>1. CASE d \in finished_draws
      <4>1. d[2] \in Bitmaps /\ d[1] \in shown[d[2]]
        BY <2>1, <3>1, Zenon DEF BitmapInv, BitmapTypes, DrawingsKept
      <4> QED
        BY <1>9, <2>1, <4>1, Zenon
    <3>2. CASE d \notin finished_draws
      <4>1. d \in copies[l.serial] \X {l.bitmap} /\ shown' = [shown EXCEPT ![l.bitmap] = copies[l.serial]]
        BY <1>3, <3>2, Zenon
      <4> QED
        BY <1>4, <4>1, Zenon DEF BitmapInv, BitmapTypes, BitmapTypeOK
    <3> QED
      BY <3>1, <3>2, Zenon
  <2> QED
    BY <1>3, <2>1, Zenon DEF DrawingsKept
<1> QED
  BY <1>7, <1>8, <1>10, <1>11, Zenon DEF BitmapInv

LEMMA FreeKeeps ==
  ASSUME BitmapInv, MaxLocks \in Nat, NEW t \in Painters, FreeCopy(t)
  PROVE  BitmapInv'
<1> DEFINE l == unlocking[t]
<1>1. InCall(t) /\ l.step = "free" /\ Goes(t, "unlock") /\ "unlock" \in Steps
  BY Zenon DEF FreeCopy, At, InCall, Steps
<1>2. /\ unlocking' \in [Painters -> Unlocks \cup {NoLock}]
      /\ \A u \in Painters : u # t => unlocking'[u] = unlocking[u]
      /\ unlocking'[t].bitmap = l.bitmap /\ unlocking'[t].serial = l.serial
      /\ unlocking'[t].step = "unlock"
  BY <1>1, CallGoesOn, Zenon DEF BitmapInv
<1>3. /\ UNCHANGED <<pixel_locks, shown, locked_pixels, retained, serials, finished_draws, crossed>>
      /\ copies' = [s \in DOMAIN copies \ {l.serial} |-> copies[s]]
  BY Zenon DEF FreeCopy, Frees
<1>4. BitmapTypes'
  BY <1>2, <1>3, Zenon DEF BitmapInv, BitmapTypes, BitmapTypeOK
<1>5. SerialsDistinct' /\ DrawingsKept'
  BY <1>1, <1>2, <1>3 DEF BitmapInv, SerialsDistinct, DrawingsKept, InCall, Steps
<1>6. CopiesPaired'
  <2>1. /\ \A m \in pixel_locks : m.serial # l.serial
        /\ \A u \in Painters : u # t => unlocking[u].serial # l.serial
    BY <1>1, Zenon DEF BitmapInv, SerialsDistinct
  <2>2. ASSUME NEW s PROVE s \in DOMAIN copies' <=>
          \/ \E m \in pixel_locks : s = m.serial
          \/ \E u \in Painters : unlocking'[u].step \in {"write_back", "free"} /\ s = unlocking'[u].serial
    <3>1. s \in DOMAIN copies <=>
            \/ \E m \in pixel_locks : s = m.serial
            \/ \E u \in Painters : unlocking[u].step \in {"write_back", "free"} /\ s = unlocking[u].serial
      BY Zenon DEF BitmapInv, CopiesPaired
    <3>2. s \in DOMAIN copies' <=> s \in DOMAIN copies /\ s # l.serial
      BY <1>3, Zenon
    <3> QED
      BY <1>1, <1>2, <2>1, <3>1, <3>2, Zenon
  <2> QED
    BY <1>3, <2>2 DEF CopiesPaired
<1>7. CopiesCurrent'
  <2>1. /\ \A m \in pixel_locks : copies'[m.serial] = copies[m.serial]
        /\ \A u \in Painters : unlocking'[u].step = "write_back"
             => unlocking'[u] = unlocking[u] /\ copies'[unlocking[u].serial] = copies[unlocking[u].serial]
    BY <1>1, <1>2, <1>3, Zenon DEF BitmapInv, SerialsDistinct, CopiesPaired
  <2>2. \A u \in Painters : InCall(u)' = InCall(u) /\ unlocking'[u].bitmap = unlocking[u].bitmap
    BY <1>1, <1>2 DEF InCall, Steps
  <2> QED
    BY <1>3, <2>1, <2>2, ZenonT(40) DEF BitmapInv, CopiesCurrent
<1> QED
  BY <1>4, <1>5, <1>6, <1>7, Zenon DEF BitmapInv

(* The two steps back to the platform.                                      *)
LEMMA GiveBackKeeps ==
  ASSUME BitmapInv, MaxLocks \in Nat, NEW t \in Painters,
         UnlockNative(t) \/ Release(t),
         locked_pixels' \in [Bitmaps -> Nat], retained' \in [Bitmaps -> Nat]
  PROVE  BitmapInv'
<1>1. /\ InCall(t) /\ unlocking[t].step \in {"unlock", "release"}
      /\ UNCHANGED <<pixel_locks, copies, shown, serials, finished_draws, crossed>>
  BY Zenon DEF UnlockNative, Release, At, InCall, Steps
<1>2. /\ unlocking' \in [Painters -> Unlocks \cup {NoLock}]
      /\ \A u \in Painters : u # t => unlocking'[u] = unlocking[u]
      /\ \/ /\ unlocking'[t].bitmap = unlocking[t].bitmap /\ unlocking'[t].serial = unlocking[t].serial
            /\ unlocking'[t].step = "release"
         \/ unlocking'[t] = NoLock
  <2>1. CASE UnlockNative(t)
    BY <1>1, <2>1, CallGoesOn, Zenon DEF BitmapInv, UnlockNative, Steps
  <2>2. CASE Release(t)
    BY <1>1, <2>2, Zenon DEF BitmapInv, BitmapTypes, Release
  <2> QED
    BY <2>1, <2>2, Zenon
<1>3. /\ NoLock.step = "out" /\ NoLock.serial = 0
      /\ "out" \notin Steps
  BY Zenon DEF NoLock, Steps
<1>4. BitmapTypes'
  BY <1>1, <1>2, Zenon DEF BitmapInv, BitmapTypes, BitmapTypeOK
<1>5. SerialsDistinct'
  <2>1. serials \in Nat /\ \A l \in pixel_locks : l.serial # 0
    BY DEF BitmapInv, BitmapTypes, BitmapTypeOK
  <2>2. \A u \in Painters : InCall(u) => unlocking[u].serial # 0
    BY DEF BitmapInv, BitmapTypes, InCall, Unlocks, NoLock, Steps
  <2> QED
    BY <1>1, <1>2, <1>3, <2>1, <2>2 DEF BitmapInv, SerialsDistinct, InCall
<1>6. \A u \in Painters :
        /\ unlocking'[u].step \in {"write_back", "free"} <=> unlocking[u].step \in {"write_back", "free"}
        /\ unlocking'[u].step \in {"write_back", "free"} => unlocking'[u] = unlocking[u]
        /\ InCall(u)' => InCall(u) /\ unlocking'[u].bitmap = unlocking[u].bitmap
  BY <1>1, <1>2, <1>3, Zenon DEF InCall
<1>7. CopiesPaired'
  BY <1>1, <1>6 DEF BitmapInv, CopiesPaired
<1>8. CopiesCurrent'
  BY <1>1, <1>6, Zenon DEF BitmapInv, CopiesCurrent
<1>9. DrawingsKept'
  BY <1>1, Zenon DEF BitmapInv, DrawingsKept
<1> QED
  BY <1>4, <1>5, <1>7, <1>8, <1>9, Zenon DEF BitmapInv
-----------------------------------------------------------------------------
(* The counting.  Held and Busy are the sets Entries and Working count.     *)
Held(b) == {l \in pixel_locks : l.bitmap = b}
Busy(b, steps) == {t \in Painters : unlocking[t].bitmap = b /\ unlocking[t].step \in steps}
Locking == {"write_back", "free", "unlock"}

(* A bitmap has no entry or one.                                            *)
LEMMA HeldCount ==
  ASSUME BitmapInv, NEW b \in Bitmaps
  PROVE  /\ Entries(b) \in Nat
         /\ (\A l \in pixel_locks : l.bitmap # b) => Entries(b) = 0
         /\ \A l \in pixel_locks : l.bitmap = b => Entries(b) = 1
<1>0. Entries(b) = Cardinality(Held(b))
  BY Zenon DEF Entries, Held
<1>1. CASE \A l \in pixel_locks : l.bitmap # b
  <2>1. Held(b) = {}
    BY <1>1, Zenon DEF Held
  <2> QED
    BY <1>0, <1>1, <2>1, FS_EmptySet
<1>2. CASE \E l \in pixel_locks : l.bitmap = b
  <2>1. PICK l \in pixel_locks : l.bitmap = b
    BY <1>2, Zenon
  <2>2. Held(b) = {l}
    BY <2>1, Zenon DEF BitmapInv, SerialsDistinct, Held
  <2>3. Cardinality(Held(b)) = 1
    BY <2>2, FS_Singleton, Zenon
  <2> QED
    BY <1>0, <2>1, <2>3
<1> QED
  BY <1>1, <1>2, Zenon

(* One thread enters, or leaves, the steps of a set.                        *)
LEMMA BusyCount ==
  ASSUME IsFiniteSet(Painters), NEW b \in Bitmaps, NEW steps, NEW t \in Painters,
         \A u \in Painters : u # t => unlocking'[u] = unlocking[u]
  PROVE  /\ Working(b, steps) \in Nat /\ Working(b, steps)' \in Nat
         /\ (t \in Busy(b, steps) <=> t \in Busy(b, steps)')
              => Working(b, steps)' = Working(b, steps)
         /\ t \notin Busy(b, steps) /\ t \in Busy(b, steps)'
              => Working(b, steps)' = Working(b, steps) + 1
         /\ t \in Busy(b, steps) /\ t \notin Busy(b, steps)'
              => /\ Working(b, steps)' = Working(b, steps) - 1
                 /\ Working(b, steps) > 0
<1> DEFINE S == Busy(b, steps)
           T == Busy(b, steps)'
<1>1. Working(b, steps) = Cardinality(Busy(b, steps))
  BY Zenon DEF Working, Busy
<1>0. Working(b, steps)' = Cardinality(T)
  BY Zenon DEF Working, Busy
<1>2. IsFiniteSet(S) /\ IsFiniteSet(T)
  <2>1. S \subseteq Painters /\ T \subseteq Painters
    BY Zenon DEF Busy
  <2> QED
    BY <2>1, FS_Subset, Zenon
<1>3. \A u : u # t => (u \in S <=> u \in T)
  BY Zenon DEF Busy
<1> HIDE DEF S, T
<1>4. Cardinality(S) \in Nat /\ Cardinality(T) \in Nat
  BY <1>2, FS_CardinalityType, Zenon
<1>5. (t \in S <=> t \in T) => T = S
  BY <1>3
<1>6. t \notin S /\ t \in T => T = S \cup {t}
  BY <1>3, Zenon
<1>7. t \in S /\ t \notin T => S = T \cup {t}
  BY <1>3, Zenon
<1>8. t \notin S => Cardinality(S \cup {t}) = Cardinality(S) + 1
  BY <1>2, FS_AddElement, Zenon
<1>9. t \notin T => Cardinality(T \cup {t}) = Cardinality(T) + 1
  BY <1>2, FS_AddElement, Zenon
<1>10. t \in S /\ t \notin T => Cardinality(T) = Cardinality(S) - 1 /\ Cardinality(S) > 0
  <2>1. t \in S /\ t \notin T => Cardinality(S) = Cardinality(T) + 1
    BY <1>7, <1>9, Zenon
  <2> QED
    BY <1>4, <2>1
<1>11. t \notin S /\ t \in T => Cardinality(T) = Cardinality(S) + 1
  BY <1>6, <1>8, Zenon
<1> QED
  BY <1>0, <1>1, <1>4, <1>5, <1>10, <1>11, Zenon DEF S, T

LEMMA LockPaired ==
  ASSUME BitmapInv, LocksPaired, IsFiniteSet(Painters), NEW t \in Painters, NEW b \in Bitmaps,
         lockPixels(t, b)
  PROVE  LocksPaired'
<1>1. UNCHANGED unlocking /\ \A l \in pixel_locks : l.bitmap # b
  BY Zenon DEF lockPixels, Locked
<1>2. \A c, steps : Working(c, steps)' = Working(c, steps)
  BY <1>1, Zenon DEF Working
<1>3. CASE UNCHANGED <<pixel_locks, locked_pixels, retained>>
  <2>1. \A c : Entries(c)' = Entries(c)
    BY <1>3, Zenon DEF Entries
  <2> QED
    BY <1>2, <1>3, <2>1, Zenon DEF LocksPaired
<1>4. CASE ~UNCHANGED <<pixel_locks, locked_pixels, retained>>
  <2> DEFINE new == [bitmap |-> b, owner |-> t, serial |-> serials']
  <2>1. /\ pixel_locks' = pixel_locks \cup {new}
        /\ locked_pixels' = [locked_pixels EXCEPT ![b] = @ + 1]
        /\ retained' = [retained EXCEPT ![b] = @ + 1]
    BY <1>4, LockFailureUndone, Zenon DEF lockPixels
  <2>2. new.bitmap = b
    OBVIOUS
  <2>3. Entries(b) = 0
    BY <1>1, HeldCount, Zenon
  <2>4. Entries(b)' = 1
    <3>1. Held(b)' = {new}
      BY <1>1, <2>1, <2>2, Zenon DEF Held
    <3>2. Cardinality(Held(b)') = 1
      BY <3>1, FS_Singleton, Zenon
    <3>3. Entries(b)' = Cardinality(Held(b)')
      BY Zenon DEF Held, Entries
    <3> QED
      BY <3>2, <3>3, Zenon
  <2>5. ASSUME NEW c \in Bitmaps, c # b PROVE Entries(c)' = Entries(c)
    <3>1. Held(c)' = Held(c)
      BY <2>1, <2>2, <2>5, Zenon DEF Held
    <3> QED
      BY <3>1, Zenon DEF Held, Entries
  <2>6. locked_pixels \in [Bitmaps -> Nat] /\ retained \in [Bitmaps -> Nat]
    BY Zenon DEF BitmapInv, BitmapTypes, BitmapTypeOK
  <2>7. ASSUME NEW c \in Bitmaps
        PROVE /\ locked_pixels'[c] = Entries(c)' + Working(c, Locking)'
              /\ retained'[c] = Entries(c)' + Working(c, Steps)'
    <3>1. /\ locked_pixels[c] = Entries(c) + Working(c, Locking)
          /\ retained[c] = Entries(c) + Working(c, Steps)
      BY Zenon DEF LocksPaired, Locking, Steps
    <3>2. CASE c = b
      <4>1. locked_pixels'[b] = locked_pixels[b] + 1 /\ retained'[b] = retained[b] + 1
        BY <2>1, <2>6, Zenon
      <4>2. Working(b, Locking) \in Nat /\ Working(b, Steps) \in Nat
        BY <1>1, BusyCount, Zenon
      <4> QED
        BY <1>2, <2>3, <2>4, <3>1, <3>2, <4>1, <4>2
    <3>3. CASE c # b
      BY <1>2, <2>1, <2>5, <2>6, <3>1, <3>3, Zenon
    <3> QED
      BY <3>2, <3>3, Zenon
  <2> QED
    BY <2>7, Zenon DEF LocksPaired, Locking, Steps
<1> QED
  BY <1>3, <1>4, Zenon

LEMMA UnlockPaired ==
  ASSUME BitmapInv, LocksPaired, IsFiniteSet(Painters), NEW t \in Painters, NEW b \in Bitmaps,
         unlockPixels(t, b)
  PROVE  LocksPaired'
<1>1. PICK l \in pixel_locks :
        /\ l.bitmap = b
        /\ pixel_locks' = pixel_locks \ {l}
        /\ unlocking' = [unlocking EXCEPT ![t] = [bitmap |-> b, owner |-> t, serial |-> l.serial,
                                                 step |-> "write_back"]]
        /\ unlocking[t] = NoLock
        /\ UNCHANGED <<locked_pixels, retained>>
  BY Zenon DEF unlockPixels, Outside
<1>2. /\ \A u \in Painters : u # t => unlocking'[u] = unlocking[u]
      /\ unlocking'[t].bitmap = b /\ unlocking'[t].step = "write_back" /\ unlocking[t].step = "out"
  BY <1>1 DEF BitmapInv, BitmapTypes, NoLock
<1>3. Entries(b) = 1
  BY <1>1, HeldCount, Zenon
<1>4. Entries(b)' = 0
  <2>1. Held(b)' = {}
    BY <1>1, Zenon DEF Held, BitmapInv, SerialsDistinct
  <2>2. Entries(b)' = Cardinality(Held(b)')
    BY Zenon DEF Held, Entries
  <2> QED
    BY <2>1, <2>2, FS_EmptySet, Zenon
<1>5. ASSUME NEW c \in Bitmaps, c # b PROVE Entries(c)' = Entries(c)
  <2>1. Held(c)' = Held(c)
    BY <1>1, <1>5, Zenon DEF Held
  <2> QED
    BY <2>1, Zenon DEF Held, Entries
<1>6. ASSUME NEW steps \in {Locking, Steps}, NEW c \in Bitmaps
      PROVE  /\ Working(c, steps) \in Nat
             /\ Working(c, steps)' = Working(c, steps) + (IF c = b THEN 1 ELSE 0)
  <2>1. "write_back" \in steps /\ "out" \notin steps
    BY Zenon DEF Locking, Steps
  <2>2. t \notin Busy(c, steps)
    BY <1>2, <2>1, Zenon DEF Busy
  <2>3. t \in Busy(c, steps)' <=> c = b
    BY <1>2, <2>1, Zenon DEF Busy
  <2>4. /\ Working(c, steps) \in Nat
        /\ c = b => Working(c, steps)' = Working(c, steps) + 1
        /\ c # b => Working(c, steps)' = Working(c, steps)
    BY <1>2, <2>2, <2>3, BusyCount, Zenon
  <2> QED
    BY <2>4
<1>7. ASSUME NEW c \in Bitmaps
      PROVE  /\ locked_pixels[c] = Entries(c)' + Working(c, Locking)'
             /\ retained[c] = Entries(c)' + Working(c, Steps)'
  <2>1. /\ locked_pixels[c] = Entries(c) + Working(c, Locking)
        /\ retained[c] = Entries(c) + Working(c, Steps)
    BY Zenon DEF LocksPaired, Locking, Steps
  <2> QED
    BY <1>3, <1>4, <1>5, <1>6, <2>1
<1> QED
  BY <1>1, <1>7, Zenon DEF LocksPaired, Locking, Steps

(* A step that gives nothing back moves between steps that both count.      *)
LEMMA MovesPaired ==
  ASSUME BitmapInv, LocksPaired, IsFiniteSet(Painters), NEW t \in Painters,
         WriteBack(t) \/ FreeCopy(t)
  PROVE  LocksPaired'
<1>1. PICK step \in {"free", "unlock"} : Goes(t, step)
  BY Zenon DEF WriteBack, FreeCopy
<1>2. /\ unlocking[t].step \in {"write_back", "free"} /\ InCall(t)
      /\ UNCHANGED <<pixel_locks, locked_pixels, retained>>
  BY Zenon DEF WriteBack, FreeCopy, At, InCall, Steps
<1>3. /\ \A u \in Painters : u # t => unlocking'[u] = unlocking[u]
      /\ unlocking'[t].bitmap = unlocking[t].bitmap /\ unlocking'[t].step = step
  BY <1>1, <1>2, CallGoesOn, Zenon DEF BitmapInv, Steps
<1>4. ASSUME NEW steps \in {Locking, Steps}, NEW c \in Bitmaps
      PROVE  Working(c, steps)' = Working(c, steps)
  <2>1. t \in Busy(c, steps) <=> t \in Busy(c, steps)'
    BY <1>2, <1>3, Zenon DEF Busy, Locking, Steps
  <2> QED
    BY <1>3, <2>1, BusyCount, Zenon
<1>5. \A c : Entries(c)' = Entries(c)
  BY <1>2, Zenon DEF Entries
<1> QED
  BY <1>2, <1>4, <1>5, Zenon DEF LocksPaired, Locking, Steps

LEMMA GiveBackPaired ==
  ASSUME BitmapInv, LocksPaired, IsFiniteSet(Painters), NEW t \in Painters,
         UnlockNative(t) \/ Release(t)
  PROVE  /\ LocksPaired'
         /\ locked_pixels' \in [Bitmaps -> Nat] /\ retained' \in [Bitmaps -> Nat]
<1> DEFINE b == unlocking[t].bitmap
<1>1. InCall(t) /\ unlocking[t].step \in {"unlock", "release"} /\ UNCHANGED pixel_locks
  BY Zenon DEF UnlockNative, Release, At, InCall, Steps
<1>2. b \in Bitmaps
  BY <1>1 DEF BitmapInv, BitmapTypes, Unlocks, InCall, Steps, NoLock
<1>3. \A c : Entries(c)' = Entries(c)
  BY <1>1, Zenon DEF Entries
<1>4. \A c \in Bitmaps : Entries(c) \in Nat
  BY HeldCount, Zenon
<1>5. locked_pixels \in [Bitmaps -> Nat] /\ retained \in [Bitmaps -> Nat]
  BY Zenon DEF BitmapInv, BitmapTypes, BitmapTypeOK
<1>6. \A c \in Bitmaps :
        /\ locked_pixels[c] = Entries(c) + Working(c, Locking)
        /\ retained[c] = Entries(c) + Working(c, Steps)
  BY Zenon DEF LocksPaired, Locking, Steps
<1>7. CASE UnlockNative(t)
  <2>1. /\ \A u \in Painters : u # t => unlocking'[u] = unlocking[u]
        /\ unlocking'[t].bitmap = b /\ unlocking'[t].step = "release" /\ unlocking[t].step = "unlock"
        /\ locked_pixels' = [locked_pixels EXCEPT ![b] = @ - 1] /\ retained' = retained
    BY <1>1, <1>7, CallGoesOn, Zenon DEF BitmapInv, Steps, UnlockNative, At
  <2>2. ASSUME NEW c \in Bitmaps
        PROVE  /\ Working(c, Locking) \in Nat
               /\ Working(c, Locking)' = IF c = b THEN Working(c, Locking) - 1 ELSE Working(c, Locking)
               /\ c = b => Working(c, Locking) > 0
               /\ Working(c, Steps)' = Working(c, Steps)
    <3>1. (t \in Busy(c, Locking) <=> c = b) /\ t \notin Busy(c, Locking)'
      BY <2>1, Zenon DEF Busy, Locking
    <3>2. t \in Busy(c, Steps) <=> t \in Busy(c, Steps)'
      BY <2>1, Zenon DEF Busy, Steps
    <3>3. /\ Working(c, Locking) \in Nat
          /\ c = b => /\ Working(c, Locking)' = Working(c, Locking) - 1
                      /\ Working(c, Locking) > 0
          /\ c # b => Working(c, Locking)' = Working(c, Locking)
      BY <2>1, <3>1, BusyCount, Zenon
    <3>4. Working(c, Steps)' = Working(c, Steps)
      BY <2>1, <3>2, BusyCount, Zenon
    <3> QED
      BY <3>3, <3>4, Zenon
  <2>3. ASSUME NEW c \in Bitmaps
        PROVE  /\ locked_pixels'[c] \in Nat
               /\ locked_pixels'[c] = Entries(c)' + Working(c, Locking)'
               /\ retained'[c] = Entries(c)' + Working(c, Steps)'
    <3>1. locked_pixels'[c] = IF c = b THEN locked_pixels[c] - 1 ELSE locked_pixels[c]
      BY <2>1, <1>5, Zenon
    <3> QED
      BY <1>3, <1>4, <1>6, <2>1, <2>2, <3>1
  <2> QED
    BY <1>5, <2>1, <2>3, Zenon DEF LocksPaired, Locking, Steps
<1>8. CASE Release(t)
  <2>1. /\ \A u \in Painters : u # t => unlocking'[u] = unlocking[u]
        /\ unlocking'[t].step = "out" /\ unlocking[t].step = "release"
        /\ retained' = [retained EXCEPT ![b] = @ - 1] /\ locked_pixels' = locked_pixels
    BY <1>8, Zenon DEF BitmapInv, BitmapTypes, Release, At, NoLock
  <2>2. ASSUME NEW c \in Bitmaps
        PROVE  /\ Working(c, Steps) \in Nat
               /\ Working(c, Steps)' = IF c = b THEN Working(c, Steps) - 1 ELSE Working(c, Steps)
               /\ c = b => Working(c, Steps) > 0
               /\ Working(c, Locking)' = Working(c, Locking)
    <3>1. (t \in Busy(c, Steps) <=> c = b) /\ t \notin Busy(c, Steps)'
      BY <2>1, Zenon DEF Busy, Steps
    <3>2. t \notin Busy(c, Locking) /\ t \notin Busy(c, Locking)'
      BY <2>1, Zenon DEF Busy, Locking
    <3>3. /\ Working(c, Steps) \in Nat
          /\ c = b => /\ Working(c, Steps)' = Working(c, Steps) - 1
                      /\ Working(c, Steps) > 0
          /\ c # b => Working(c, Steps)' = Working(c, Steps)
      BY <2>1, <3>1, BusyCount, Zenon
    <3>4. Working(c, Locking)' = Working(c, Locking)
      BY <2>1, <3>2, BusyCount, Zenon
    <3> QED
      BY <3>3, <3>4, Zenon
  <2>3. ASSUME NEW c \in Bitmaps
        PROVE  /\ retained'[c] \in Nat
               /\ locked_pixels'[c] = Entries(c)' + Working(c, Locking)'
               /\ retained'[c] = Entries(c)' + Working(c, Steps)'
    <3>1. retained'[c] = IF c = b THEN retained[c] - 1 ELSE retained[c]
      BY <2>1, <1>5, Zenon
    <3> QED
      BY <1>3, <1>4, <1>6, <2>1, <2>2, <3>1
  <2> QED
    BY <1>5, <2>1, <2>3, Zenon DEF LocksPaired, Locking, Steps
<1> QED
  BY <1>7, <1>8, Zenon

LEMMA BitmapBegins ==
  ASSUME MaxLocks \in Nat, BitmapInit PROVE BitmapInv /\ LocksPaired
<1> USE DEF BitmapInit
<1>1. \A t \in Painters : unlocking[t].step = "out" /\ unlocking[t].serial = 0
  BY Zenon DEF NoLock
<1>2. BitmapTypes
  BY DEF BitmapTypes, BitmapTypeOK
<1>3. SerialsDistinct /\ CopiesCurrent /\ DrawingsKept
  BY <1>1 DEF SerialsDistinct, CopiesCurrent, DrawingsKept, InCall, Steps
<1>4. CopiesPaired
  BY <1>1, Zenon DEF CopiesPaired
<1>5. \A b \in Bitmaps : Held(b) = {} /\ Busy(b, Locking) = {} /\ Busy(b, Steps) = {}
  BY <1>1, Zenon DEF Held, Busy, Locking, Steps
<1>6. \A b \in Bitmaps : /\ Entries(b) = 0
                         /\ Working(b, Locking) = 0 /\ Working(b, Steps) = 0
  <2>1. \A b \in Bitmaps : /\ Entries(b) = Cardinality(Held(b))
                           /\ Working(b, Locking) = Cardinality(Busy(b, Locking))
                           /\ Working(b, Steps) = Cardinality(Busy(b, Steps))
    BY Zenon DEF Entries, Working, Held, Busy
  <2> QED
    BY <1>5, <2>1, FS_EmptySet, Zenon
<1>7. LocksPaired
  BY <1>6 DEF LocksPaired, Locking, Steps
<1> QED
  BY <1>2, <1>3, <1>4, <1>7, Zenon DEF BitmapInv

LEMMA BitmapStep ==
  ASSUME MaxLocks \in Nat, IsFiniteSet(Painters), BitmapInv, LocksPaired,
         [BitmapNext]_(bitmapVars)
  PROVE  BitmapInv' /\ LocksPaired'
<1>1. CASE \E t \in Painters, b \in Bitmaps : lockPixels(t, b)
  BY <1>1, LockKeeps, LockPaired, Zenon
<1>2. CASE \E t \in Painters, b \in Bitmaps : unlockPixels(t, b)
  BY <1>2, UnlockKeeps, UnlockPaired, Zenon
<1>3. CASE \E t \in Painters : Draw(t)
  <2>1. UNCHANGED <<pixel_locks, locked_pixels, retained, unlocking>>
    BY <1>3, Zenon DEF Draw
  <2>2. LocksPaired'
    BY <2>1, Zenon DEF LocksPaired, Entries, Working
  <2> QED
    BY <1>3, <2>2, DrawKeeps, Zenon
<1>4. CASE \E t \in Painters : WriteBack(t)
  BY <1>4, WriteBackKeeps, MovesPaired
<1>5. CASE \E t \in Painters : FreeCopy(t)
  BY <1>5, FreeKeeps, MovesPaired
<1>6. CASE \E t \in Painters : UnlockNative(t) \/ Release(t)
  BY <1>6, GiveBackKeeps, GiveBackPaired, Zenon
<1>7. CASE UNCHANGED bitmapVars
  <2>1. BitmapTypes' /\ SerialsDistinct' /\ CopiesPaired' /\ DrawingsKept'
    BY <1>7 DEF bitmapVars, BitmapInv, BitmapTypes, BitmapTypeOK, SerialsDistinct, InCall,
       DrawingsKept, CopiesPaired
  <2>2. CopiesCurrent' /\ LocksPaired'
    BY <1>7, Zenon DEF bitmapVars, BitmapInv, CopiesCurrent, InCall, LocksPaired, Entries,
       Working
  <2> QED
    BY <2>1, <2>2, Zenon DEF BitmapInv
<1> QED
  BY <1>1, <1>2, <1>3, <1>4, <1>5, <1>6, <1>7, Zenon DEF BitmapNext

(***************************************************************************)
(* For any threads, bitmaps and number of locks: the platform's locks and  *)
(* references of a bitmap are those of the entries and of the unlockPixels *)
(* under way, every copy belongs to one of them, and a drawing that was    *)
(* unlocked stays on a bitmap unless a lockPixels overtook an unlockPixels *)
(* of it (HostBitmap::lockPixels, HostBitmap::unlockPixels).               *)
(***************************************************************************)
THEOREM BitmapLocksPaired == BitmapSpec => []BitmapsSafe
<1> USE BitmapAssumption
<1>1. BitmapInit => BitmapInv /\ LocksPaired
  BY BitmapBegins
<1>2. BitmapInv /\ LocksPaired /\ [BitmapNext]_(bitmapVars) => (BitmapInv /\ LocksPaired)'
  BY BitmapStep
<1>3. BitmapInv /\ LocksPaired => BitmapsSafe
  BY DEF BitmapInv, BitmapTypes, BitmapsSafe
<1> QED
  BY <1>1, <1>2, <1>3, PTL DEF BitmapSpec

-----------------------------------------------------------------------------
(***************************************************************************)
(* The input queue (HostInput): a worker without a lock and guest calls    *)
(* under mutex_ pass on every event, for any numbers of events, threads    *)
(* and loopers.                                                            *)
(***************************************************************************)
WorkerTypes ==
    /\ attached \in BOOLEAN /\ signalled \in BOOLEAN /\ queue_ready \in BOOLEAN
    /\ prepared \in BOOLEAN /\ woken_worker \in BOOLEAN
    /\ worker \in {"none", "start", "top", "poll", "on_ready", "write", "polled", "detach"}
    /\ rearming \in {"no", "drain", "store", "wake"}

\* While ready is clear the worker in its poll is on the queue or will be woken; while ready
\* is set the descriptor is readable, or the worker is about to make it so, or a rearm is
\* about to clear ready.
WorkerInv ==
    /\ WorkerTypes
    /\ worker \notin {"none", "start"} => prepared
    /\ worker = "poll" /\ ~queue_ready => attached \/ woken_worker \/ rearming = "wake"
    /\ queue_ready => signalled \/ worker = "write" \/ rearming = "store"

\* Handles and events are given out in one order, so a handle never overtakes the events.
TableInv ==
    /\ arrived \in 0..MaxEvents /\ queued_events \subseteq 1..arrived /\ taken \subseteq 1..arrived
    /\ handles_used \in 0..arrived /\ \A e \in queued_events : handles_used < e
    /\ DOMAIN event_state_ \subseteq 1..handles_used
    /\ \A h \in DOMAIN event_state_ :
          event_state_[h] \in [native : 1..MaxEvents, owner : Readers] /\ event_state_[h].native \in taken
    /\ \A e \in taken : \E h \in DOMAIN event_state_ : event_state_[h].native = e
    /\ \A g, h \in DOMAIN event_state_ : event_state_[g].native = event_state_[h].native => g = h
    /\ queued_events \cap taken = {}

LooperInv == queue_looper \in Loopers \cup {"none"} /\ registered \subseteq {queue_looper} \ {"none"}

Queries == [getter : Getters, type : {"key", "motion"}, args : [1..3 -> 0..MaxIndex],
            pointers : 1..MaxIndex, history : 0..MaxIndex, answer : {<<"asked">>}]

\* A query has not been answered, or has been answered rightly.
QueryInv ==
    \/ input_topic = "queue" \/ query \in Queries
    \/ query.answer # <<"asked">> /\ IndicesInRange

InputInv == WorkerInv /\ TableInv /\ LooperInv /\ QueryInv

\* A set of numbers that is not empty has a first member.
LEMMA LeastExists ==
    ASSUME NEW S \in SUBSET Nat, S # {}
    PROVE  \E m \in S : \A k \in S : m <= k
<1>. DEFINE R == OpToRel(<, Nat)
<1>1. \A k, m \in Nat : k < m => <<k, m>> \in R
  BY Zenon DEF OpToRel
<1>2. IsWellFoundedOn(R, Nat)
  BY NatLessThanWellFounded, Zenon
<1>. HIDE DEF R
<1>3. PICK m \in S : \A k \in S : ~(<<k, m>> \in R)
  BY <1>2, WFMin, Zenon
<1>4. ASSUME NEW k \in S PROVE m <= k
  <2>1. ~(k < m)
    BY <1>1, <1>3, Zenon
  <2>. QED  BY <2>1
<1>. QED  BY <1>4, Zenon

\* The parts that a step leaves alone.
LEMMA WorkerKept ==
    ASSUME WorkerInv, UNCHANGED queueState, attached' = attached, rearming' = rearming
    PROVE  WorkerInv'
BY Zenon DEF WorkerInv, WorkerTypes, queueState

LEMMA TableKept ==
    ASSUME TableInv, arrived' = arrived, queued_events' = queued_events, taken' = taken,
           event_state_' = event_state_, handles_used' = handles_used
    PROVE  TableInv'
BY Zenon DEF TableInv

LEMMA LooperKept ==
    ASSUME LooperInv, queue_looper' = queue_looper, registered' = registered
    PROVE  LooperInv'
BY Zenon DEF LooperInv

LEMMA QueryKept ==
    ASSUME QueryInv, input_topic' = input_topic, query' = query
    PROVE  QueryInv'
BY Zenon DEF QueryInv, IndicesInRange

LEMMA InputBegins == ASSUME InputBounds, InputInit PROVE InputInv
<1>. USE DEF InputInit, QueueInit
<1>1. WorkerInv
  BY DEF WorkerInv, WorkerTypes
<1>2. TableInv
  BY DEF TableInv, InputBounds
<1>3. LooperInv
  BY DEF LooperInv, None
<1>4. QueryInv
  BY Zenon DEF QueryInv, Queries, QueryInit
<1>. QED  BY <1>1, <1>2, <1>3, <1>4, Zenon DEF InputInv

\* The worker's steps: only its own part of the state changes.
WorkerSteps ==
    \/ fromJava \/ WorkerStart \/ WorkerAttach \/ WorkerPoll \/ OnReady
    \/ OnReadyWrite \/ WorkerPolled \/ WorkerDetach \/ Rearm

LEMMA WorkerStepInv == ASSUME InputInv, WorkerSteps PROVE InputInv'
<1>0. /\ arrived' = arrived /\ queued_events' = queued_events /\ taken' = taken
      /\ UNCHANGED eventTable /\ input_topic' = input_topic /\ query' = query
  BY Zenon DEF WorkerSteps, fromJava, WorkerStart, WorkerAttach, WorkerPoll, OnReady,
       OnReadyWrite, WorkerPolled, WorkerDetach, Rearm, platform
<1>1. TableInv' /\ LooperInv' /\ QueryInv'
  BY <1>0, TableKept, LooperKept, QueryKept, Zenon DEF InputInv, eventTable
<1>2. WorkerInv'
  <2>. USE DEF Works, WorkerGoes, WorkerInv, WorkerTypes, platform
  <2>0. WorkerInv
    BY Zenon DEF InputInv
  <2>1. CASE fromJava
    BY <2>0, <2>1, Zenon DEF fromJava
  <2>2. CASE WorkerStart
    BY <2>0, <2>2, Zenon DEF WorkerStart
  <2>3. CASE WorkerAttach
    BY <2>0, <2>3 DEF WorkerAttach
  <2>4. CASE WorkerPoll
    BY <2>0, <2>4 DEF WorkerPoll
  <2>5. CASE OnReady
    BY <2>0, <2>5 DEF OnReady
  <2>6. CASE OnReadyWrite
    BY <2>0, <2>6, Zenon DEF OnReadyWrite
  <2>7. CASE WorkerPolled
    BY <2>0, <2>7, Zenon DEF WorkerPolled
  <2>8. CASE WorkerDetach
    BY <2>0, <2>8 DEF WorkerDetach
  <2>9. CASE Rearm
    <3>0. prepared' = prepared /\ worker' = worker /\ attached' = attached
      BY <2>9 DEF Rearm
    <3>1. CASE /\ rearming = "drain" /\ signalled' = FALSE /\ rearming' = "store"
               /\ queue_ready' = queue_ready /\ woken_worker' = woken_worker
      BY <2>0, <3>0, <3>1
    <3>2. CASE /\ rearming = "store" /\ queue_ready' = FALSE /\ rearming' = "wake"
               /\ signalled' = signalled /\ woken_worker' = woken_worker
      BY <2>0, <3>0, <3>2
    <3>3. CASE /\ rearming = "wake" /\ woken_worker' = (woken_worker \/ prepared) /\ rearming' = "no"
               /\ signalled' = signalled /\ queue_ready' = queue_ready
      BY <2>0, <3>0, <3>3
    <3>. QED  BY <2>9, <3>1, <3>2, <3>3, Zenon DEF Rearm, RearmSteps, Wake
  <2>. HIDE DEF Works, WorkerGoes, WorkerInv, WorkerTypes, platform
  <2>. QED  BY <2>1, <2>2, <2>3, <2>4, <2>5, <2>6, <2>7, <2>8, <2>9, Zenon DEF WorkerSteps
<1>. QED  BY <1>1, <1>2, Zenon DEF InputInv

\* A guest call begins a rearm only when none is under way.
LEMMA RearmAfterInv ==
    ASSUME WorkerInv, UNCHANGED queueState, attached' = attached, rearming = "no", NEW left, RearmAfter(left)
    PROVE  WorkerInv'
<1>1. rearming' \in {"no", "drain"}
  BY Zenon DEF RearmAfter
<1>2. /\ signalled' = signalled /\ queue_ready' = queue_ready /\ prepared' = prepared
      /\ woken_worker' = woken_worker /\ worker' = worker
  BY Zenon DEF queueState
<1>. QED  BY <1>1, <1>2, Zenon DEF WorkerInv, WorkerTypes

LEMMA ArriveInv == ASSUME InputBounds, InputInv, Arrive PROVE InputInv'
<1>0. /\ arrived < MaxEvents /\ arrived' = arrived + 1 /\ queued_events' = queued_events \cup {arrived + 1}
      /\ taken' = taken /\ attached' = attached /\ UNCHANGED queueState /\ rearming' = rearming
      /\ UNCHANGED eventTable /\ input_topic' = input_topic /\ query' = query
  BY Zenon DEF Arrive
<1>1. WorkerInv' /\ LooperInv' /\ QueryInv'
  BY <1>0, WorkerKept, LooperKept, QueryKept, Zenon DEF InputInv, eventTable
<1>2. TableInv'
  <2>1. event_state_' = event_state_ /\ handles_used' = handles_used
    BY <1>0, Zenon DEF eventTable
  <2>2. /\ arrived' \in 0..MaxEvents /\ queued_events' \subseteq 1..arrived' /\ taken' \subseteq 1..arrived'
        /\ handles_used' \in 0..arrived' /\ \A e \in queued_events' : handles_used' < e
        /\ queued_events' \cap taken' = {}
    BY <1>0, <2>1 DEF InputInv, TableInv, InputBounds
  <2>. QED  BY <1>0, <2>1, <2>2, Zenon DEF InputInv, TableInv
<1>. QED  BY <1>1, <1>2, Zenon DEF InputInv

LEMMA LooperStepInv ==
    ASSUME InputBounds, InputInv, (\E l \in Loopers : attachLooper(l) \/ LooperDrops(l)) \/ detachLooper
    PROVE  InputInv'
<1>0. /\ UNCHANGED platform /\ UNCHANGED queueState /\ rearming' = rearming
      /\ event_state_' = event_state_ /\ handles_used' = handles_used /\ input_topic' = input_topic /\ query' = query
  BY Zenon DEF attachLooper, LooperDrops, detachLooper
<1>1. WorkerInv' /\ TableInv' /\ QueryInv'
  BY <1>0, WorkerKept, TableKept, QueryKept, Zenon DEF InputInv, platform
<1>2. LooperInv'
  <2>1. ASSUME NEW l \in Loopers, attachLooper(l) PROVE LooperInv'
    <3>1. CASE UNCHANGED <<registered, queue_looper>>
      BY <3>1, Zenon DEF InputInv, LooperInv
    <3>2. CASE Attached(l) /\ queue_looper' = l
      BY <3>2, Zenon DEF InputInv, LooperInv, Attached, InputBounds
    <3>3. CASE registered' = registered \ {l} /\ queue_looper' = queue_looper
      BY <3>3, Zenon DEF InputInv, LooperInv
    <3>. QED  BY <2>1, <3>1, <3>2, <3>3, Zenon DEF attachLooper
  <2>2. CASE detachLooper
    BY <2>2, Zenon DEF InputInv, LooperInv, detachLooper, None
  <2>3. ASSUME NEW l \in Loopers, LooperDrops(l) PROVE LooperInv'
    BY <2>3, Zenon DEF InputInv, LooperInv, LooperDrops
  <2>. QED  BY <2>1, <2>2, <2>3, Zenon
<1>. QED  BY <1>1, <1>2, Zenon DEF InputInv

\* getEvent takes the first event of the queue, and drops it when the table is full.
LEMMA GetEventInv ==
    ASSUME InputBounds, InputInv, NEW t \in Readers, getEvent(t)
    PROVE  InputInv'
<1>. DEFINE e == CHOOSE e \in queued_events : \A f \in queued_events : e <= f
            h1 == handles_used + 1
<1>0. /\ arrived' = arrived /\ attached' = attached /\ UNCHANGED queueState /\ rearming = "no"
      /\ RearmAfter(queued_events') /\ queue_looper' = queue_looper /\ registered' = registered
      /\ input_topic' = input_topic /\ query' = query
  BY Zenon DEF getEvent, Call
<1>1. WorkerInv' /\ LooperInv' /\ QueryInv'
  BY <1>0, RearmAfterInv, LooperKept, QueryKept, Zenon DEF InputInv
<1>2. CASE UNCHANGED <<queued_events, taken, event_state_, handles_used>>
  <2>1. TableInv'
    BY <1>0, <1>2, TableKept, Zenon DEF InputInv
  <2>. QED  BY <1>1, <2>1, Zenon DEF InputInv
<1>3. ASSUME queued_events # {} PROVE e \in queued_events /\ \A f \in queued_events : e <= f
  <2>1. queued_events \in SUBSET Nat
    BY DEF InputInv, TableInv
  <2>2. \E m \in queued_events : \A f \in queued_events : m <= f
    BY <1>3, <2>1, LeastExists, Zenon
  <2>. QED  BY <2>2, Zenon
<1>. HIDE DEF e
<1>4. CASE /\ queued_events # {} /\ queued_events' = queued_events \ {e}
           /\ taken' = taken /\ event_state_' = event_state_ /\ handles_used' = handles_used
  <2>1. TableInv'
    BY <1>0, <1>4, Zenon DEF InputInv, TableInv
  <2>. QED  BY <1>1, <2>1, Zenon DEF InputInv
<1>5. CASE /\ queued_events # {} /\ queued_events' = queued_events \ {e}
           /\ taken' = taken \cup {e} /\ handles_used' = h1
           /\ event_state_' = [h \in DOMAIN event_state_ \cup {h1} |->
                IF h = h1 THEN [native |-> e, owner |-> t] ELSE event_state_[h]]
  <2>0. /\ e \in queued_events /\ e \in 1..arrived /\ e \in 1..MaxEvents /\ handles_used < e
        /\ \A f \in queued_events \ {e} : e < f
    <3>1. e \in queued_events /\ \A f \in queued_events : e <= f
      BY <1>3, <1>5, Zenon
    <3>2. queued_events \subseteq 1..arrived /\ arrived \in 0..MaxEvents /\ \A f \in queued_events : handles_used < f
      BY Zenon DEF InputInv, TableInv
    <3>3. e \in 1..arrived /\ handles_used < e /\ e \in 1..MaxEvents
      BY <3>1, <3>2 DEF InputBounds
    <3>4. \A f \in queued_events \ {e} : e < f
      BY <3>1, <3>2
    <3>. QED  BY <3>1, <3>3, <3>4, Zenon
  <2>1. /\ handles_used' \in 0..arrived' /\ \A f \in queued_events' : handles_used' < f
        /\ queued_events' \subseteq 1..arrived' /\ taken' \subseteq 1..arrived'
    <3>1. handles_used \in 0..arrived /\ queued_events \subseteq 1..arrived /\ taken \subseteq 1..arrived
      BY Zenon DEF InputInv, TableInv
    <3>2. queued_events' \subseteq 1..arrived /\ taken' \subseteq 1..arrived
      BY <1>5, <2>0, <3>1, Zenon
    <3>3. h1 \in 0..arrived /\ \A f \in queued_events \ {e} : h1 < f
      <4>1. arrived \in Nat /\ handles_used \in Nat /\ e \in Nat /\ \A f \in queued_events : f \in Nat
        BY <2>0, <3>1 DEF InputInv, TableInv
      <4>2. h1 <= e /\ h1 \in Nat /\ e <= arrived
        BY <2>0, <4>1
      <4>. HIDE DEF h1
      <4>. QED  BY <2>0, <4>1, <4>2
    <3>. QED  BY <1>0, <1>5, <3>2, <3>3, Zenon
  <2>2. h1 \notin DOMAIN event_state_ /\ DOMAIN event_state_ \cup {h1} \subseteq 1..h1
    BY DEF InputInv, TableInv
  <2>. HIDE DEF h1
  <2>3. /\ DOMAIN event_state_' = DOMAIN event_state_ \cup {h1}
        /\ event_state_'[h1] = [native |-> e, owner |-> t]
        /\ \A h \in DOMAIN event_state_ : event_state_'[h] = event_state_[h]
    BY <1>5, <2>2, Zenon
  <2>4. event_state_'[h1].native = e /\ event_state_'[h1] \in [native : 1..MaxEvents, owner : Readers]
    BY <2>0, <2>3
  <2>5. \A h \in DOMAIN event_state_' :
           event_state_'[h] \in [native : 1..MaxEvents, owner : Readers] /\ event_state_'[h].native \in taken'
    BY <1>5, <2>3, <2>4, Zenon DEF InputInv, TableInv
  <2>6. \A f \in taken' : \E h \in DOMAIN event_state_' : event_state_'[h].native = f
    <3>1. ASSUME NEW f \in taken PROVE \E h \in DOMAIN event_state_' : event_state_'[h].native = f
      <4>1. PICK h \in DOMAIN event_state_ : event_state_[h].native = f
        BY Zenon DEF InputInv, TableInv
      <4>. QED  BY <2>3, <4>1, Zenon
    <3>. QED  BY <1>5, <2>3, <2>4, <3>1, Zenon
  <2>7. e \notin taken
    BY <2>0, Zenon DEF InputInv, TableInv
  <2>8. ASSUME NEW g \in DOMAIN event_state_', NEW h \in DOMAIN event_state_',
               event_state_'[g].native = event_state_'[h].native
        PROVE  g = h
    <3>1. \A k \in DOMAIN event_state_ : event_state_'[k] = event_state_[k] /\ event_state_'[k].native # e
      <4>1. \A k \in DOMAIN event_state_ : event_state_[k].native \in taken
        BY Zenon DEF InputInv, TableInv
      <4>2. \A k \in DOMAIN event_state_ : event_state_[k].native # e
        BY <2>7, <4>1, Zenon
      <4>. QED  BY <2>3, <4>2, Zenon
    <3>2. CASE g = h1 \/ h = h1
      BY <2>3, <2>4, <2>8, <3>1, <3>2, Zenon
    <3>3. CASE g # h1 /\ h # h1
      <4>1. g \in DOMAIN event_state_ /\ h \in DOMAIN event_state_
        BY <2>3, <3>3, Zenon
      <4>. QED  BY <2>8, <3>1, <4>1, Zenon DEF InputInv, TableInv
    <3>. QED  BY <3>2, <3>3, Zenon
  <2>9. queued_events' \cap taken' = {}
    BY <1>5, Zenon DEF InputInv, TableInv
  <2>10. arrived' \in 0..MaxEvents
    BY <1>0, Zenon DEF InputInv, TableInv
  <2>11. TableInv'
    BY <1>5, <2>1, <2>2, <2>3, <2>5, <2>6, <2>8, <2>9, <2>10, Zenon DEF TableInv
  <2>. QED  BY <1>1, <2>11, Zenon DEF InputInv
<1>. QED
  <2>1. CASE queued_events = {}
    BY <1>2, <2>1, Zenon DEF getEvent
  <2>2. CASE queued_events # {}
    BY <1>4, <1>5, <2>2, Zenon DEF getEvent, NoHandle, e
  <2>. QED  BY <2>1, <2>2, Zenon

\* finishEvent gives back the event of its handle and of no other.
LEMMA FinishEventInv ==
    ASSUME InputBounds, InputInv, NEW t \in Readers, NEW k \in 1..MaxEvents, finishEvent(t, k)
    PROVE  InputInv'
<1>0. /\ arrived' = arrived /\ queued_events' = queued_events /\ attached' = attached /\ UNCHANGED queueState
      /\ rearming = "no" /\ RearmAfter(queued_events) /\ handles_used' = handles_used
      /\ queue_looper' = queue_looper /\ registered' = registered /\ input_topic' = input_topic /\ query' = query
  BY Zenon DEF finishEvent, Call
<1>1. WorkerInv' /\ LooperInv' /\ QueryInv'
  BY <1>0, RearmAfterInv, LooperKept, QueryKept, Zenon DEF InputInv
<1>2. /\ k \in DOMAIN event_state_ /\ taken' = taken \ {event_state_[k].native}
      /\ event_state_' = [g \in DOMAIN event_state_ \ {k} |-> event_state_[g]]
  BY Zenon DEF finishEvent, Mine, Forget
<1>3. /\ DOMAIN event_state_' = DOMAIN event_state_ \ {k}
      /\ \A h \in DOMAIN event_state_ \ {k} : event_state_'[h] = event_state_[h]
  BY <1>2, Zenon
<1>4. \A h \in DOMAIN event_state_' : event_state_'[h].native \in taken'
  BY <1>2, <1>3, Zenon DEF InputInv, TableInv
<1>5. \A f \in taken' : \E h \in DOMAIN event_state_' : event_state_'[h].native = f
  <2>1. ASSUME NEW f \in taken' PROVE \E h \in DOMAIN event_state_' : event_state_'[h].native = f
    <3>1. f \in taken /\ f # event_state_[k].native
      BY <1>2, Zenon
    <3>2. PICK h \in DOMAIN event_state_ : event_state_[h].native = f
      BY <3>1, Zenon DEF InputInv, TableInv
    <3>. QED  BY <1>3, <3>1, <3>2, Zenon
  <2>. QED  BY <2>1, Zenon
<1>6. \A g, h \in DOMAIN event_state_' : event_state_'[g].native = event_state_'[h].native => g = h
  BY <1>3, Zenon DEF InputInv, TableInv
<1>7. taken' \subseteq taken /\ DOMAIN event_state_' \subseteq DOMAIN event_state_
  BY <1>2, <1>3, Zenon
<1>8. TableInv'
  <2>1. taken' \subseteq 1..arrived' /\ DOMAIN event_state_' \subseteq 1..handles_used' /\ queued_events' \cap taken' = {}
    BY <1>0, <1>7, Zenon DEF InputInv, TableInv
  <2>2. \A h \in DOMAIN event_state_' : event_state_'[h] \in [native : 1..MaxEvents, owner : Readers]
    BY <1>3, Zenon DEF InputInv, TableInv
  <2>. QED  BY <1>0, <1>4, <1>5, <1>6, <2>1, <2>2, Zenon DEF InputInv, TableInv
<1>. QED  BY <1>1, <1>8, Zenon DEF InputInv

\* The arguments a getter takes are those the backend passes on.
LEMMA SignatureIs ==
    ASSUME NEW g \in Getters
    PROVE  /\ DOMAIN Signature[g] = 1..Arity(g)
           /\ Arity(g) \in 0..3
           /\ TakesPointer(g) <=> \E i \in 1..Arity(g) : Signature[g][i] = "pointer"
           /\ Historical(g) <=> \E i \in 1..Arity(g) : Signature[g][i] = "history"
           /\ \A i \in 1..Arity(g) :
                 /\ Signature[g][i] = "pointer" => i = PointerArgument(g)
                 /\ Signature[g][i] = "history" => i = HistoryArgument(g)
<1>. USE DEF Signature, Arity, TakesPointer, Historical, PointerArgument,
             HistoryArgument, Axis
<1>1. CASE g = "plain"
  BY <1>1, SMTT(20)
<1>2. CASE g = "pointer"
  BY <1>2, SMTT(20)
<1>3. CASE g = "axis"
  BY <1>3, SMTT(20)
<1>4. CASE g = "historical_time"
  BY <1>4, SMTT(20)
<1>5. CASE g = "historical"
  BY <1>5, SMTT(20)
<1>6. CASE g = "historical_axis"
  BY <1>6, SMTT(20)
<1>. QED  BY <1>1, <1>2, <1>3, <1>4, <1>5, <1>6 DEF Getters

\* What handle_host_call finds by position is what the roles of the arguments say.
LEMMA AskInv ==
    ASSUME InputBounds, InputInv, Ask
    PROVE  InputInv'
<1>. DEFINE g == query.getter
            args == query.args
            roles == Signature[g]
            n == Arity(g)
            pointer == TakesPointer(g) /\ args[PointerArgument(g)] >= query.pointers
            history == Historical(g) /\ args[HistoryArgument(g)] >= query.history
            answer == IF query.type # "motion" THEN <<"einval">>
                      ELSE IF pointer THEN <<"invalid">> ELSE IF history THEN <<"invalid">>
                      ELSE <<"forwarded", [i \in 1..n |-> args[i]]>>
            good == InRange(query)
<1>0. /\ UNCHANGED platform /\ UNCHANGED queueState /\ rearming' = rearming /\ UNCHANGED eventTable
      /\ input_topic = "query" /\ input_topic' = input_topic /\ query.answer = <<"asked">>
      /\ query' = [query EXCEPT !.answer = answer]
  BY Zenon DEF Ask
<1>1. WorkerInv' /\ TableInv' /\ LooperInv'
  BY <1>0, WorkerKept, TableKept, LooperKept, Zenon DEF InputInv, platform, eventTable
<1>2. query \in Queries
  BY <1>0, Zenon DEF InputInv, QueryInv
<1>3. /\ g \in Getters /\ args \in [1..3 -> 0..MaxIndex]
      /\ query.pointers \in 1..MaxIndex /\ query.history \in 0..MaxIndex
  BY <1>2, Zenon DEF Queries
<1>4. /\ query'.getter = g /\ query'.args = args /\ query'.pointers = query.pointers
      /\ query'.history = query.history /\ query'.answer = answer
  <2>. HIDE DEF answer
  <2>. QED  BY <1>0, <1>2, Zenon DEF Queries
<1>. HIDE DEF g, args
<1>5. /\ DOMAIN roles = 1..n /\ n \in 0..3
      /\ TakesPointer(g) <=> \E i \in 1..n : roles[i] = "pointer"
      /\ Historical(g) <=> \E i \in 1..n : roles[i] = "history"
      /\ \A i \in 1..n : /\ roles[i] = "pointer" => i = PointerArgument(g)
                         /\ roles[i] = "history" => i = HistoryArgument(g)
  BY <1>3, SignatureIs, Zenon
<1>. HIDE DEF n, roles
<1>7. good <=> ~pointer /\ ~history
  <2>1. \A i \in 1..n : args[i] \in Int
    BY <1>3, <1>5
  <2>2. query.pointers \in Int /\ query.history \in Int
    BY <1>3
  <2>3. good <=> \A i \in 1..n : /\ roles[i] = "pointer" => args[i] < query.pointers
                                 /\ roles[i] = "history" => args[i] < query.history
    BY <1>5, Zenon DEF InRange, roles, args, g
  <2>4. (\A i \in 1..n : roles[i] = "pointer" => args[i] < query.pointers) <=> ~pointer
    BY <1>5, <2>1, <2>2
  <2>5. (\A i \in 1..n : roles[i] = "history" => args[i] < query.history) <=> ~history
    BY <1>5, <2>1, <2>2
  <2>. HIDE DEF good, pointer, history
  <2>. QED  BY <2>3, <2>4, <2>5, Zenon
<1>. HIDE DEF pointer, history
<1>8. answer[1] \notin {"asked", "einval"} =>
         answer = IF good THEN <<"forwarded", [i \in DOMAIN roles |-> args[i]]>> ELSE <<"invalid">>
  <2>. HIDE DEF good
  <2>1. CASE query.type # "motion"
    BY <2>1, Zenon
  <2>2. CASE query.type = "motion"
    BY <1>5, <1>7, <2>2, Zenon
  <2>. QED  BY <2>1, <2>2, Zenon
<1>9. answer # <<"asked">>
  <2>1. answer[1] # "asked"
    OBVIOUS
  <2>. HIDE DEF answer
  <2>. QED  BY <2>1
<1>. HIDE DEF answer
<1>10. IndicesInRange'
  <2>1. Signature[query'.getter] = roles
    BY <1>4, Zenon DEF roles
  <2>2. InRange(query') <=> InRange(query)
    BY <1>4, <2>1, Zenon DEF InRange, roles, args, g
  <2>3. InRange(query') <=> InRange(query)'
    BY Zenon DEF InRange
  <2>. QED  BY <1>4, <1>8, <2>1, <2>2, <2>3, Zenon DEF IndicesInRange
<1>11. QueryInv'
  BY <1>4, <1>9, <1>10, Zenon DEF QueryInv
<1>. QED  BY <1>1, <1>11, Zenon DEF InputInv

LEMMA InputInvSafe == ASSUME InputBounds, InputInv PROVE InputSafe
<1>1. InputTypeOK
  <2>1. {attached, signalled, queue_ready, prepared, woken_worker} \subseteq BOOLEAN
    BY Zenon DEF InputInv, WorkerInv, WorkerTypes
  <2>2. handles_used <= MaxEvents
    BY DEF InputInv, TableInv, InputBounds
  <2>3. arrived \in 0..MaxEvents /\ queued_events \cup taken \subseteq 1..arrived
    BY Zenon DEF InputInv, TableInv
  <2>4. registered \subseteq Loopers
    BY Zenon DEF InputInv, LooperInv
  <2>5. DOMAIN event_state_ \subseteq 1..handles_used
        /\ \A h \in DOMAIN event_state_ : event_state_[h] \in [native : 1..MaxEvents, owner : Readers]
    BY Zenon DEF InputInv, TableInv
  <2>. QED  BY <2>1, <2>2, <2>3, <2>4, <2>5, Zenon
            DEF InputTypeOK, InputInv, WorkerInv, WorkerTypes, LooperInv, None
<1>2. ReadinessKept
  BY Zenon DEF InputInv, WorkerInv, WorkerTypes, ReadinessKept, CallbackDue
<1>3. WorkerOnQueue
  BY Zenon DEF InputInv, WorkerInv, WorkerTypes, WorkerOnQueue
<1>4. EventsAccounted
  <2>1. taken = {event_state_[h].native : h \in DOMAIN event_state_}
    <3>1. \A h \in DOMAIN event_state_ : event_state_[h].native \in taken
      BY Zenon DEF InputInv, TableInv
    <3>2. \A e \in taken : \E h \in DOMAIN event_state_ : event_state_[h].native = e
      BY Zenon DEF InputInv, TableInv
    <3>. QED  BY <3>1, <3>2, Zenon
  <2>. QED  BY <2>1, Zenon DEF EventsAccounted, InputInv, TableInv
<1>5. OneLooper
  BY Zenon DEF InputInv, LooperInv, OneLooper, None
<1>6. IndicesInRange
  <2>1. CASE input_topic = "queue"
    BY <2>1, Zenon DEF IndicesInRange
  <2>2. CASE query \in Queries
    <3>1. query.answer[1] = "asked"
      BY <2>2 DEF Queries
    <3>. QED  BY <3>1, Zenon DEF IndicesInRange
  <2>. QED  BY <2>1, <2>2, Zenon DEF InputInv, QueryInv
<1>. QED  BY <1>1, <1>2, <1>3, <1>4, <1>5, <1>6, Zenon DEF InputSafe

LEMMA InputStep == ASSUME InputBounds, InputInv, [InputNext]_(inputVars) PROVE InputInv'
<1>1. CASE InputNext
  <2>1. ASSUME NEW t \in Readers, getEvent(t) PROVE InputInv'
    BY <2>1, GetEventInv, Zenon
  <2>2. ASSUME NEW t \in Readers, NEW h \in 1..MaxEvents, finishEvent(t, h) PROVE InputInv'
    BY <2>2, FinishEventInv, Zenon
  <2>3. ASSUME NEW l \in Loopers, attachLooper(l) \/ LooperDrops(l) PROVE InputInv'
    BY <2>3, LooperStepInv, Zenon
  <2>4. ASSUME detachLooper PROVE InputInv'
    BY <2>4, LooperStepInv, Zenon
  <2>5. ASSUME WorkerSteps PROVE InputInv'
    BY <2>5, WorkerStepInv, Zenon
  <2>. QED  BY <1>1, <2>1, <2>2, <2>3, <2>4, <2>5, ArriveInv, AskInv, Zenon
            DEF InputNext, QueueNext, WorkerSteps
<1>2. CASE UNCHANGED inputVars
  <2>1. /\ UNCHANGED platform /\ UNCHANGED queueState /\ rearming' = rearming /\ UNCHANGED eventTable
        /\ input_topic' = input_topic /\ query' = query
    BY <1>2, Zenon DEF inputVars
  <2>. QED  BY <2>1, WorkerKept, TableKept, LooperKept, QueryKept, Zenon DEF InputInv, platform, eventTable
<1>. QED  BY <1>1, <1>2, Zenon

\* For any numbers of events, guest threads and loopers, the input queue forgets no event: with
\* the worker asleep and no rearm under way a queue with events has a readable descriptor, with
\* which no looper but the one the queue records is registered, and the table has each event
\* given out under one handle (AndroidInputBackend::run and rearm, HostInput's getEvent,
\* finishEvent and attachLooper).
THEOREM InputForgetsNothing == InputSpec => []InputSafe
<1>. USE InputAssumption
<1>1. InputInit => InputInv
  BY InputBegins, Zenon
<1>2. InputInv /\ [InputNext]_(inputVars) => InputInv'
  BY InputStep, Zenon
<1>3. InputInv => InputSafe
  BY InputInvSafe, Zenon
<1>. QED  BY <1>1, <1>2, <1>3, PTL DEF InputSpec

-----------------------------------------------------------------------------
(***************************************************************************)
(* Vertex arrays (GlArrays): every draw means to the 64-bit driver what it *)
(* would mean to a 32-bit one, for any buffers, attributes, pointers and   *)
(* draws.                                                                  *)
(***************************************************************************)
Attributes == [defined : BOOLEAN, enabled : BOOLEAN, valid : BOOLEAN, integer : BOOLEAN,
               pointer : Pointers \cup {"null"}, buffer : Names]
DriverAttributes == [enabled : BOOLEAN, buffer : Names, pointer : Pointers \cup {"null"},
                     integer : BOOLEAN, host : BOOLEAN]
Contexts == [array : Names, element : Names, attr : [Attribs -> DriverAttributes]]

ArrayTypes ==
    /\ current \in [Targets -> Names]
    /\ attributes \in [Attribs -> Attributes]
    /\ driver \in Contexts /\ native \in Contexts
    /\ issued.call \in {"none", "empty", "draw", "elements"}
    /\ behind \in BOOLEAN

\* What HostGl holds of attribute i, against the driver's d and the native n: a layout that
\* was not refused is the native one, and the driver has it unless it is a client array.
HeldAs(a, d, n) ==
    /\ d.enabled = a.enabled /\ n.enabled = a.enabled
    /\ ~(a.defined /\ a.buffer = "0" /\ ~a.valid) => n.buffer = a.buffer
    /\ a.defined /\ a.buffer = "0" /\ a.valid => n.pointer = a.pointer /\ n.integer = a.integer
    /\ ~a.defined \/ a.buffer # "0" => SameArray(d, n)

\* Unless the context changed behind its back, HostGl's copy of the bindings is right.
Tracks ==
    /\ driver.array = current["array"] /\ native.array = current["array"]
    /\ driver.element = current["element"] /\ native.element = current["element"]
    /\ \A i \in Attribs : HeldAs(attributes[i], driver.attr[i], native.attr[i])

ArrayInv == ArrayTypes /\ (~behind => Tracks)

LEMMA ArrayBegins == ASSUME ArraysDistinct, ArraysInit PROVE ArrayInv /\ DrawnAsNative
<1>. USE DEF ArraysInit, Fresh, Unset, NoBuffer, NullPointer, Nothing, Targets
<1>1. ArrayTypes
  BY DEF ArrayTypes, Attributes, DriverAttributes, Contexts, Names
<1>2. Tracks
  BY DEF Tracks, HeldAs, SameArray
<1>3. DrawnAsNative
  BY Zenon DEF DrawnAsNative
<1>. QED  BY <1>1, <1>2, <1>3, Zenon DEF ArrayInv

\* A call that issues no draw says nothing of one.
LEMMA NoDraw == ASSUME issued'.call \notin {"draw", "elements"} PROVE DrawnAsNative'
BY Zenon DEF DrawnAsNative

LEMMA NothingIs == Nothing.call = "none"
BY Zenon DEF Nothing

LEMMA BindBufferInv ==
    ASSUME ArraysDistinct, ArrayInv, NEW t \in Targets, NEW b \in Names, glBindBuffer(t, b)
    PROVE  ArrayInv' /\ DrawnAsNative'
<1>0. /\ driver' = [driver EXCEPT ![t] = b] /\ native' = [native EXCEPT ![t] = b]
      /\ current' = [current EXCEPT ![t] = b] /\ issued' = Nothing
      /\ attributes' = attributes /\ behind' = behind
  BY Zenon DEF glBindBuffer
<1>1. DrawnAsNative'
  BY <1>0, NoDraw, NothingIs, Zenon
<1>2. t \in {"array", "element"}
  BY Zenon DEF Targets
<1>3. driver \in Contexts /\ native \in Contexts /\ current \in [Targets -> Names]
  BY Zenon DEF ArrayInv, ArrayTypes
<1>4. /\ driver' \in Contexts /\ driver'.attr = driver.attr
      /\ t = "array" => driver'.array = b /\ driver'.element = driver.element
      /\ t = "element" => driver'.element = b /\ driver'.array = driver.array
  BY <1>0, <1>2, <1>3, Zenon DEF Contexts
<1>5. /\ native' \in Contexts /\ native'.attr = native.attr
      /\ t = "array" => native'.array = b /\ native'.element = native.element
      /\ t = "element" => native'.element = b /\ native'.array = native.array
  BY <1>0, <1>2, <1>3, Zenon DEF Contexts
<1>6. /\ current' \in [Targets -> Names]
      /\ t = "array" => current'["array"] = b /\ current'["element"] = current["element"]
      /\ t = "element" => current'["element"] = b /\ current'["array"] = current["array"]
  BY <1>0, <1>2, <1>3, Zenon DEF Targets
<1>7. ArrayTypes'
  BY <1>0, <1>4, <1>5, <1>6, NothingIs, Zenon DEF ArrayInv, ArrayTypes
<1>8. ASSUME ~behind PROVE Tracks'
  <2>1. /\ driver'.array = current'["array"] /\ native'.array = current'["array"]
        /\ driver'.element = current'["element"] /\ native'.element = current'["element"]
    BY <1>2, <1>4, <1>5, <1>6, <1>8, Zenon DEF ArrayInv, Tracks
  <2>. QED  BY <1>0, <1>4, <1>5, <1>8, <2>1, Zenon DEF ArrayInv, Tracks
<1>. QED  BY <1>0, <1>1, <1>7, <1>8, Zenon DEF ArrayInv

LEMMA WithoutIs ==
    ASSUME NEW c \in Contexts, NEW b
    PROVE  /\ Without(c, b) \in Contexts
           /\ c.array # b => Without(c, b).array = c.array
           /\ c.element # b => Without(c, b).element = c.element
           /\ \A i \in Attribs :
                 /\ Without(c, b).attr[i].enabled = c.attr[i].enabled
                 /\ c.attr[i].buffer # b => Without(c, b).attr[i] = c.attr[i]
<1>. DEFINE w == [i \in Attribs |-> IF c.attr[i].buffer = b THEN [c.attr[i] EXCEPT !.buffer = "0"] ELSE c.attr[i]]
<1>1. /\ c.array \in Names /\ c.element \in Names /\ "0" \in Names
      /\ \A i \in Attribs : c.attr[i] \in DriverAttributes
  BY Zenon DEF Contexts, Names, NoBuffer
<1>2. \A i \in Attribs : /\ w[i] \in DriverAttributes /\ w[i].enabled = c.attr[i].enabled
                         /\ c.attr[i].buffer # b => w[i] = c.attr[i]
  BY <1>1, Zenon DEF DriverAttributes
<1>3. w \in [Attribs -> DriverAttributes]
  BY <1>2, Zenon
<1>4. Without(c, b) = [array |-> IF c.array = b THEN "0" ELSE c.array,
                       element |-> IF c.element = b THEN "0" ELSE c.element, attr |-> w]
  BY Zenon DEF Without, NoBuffer
<1>. HIDE DEF w
<1>5. Without(c, b) \in Contexts /\ Without(c, b).attr = w
  BY <1>1, <1>3, <1>4 DEF Contexts
<1>6. /\ c.array # b => Without(c, b).array = c.array
      /\ c.element # b => Without(c, b).element = c.element
  BY <1>4
<1>. QED  BY <1>2, <1>5, <1>6, Zenon

LEMMA DeleteBuffersInv ==
    ASSUME ArraysDistinct, ArrayInv, NEW b \in Buffers, glDeleteBuffers(b)
    PROVE  ArrayInv' /\ DrawnAsNative'
<1>0. /\ driver' = Without(driver, b) /\ native' = Without(native, b)
      /\ behind' = (behind \/ b \in {current["array"], current["element"]} \/ \E i \in Attribs : attributes[i].buffer = b)
      /\ issued' = Nothing /\ current' = current /\ attributes' = attributes
  BY Zenon DEF glDeleteBuffers
<1>1. DrawnAsNative'
  BY <1>0, NoDraw, NothingIs, Zenon
<1>2. driver \in Contexts /\ native \in Contexts
  BY Zenon DEF ArrayInv, ArrayTypes
<1>3. driver' \in Contexts /\ native' \in Contexts
  BY <1>0, <1>2, WithoutIs, Zenon
<1>4. ArrayTypes'
  <2>1. behind' \in BOOLEAN
    BY <1>0, Zenon
  <2>2. issued'.call \in {"none", "empty", "draw", "elements"}
    BY <1>0, NothingIs, Zenon
  <2>. QED  BY <1>0, <1>3, <2>1, <2>2, Zenon DEF ArrayInv, ArrayTypes
<1>5. ASSUME ~behind' PROVE Tracks'
  <2>1. ~behind /\ b # current["array"] /\ b # current["element"] /\ \A i \in Attribs : attributes[i].buffer # b
    BY <1>0, <1>5, Zenon
  <2>2. Tracks
    BY <2>1, Zenon DEF ArrayInv
  <2>3. /\ driver'.array = current'["array"] /\ native'.array = current'["array"]
        /\ driver'.element = current'["element"] /\ native'.element = current'["element"]
    BY <1>0, <1>2, <2>1, <2>2, WithoutIs, Zenon DEF Tracks
  <2>4. ASSUME NEW i \in Attribs PROVE HeldAs(attributes[i], driver'.attr[i], native'.attr[i])
    <3>1. HeldAs(attributes[i], driver.attr[i], native.attr[i]) /\ attributes[i].buffer # b
      BY <2>1, <2>2, Zenon DEF Tracks
    <3>2. /\ driver'.attr[i].enabled = driver.attr[i].enabled /\ native'.attr[i].enabled = native.attr[i].enabled
          /\ driver.attr[i].buffer # b => driver'.attr[i] = driver.attr[i]
          /\ native.attr[i].buffer # b => native'.attr[i] = native.attr[i]
      <4>1. /\ Without(driver, b).attr[i].enabled = driver.attr[i].enabled
            /\ driver.attr[i].buffer # b => Without(driver, b).attr[i] = driver.attr[i]
        BY <1>2, WithoutIs, Zenon
      <4>2. /\ Without(native, b).attr[i].enabled = native.attr[i].enabled
            /\ native.attr[i].buffer # b => Without(native, b).attr[i] = native.attr[i]
        BY <1>2, WithoutIs, Zenon
      <4>. QED  BY <1>0, <4>1, <4>2, Zenon
    <3>. QED  BY <3>1, <3>2, Zenon DEF HeldAs, SameArray
  <2>. QED  BY <1>0, <2>3, <2>4, Zenon DEF Tracks
<1>. QED  BY <1>1, <1>4, <1>5, Zenon DEF ArrayInv

LEMMA BindVertexArrayInv ==
    ASSUME ArrayInv, glBindVertexArray
    PROVE  ArrayInv' /\ DrawnAsNative'
<1>0. /\ driver' = [Fresh EXCEPT !.array = driver.array] /\ native' = [Fresh EXCEPT !.array = native.array]
      /\ behind' = TRUE /\ issued' = Nothing /\ current' = current /\ attributes' = attributes
  BY Zenon DEF glBindVertexArray
<1>1. DrawnAsNative'
  BY <1>0, NoDraw, NothingIs, Zenon
<1>2. driver' \in Contexts /\ native' \in Contexts
  BY <1>0 DEF ArrayInv, ArrayTypes, Contexts, Fresh, Unset, DriverAttributes, Names,
       NoBuffer, NullPointer
<1>3. issued'.call \in {"none", "empty", "draw", "elements"}
  BY <1>0, NothingIs, Zenon
<1>. QED  BY <1>0, <1>1, <1>2, <1>3, Zenon DEF ArrayInv, ArrayTypes

LEMMA EnabledInv ==
    ASSUME ArrayInv, NEW i \in Attribs, NEW on \in BOOLEAN, note_vertex_attrib_enabled(i, on)
    PROVE  ArrayInv' /\ DrawnAsNative'
<1>0. /\ driver' = [driver EXCEPT !.attr[i].enabled = on] /\ native' = [native EXCEPT !.attr[i].enabled = on]
      /\ attributes' = [attributes EXCEPT ![i].enabled = on] /\ issued' = Nothing
      /\ current' = current /\ behind' = behind
  BY Zenon DEF note_vertex_attrib_enabled
<1>1. DrawnAsNative'
  BY <1>0, NoDraw, NothingIs
<1>2. driver \in Contexts /\ native \in Contexts /\ attributes \in [Attribs -> Attributes]
  BY Zenon DEF ArrayInv, ArrayTypes
<1>3. ASSUME NEW c \in Contexts
      PROVE  /\ [c EXCEPT !.attr[i].enabled = on] \in Contexts
             /\ [c EXCEPT !.attr[i].enabled = on].array = c.array
             /\ [c EXCEPT !.attr[i].enabled = on].element = c.element
             /\ [c EXCEPT !.attr[i].enabled = on].attr = [c.attr EXCEPT ![i] = [c.attr[i] EXCEPT !.enabled = on]]
  <2>1. c.attr[i] \in DriverAttributes
    BY Zenon DEF Contexts
  <2>2. [c.attr[i] EXCEPT !.enabled = on] \in DriverAttributes
    BY <2>1, Zenon DEF DriverAttributes
  <2>3. [c.attr EXCEPT ![i] = [c.attr[i] EXCEPT !.enabled = on]] \in [Attribs -> DriverAttributes]
    BY <2>2, Zenon DEF Contexts
  <2>4. [c EXCEPT !.attr[i].enabled = on] = [c EXCEPT !.attr = [c.attr EXCEPT ![i] = [c.attr[i] EXCEPT !.enabled = on]]]
    BY Zenon DEF Contexts
  <2>. DEFINE w == [c.attr EXCEPT ![i] = [c.attr[i] EXCEPT !.enabled = on]]
  <2>. HIDE DEF w
  <2>5. [c EXCEPT !.attr = w] \in Contexts /\ [c EXCEPT !.attr = w].array = c.array
        /\ [c EXCEPT !.attr = w].element = c.element /\ [c EXCEPT !.attr = w].attr = w
    <3>1. w \in [Attribs -> DriverAttributes]
      BY <2>3, Zenon DEF w
    <3>. QED  BY <3>1, Zenon DEF Contexts
  <2>. QED  BY <2>4, <2>5, Zenon DEF w
<1>4. attributes' \in [Attribs -> Attributes]
  BY <1>0, <1>2, Zenon DEF Attributes
<1>5. driver' \in Contexts /\ native' \in Contexts
  BY <1>0, <1>2, <1>3, Zenon
<1>6. ArrayTypes'
  BY <1>0, <1>4, <1>5, NothingIs, Zenon DEF ArrayInv, ArrayTypes
<1>7. ASSUME ~behind PROVE Tracks'
  <2>1. Tracks
    BY <1>7, Zenon DEF ArrayInv
  <2>2. /\ driver'.array = driver.array /\ native'.array = native.array
        /\ driver'.element = driver.element /\ native'.element = native.element
    BY <1>0, <1>2, <1>3, Zenon
  <2>3. ASSUME NEW j \in Attribs PROVE HeldAs(attributes'[j], driver'.attr[j], native'.attr[j])
    <3>1. HeldAs(attributes[j], driver.attr[j], native.attr[j])
      BY <2>1, Zenon DEF Tracks
    <3>2. CASE j # i
      <4>1. attributes'[j] = attributes[j]
        BY <1>0, <1>2, <3>2, Zenon
      <4>2. driver'.attr[j] = driver.attr[j]
        BY <1>0, <1>2, <1>3, <3>2, Zenon DEF Contexts
      <4>3. native'.attr[j] = native.attr[j]
        BY <1>0, <1>2, <1>3, <3>2, Zenon DEF Contexts
      <4>. QED  BY <3>1, <4>1, <4>2, <4>3, Zenon
    <3>3. CASE j = i
      <4>1. attributes'[j] = [attributes[j] EXCEPT !.enabled = on] /\ attributes[j] \in Attributes
        BY <1>0, <1>2, <3>3, Zenon
      <4>2. driver'.attr[j] = [driver.attr[j] EXCEPT !.enabled = on] /\ driver.attr[j] \in DriverAttributes
        BY <1>0, <1>2, <1>3, <3>3 DEF Contexts
      <4>3. native'.attr[j] = [native.attr[j] EXCEPT !.enabled = on] /\ native.attr[j] \in DriverAttributes
        BY <1>0, <1>2, <1>3, <3>3, Zenon DEF Contexts
      <4>4. /\ attributes'[j].enabled = on /\ attributes'[j].defined = attributes[j].defined
            /\ attributes'[j].buffer = attributes[j].buffer /\ attributes'[j].valid = attributes[j].valid
            /\ attributes'[j].pointer = attributes[j].pointer /\ attributes'[j].integer = attributes[j].integer
        BY <4>1, Zenon DEF Attributes
      <4>5. /\ driver'.attr[j].enabled = on /\ driver'.attr[j].buffer = driver.attr[j].buffer
            /\ driver'.attr[j].pointer = driver.attr[j].pointer /\ driver'.attr[j].integer = driver.attr[j].integer
            /\ driver'.attr[j].host = driver.attr[j].host
        BY <4>2, Zenon DEF DriverAttributes
      <4>6. /\ native'.attr[j].enabled = on /\ native'.attr[j].buffer = native.attr[j].buffer
            /\ native'.attr[j].pointer = native.attr[j].pointer /\ native'.attr[j].integer = native.attr[j].integer
        BY <4>3, Zenon DEF DriverAttributes
      <4>. QED  BY <3>1, <4>4, <4>5, <4>6, Zenon DEF HeldAs, SameArray
    <3>. QED  BY <3>2, <3>3, Zenon
  <2>. QED  BY <1>0, <2>1, <2>2, <2>3, Zenon DEF Tracks
<1>. QED  BY <1>0, <1>1, <1>6, <1>7, Zenon DEF ArrayInv

\* Context e is c but for its attribute i, which is d.
AttrIsSet(e, c, i, d) ==
    /\ e \in Contexts /\ e.array = c.array /\ e.element = c.element
    /\ e.attr[i] = d /\ \A j \in Attribs \ {i} : e.attr[j] = c.attr[j]

LEMMA AttrSet ==
    ASSUME NEW c \in Contexts, NEW i \in Attribs, NEW d \in DriverAttributes
    PROVE  AttrIsSet([c EXCEPT !.attr[i] = d], c, i, d)
<1>. DEFINE e == [c EXCEPT !.attr[i] = d]
<1>. DEFINE w == [c.attr EXCEPT ![i] = d]
<1>1. w \in [Attribs -> DriverAttributes] /\ w[i] = d /\ \A j \in Attribs \ {i} : w[j] = c.attr[j]
  BY Zenon DEF Contexts
<1>2. e = [c EXCEPT !.attr = w]
  BY Zenon DEF Contexts
<1>. HIDE DEF w
<1>3. e \in Contexts /\ e.array = c.array /\ e.element = c.element /\ e.attr = w
  BY <1>1, <1>2, Zenon DEF Contexts
<1>. HIDE DEF e
<1>4. AttrIsSet(e, c, i, d)
  BY <1>1, <1>3, Zenon DEF AttrIsSet
<1>. QED  BY <1>4, Zenon DEF e

LEMMA VertexAttribPointerInv ==
    ASSUME ArraysDistinct, ArrayInv, NEW i \in Attribs, NEW p \in Pointers, NEW valid \in BOOLEAN,
           NEW integer \in BOOLEAN, glVertexAttribPointer(i, p, valid, integer)
    PROVE  ArrayInv' /\ DrawnAsNative'
<1>. DEFINE d == [driver.attr[i] EXCEPT !.buffer = driver.array, !.pointer = p, !.integer = integer, !.host = FALSE]
            n == [native.attr[i] EXCEPT !.buffer = native.array, !.pointer = p, !.integer = integer,
                                        !.host = (native.array = "0")]
            a == [attributes[i] EXCEPT !.defined = TRUE, !.valid = valid, !.pointer = p, !.integer = integer,
                                       !.buffer = current["array"]]
            to_driver == current["array"] # "0" /\ valid
<1>0. /\ driver' = IF to_driver THEN [driver EXCEPT !.attr[i] = d] ELSE driver
      /\ native' = IF valid THEN [native EXCEPT !.attr[i] = n] ELSE native
      /\ behind' = (behind \/ (current["array"] # "0" /\ ~valid))
      /\ issued' = Nothing /\ current' = current
  BY Zenon DEF glVertexAttribPointer, NoBuffer
<1>1. DrawnAsNative'
  BY <1>0, NoDraw, NothingIs, Zenon
<1>2. /\ driver \in Contexts /\ native \in Contexts /\ attributes \in [Attribs -> Attributes]
      /\ attributes[i] \in Attributes /\ current["array"] \in Names
  BY Zenon DEF ArrayInv, ArrayTypes, Targets
<1>3. /\ driver.attr[i] \in DriverAttributes /\ native.attr[i] \in DriverAttributes
      /\ driver.array \in Names /\ native.array \in Names
  BY <1>2, Zenon DEF Contexts
<1>4. /\ d \in DriverAttributes /\ d.enabled = driver.attr[i].enabled /\ d.buffer = driver.array
      /\ d.pointer = p /\ d.integer = integer /\ d.host = FALSE
  BY <1>3 DEF DriverAttributes
<1>5. /\ n \in DriverAttributes /\ n.enabled = native.attr[i].enabled /\ n.buffer = native.array
      /\ n.pointer = p /\ n.integer = integer
  BY <1>3 DEF DriverAttributes
<1>6. /\ a \in Attributes /\ a.enabled = attributes[i].enabled /\ a.defined = TRUE /\ a.valid = valid
      /\ a.pointer = p /\ a.integer = integer /\ a.buffer = current["array"]
  BY <1>2 DEF Attributes
<1>7. attributes' = [attributes EXCEPT ![i] = a]
  BY <1>2 DEF glVertexAttribPointer
<1>. HIDE DEF d, n, a
<1>8. attributes' \in [Attribs -> Attributes] /\ attributes'[i] = a /\ \A j \in Attribs \ {i} : attributes'[j] = attributes[j]
  BY <1>2, <1>6, <1>7, Zenon
<1>9. /\ driver' \in Contexts /\ driver'.array = driver.array /\ driver'.element = driver.element
      /\ driver'.attr[i] = (IF to_driver THEN d ELSE driver.attr[i])
      /\ \A j \in Attribs \ {i} : driver'.attr[j] = driver.attr[j]
  <2>1. CASE to_driver
    <3>1. driver' = [driver EXCEPT !.attr[i] = d]
      BY <1>0, <2>1, Zenon
    <3>2. AttrIsSet([driver EXCEPT !.attr[i] = d], driver, i, d)
      BY <1>2, <1>4, AttrSet, Zenon
    <3>3. AttrIsSet(driver', driver, i, d)
      BY <3>1, <3>2, Zenon
    <3>. QED  BY <2>1, <3>3, Zenon DEF AttrIsSet
  <2>2. CASE ~to_driver
    BY <1>0, <1>2, <2>2, Zenon
  <2>. QED  BY <2>1, <2>2, Zenon
<1>10. /\ native' \in Contexts /\ native'.array = native.array /\ native'.element = native.element
       /\ native'.attr[i] = (IF valid THEN n ELSE native.attr[i])
       /\ \A j \in Attribs \ {i} : native'.attr[j] = native.attr[j]
  <2>1. CASE valid
    <3>1. native' = [native EXCEPT !.attr[i] = n]
      BY <1>0, <2>1, Zenon
    <3>2. AttrIsSet([native EXCEPT !.attr[i] = n], native, i, n)
      BY <1>2, <1>5, AttrSet, Zenon
    <3>3. AttrIsSet(native', native, i, n)
      BY <3>1, <3>2, Zenon
    <3>. QED  BY <2>1, <3>3, Zenon DEF AttrIsSet
  <2>2. CASE ~valid
    BY <1>0, <1>2, <2>2, Zenon
  <2>. QED  BY <2>1, <2>2, Zenon
<1>11. ArrayTypes'
  <2>1. behind' \in BOOLEAN
    BY <1>0, Zenon
  <2>2. issued'.call \in {"none", "empty", "draw", "elements"}
    BY <1>0, NothingIs, Zenon
  <2>. QED  BY <1>0, <1>8, <1>9, <1>10, <2>1, <2>2, Zenon DEF ArrayInv, ArrayTypes
<1>12. ASSUME ~behind' PROVE Tracks'
  <2>1. ~behind /\ (current["array"] = "0" \/ valid)
    BY <1>0, <1>12, Zenon
  <2>2. Tracks
    BY <2>1, Zenon DEF ArrayInv
  <2>3. ASSUME NEW j \in Attribs PROVE HeldAs(attributes'[j], driver'.attr[j], native'.attr[j])
    <3>1. HeldAs(attributes[j], driver.attr[j], native.attr[j])
      BY <2>2, Zenon DEF Tracks
    <3>2. CASE j # i
      BY <1>8, <1>9, <1>10, <3>1, <3>2, Zenon
    <3>3. CASE j = i
      <4>1. driver.array = current["array"] /\ native.array = current["array"]
        BY <2>2, Zenon DEF Tracks
      <4>2. CASE current["array"] # "0"
        <5>1. driver'.attr[i] = d /\ native'.attr[i] = n /\ attributes'[i] = a
          BY <1>8, <1>9, <1>10, <2>1, <4>2, Zenon
        <5>2. SameArray(d, n)
          BY <1>4, <1>5, <4>1, <4>2, Zenon DEF SameArray, NoBuffer
        <5>3. HeldAs(a, d, n)
          BY <1>4, <1>5, <1>6, <3>1, <3>3, <4>1, <4>2, <5>2, Zenon DEF HeldAs
        <5>. QED  BY <3>3, <5>1, <5>3, Zenon
      <4>3. CASE current["array"] = "0" /\ valid
        <5>1. driver'.attr[i] = driver.attr[i] /\ native'.attr[i] = n /\ attributes'[i] = a
          BY <1>8, <1>9, <1>10, <4>3, Zenon
        <5>2. HeldAs(a, driver.attr[i], n)
          BY <1>5, <1>6, <3>1, <3>3, <4>1, <4>3, Zenon DEF HeldAs
        <5>. QED  BY <3>3, <5>1, <5>2, Zenon
      <4>4. CASE current["array"] = "0" /\ ~valid
        <5>1. driver'.attr[i] = driver.attr[i] /\ native'.attr[i] = native.attr[i] /\ attributes'[i] = a
          BY <1>8, <1>9, <1>10, <4>4, Zenon
        <5>2. HeldAs(a, driver.attr[i], native.attr[i])
          BY <1>6, <3>1, <3>3, <4>4, Zenon DEF HeldAs
        <5>. QED  BY <3>3, <5>1, <5>2, Zenon
      <4>. QED  BY <4>2, <4>3, <4>4, Zenon
    <3>. QED  BY <3>2, <3>3, Zenon
  <2>. QED  BY <1>0, <1>9, <1>10, <2>2, <2>3, Zenon DEF Tracks
<1>. QED  BY <1>1, <1>11, <1>12, Zenon DEF ArrayInv

\* materialize_client_arrays gives the driver the client arrays and leaves it everything else.
LEMMA MaterializeIs ==
    ASSUME ArrayInv
    PROVE  LET m == materialize_client_arrays
               C == Clients IN
           /\ m \in Contexts /\ m.element = driver.element
           /\ ~behind => m.array = driver.array
           /\ \A i \in Attribs \ C : m.attr[i] = driver.attr[i]
           /\ \A i \in C : /\ m.attr[i].enabled = driver.attr[i].enabled /\ m.attr[i].buffer = "0" /\ m.attr[i].host = TRUE
                           /\ m.attr[i].pointer = attributes[i].pointer /\ m.attr[i].integer = attributes[i].integer
<1>. DEFINE C == Clients
            m == materialize_client_arrays
            w == [i \in Attribs |->
                    IF i \in C
                    THEN [enabled |-> driver.attr[i].enabled, buffer |-> "0", host |-> TRUE,
                          pointer |-> attributes[i].pointer, integer |-> attributes[i].integer]
                    ELSE driver.attr[i]]
            b == IF C # {} /\ current["array"] # "0" THEN current["array"] ELSE driver.array
<1>1. m = [driver EXCEPT !.attr = w, !.array = b]
  BY Zenon DEF materialize_client_arrays, NoBuffer
<1>2. driver \in Contexts /\ C \subseteq Attribs /\ "0" \in Names
  BY Zenon DEF ArrayInv, ArrayTypes, Clients, Names, NoBuffer
<1>3. b \in Names /\ (~behind => b = driver.array)
  <2>1. current["array"] \in Names /\ driver.array \in Names
    BY Zenon DEF ArrayInv, ArrayTypes, Targets, Contexts
  <2>2. ~behind => driver.array = current["array"]
    BY Zenon DEF ArrayInv, Tracks
  <2>. QED  BY <2>1, <2>2, Zenon
<1>. HIDE DEF b
<1>4. ASSUME NEW i \in Attribs
      PROVE  /\ w[i] \in DriverAttributes
             /\ i \notin C => w[i] = driver.attr[i]
             /\ i \in C => /\ w[i].enabled = driver.attr[i].enabled /\ w[i].buffer = "0" /\ w[i].host = TRUE
                           /\ w[i].pointer = attributes[i].pointer /\ w[i].integer = attributes[i].integer
  <2>1. /\ driver.attr[i] \in DriverAttributes /\ driver.attr[i].enabled \in BOOLEAN
        /\ attributes[i].pointer \in Pointers \cup {"null"} /\ attributes[i].integer \in BOOLEAN
    BY Zenon DEF ArrayInv, ArrayTypes, Contexts, DriverAttributes, Attributes
  <2>. HIDE DEF C
  <2>. QED  BY <1>2, <2>1, Zenon DEF DriverAttributes
<1>5. w \in [Attribs -> DriverAttributes]
  BY <1>4, Zenon
<1>. HIDE DEF w, m
<1>6. m \in Contexts /\ m.element = driver.element /\ m.array = b /\ m.attr = w
  BY <1>1, <1>2, <1>3, <1>5 DEF Contexts
<1>7. /\ m \in Contexts /\ m.element = driver.element
      /\ ~behind => m.array = driver.array
      /\ \A i \in Attribs \ C : m.attr[i] = driver.attr[i]
      /\ \A i \in C : /\ m.attr[i].enabled = driver.attr[i].enabled /\ m.attr[i].buffer = "0" /\ m.attr[i].host = TRUE
                      /\ m.attr[i].pointer = attributes[i].pointer /\ m.attr[i].integer = attributes[i].integer
  BY <1>2, <1>3, <1>4, <1>6, Zenon
<1>. QED  BY <1>7, Zenon DEF m

\* After a draw that was let through, the driver's arrays are the native ones.
LEMMA Materialized ==
    ASSUME ArrayInv, NEW last, CanMaterialize(last), driver' = materialize_client_arrays,
           current' = current, attributes' = attributes, native' = native, behind' = behind
    PROVE  /\ driver' \in Contexts
           /\ ~behind => /\ Tracks'
                         /\ \A i \in Attribs : native.attr[i].enabled =>
                               SameArray(driver'.attr[i], native.attr[i])
<1>. DEFINE C == Clients
<1>1. /\ driver' \in Contexts /\ driver'.element = driver.element
      /\ ~behind => driver'.array = driver.array
      /\ \A i \in Attribs \ C : driver'.attr[i] = driver.attr[i]
      /\ \A i \in C : /\ driver'.attr[i].enabled = driver.attr[i].enabled /\ driver'.attr[i].buffer = "0"
                      /\ driver'.attr[i].host = TRUE
                      /\ driver'.attr[i].pointer = attributes[i].pointer /\ driver'.attr[i].integer = attributes[i].integer
  BY MaterializeIs, Zenon
<1>2. \A i \in C : attributes[i].valid /\ i \in Attribs
  BY Zenon DEF CanMaterialize, Clients
<1>3. \A i \in Attribs : i \in C <=> attributes[i].enabled /\ attributes[i].defined /\ attributes[i].buffer = "0"
  BY Zenon DEF Clients, NoBuffer
<1>. HIDE DEF C
<1>4. ASSUME ~behind, NEW i \in Attribs
      PROVE  /\ HeldAs(attributes[i], driver'.attr[i], native.attr[i])
             /\ native.attr[i].enabled => SameArray(driver'.attr[i], native.attr[i])
  <2>1. HeldAs(attributes[i], driver.attr[i], native.attr[i])
    BY <1>4, Zenon DEF ArrayInv, Tracks
  <2>2. CASE i \in C
    <3>1. attributes[i].valid /\ attributes[i].defined /\ attributes[i].buffer = "0"
      BY <1>2, <1>3, <2>2, Zenon
    <3>2. /\ driver'.attr[i].enabled = driver.attr[i].enabled /\ driver'.attr[i].buffer = "0"
          /\ driver'.attr[i].host = TRUE
          /\ driver'.attr[i].pointer = attributes[i].pointer /\ driver'.attr[i].integer = attributes[i].integer
      BY <1>1, <2>2, Zenon
    <3>3. SameArray(driver'.attr[i], native.attr[i])
      BY <2>1, <3>1, <3>2, Zenon DEF HeldAs, SameArray, NoBuffer
    <3>. QED  BY <2>1, <3>1, <3>2, <3>3, Zenon DEF HeldAs
  <2>3. CASE i \notin C
    <3>1. driver'.attr[i] = driver.attr[i]
      BY <1>1, <2>3, Zenon
    <3>2. attributes[i].enabled => SameArray(driver.attr[i], native.attr[i])
      BY <1>3, <2>1, <2>3, Zenon DEF HeldAs
    <3>. QED  BY <2>1, <3>1, <3>2, Zenon DEF HeldAs
  <2>. QED  BY <2>2, <2>3, Zenon
<1>5. ~behind => Tracks'
  BY <1>1, <1>4, Zenon DEF ArrayInv, Tracks
<1>. QED  BY <1>1, <1>4, <1>5, Zenon

LEMMA DrawArraysInv ==
    ASSUME ArraysDistinct, ArrayInv, NEW first \in Firsts, NEW count \in Counts, glDrawArrays(first, count)
    PROVE  ArrayInv' /\ DrawnAsNative'
<1>0. current' = current /\ attributes' = attributes /\ native' = native /\ behind' = behind
  BY Zenon DEF glDrawArrays
<1>1. CASE driver' = driver /\ issued' \in {[call |-> "empty"], Nothing}
  <2>1. issued'.call \in {"none", "empty"}
    BY <1>1 DEF Nothing
  <2>2. DrawnAsNative'
    BY <2>1, NoDraw, Zenon
  <2>. QED  BY <1>0, <1>1, <2>1, <2>2, Zenon DEF ArrayInv, ArrayTypes, Tracks
<1>2. CASE /\ CanMaterialize(first + count - 1) /\ driver' = materialize_client_arrays
           /\ issued' = [call |-> "draw", host |-> TRUE, read |-> first + count - 1]
  <2>. DEFINE last == first + count - 1
  <2>1. issued'.call = "draw" /\ issued'.read = last
    BY <1>2, Zenon
  <2>. HIDE DEF last
  <2>2. CanMaterialize(last)
    BY <1>2, Zenon DEF last
  <2>3. /\ driver' \in Contexts
        /\ ~behind => /\ Tracks'
                      /\ \A i \in Attribs : native.attr[i].enabled => SameArray(driver'.attr[i], native.attr[i])
    BY <1>0, <1>2, <2>2, Materialized, Zenon
  <2>4. ArrayInv'
    BY <1>0, <2>1, <2>3, Zenon DEF ArrayInv, ArrayTypes
  <2>5. \A i \in Clients : last < Readable[attributes[i].pointer]
    BY <2>2, Zenon DEF CanMaterialize
  <2>6. Clients' = Clients
    BY <1>0, Zenon DEF Clients
  <2>7. ASSUME ~behind PROVE driver'.array = native'.array
    BY <1>0, <2>3, <2>7, Zenon DEF Tracks
  <2>8. issued'.call # "elements"
    BY <2>1, Zenon
  <2>9. DrawnAsNative'
    BY <1>0, <2>1, <2>3, <2>5, <2>6, <2>7, <2>8, Zenon DEF DrawnAsNative
  <2>. QED  BY <2>4, <2>9, Zenon
<1>. QED  BY <1>1, <1>2, Zenon DEF glDrawArrays, Rejected

LEMMA DrawElementsInv ==
    ASSUME ArraysDistinct, ArrayInv, NEW count \in Counts, NEW ok \in BOOLEAN, NEW p, NEW top,
           glDrawElements(count, ok, p, top)
    PROVE  ArrayInv' /\ DrawnAsNative'
<1>0. current' = current /\ attributes' = attributes /\ native' = native /\ behind' = behind
  BY Zenon DEF glDrawElements
<1>1. CASE driver' = driver /\ issued' \in {[call |-> "empty"], Nothing}
  <2>1. issued'.call \in {"none", "empty"}
    BY <1>1 DEF Nothing
  <2>2. DrawnAsNative'
    BY <2>1, NoDraw, Zenon
  <2>. QED  BY <1>0, <1>1, <2>1, <2>2, Zenon DEF ArrayInv, ArrayTypes, Tracks
<1>2. CASE /\ prepare_elements(count, ok, p, top) /\ count # 0 /\ driver' = materialize_client_arrays
           /\ issued' = [call |-> "elements", host |-> ClientIndices, read |-> top]
  <2>. DEFINE last == Checked(count, top)
              host == ClientIndices
  <2>0. count > 0
    BY <1>2 DEF prepare_elements, ArraysDistinct
  <2>. HIDE DEF host
  <2>1. issued'.call = "elements" /\ issued'.read = top /\ issued'.host = host
    BY <1>2, Zenon DEF host
  <2>2. CanMaterialize(last)
    BY <1>2, <2>0, Zenon DEF prepare_elements
  <2>3. /\ driver' \in Contexts
        /\ ~behind => /\ Tracks'
                      /\ \A i \in Attribs : native.attr[i].enabled => SameArray(driver'.attr[i], native.attr[i])
    BY <1>0, <1>2, <2>2, Materialized, Zenon
  <2>4. ArrayInv'
    BY <1>0, <2>1, <2>3, Zenon DEF ArrayInv, ArrayTypes
  <2>5. \A i \in Clients : last < Readable[attributes[i].pointer]
    BY <2>2, Zenon DEF CanMaterialize
  <2>6. Clients' = Clients
    BY <1>0, Zenon DEF Clients
  <2>7. ASSUME ~behind PROVE driver'.array = native'.array /\ (host <=> native'.element = "0")
    <3>1. native'.element = current["element"] /\ driver'.array = native'.array
      BY <1>0, <2>3, <2>7, Zenon DEF Tracks
    <3>. QED  BY <3>1, Zenon DEF host, ClientIndices, NoBuffer
  <2>8. host => last = top
    BY Zenon DEF host, Checked
  <2>9. issued'.call # "draw"
    BY <2>1, Zenon
  <2>10. DrawnAsNative'
    BY <1>0, <2>1, <2>3, <2>5, <2>6, <2>7, <2>8, <2>9, Zenon DEF DrawnAsNative, NoBuffer
  <2>. QED  BY <2>4, <2>10, Zenon
<1>. QED  BY <1>1, <1>2, Zenon DEF glDrawElements, Rejected

LEMMA ArrayStep ==
    ASSUME ArraysDistinct, ArrayInv, DrawnAsNative, [ArraysNext]_(arrayVars)
    PROVE  ArrayInv' /\ DrawnAsNative'
<1>. DEFINE Goal == ArrayInv' /\ DrawnAsNative'
<1>1. ASSUME NEW t \in Targets, NEW b \in Names, glBindBuffer(t, b) PROVE Goal
  BY <1>1, BindBufferInv, Zenon
<1>2. ASSUME NEW b \in Buffers, glDeleteBuffers(b) PROVE Goal
  BY <1>2, DeleteBuffersInv, Zenon
<1>3. ASSUME glBindVertexArray PROVE Goal
  BY <1>3, BindVertexArrayInv, Zenon
<1>4. ASSUME NEW i \in Attribs, NEW on \in BOOLEAN, note_vertex_attrib_enabled(i, on) PROVE Goal
  BY <1>4, EnabledInv, Zenon
<1>5. ASSUME NEW i \in Attribs, NEW p \in Pointers, NEW v \in BOOLEAN, NEW n \in BOOLEAN,
             glVertexAttribPointer(i, p, v, n)
      PROVE  Goal
  BY <1>5, VertexAttribPointerInv, Zenon
<1>6. ASSUME NEW f \in Firsts, NEW c \in Counts, glDrawArrays(f, c) PROVE Goal
  BY <1>6, DrawArraysInv, Zenon
<1>7. ASSUME NEW c \in Counts, NEW ok \in BOOLEAN, NEW p, NEW m, glDrawElements(c, ok, p, m) PROVE Goal
  BY <1>7, DrawElementsInv, Zenon
<1>8. ASSUME UNCHANGED arrayVars PROVE Goal
  <2>1. /\ current' = current /\ attributes' = attributes /\ driver' = driver /\ native' = native
        /\ issued' = issued /\ behind' = behind
    BY <1>8, Zenon DEF arrayVars
  <2>2. ArrayInv'
    BY <2>1, Zenon DEF ArrayInv, ArrayTypes, Tracks
  <2>3. DrawnAsNative'
    <3>1. Clients' = Clients
      BY <2>1, Zenon DEF Clients
    <3>. QED  BY <2>1, <3>1, Zenon DEF DrawnAsNative
  <2>. QED  BY <2>2, <2>3, Zenon
<1>. HIDE DEF Goal
<1>9. ASSUME ArraysNext PROVE Goal
  BY <1>1, <1>2, <1>3, <1>4, <1>5, <1>6, <1>7, <1>9, Zenon DEF ArraysNext
<1>10. Goal
  BY <1>8, <1>9, Zenon
<1>. QED  BY <1>10, Zenon DEF Goal

LEMMA ArrayInvTypes == ASSUME ArrayInv PROVE ArraysTypeOK
<1>1. \A c \in {driver, native} :
          /\ c.array \in Names /\ c.element \in Names
          /\ \A i \in Attribs : c.attr[i].buffer \in Names
  BY Zenon DEF ArrayInv, ArrayTypes, Contexts, DriverAttributes
<1>2. \A i \in Attribs : attributes[i].pointer \in Pointers \cup {"null"}
  BY Zenon DEF ArrayInv, ArrayTypes, Attributes
<1>. QED  BY <1>1, <1>2, Zenon DEF ArrayInv, ArrayTypes, ArraysTypeOK, NullPointer

\* For any buffers, attributes, pointers and draws, every draw the 64-bit driver is given means
\* what it would mean to a 32-bit one: HostGl's copies of the bindings and client arrays follow
\* the native context until the guest changes it in a way HostGl is not told of
\* (materialize_client_arrays and prepare_elements of gl_manual.cpp).
THEOREM DrawsMeanTheSame == ArraysSpec => []DrawsAsNative
<1>. USE ArraysAssumption
<1>1. ArraysInit => ArrayInv /\ DrawnAsNative
  BY ArrayBegins, Zenon
<1>2. ArrayInv /\ DrawnAsNative /\ [ArraysNext]_(arrayVars) => (ArrayInv /\ DrawnAsNative)'
  BY ArrayStep, Zenon
<1>3. ArrayInv /\ DrawnAsNative => DrawsAsNative
  BY ArrayInvTypes, Zenon DEF DrawsAsNative
<1>. QED  BY <1>1, <1>2, <1>3, PTL DEF ArraysSpec
=============================================================================
