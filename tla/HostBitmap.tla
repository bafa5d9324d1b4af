----------------------------- MODULE HostBitmap -----------------------------
(***************************************************************************)
(* HostBitmap (core/src/android/host_bitmap.cpp) and its backend           *)
(* (core/android/bitmap_driver_backend.cpp): AndroidBitmap_lockPixels and  *)
(* AndroidBitmap_unlockPixels.                                             *)
(*                                                                         *)
(* lockPixels runs under mutex_ from its look at locks_ to its entry in    *)
(* it.  unlockPixels takes the entry out under mutex_ and works on without *)
(* it: the pixels are written back, the guest's copy freed and the bitmap  *)
(* unlocked and released one after the other.  Pixels are the set of the   *)
(* drawings they show; a drawing is a lock's serial number.                *)
(***************************************************************************)
EXTENDS Naturals, FiniteSets

CONSTANTS Painters,    \* guest threads
          Bitmaps,     \* Java bitmaps
          MaxLocks     \* bound: locks made

ASSUME BitmapAssumption == MaxLocks \in Nat /\ IsFiniteSet(Painters)

VARIABLES
    pixel_locks,    \* locks_: [bitmap, owner, serial]
    copies,         \* guest: what the copy of a lock shows, by serial; freed ones are gone
    shown,          \* Java: what the pixels of a bitmap show
    locked_pixels,  \* platform: how often a bitmap is locked
    retained,       \* platform: global references to a bitmap
    unlocking,      \* the entry an unlockPixels works on, per thread
    serials,        \* locks made
    finished_draws, \* history: the drawings unlockPixels returned success for
    crossed         \* history: bitmaps locked while an unlockPixels of them was under way

bitmapVars == <<pixel_locks, copies, shown, locked_pixels, retained, unlocking, serials,
                finished_draws, crossed>>

NoLock == [bitmap |-> "none", owner |-> "none", serial |-> 0, step |-> "out"]

BitmapInit ==
    /\ pixel_locks = {} /\ copies = [s \in {} |-> {}]
    /\ shown = [b \in Bitmaps |-> {}]
    /\ locked_pixels = [b \in Bitmaps |-> 0] /\ retained = [b \in Bitmaps |-> 0]
    /\ unlocking = [t \in Painters |-> NoLock]
    /\ serials = 0 /\ finished_draws = {} /\ crossed = {}

Outside(t) == unlocking[t] = NoLock
-----------------------------------------------------------------------------
(* Mistake: locked by this thread, where the code asks for any.             *)
LockedByMe(b, t) == \E l \in pixel_locks : l.bitmap = b /\ l.owner = t

Locked(b, t) == \E l \in pixel_locks : l.bitmap = b

(* What lockPixels has taken when it fails: nothing with a bad bitmap; the  *)
(* lock without pixels or without memory for the copy; the copy as well     *)
(* when the answer would land in it, when it is not mapped or when the      *)
(* bitmap cannot be retained.  unlock_pixels and free_guest give it back.   *)
TakenAtFailure == {{}, {"lock"}, {"lock", "copy"}}
GivenBack(taken) == taken

LockFails(b, s) == \E taken \in TakenAtFailure :
    LET left == taken \ GivenBack(taken) IN
    /\ locked_pixels' = IF "lock" \in left THEN [locked_pixels EXCEPT ![b] = @ + 1] ELSE locked_pixels
    /\ copies' = IF "copy" \in left
                 THEN [x \in DOMAIN copies \cup {s} |-> IF x = s THEN {} ELSE copies[x]] ELSE copies
    /\ UNCHANGED retained

(* A bitmap that is locked is refused.                                      *)
lockPixels(t, b) ==
    /\ Outside(t) /\ ~Locked(b, t) /\ serials < MaxLocks
    /\ serials' = serials + 1
    /\ \/ /\ LockFails(b, serials')
          /\ UNCHANGED <<pixel_locks, crossed>>
       \/ /\ pixel_locks' = pixel_locks \cup {[bitmap |-> b, owner |-> t, serial |-> serials']}
          /\ copies' = [s \in DOMAIN copies \cup {serials'} |-> IF s = serials' THEN shown[b] ELSE copies[s]]
          /\ locked_pixels' = [locked_pixels EXCEPT ![b] = @ + 1]
          /\ retained' = [retained EXCEPT ![b] = @ + 1]
          /\ crossed' = IF \E u \in Painters : unlocking[u].bitmap = b THEN crossed \cup {b} ELSE crossed
    /\ UNCHANGED <<shown, unlocking, finished_draws>>

(* Guest: the thread draws in its copy.                                     *)
Draw(t) ==
    /\ Outside(t)
    /\ \E l \in pixel_locks :
         /\ l.owner = t
         /\ copies' = [copies EXCEPT ![l.serial] = @ \cup {l.serial}]
    /\ UNCHANGED <<pixel_locks, shown, locked_pixels, retained, unlocking, serials, finished_draws, crossed>>

(* Only the thread that locked it.                                          *)
unlockPixels(t, b) ==
    /\ Outside(t)
    /\ \E l \in pixel_locks :
         /\ l.bitmap = b /\ l.owner = t
         /\ pixel_locks' = pixel_locks \ {l}
         /\ unlocking' = [unlocking EXCEPT ![t] = [bitmap |-> b, owner |-> t, serial |-> l.serial,
                                                   step |-> "write_back"]]
    /\ UNCHANGED <<copies, shown, locked_pixels, retained, serials, finished_draws, crossed>>

At(t, step) == unlocking[t].step = step
Goes(t, step) == unlocking' = [unlocking EXCEPT ![t].step = step]

(* A guest may have unmapped its copy: then nothing is written (-1).        *)
WriteBack(t) ==
    /\ At(t, "write_back")
    /\ LET l == unlocking[t] IN
       \/ /\ shown' = [shown EXCEPT ![l.bitmap] = copies[l.serial]]
          /\ finished_draws' = finished_draws \cup (copies[l.serial] \X {l.bitmap})
       \/ UNCHANGED <<shown, finished_draws>>
    /\ Goes(t, "free")
    /\ UNCHANGED <<pixel_locks, copies, locked_pixels, retained, serials, crossed>>

Frees(t) == copies' = [s \in DOMAIN copies \ {unlocking[t].serial} |-> copies[s]]

FreeCopy(t) ==
    /\ At(t, "free") /\ Frees(t) /\ Goes(t, "unlock")
    /\ UNCHANGED <<pixel_locks, shown, locked_pixels, retained, serials, finished_draws, crossed>>

UnlockNative(t) ==
    /\ At(t, "unlock")
    /\ locked_pixels' = [locked_pixels EXCEPT ![unlocking[t].bitmap] = @ - 1]
    /\ Goes(t, "release")
    /\ UNCHANGED <<pixel_locks, copies, shown, retained, serials, finished_draws, crossed>>

Release(t) ==
    /\ At(t, "release")
    /\ retained' = [retained EXCEPT ![unlocking[t].bitmap] = @ - 1]
    /\ unlocking' = [unlocking EXCEPT ![t] = NoLock]
    /\ UNCHANGED <<pixel_locks, copies, shown, locked_pixels, serials, finished_draws, crossed>>

BitmapNext ==
    \E t \in Painters :
        \/ \E b \in Bitmaps : lockPixels(t, b) \/ unlockPixels(t, b)
        \/ Draw(t) \/ WriteBack(t) \/ FreeCopy(t) \/ UnlockNative(t) \/ Release(t)

BitmapSpec == BitmapInit /\ [][BitmapNext]_bitmapVars
-----------------------------------------------------------------------------
(* The type of the state.                                                   *)
BitmapTypeOK ==
    /\ pixel_locks \subseteq [bitmap : Bitmaps, owner : Painters, serial : 1..MaxLocks]
    /\ DOMAIN copies \subseteq 1..MaxLocks /\ \A s \in DOMAIN copies : copies[s] \subseteq 1..MaxLocks
    /\ shown \in [Bitmaps -> SUBSET (1..MaxLocks)]
    /\ locked_pixels \in [Bitmaps -> Nat] /\ retained \in [Bitmaps -> Nat]
    /\ serials \in 0..MaxLocks /\ crossed \subseteq Bitmaps

Working(b, steps) == Cardinality({t \in Painters : unlocking[t].bitmap = b /\ unlocking[t].step \in steps})
Entries(b) == Cardinality({l \in pixel_locks : l.bitmap = b})

(* The platform's locks and global references of a bitmap are those of the  *)
(* entries and of the calls that are giving them back, so that the pixels   *)
(* are written, and the guest draws, only while the bitmap is locked and    *)
(* retained, and no failing lockPixels leaves one behind.                   *)
LocksPaired ==
    \A b \in Bitmaps :
        /\ locked_pixels[b] = Entries(b) + Working(b, {"write_back", "free", "unlock"})
        /\ retained[b] = Entries(b) + Working(b, {"write_back", "free", "unlock", "release"})

(* The guest's copies are those of the entries and of the calls that have   *)
(* not freed theirs: none leaks and none is freed while a guest may draw.   *)
CopiesPaired ==
    DOMAIN copies = {l.serial : l \in pixel_locks}
                    \cup {unlocking[t].serial : t \in {u \in Painters : unlocking[u].step \in {"write_back", "free"}}}

(* What was drawn and unlocked stays on the bitmap: a later lock starts     *)
(* from it.  The exception is a bitmap locked while an unlockPixels of it   *)
(* was under way: that lock copies the pixels before they are written back, *)
(* and its own unlock then puts the old ones in their place.                *)
DrawingsKept ==
    \A d \in finished_draws : d[2] \in crossed \/ d[1] \in shown[d[2]]

(* All of them: locks and copies are given back exactly once and drawings   *)
(* stay (lockPixels, unlockPixels).                                         *)
BitmapsSafe == BitmapTypeOK /\ LocksPaired /\ CopiesPaired /\ DrawingsKept
=============================================================================
