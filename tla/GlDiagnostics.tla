---------------------------- MODULE GlDiagnostics ----------------------------
(***************************************************************************)
(* The visibility diagnostics around guest GL calls                        *)
(* (core/src/gl/gl_diagnostics.cpp), and the pending error of              *)
(* GlDriverBackend they share with the guest.  State's mutex is held in    *)
(* gl_diagnose_before and in gl_diagnose, not while the call itself runs.  *)
(*                                                                         *)
(* A behaviour is about draws (captures, tallies, boxes, errors, swaps) or *)
(* about uploads (the shadow of buffer contents); topic says which.        *)
(* Framebuffers have one row of Width pixels, buffers a few bytes.         *)
(***************************************************************************)
EXTENDS Integers, Sequences, FiniteSets, FiniteSetsExt

CONSTANTS Threads,
          Limit,     \* how many diffs of each kind are emitted
          MaxColors, \* text_color_draws is kept up to here
          Draws, MaxUploads, \* bounds: draws or uploads begun in a behaviour
          Width, Pad, \* pixels of a viewport; padding of a glyph region
          Moments,   \* the swaps that are captured
          Swaps,     \* a bound: swaps in a behaviour
          Buffers, Values,
          MaxTrackedBuffers, MaxTrackedBytes,
          MaxSize    \* the largest upload a guest makes

VARIABLES topic, step,
          waiting,   \* kinds with a "before" image waiting: who took it, or None
          done,      \* diffs emitted of each kind
          tally,     \* atlas draws: all, fb0, onscreen; classes; colours
          box,       \* first boxes and their union
          hull,      \* history: every pixel a box diff saw change
          begun, rejected, \* history: draws or uploads begun; a draw was rejected
          swap_count, backend_cache, region,
          error,     \* GlDriverBackend::pending_error_ and whose it is
          driver_error,    \* threads with an error in the driver
          owed, mixed, \* history: threads owed an error; another's was involved
          data, snapshots, stale, \* buffers, their shadow; history: not comparable
          uploading  \* history: buffers with an upload between its two halves

drawVars == <<waiting, done, tally, box, hull, begun, rejected, swap_count, backend_cache, region>>
errorVars == <<error, driver_error, owed, mixed>>
bufferVars == <<data, snapshots, stale, uploading>>
diagnosticVars == <<topic, step, drawVars, errorVars, bufferVars>>

Kinds == {"snapshot", "fullfb", "box", "nontext", "coloured_fb0", "coloured_off"}
None == "none"
Untracked == <<"untracked">>
Idle == [at |-> "idle"]
Goto(t, where) == step' = [step EXCEPT ![t] = where]
NoBox == {}
Hull(s) == IF s = {} THEN NoBox ELSE Min(s)..Max(s)

-----------------------------------------------------------------------------
(* Draws.                                                                   *)

(* What the driver and the shadow say of a draw: the glyph atlas is bound;  *)
(* the default framebuffer is; the viewport exceeds 64 x 64; the colour in  *)
(* FragInfo.                                                                *)
DrawState == {d \in [atlas : BOOLEAN, fb0 : BOOLEAN, big : BOOLEAN,
                     colour : {"white", "coloured", "other"}] :
                 ~d.atlas => d.colour = "other"}
Onscreen(d) == d.fb0 /\ d.big

(* The kinds gl_diagnose_before takes an image for; only the coloured ones  *)
(* leave a waiting image alone.                                             *)
Taken(d) ==
    {k \in Kinds :
        /\ done[k] < Limit[k]
        /\ CASE k = "nontext" -> ~d.atlas /\ Onscreen(d)
             [] k = "coloured_fb0" ->
                    d.atlas /\ d.colour = "coloured" /\ Onscreen(d) /\ waiting[k] = None
             [] k = "coloured_off" ->
                    d.atlas /\ d.colour = "coloured" /\ ~d.fb0 /\ waiting[k] = None
             [] OTHER -> d.atlas /\ Onscreen(d)}

Bump(b) == IF b THEN 1 ELSE 0

Tallied(d) ==
    IF ~d.atlas THEN tally
    ELSE [tally EXCEPT !.total = @ + 1,
                       !.fb0 = @ + Bump(d.fb0),
                       !.onscreen = @ + Bump(Onscreen(d)),
                       !.class[d.colour] = @ + 1,
                       !.colors = @ + Bump(Onscreen(d) /\ @ < MaxColors)]

gl_diagnose_before(t, d) ==
    /\ step[t] = Idle /\ begun < Draws
    /\ begun' = begun + 1
    /\ waiting' = [k \in Kinds |-> IF k \in Taken(d) THEN t ELSE waiting[k]]
    /\ tally' = Tallied(d)
    /\ backend_cache' = TRUE
    /\ Goto(t, [at |-> "drawing"])
    /\ UNCHANGED <<topic, done, box, hull, rejected, swap_count, region, errorVars, bufferVars>>

(* HostGl::handle_host_call: a call made invalid (Call::fail) is not        *)
(* diagnosed afterwards; its error goes to the backend.                     *)
set_error(t) ==
    /\ error' = IF error = None THEN t ELSE error
    /\ mixed' = (mixed \/ error \notin {None, t})

DrawRejected(t) ==
    /\ step[t].at = "drawing"
    /\ set_error(t)
    /\ owed' = owed \cup {t}
    /\ rejected' = TRUE
    /\ Goto(t, Idle)
    /\ UNCHANGED <<topic, waiting, done, tally, box, hull, begun, swap_count, backend_cache,
                   region, driver_error, bufferVars>>

(* The draw itself changes some pixels, or sets the driver's error.         *)
DrawDone(t, changed, fails) ==
    /\ step[t].at = "drawing"
    /\ driver_error' = IF fails THEN driver_error \cup {t} ELSE driver_error
    /\ owed' = IF fails THEN owed \cup {t} ELSE owed
    /\ Goto(t, [at |-> "drawn", changed |-> changed])
    /\ UNCHANGED <<topic, drawVars, error, mixed, bufferVars>>

(* GlDriverBackend::glGetError: the recorded error first.                   *)
TakesPending == error # None
GetError(t) == IF TakesPending THEN error # None ELSE t \in driver_error

Cleared(emitted) == [k \in Kinds |-> IF k \in emitted THEN None ELSE waiting[k]]

(* The running union: box_only_diff's box folded in.                        *)
Union(seen) == Hull(box.union \cup Hull(seen))

(* gl_diagnose emits what is waiting, whoever took it.  Each diff reads the *)
(* framebuffer, takes the error there is, and puts it back.                 *)
gl_diagnose(t) ==
    LET emitted == {k \in Kinds : waiting[k] # None}
        reads == emitted \ {"snapshot"} # {}
        fine == ~GetError(t)
        seen == IF "box" \in emitted /\ fine THEN step[t].changed ELSE {}
    IN /\ step[t].at = "drawn"
       /\ done' = [k \in Kinds |-> done[k] + Bump(k \in emitted)]
       /\ waiting' = Cleared(emitted)
       /\ box' = IF seen = {} THEN box
                 ELSE [first |-> IF done["box"] < 2 /\ box.first[done["box"] + 1] = NoBox
                                 THEN [box.first EXCEPT ![done["box"] + 1] = Hull(seen)]
                                 ELSE box.first,
                       union |-> Union(seen)]
       /\ hull' = hull \cup seen
       /\ error' = IF reads THEN None ELSE error
       /\ driver_error' = IF reads /\ ~TakesPending THEN driver_error \ {t} ELSE driver_error
       /\ mixed' = (mixed \/ (reads /\ error \notin {None, t}))
       /\ Goto(t, IF reads /\ ~fine THEN [at |-> "restore"] ELSE Idle)
       /\ UNCHANGED <<topic, tally, begun, rejected, swap_count, backend_cache, region,
                      owed, bufferVars>>

(* Mistake: the error read is not put back.                                 *)
DropsError(t) ==
    /\ step[t].at = "restore"
    /\ Goto(t, Idle)
    /\ UNCHANGED <<topic, drawVars, errorVars, bufferVars>>

RestoreError(t) ==
    /\ step[t].at = "restore"
    /\ set_error(t)
    /\ Goto(t, Idle)
    /\ UNCHANGED <<topic, drawVars, driver_error, owed, bufferVars>>

glGetError(t) ==
    /\ step[t] = Idle /\ t \in owed
    /\ error' = None
    /\ driver_error' = IF TakesPending THEN driver_error ELSE driver_error \ {t}
    /\ owed' = IF TakesPending /\ t \in driver_error THEN owed ELSE owed \ {t}
    /\ mixed' = (mixed \/ error \notin {None, t})
    /\ UNCHANGED <<topic, step, drawVars, bufferVars>>

(* One dimension of emit_glyph_box_region: moving the left edge in leaves   *)
(* the width as it was.                                                     *)
Region(b) ==
    LET left == Max({Min(b) - Pad, 0})
        right == Min({left + Cardinality(b) + 2 * Pad, Width})
    IN left..(right - 1)

gl_diagnose_swap ==
    /\ swap_count < Swaps
    /\ swap_count' = swap_count + 1
    /\ region' = IF swap_count + 1 \in Moments /\ backend_cache
                 THEN [i \in 1..2 |-> IF box.first[i] = NoBox THEN NoBox
                                      ELSE Region(box.first[i])]
                 ELSE region
    /\ UNCHANGED <<topic, step, waiting, done, tally, box, hull, begun, rejected, backend_cache,
                   errorVars, bufferVars>>

-----------------------------------------------------------------------------
(* Uploads.  glBufferData gives a buffer n bytes; glBufferSubData replaces  *)
(* n from off and fails in the driver when they do not fit.  The shadow     *)
(* follows after the call, under the lock.                                  *)

Bytes(n, v) == [i \in 1..n |-> v]
Overlay(s, off, n, v) ==
    [i \in 1..Max({Len(s), off + n}) |->
        IF i \in (off + 1)..(off + n) THEN v ELSE IF i <= Len(s) THEN s[i] ELSE None]

Uploads(t, b, sub, off, n, v) ==
    LET fits == ~sub \/ off + n <= Len(data[b])
    IN /\ step[t] = Idle /\ begun < MaxUploads
       /\ begun' = begun + 1
       /\ data' = IF ~fits THEN data
                  ELSE [data EXCEPT ![b] = IF sub THEN Overlay(@, off, n, v) ELSE Bytes(n, v)]
       /\ uploading' = [uploading EXCEPT ![t] = b]
       /\ stale' = IF ~fits \/ off + n > MaxTrackedBytes
                      \/ \E u \in Threads \ {t} : uploading[u] = b
                   THEN stale \cup {b} ELSE stale
       /\ Goto(t, [at |-> "uploaded", b |-> b, sub |-> sub, off |-> off, n |-> n, v |-> v])
       /\ UNCHANGED <<topic, waiting, done, tally, box, hull, rejected, swap_count, backend_cache,
                      region, errorVars, snapshots>>

Tracked == {b \in Buffers : snapshots[b] # Untracked}

(* An unreadable or null source (v is None) leaves the bytes unknown, or,   *)
(* for a part, as they were.                                                *)
Shadow(old, c) ==
    IF ~c.sub THEN Bytes(c.n, c.v)
    ELSE IF c.v # None THEN Overlay(old, c.off, c.n, c.v)
    ELSE LET grown == Overlay(old, c.off, c.n, None)
         IN [i \in DOMAIN grown |-> IF i <= Len(old) THEN old[i] ELSE None]

record_buffer_upload(t) ==
    LET c == step[t]
        old == IF c.b \in Tracked THEN snapshots[c.b] ELSE <<>>
    IN /\ c.at = "uploaded"
       /\ snapshots' =
             IF \/ c.off + c.n > MaxTrackedBytes
                \/ c.b \notin Tracked /\ Cardinality(Tracked) >= MaxTrackedBuffers
             THEN snapshots
             ELSE [snapshots EXCEPT ![c.b] = Shadow(old, c)]
       /\ uploading' = [uploading EXCEPT ![t] = None]
       /\ Goto(t, Idle)
       /\ UNCHANGED <<topic, drawVars, errorVars, data, stale>>

(* The guest writes through a mapping: the shadow is not told.              *)
MappedWrite(b) ==
    /\ data[b] # <<>>
    /\ \E v \in Values : data' = [data EXCEPT ![b] = Bytes(Len(@), v)]
    /\ stale' = stale \cup {b}
    /\ UNCHANGED <<topic, step, drawVars, errorVars, snapshots, uploading>>

-----------------------------------------------------------------------------
Init ==
    /\ topic \in {"draws", "uploads"}
    /\ step = [t \in Threads |-> Idle]
    /\ waiting = [k \in Kinds |-> None] /\ done = [k \in Kinds |-> 0]
    /\ tally = [total |-> 0, fb0 |-> 0, onscreen |-> 0, colors |-> 0,
                class |-> [c \in {"white", "coloured", "other"} |-> 0]]
    /\ box = [first |-> <<NoBox, NoBox>>, union |-> NoBox] /\ hull = {}
    /\ begun = 0 /\ rejected = FALSE
    /\ swap_count = 0 /\ backend_cache = FALSE /\ region = <<NoBox, NoBox>>
    /\ error = None /\ driver_error = {} /\ owed = {} /\ mixed = FALSE
    /\ data = [b \in Buffers |-> <<>>] /\ snapshots = [b \in Buffers |-> Untracked]
    /\ stale = {} /\ uploading = [t \in Threads |-> None]

DrawNext ==
    \/ \E t \in Threads :
          \/ \E d \in DrawState : gl_diagnose_before(t, d)
          \/ DrawRejected(t)
          \/ \E c \in SUBSET (0..(Width - 1)) : DrawDone(t, c, FALSE)
          \/ DrawDone(t, {}, TRUE)
          \/ gl_diagnose(t) \/ RestoreError(t) \/ glGetError(t)
    \/ gl_diagnose_swap

UploadNext ==
    \/ \E t \in Threads :
          \/ \E b \in Buffers \ stale, sub \in BOOLEAN, off \in 0..1, n \in 1..MaxSize,
                v \in Values \cup {None} :
                /\ sub \/ off = 0
                /\ Uploads(t, b, sub, off, n, v)
          \/ record_buffer_upload(t)
    \/ \E b \in Buffers \ stale : MappedWrite(b)

Next == \/ topic = "draws" /\ DrawNext
        \/ topic = "uploads" /\ UploadNext

Spec == Init /\ [][Next]_diagnosticVars

-----------------------------------------------------------------------------
(* Types of the variables.                                                  *)
TypeOK ==
    /\ waiting \in [Kinds -> Threads \cup {None}] /\ done \in [Kinds -> Nat]
    /\ tally.colors \in 0..MaxColors
    /\ box.union \subseteq 0..(Width - 1) /\ swap_count \in 0..Swaps
    /\ error \in Threads \cup {None} /\ driver_error \subseteq Threads

(* However the draws of two threads overlap and whichever are rejected, no  *)
(* kind of diff is emitted, or waiting to be, more often than its limit     *)
(* says: the report and the readbacks stay bounded.                         *)
CapturesBounded ==
    \A k \in Kinds : done[k] + Bump(waiting[k] # None) <= Limit[k]

(* "Buffers are allocated right before the readback and freed right after   *)
(* the comparison; nothing large is kept between draws": an image waits     *)
(* only during the draw of the thread that took it, although another        *)
(* thread's draw may compare it first.  The code keeps this only until a    *)
(* draw is rejected, which leaves its images to be compared after a later   *)
(* draw.                                                                    *)
NothingBetweenDraws ==
    ~rejected => \A k \in Kinds : waiting[k] # None => step[waiting[k]].at \in {"drawing", "drawn"}

(* Every atlas draw is in exactly one colour class, and the onscreen ones   *)
(* are among those on the default framebuffer.                              *)
TalliesAgree ==
    /\ tally.class["white"] + tally.class["coloured"] + tally.class["other"] = tally.total
    /\ tally.colors <= tally.onscreen /\ tally.onscreen <= tally.fb0 /\ tally.fb0 <= tally.total
    /\ tally.colors < MaxColors => tally.colors = tally.onscreen

(* The union line is the smallest box around every pixel a text box diff    *)
(* saw change, and the recorded first boxes lie in it.                      *)
UnionIsHull ==
    /\ box.union = Hull(hull)
    /\ \A i \in 1..2 : box.first[i] \subseteq box.union

(* A glyph region read back at a swap covers the glyph's box and never      *)
(* leaves the viewport.                                                     *)
RegionCovers ==
    \A i \in 1..2 : region[i] # NoBox =>
        box.first[i] \subseteq region[i] /\ region[i] \subseteq 0..(Width - 1)

(* "Diagnostics must not consume an error that guest glGetError would have  *)
(* observed": an error a thread has coming is in the driver, recorded, or   *)
(* in the hands of the diff that puts it back.  The code keeps this only    *)
(* until two threads meet at GlDriverBackend's one pending error.           *)
ErrorsKept ==
    ~mixed => \A t \in owed : t \in driver_error \/ error = t \/ step[t].at = "restore"

(* Bytes the shadow calls known are the driver's, so the colours decoded    *)
(* from it are those of the draw.  It holds until the buffer is written     *)
(* through a mapping, in an upload too large to shadow or refused by the    *)
(* driver, or by two threads at once.                                       *)
ShadowTrue ==
    \A b \in Tracked \ stale :
        (\A t \in Threads : uploading[t] # b) =>
            \A i \in DOMAIN snapshots[b] :
                snapshots[b][i] # None =>
                    i \in DOMAIN data[b] /\ data[b][i] \in {snapshots[b][i], None}

=============================================================================
