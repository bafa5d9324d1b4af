----------------------------- MODULE MCGraphics -----------------------------
(***************************************************************************)
(* The five parts of the graphics bridge: vertex and index arrays, pixel   *)
(* and text arguments, objects kept for the guest, the diagnostics, and    *)
(* EGL.  They share no state, so a behaviour works on one of them and      *)
(* leaves the others alone.                                                *)
(***************************************************************************)
EXTENDS GlArrays, GlObjects, TLC

VARIABLES part,
          copy, gl, transfer, mem, readable, found,
          topic, step, waiting, done, tally, box, hull, begun, rejected, swap_count,
          backend_cache, region, error, driver_error, owed, mixed, data, snapshots, stale,
          uploading,
          egl_objects, alive, given, reused, passed, pending_error, sticky, refused, told,
          cache, asking, copies, answers, overlapped, missed, recent, reported, history

marshal == <<copy, gl, transfer, mem, readable, found>>
diagnostics == <<topic, step, waiting, done, tally, box, hull, begun, rejected, swap_count,
                 backend_cache, region, error, driver_error, owed, mixed, data, snapshots,
                 stale, uploading>>
egl == <<egl_objects, alive, given, reused, passed, pending_error, sticky, refused, told,
         cache, asking, copies, answers, overlapped, missed, recent, reported, history>>

(* Formats and types a guest pairs: two to eight bytes a pixel, a packed    *)
(* type with the format it fits and with another, and an unknown type.      *)
PixelKinds ==
    {<<"RGB", "UNSIGNED_BYTE">>, <<"RGBA", "HALF_FLOAT">>, <<"RGB", "UNSIGNED_SHORT_5_6_5">>,
     <<"RGBA", "UNSIGNED_SHORT_5_6_5">>, <<"ALPHA", "DOUBLE">>}

MCReadable == [p |-> 2, q |-> 1]
MCFirsts == -1..0
MCCounts == -1..2

Marshal == INSTANCE GlMarshal WITH
    Dims <- {0, 1, 3}, Depths <- {-1, 1, 2}, Kinds <- PixelKinds, Extents <- {3, 20, 40}, WordMax <- 63,
    SizeMax <- 6, Page <- 2, Space <- 6, MaxString <- 3, MaxAttribs <- 4
Diagnostics == INSTANCE GlDiagnostics WITH
    Limit <- [snapshot |-> 1, fullfb |-> 1, box |-> 2, nontext |-> 1, coloured_fb0 |-> 2,
              coloured_off |-> 1],
    MaxColors <- 1, Draws <- 2, MaxUploads <- 3, Width <- 3, Pad <- 1, Moments <- {1},
    Swaps <- 1, Buffers <- {"b", "c"}, Values <- {"a", "b"}, MaxTrackedBuffers <- 1,
    MaxTrackedBytes <- 2, MaxSize <- 2
Egl == INSTANCE HostEgl WITH
    Addresses <- {"p", "q"}, Configs <- <<"c">>, MaxHandles <- 2, Names <- {"n", "m"},
    RecentMisses <- 2, MaxMisses <- 4, MaxStrings <- 2

NoMarshal == Marshal!ImageInit /\ mem = "-" /\ readable = "-" /\ found = "-"

NoDiagnostics == Diagnostics!Init /\ topic = "draws"

MCInit ==
    /\ ArraysInit /\ ObjectsInit /\ Egl!Init
    /\ \/ part \in {"arrays", "objects", "egl"} /\ NoMarshal /\ NoDiagnostics
       \/ part = "marshal" /\ Marshal!Init /\ NoDiagnostics
       \/ part = "diagnostics" /\ Diagnostics!Init /\ NoMarshal

MCNext ==
    /\ \/ /\ part = "arrays" /\ ArraysNext
          /\ ~behind    \* a bound: afterwards HostGl's copy is stale for good
          /\ UNCHANGED <<marshal, objectVars, diagnostics, egl>>
       \/ /\ part = "marshal" /\ Marshal!Next
          /\ UNCHANGED <<arrayVars, objectVars, diagnostics, egl>>
       \/ /\ part = "objects" /\ ObjectsNext
          /\ UNCHANGED <<arrayVars, marshal, diagnostics, egl>>
       \/ /\ part = "diagnostics" /\ Diagnostics!Next
          /\ UNCHANGED <<arrayVars, marshal, objectVars, egl>>
       \/ /\ part = "egl" /\ Egl!Next
          /\ UNCHANGED <<arrayVars, marshal, objectVars, diagnostics>>
    /\ UNCHANGED part

MCSpec == MCInit /\ [][MCNext]_<<part, arrayVars, marshal, objectVars, diagnostics, egl>>

(* The arrays alone, without that bound.                                    *)
StaleSpec ==
    /\ MCInit /\ part = "arrays"
    /\ [][ArraysNext /\ UNCHANGED <<part, marshal, objectVars, diagnostics, egl>>]_<<part, arrayVars>>

-----------------------------------------------------------------------------
(* The driver touches no byte of an image that pixel_pointer did not check, *)
(* and a string or an attribute list is accepted exactly when it ends       *)
(* within its limit in readable memory (guest_string, read_attribs).        *)
MarshalExact ==
    part = "marshal" =>
        Marshal!TypeOK /\ Marshal!PixelsInBounds /\ Marshal!StringsExact /\ Marshal!AttribsExact

(* "Diagnostics must not consume an error that guest glGetError would have  *)
(* observed" and "nothing large is kept between draws", unless threads meet *)
(* there; what they capture stays within its limits and their tallies,      *)
(* boxes and copies of uniform buffers say what was drawn.                  *)
DiagnosticsSafe ==
    part = "diagnostics" =>
        /\ Diagnostics!TypeOK /\ Diagnostics!ErrorsKept /\ Diagnostics!NothingBetweenDraws
        /\ Diagnostics!CapturesBounded /\ Diagnostics!TalliesAgree /\ Diagnostics!UnionIsHull
        /\ Diagnostics!RegionCovers /\ Diagnostics!ShadowTrue

(* An EGL handle names the object and the class it was given for, and the   *)
(* driver is handed no live object of another class; eglGetError answers a  *)
(* thread's own refused call, then the driver's error; the guest gets one   *)
(* copy of a driver string; the last misses are reported oldest first.      *)
EglSafe ==
    part = "egl" =>
        /\ Egl!TypeOK /\ Egl!HandlesName /\ Egl!ClassChecked /\ Egl!ErrorsDelivered
        /\ Egl!OneCopy /\ Egl!MissesInOrder

Symmetry == Permutations(Threads)
=============================================================================
