---------------------------- MODULE MCJniHandles ----------------------------
(***************************************************************************)
(* The JNI bridge: the process's global references, one thread's local     *)
(* references, the frames of a thread that runs Java and guest code in     *)
(* turn, the binding and calling of native methods, jmethodID values,      *)
(* mirrors of direct buffers, the conversion of arguments and results, and *)
(* of names.  They share no state here, so a behaviour uses one of them.   *)
(***************************************************************************)
EXTENDS GlobalHandles, LocalHandles, JniIds, TLC

VARIABLES table,
          root, running, state, frame_locals, calls, frame_host, pending, guest_envs, refs_made, received,
          frame_aborted,
          count_, released_, targets_, ready_, bound, work, made, taken_slots, calling, dead,
          status, java, blocks, mirrors, mirrored_bytes, globals, asking, given,
          crossing, arrival, input, answer,
          stale        \* handles that were valid and then died

frames == <<root, running, state, frame_locals, calls, frame_host, pending, guest_envs, refs_made, received,
            frame_aborted>>
natives == <<count_, released_, targets_, ready_, bound, work, made, taken_slots, calling, dead>>
buffers == <<status, java, blocks, mirrors, mirrored_bytes, globals, asking, given>>
marshal == <<crossing, arrival>>
names == <<input, answer>>

Frames == INSTANCE JniFrames WITH
    MaxRefs <- 3, MaxDepth <- 2, MaxUserFrames <- 2,
    locals <- frame_locals, host <- frame_host, aborted <- frame_aborted

\* m1 and m2 are overloads of one export, and exports of their own.
Natives(ms, function) == [kind |-> "natives", methods |-> ms, fn |-> function]
Export(k) == [kind |-> k, methods |-> <<>>, fn |-> 0]
Bindings == INSTANCE JniNatives WITH
    Loaders <- Threads, Callers <- {"c1"}, Methods <- {"m1", "m2"}, Malformed <- "bad", Capacity <- 2,
    Libraries <- {<<Natives(<<"m1">>, 1), Export("onload"), Export("missing"), Natives(<<"m2">>, 2)>>,
                  <<Natives(<<>>, 0), Natives(<<"m1", "m2">>, 1), Export("failed")>>,
                  <<Export("unresolvable"), Export("malformed")>>},
    Tables <- {<<[method |-> "m1", fn |-> 2], [method |-> "bad", fn |-> 1]>>}

MCShortyOf == [h1 |-> "VI", h2 |-> "L", h3 |-> "VI"]

\* slice is a slice of whole; other has memory of its own.
Mirrors == INSTANCE JniMirrors WITH
    Callers <- Threads, Buffers <- {"whole", "slice", "other"}, Cap <- 2, MaxBlocks <- 2,
    Address <- [whole |-> 1, slice |-> 1, other |-> 2], Size <- [whole |-> 2, slice |-> 1, other |-> 1]

Seqs == INSTANCE SequencesExt
Marshal == INSTANCE JniMarshal WITH
    Shorties <- Seqs!SeqOf({"Z", "B", "I", "J", "F", "D", "L"}, 3) \cup Seqs!SeqOf({"I", "J", "D"}, 7)
                  \cup {<<"S", "C", "L">>, <<"C", "S">>},
    HostRegs <- [x |-> 4, d |-> 1]

\* Characters: a 97, b 98, $ 36, e acute 233, _ 95, digits from 48, the rest as
\* JniNames names them.
Prim(name) == [prim |-> name, text |-> <<>>]
Class(text) == [prim |-> "", text |-> text]
Names == INSTANCE JniNames WITH
    Pieces <- {<<97>>, <<48>>, <<49>>, <<51>>, <<95>>, <<36>>, <<95, 48, 48, 48, 50, 52>>, <<95, 48, 48, 48, 54, 49>>},
    MaxPieces <- 4,
    Parts <- {<<73>>, <<86>>, <<91>>, <<76, 97, 59>>, <<76, 97, 47>>, <<47, 97, 59>>, <<76>>, <<59>>, <<41>>, <<46>>},
    MaxParts <- 4,
    Idents <- {<<97>>, <<95>>, <<36>>, <<97, 49>>, <<95, 49>>, <<233>>, <<97, 95>>, <<95, 95>>},
    Arguments <- {<<>>, <<73>>, <<91, 73>>, <<76, 97, 47, 95, 59>>, <<91, 91, 76, 36, 59, 73>>},
    Types <- {Prim("int"), Prim("void"), Class(<<97>>), Class(<<97, 46, 98>>), Class(<<91, 73>>),
              Class(<<91, 91, 76, 97, 46, 36, 59>>)},
    MaxDims <- 2

-----------------------------------------------------------------------------
OtherTables == <<globalVars, frames, natives, idsVars, buffers, marshal, names>>

Tables == {"global", "local", "frames", "natives", "ids", "mirrors"}

MCInit ==
    /\ \/ table \in Tables /\ Marshal!NoCrossing /\ Names!NoQuestion
       \/ table = "marshal" /\ Marshal!Init /\ Names!NoQuestion
       \/ table = "names" /\ Names!Init /\ Marshal!NoCrossing
    /\ GlobalInit /\ Init /\ Bindings!Init /\ IdsInit /\ Mirrors!Init
    /\ Frames!Init /\ (table # "frames" => root = "java")
    /\ stale = {}

\* A question is asked once, and a thread may end.
Finished ==
    CASE table = "marshal" -> arrival.done
      [] table = "names" -> answer.asked
      [] table = "frames" -> frame_aborted \/ running = "ended"
      [] OTHER -> FALSE

MCNext ==
    /\ \/ table = "global" /\ GlobalNext
          /\ UNCHANGED <<vars, frames, natives, idsVars, buffers, marshal, names>>
       \/ table = "local" /\ Next
          /\ UNCHANGED OtherTables
       \/ table = "frames" /\ Frames!Next
          /\ UNCHANGED <<globalVars, vars, natives, idsVars, buffers, marshal, names>>
       \/ table = "natives" /\ Bindings!Next
          /\ UNCHANGED <<globalVars, vars, frames, idsVars, buffers, marshal, names>>
       \/ table = "ids" /\ IdsNext
          /\ UNCHANGED <<globalVars, vars, frames, natives, buffers, marshal, names>>
       \/ table = "mirrors" /\ Mirrors!Next
          /\ UNCHANGED <<globalVars, vars, frames, natives, idsVars, marshal, names>>
       \/ table = "marshal" /\ Marshal!Next
          /\ UNCHANGED <<globalVars, vars, frames, natives, idsVars, buffers, names>>
       \/ table = "names" /\ Names!Next
          /\ UNCHANGED <<globalVars, vars, frames, natives, idsVars, buffers, marshal>>
       \/ Finished
          /\ UNCHANGED <<globalVars, vars, frames, natives, idsVars, buffers, marshal, names>>
    /\ UNCHANGED <<table, stale>>

MCSpec == MCInit /\ [][MCNext]_<<table, globalVars, vars, frames, natives, idsVars, buffers, marshal, names>>

\* One thread's local references through several attachments.
AttachInit == MCInit /\ table = "local"

AttachNext ==
    /\ ThreadNext
    /\ stale' = stale \cup {h \in LiveHandles : Get(h)' = Null}
    /\ UNCHANGED <<table, OtherTables>>

AttachSpec == AttachInit /\ [][AttachNext]_<<vars, stale, table, OtherTables>>

(***************************************************************************)
(* jni_handles.h: "a stale handle can never become valid again during the  *)
(* process lifetime".  A local handle that died names nothing from then on *)
(* (LocalHandles::add, DetachCurrentThread).                               *)
(***************************************************************************)
StaleNeverValid == \A h \in stale : Get(h) = Null

(***************************************************************************)
(* Whatever frames nested native calls push, pop or leave open, every      *)
(* local handle of the guest names a live host reference, the guest's      *)
(* frames and ART's stay in step, Java gets the object a native method     *)
(* returned and the exception it left pending, and a thread leaves no      *)
(* guest JNIEnv behind (call_native, PopLocalFrame, DetachCurrentThread).  *)
(***************************************************************************)
FramesSafe ==
    /\ [](table = "frames" => /\ Frames!TypeOK /\ Frames!HandlesAlive /\ Frames!FramesBalanced
                              /\ Frames!ResultReceived /\ Frames!GuestEnvFreed)
    /\ Frames!ExceptionKept

(***************************************************************************)
(* A thunk Java can reach dispatches to the function it was bound with,    *)
(* after any unregistration, failed or second registration; every slot has *)
(* one owner; and JNI_OnLoad runs, and a load reports ok, only with every  *)
(* native of the exports bound (NativeSlots, JniLoader::load).             *)
(***************************************************************************)
NativesSafe ==
    table = "natives" =>
        Bindings!TypeOK /\ Bindings!ThunksDispatch /\ Bindings!SlotsConserved /\ Bindings!LoadComplete

(***************************************************************************)
(* Threads that ask for one buffer's address get the one block that is     *)
(* copied back; the bytes and references counted are those of the mirrors  *)
(* there are, and pass the cap only by a race; a guest block is left       *)
(* behind, uncounted, only by a race or a dropped mirror; and a flush      *)
(* gives Java what the guest wrote in the buffers Java still has, and      *)
(* writes to no other memory (mirror_direct_buffer, flush_buffer_mirrors). *)
(***************************************************************************)
MirrorsSafe ==
    /\ [](table = "mirrors" => Mirrors!TypeOK /\ Mirrors!MirrorsCounted /\ Mirrors!OneMirror)
    /\ Mirrors!FlushExact
    /\ Mirrors!CapPassedByRace
    /\ Mirrors!BlocksLeft

(***************************************************************************)
(* The guest finds every argument where its calling convention puts it,    *)
(* Java finds the result where its own does, and the values of Java calls  *)
(* and fields cross unchanged (marshal_native_args, store_native_result,   *)
(* value_from_bits, bits_from_value).                                      *)
(***************************************************************************)
ValuesArrive ==
    table = "marshal" => Marshal!ArgsArrive /\ Marshal!ResultArrives /\ Marshal!ValuesSurvive

(***************************************************************************)
(* decode_jni_export reads back the class, method and arguments a symbol   *)
(* was made from and accepts no symbol a mangler would not have written;   *)
(* shorty_from_signature accepts exactly the method signatures, those      *)
(* built from reflected types included (jni_method_descriptor).            *)
(***************************************************************************)
NamesExact ==
    table = "names" =>
        Names!NamesRoundTrip /\ Names!OnlyCanonical /\ Names!ShortyExact /\ Names!ReflectedExact

Symmetry == Permutations(Threads)
=============================================================================
