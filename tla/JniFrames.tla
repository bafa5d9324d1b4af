------------------------------ MODULE JniFrames ------------------------------
(***************************************************************************)
(* One host thread that runs Java and guest code in turn: native methods   *)
(* (call_native, core/src/jni/host_jni.cpp; dispatch_native,               *)
(* host_jni_natives.cpp), the local frames the guest pushes                *)
(* (host_jni_objects.cpp) and attachment (serve_vm, host_jni_vm.cpp).      *)
(*                                                                         *)
(* A host reference is a pair of a number, used once, and the number of    *)
(* the first reference to its object.  A handle stands for the reference   *)
(* it names (LocalHandles has the handles).  The bridge is ready before a  *)
(* native method can be bound.                                             *)
(***************************************************************************)
EXTENDS Integers, Sequences, SequencesExt, FiniteSets

CONSTANTS MaxRefs,      \* bound: references made
          MaxDepth,     \* bound: native calls open at once
          MaxUserFrames \* bound: frames the guest has pushed in one native call

VARIABLES root,         \* "java" or "guest": what the thread was started as
          running,      \* "java", "guest" or "ended"
          state,        \* JniThread
          locals,       \* state.locals: references of the handles of each frame
          calls,        \* what the open call_natives keep in C++ variables
          host,         \* ART: live local references of each frame
          pending,      \* ART: pending exception
          guest_envs,   \* guest JNIEnvs allocated and not freed
          refs_made,
          received,     \* what the last native method gave Java, and should have
          aborted

framesVars == <<root, running, state, locals, calls, host, pending, guest_envs, refs_made, received, aborted>>

NoThread == [env |-> FALSE, guest_env |-> FALSE, attached |-> FALSE, native_depth |-> 0,
             user_frames |-> 0, carrier |-> FALSE]
NoRef == <<0, 0>>
Fresh == <<refs_made + 1, refs_made + 1>>
None == "none"

Init ==
    /\ root \in {"java", "guest"}
    /\ running = root
    /\ state = NoThread
    /\ locals = <<>>
    /\ calls = <<>>
    /\ host = IF root = "java" THEN <<{}>> ELSE <<>>
    /\ pending = None
    /\ guest_envs = 0
    /\ refs_made = 0
    /\ received = [got |-> 0, want |-> 0]
    /\ aborted = FALSE

-----------------------------------------------------------------------------
Put(frames, ref) == [frames EXCEPT ![Len(frames)] = @ \cup {ref}]
Pop(frames) == SubSeq(frames, 1, Len(frames) - 1)
Live(frames) == UNION Range(frames)

\* LocalHandles::add opens a base frame.
AddLocal(frames, ref) == Put(IF frames = <<>> THEN <<{}>> ELSE frames, ref)

\* ART's PopLocalFrame: a new reference to the result in the frame below.
PopHost(frames, ref, id) == IF ref = NoRef THEN Pop(frames) ELSE Put(Pop(frames), <<id, ref[2]>>)

\* ensure_guest_env allocates through invoke.
EnsureGuestEnv(s) == IF s.guest_env THEN s ELSE [s EXCEPT !.guest_env = TRUE, !.carrier = (root = "java")]
EnvsAfter(s) == IF s.guest_env THEN guest_envs ELSE guest_envs + 1

Step(who) == ~aborted /\ running = who

\* call_native up to the guest function.  ART has pushed a frame of arguments.
CallNative ==
    /\ Step("java") /\ pending = None
    /\ Len(calls) < MaxDepth /\ refs_made < MaxRefs
    /\ LET argument == Fresh
           entered == EnsureGuestEnv(state)
       IN  /\ state' = [entered EXCEPT !.env = TRUE, !.native_depth = @ + 1, !.user_frames = 0]
           /\ guest_envs' = EnvsAfter(state)
           /\ calls' = Append(calls, [outer_env |-> state.env, outer_user_frames |-> state.user_frames])
           /\ locals' = Append(locals, {argument})
           /\ host' = host \o <<{argument}, {}>>
    /\ refs_made' = refs_made + 1
    /\ running' = "guest"
    /\ received' = [got |-> 0, want |-> 0]
    /\ UNCHANGED <<root, pending, aborted>>

\* The guest JNIEnv cannot be allocated: dispatch_native has no exception to
\* report.
CallNativeNoEnv ==
    /\ Step("java") /\ pending = None /\ ~state.guest_env
    /\ aborted' = TRUE
    /\ UNCHANGED <<root, running, state, locals, calls, host, pending, guest_envs, refs_made, received>>

\* ART refuses the frame with an exception; the native method returns zero.
CallNativeRefused ==
    /\ Step("java") /\ pending = None
    /\ state' = EnsureGuestEnv(state)
    /\ guest_envs' = EnvsAfter(state)
    /\ pending' = "refused"
    /\ UNCHANGED <<root, running, locals, calls, host, refs_made, received, aborted>>

-----------------------------------------------------------------------------
\* Mistake: frames the guest left open are left to the next pop.
LeaveUserFrames == 1

\* call_native pops the frames the guest left open, then its own.
FramesToPop == state.user_frames + 1

\* Every pop_local_frame is given the result and answers its new reference.
PassedOn(kept) == kept

\* The guest's exception is taken away for flush_buffer_mirrors and thrown again.
AfterFlush(raised) == IF pending # None THEN pending ELSE IF raised THEN "flush" ELSE None

\* The rest of call_native; the guest returned kept or, failing, nothing.
Leave(kept, raised) ==
    LET left == Len(host) - FramesToPop
        popped == PopHost(SubSeq(host, 1, left + 1), PassedOn(kept), refs_made + 1)
        open == calls[Len(calls)]
    IN  /\ locals' = SubSeq(locals, 1, Len(locals) - FramesToPop)
        /\ host' = Pop(popped)
        /\ refs_made' = IF kept = NoRef THEN refs_made ELSE refs_made + 1
        /\ received' = [want |-> kept[2],
                        got |-> IF kept = NoRef THEN kept[2]
                                ELSE IF <<refs_made + 1, kept[2]>> \in popped[Len(popped)] THEN kept[2]
                                ELSE -1]
        /\ pending' = AfterFlush(raised)
        /\ state' = [state EXCEPT !.user_frames = open.outer_user_frames, !.native_depth = @ - 1,
                                  !.env = open.outer_env]
        /\ calls' = Pop(calls)
        /\ UNCHANGED <<root, guest_envs>>

\* The result of a native method is a valid handle or null.
GuestReturns(kept) ==
    /\ Step("guest") /\ calls # <<>>
    /\ kept \in Live(locals) \cup {NoRef}
    /\ kept = NoRef \/ refs_made < MaxRefs
    /\ \E raised \in BOOLEAN : Leave(kept, raised)
    /\ running' = "java"
    /\ UNCHANGED aborted

\* The guest call failed: dispatch_native returns zero with the exception
\* pending and ends the process without one.
GuestFails ==
    /\ Step("guest") /\ calls # <<>>
    /\ \E raised \in BOOLEAN : Leave(NoRef, raised)
    /\ running' = "java"
    /\ aborted' = (pending' = None)

-----------------------------------------------------------------------------
(* JNI calls of the guest.  JniCall::env ends the process on a thread that  *)
(* has no JNIEnv.                                                           *)

NewRef ==
    /\ Step("guest") /\ state.env /\ pending = None /\ refs_made < MaxRefs
    /\ host' = Put(host, Fresh)
    /\ locals' = AddLocal(locals, Fresh)
    /\ refs_made' = refs_made + 1
    /\ UNCHANGED <<root, running, state, calls, pending, guest_envs, received, aborted>>

\* ART deletes a reference of the top frame only.
DeleteLocalRef(ref) ==
    /\ Step("guest") /\ state.env /\ ref \in Live(locals)
    /\ locals' = [i \in DOMAIN locals |-> locals[i] \ {ref}]
    /\ host' = [host EXCEPT ![Len(host)] = @ \ {ref}]
    /\ UNCHANGED <<root, running, state, calls, pending, guest_envs, refs_made, received, aborted>>

PushLocalFrame ==
    /\ Step("guest") /\ state.env /\ pending = None /\ state.user_frames < MaxUserFrames
    /\ host' = Append(host, {})
    /\ locals' = Append(locals, {})
    /\ state' = [state EXCEPT !.user_frames = @ + 1]
    /\ UNCHANGED <<root, running, calls, pending, guest_envs, refs_made, received, aborted>>

PushRefused ==
    /\ Step("guest") /\ state.env /\ pending = None
    /\ pending' = "refused"
    /\ UNCHANGED <<root, running, state, locals, calls, host, guest_envs, refs_made, received, aborted>>

MayPop == state.user_frames > 0

PopLocalFrame(ref) ==
    /\ Step("guest") /\ state.env /\ MayPop
    /\ ref \in Live(locals) \cup {NoRef}
    /\ ref = NoRef \/ refs_made < MaxRefs
    /\ host' = PopHost(host, ref, refs_made + 1)
    /\ locals' = IF ref = NoRef THEN Pop(locals) ELSE AddLocal(Pop(locals), <<refs_made + 1, ref[2]>>)
    /\ refs_made' = IF ref = NoRef THEN refs_made ELSE refs_made + 1
    /\ state' = [state EXCEPT !.user_frames = @ - 1]
    /\ UNCHANGED <<root, running, calls, pending, guest_envs, received, aborted>>

PopUnmatched ==
    /\ Step("guest") /\ state.env /\ ~MayPop
    /\ aborted' = TRUE
    /\ UNCHANGED <<root, running, state, locals, calls, host, pending, guest_envs, refs_made, received>>

Throw ==
    /\ Step("guest") /\ state.env /\ pending = None
    /\ pending' = "thrown"
    /\ UNCHANGED <<root, running, state, locals, calls, host, guest_envs, refs_made, received, aborted>>

ExceptionClear ==
    /\ Step("guest") /\ state.env /\ pending # None
    /\ pending' = None
    /\ UNCHANGED <<root, running, state, locals, calls, host, guest_envs, refs_made, received, aborted>>

CallMethodA ==
    /\ Step("guest") /\ state.env /\ pending = None
    /\ running' = "java"
    /\ UNCHANGED <<root, state, locals, calls, host, pending, guest_envs, refs_made, received, aborted>>

\* Java returns to the guest that called it; an object it returns becomes a local handle.
MethodReturns(with_object) ==
    /\ Step("java") /\ (root = "guest" \/ calls # <<>>)
    /\ running' = "guest"
    /\ IF ~with_object
       THEN /\ pending' \in {pending, "thrown"}
            /\ UNCHANGED <<locals, host, refs_made>>
       ELSE /\ pending = None /\ refs_made < MaxRefs
            /\ host' = Put(host, Fresh)
            /\ locals' = AddLocal(locals, Fresh)
            /\ refs_made' = refs_made + 1
            /\ UNCHANGED pending
    /\ UNCHANGED <<root, state, calls, guest_envs, received, aborted>>

JavaCatches ==
    /\ Step("java") /\ pending # None
    /\ pending' = None
    /\ UNCHANGED <<root, running, state, locals, calls, host, guest_envs, refs_made, received, aborted>>

-----------------------------------------------------------------------------
(* Attachment.                                                              *)

\* A thread that has a JNIEnv keeps it; ART may refuse the others.
AttachCurrentThread ==
    /\ Step("guest")
    /\ LET entered == EnsureGuestEnv(state)
       IN  state' = IF state.env THEN entered ELSE [entered EXCEPT !.env = TRUE, !.attached = TRUE]
    /\ host' = IF state.env THEN host ELSE <<{}>>
    /\ guest_envs' = EnvsAfter(state)
    /\ UNCHANGED <<root, running, locals, calls, pending, refs_made, received, aborted>>

\* ART refuses, or the guest JNIEnv cannot be allocated and the thread is
\* detached again.
AttachFails ==
    /\ Step("guest") /\ ~state.guest_env /\ ~state.env
    /\ UNCHANGED framesVars

MayDetach == state.attached /\ state.native_depth = 0

\* free_env_fn, on this guest thread or on the carrier.
FreeEnv == IF state.guest_env THEN guest_envs - 1 ELSE guest_envs

\* Refused without MayDetach; the frames go with ART's.
DetachCurrentThread ==
    /\ Step("guest") /\ MayDetach
    /\ host' = <<>>
    /\ pending' = None
    /\ locals' = <<>>
    /\ guest_envs' = FreeEnv
    /\ state' = [state EXCEPT !.user_frames = 0, !.guest_env = FALSE, !.env = FALSE, !.attached = FALSE]
    /\ UNCHANGED <<root, running, calls, refs_made, received, aborted>>

\* ~JniThread: a Java thread frees its guest JNIEnv on its carrier.
ThreadEnds ==
    /\ ~aborted /\ running = root /\ calls = <<>> /\ ~state.attached
    /\ running' = "ended"
    /\ guest_envs' = IF state.carrier THEN FreeEnv ELSE guest_envs
    /\ state' = [state EXCEPT !.guest_env = @ /\ ~state.carrier]
    /\ UNCHANGED <<root, locals, calls, host, pending, refs_made, received, aborted>>

References == (1..MaxRefs) \X (1..MaxRefs)

Next ==
    \/ CallNative \/ NewRef \/ CallNativeNoEnv \/ CallNativeRefused \/ GuestFails
    \/ \E r \in References \cup {NoRef} : GuestReturns(r) \/ PopLocalFrame(r)
    \/ \E r \in References : DeleteLocalRef(r)
    \/ PushLocalFrame \/ PushRefused \/ PopUnmatched
    \/ Throw \/ ExceptionClear \/ CallMethodA \/ MethodReturns(TRUE) \/ MethodReturns(FALSE) \/ JavaCatches
    \/ AttachCurrentThread \/ AttachFails \/ DetachCurrentThread \/ ThreadEnds

-----------------------------------------------------------------------------
\* The frames of both sides and the calls of the thread have their types.
TypeOK ==
    /\ state.native_depth \in 0..MaxDepth /\ state.user_frames \in 0..MaxUserFrames
    /\ locals \in Seq(SUBSET References) /\ host \in Seq(SUBSET References)
    /\ refs_made \in 0..MaxRefs /\ guest_envs \in 0..1

(***************************************************************************)
(* Every handle of the guest names a host reference that is still alive:   *)
(* whatever frames were pushed, popped, left open or refused in nested     *)
(* native calls, ART frees a reference no sooner than its handle dies.     *)
(***************************************************************************)
HandlesAlive == ~aborted => Live(locals) \subseteq Live(host)

(***************************************************************************)
(* call_native, PushLocalFrame and PopLocalFrame keep the two stacks of    *)
(* frames in step: ART has, above its base frame, two frames for every     *)
(* open native call and one for every frame the guest has pushed, and when *)
(* no native call is open the thread has no JNIEnv but an attached one.    *)
(***************************************************************************)
FramesBalanced ==
    LET saved[i \in 0..Len(calls)] ==
            IF i = 0 THEN 0 ELSE saved[i - 1] + calls[i].outer_user_frames
        pushed == saved[Len(calls)] + state.user_frames
    IN  ~aborted =>
        /\ state.native_depth = Len(calls)
        /\ host # <<>> => Len(host) = 1 + 2 * Len(calls) + pushed
        /\ Len(locals) - (Len(calls) + pushed) \in IF root = "java" THEN {0} ELSE {0, 1}
        /\ calls = <<>> => state.env = state.attached
        /\ state.env => host # <<>> /\ state.guest_env

(***************************************************************************)
(* The object a native method returns is the one Java gets, though its     *)
(* reference was made in frames that call_native pops.                     *)
(***************************************************************************)
ResultReceived == received.got = received.want

(***************************************************************************)
(* An exception the guest left pending is the one Java sees when the       *)
(* native method returns: the flush of the direct buffers neither loses    *)
(* nor replaces it.                                                        *)
(***************************************************************************)
ExceptionKept ==
    [][Len(calls') < Len(calls) /\ pending # None => pending' = pending]_framesVars

(***************************************************************************)
(* A thread has one guest JNIEnv at most, and one that ends or detaches    *)
(* leaves none behind.                                                     *)
(***************************************************************************)
GuestEnvFreed ==
    /\ guest_envs = IF state.guest_env THEN 1 ELSE 0
    /\ (running = "ended" \/ (running = "guest" /\ ~state.env)) => guest_envs = 0
=============================================================================
