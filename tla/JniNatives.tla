----------------------------- MODULE JniNatives -----------------------------
(***************************************************************************)
(* How native methods are bound and called: the slots of the thunk pool    *)
(* (NativeSlots, core/src/jni/native_thunks.cpp), register_native and      *)
(* RegisterNatives (host_jni_natives.cpp), the loading of a library with   *)
(* its exports and JNI_OnLoad (JniLoader::load, loader.cpp) and the        *)
(* dispatch of a call of Java.                                             *)
(*                                                                         *)
(* A library is a sequence of exports: [kind, methods, fn], where a        *)
(* "natives" export without methods is one that matches no declared        *)
(* native.  A table of RegisterNatives is a sequence of [method, fn],      *)
(* where the method Malformed has a malformed signature.                   *)
(***************************************************************************)
EXTENDS Integers, Sequences, SequencesExt, FiniteSets

CONSTANTS Loaders, Callers,   \* threads that bind natives, threads of Java that call them
          Methods, Malformed,
          Capacity,           \* slots of the thunk pool
          Libraries, Tables

VARIABLES count_, released_, targets_, ready_,
          bound,              \* ART: the thunk of every method
          work,               \* what every loader does
          made,               \* history: what ART bound for the library a loader loads
          taken_slots,        \* history: slots ART has seen
          calling,            \* the call of every caller
          dead                \* the process has aborted

nativesVars == <<count_, released_, targets_, ready_, bound, work, made, taken_slots, calling, dead>>
poolVars == <<count_, released_, targets_, ready_>>

Slots == 0..Capacity - 1
Unbound == [slot |-> -1, fn |-> 0]
Idle == [at |-> "idle", from |-> "none", library |-> <<>>, exports |-> <<>>, has_onload |-> FALSE, todo |-> <<>>,
         slot |-> -1, bound_methods |-> 0, skipped |-> 0, ok |-> FALSE]
NoCall == [at |-> "idle", slot |-> -1, fn |-> 0]

Init ==
    /\ count_ = 0
    /\ released_ = <<>>
    /\ targets_ = [s \in Slots |-> 0]
    /\ ready_ = [s \in Slots |-> FALSE]
    /\ bound = [m \in Methods |-> Unbound]
    /\ work = [t \in Loaders |-> Idle]
    /\ made = [t \in Loaders |-> {}]
    /\ taken_slots = {}
    /\ calling = [c \in Callers |-> NoCall]
    /\ dead = FALSE

Goes(t, fields) == work' = [work EXCEPT ![t] = fields @@ @]
At(t, place) == ~dead /\ work[t].at = place
Free(t) == ~dead /\ work[t].at \in {"idle", "done"}

-----------------------------------------------------------------------------
(* JniLoader::load.                                                         *)

Load(t, library) ==
    /\ Free(t)
    /\ work' = [work EXCEPT ![t] = [Idle EXCEPT !.at = "open", !.from = "export", !.library = library,
                                                !.exports = library]]
    /\ made' = [made EXCEPT ![t] = {}]
    /\ UNCHANGED <<poolVars, bound, taken_slots, calling, dead>>

Fails(t) == Goes(t, [at |-> "done", ok |-> FALSE, exports |-> <<>>])

\* loader_operation: dlopen or dlsym in the guest, on a string it allocates there
\* and frees again whatever the outcome.
LoaderOperation(t, next) == Goes(t, next) \/ Fails(t)

\* scan_elf32_jni_exports, then guest dlopen.
Open(t) ==
    /\ At(t, "open")
    /\ LoaderOperation(t, [at |-> "export"])
    /\ UNCHANGED <<poolVars, bound, made, taken_slots, calling, dead>>

Skipped == {"missing", "unresolvable"}
Refused == {"malformed", "failed"}

\* One export of the list.
Export(t) ==
    LET export == Head(work[t].exports)
        rest == Tail(work[t].exports)
    IN  /\ At(t, "export") /\ work[t].exports # <<>>
        /\ CASE export.kind = "onload" -> Goes(t, [has_onload |-> TRUE, exports |-> rest])
             [] export.kind \in Refused -> Fails(t)
             [] export.kind \in Skipped \/ (export.kind = "natives" /\ export.methods = <<>>) ->
                  Goes(t, [skipped |-> work[t].skipped + 1, exports |-> rest])
             [] OTHER ->          \* guest dlsym
                  LoaderOperation(t, [at |-> "register", exports |-> rest,
                                      todo |-> [i \in DOMAIN export.methods |->
                                                  [method |-> export.methods[i], fn |-> export.fn]]])
        /\ UNCHANGED <<poolVars, bound, made, taken_slots, calling, dead>>

OnLoadNow(t) == work[t].exports = <<>> /\ work[t].has_onload

\* After the exports; guest dlsym of JNI_OnLoad may fail.
AllBound(t) ==
    /\ At(t, "export")
    /\ \/ OnLoadNow(t) /\ LoaderOperation(t, [at |-> "onload", has_onload |-> FALSE])
       \/ work[t].exports = <<>> /\ ~work[t].has_onload /\ Goes(t, [at |-> "done", ok |-> TRUE])
    /\ UNCHANGED <<poolVars, bound, made, taken_slots, calling, dead>>

\* JNI_OnLoad returns a supported version, or an unsupported one, an exception
\* or nothing.
OnLoadReturns(t) ==
    /\ At(t, "onload")
    /\ Goes(t, [at |-> "export"]) \/ Fails(t)
    /\ UNCHANGED <<poolVars, bound, made, taken_slots, calling, dead>>

-----------------------------------------------------------------------------
(* NativeSlots and register_native.                                         *)

allocated_slot == IF released_ # <<>> THEN Last(released_) ELSE IF count_ < Capacity THEN count_ ELSE -1

\* Mistake: a reused entry keeps its target.
allocate_stale(fn) ==
    /\ released_' = IF released_ # <<>> THEN Front(released_) ELSE released_
    /\ count_' = IF released_ # <<>> THEN count_ ELSE count_ + 1
    /\ targets_' = IF released_ # <<>> THEN targets_ ELSE [targets_ EXCEPT ![allocated_slot] = fn]
    /\ ready_' = [ready_ EXCEPT ![allocated_slot] = TRUE]

allocate(fn) ==
    /\ released_' = IF released_ # <<>> THEN Front(released_) ELSE released_
    /\ count_' = IF released_ # <<>> THEN count_ ELSE count_ + 1
    /\ targets_' = [targets_ EXCEPT ![allocated_slot] = fn]
    /\ ready_' = [ready_ EXCEPT ![allocated_slot] = TRUE]

Allocated(slot) == slot < count_ /\ ready_[slot]

release(slot) ==
    IF Allocated(slot)
      THEN /\ ready_' = [ready_ EXCEPT ![slot] = FALSE]
           /\ released_' = Append(released_, slot)
           /\ UNCHANGED <<count_, targets_, dead>>
      ELSE dead' = TRUE /\ UNCHANGED poolVars

\* After the last method, or the first register_native that failed: the load goes
\* on or stops, RegisterNatives returns 0 or -1 to its caller.
Returns(t, failed) ==
    LET next == CASE work[t].from = "export" -> IF failed THEN [at |-> "done", exports |-> <<>>] ELSE [at |-> "export"]
                  [] work[t].from = "onload" -> [at |-> "onload", from |-> "export"]
                  [] OTHER -> Idle
    IN  Goes(t, next @@ [todo |-> <<>>, slot |-> -1])

Register(t) ==
    /\ At(t, "register") /\ work[t].todo # <<>>
    /\ IF Head(work[t].todo).method = Malformed \/ allocated_slot < 0
         THEN Returns(t, TRUE) /\ UNCHANGED poolVars
         ELSE Goes(t, [at |-> "backend", slot |-> allocated_slot]) /\ allocate(Head(work[t].todo).fn)
    /\ UNCHANGED <<bound, made, taken_slots, calling, dead>>

\* backend.register_native: ART binds the method to the thunk.
BackendBinds(t) ==
    LET m == Head(work[t].todo).method
        fn == Head(work[t].todo).fn
    IN  /\ At(t, "backend")
        /\ bound' = [bound EXCEPT ![m] = [slot |-> work[t].slot, fn |-> fn]]
        /\ taken_slots' = taken_slots \union {work[t].slot}
        /\ made' = IF work[t].from = "export" THEN [made EXCEPT ![t] = @ \union {<<m, fn>>}] ELSE made
        /\ Goes(t, [at |-> "register", todo |-> Tail(work[t].todo), slot |-> -1,
                    bound_methods |-> work[t].bound_methods + (IF work[t].from = "export" THEN 1 ELSE 0)])
        /\ UNCHANGED <<poolVars, calling, dead>>

BackendRefuses(t) ==
    /\ At(t, "backend")
    /\ Goes(t, [at |-> "release"])
    /\ UNCHANGED <<poolVars, bound, made, taken_slots, calling, dead>>

GivesBack(t) == release(work[t].slot)

Release(t) ==
    /\ At(t, "release")
    /\ GivesBack(t)
    /\ Returns(t, TRUE)
    /\ UNCHANGED <<bound, made, taken_slots, calling>>

\* Every method of the export or of the table is bound.
Registered(t) ==
    /\ At(t, "register") /\ work[t].todo = <<>>
    /\ Returns(t, FALSE)
    /\ UNCHANGED <<poolVars, bound, made, taken_slots, calling, dead>>

\* The guest calls RegisterNatives, from JNI_OnLoad or from any native code.
RegisterNatives(t, table) ==
    /\ \/ Free(t) /\ work' = [work EXCEPT ![t] = [Idle EXCEPT !.at = "register", !.from = "table", !.todo = table]]
       \/ At(t, "onload") /\ Goes(t, [at |-> "register", from |-> "onload", todo |-> table])
    /\ UNCHANGED <<poolVars, bound, made, taken_slots, calling, dead>>

\* UnregisterNatives of the class of the methods: the slots stay allocated.
UnregisterNatives(t) ==
    /\ Free(t) \/ At(t, "onload")
    /\ bound' = [m \in Methods |-> Unbound]
    /\ UNCHANGED <<poolVars, work, made, taken_slots, calling, dead>>

-----------------------------------------------------------------------------
(* A call of a native method of Java.                                       *)

\* ART reads the method's entry point; an unbound method throws
\* UnsatisfiedLinkError and reaches no thunk.
Enter(c, m) ==
    /\ ~dead /\ calling[c].at = "idle" /\ bound[m] # Unbound
    /\ calling' = [calling EXCEPT ![c] = [at |-> "thunk", slot |-> bound[m].slot, fn |-> bound[m].fn]]
    /\ UNCHANGED <<poolVars, bound, work, made, taken_slots, dead>>

\* dispatch_native: a slot without a target aborts the process.
Dispatch(c) ==
    /\ ~dead /\ calling[c].at = "thunk"
    /\ dead' = ~Allocated(calling[c].slot)
    /\ calling' = [calling EXCEPT ![c].at = IF dead' THEN "thunk" ELSE "call"]
    /\ UNCHANGED <<poolVars, bound, work, made, taken_slots>>

\* call_native reads the target's function, and the call ends.
Call(c) ==
    /\ ~dead /\ calling[c].at = "call"
    /\ calling' = [calling EXCEPT ![c] = NoCall]
    /\ UNCHANGED <<poolVars, bound, work, made, taken_slots, dead>>

Next ==
    \/ \E t \in Loaders :
         \/ Open(t) \/ Export(t) \/ AllBound(t) \/ OnLoadReturns(t)
         \/ Register(t) \/ BackendBinds(t) \/ BackendRefuses(t) \/ Release(t) \/ Registered(t)
         \/ UnregisterNatives(t)
         \/ \E library \in Libraries : Load(t, library)
         \/ \E table \in Tables : RegisterNatives(t, table)
    \/ \E c \in Callers : Dispatch(c) \/ Call(c) \/ \E m \in Methods : Enter(c, m)

-----------------------------------------------------------------------------
\* Thunk slots, bindings and loads under way have their types.
TypeOK ==
    /\ count_ \in 0..Capacity
    /\ \A s \in Slots : ready_[s] => s < count_
    /\ IsInjective(released_)
    /\ \A m \in Methods : bound[m] = Unbound \/ bound[m].slot \in Slots

\* A thunk that Java can reach, by a method's entry point or by a call already on
\* its way, belongs to the function it was bound with (dispatch_native), also after
\* UnregisterNatives, a failed registration or a second registration; neither
\* dispatch nor release meets a slot that aborts the process.
ThunksDispatch ==
    LET reachable == {bound[m] : m \in Methods} \union {[slot |-> calling[c].slot, fn |-> calling[c].fn] : c \in Callers}
    IN  ~dead /\ \A thunk \in reachable \ {Unbound} : Allocated(thunk.slot) /\ targets_[thunk.slot] = thunk.fn

\* A slot of the pool has exactly one owner: the free list, one register_native
\* that has not returned, or ART, which keeps what it was ever given; so a refused
\* registration costs no slot (register_native, NativeSlots::release).
SlotsConserved ==
    \A s \in 0..count_ - 1 :
        LET free == {i \in DOMAIN released_ : released_[i] = s}
            busy == {t \in Loaders : work[t].slot = s}
        IN  Cardinality(free) + Cardinality(busy) + (IF s \in taken_slots THEN 1 ELSE 0) = 1

\* JNI_OnLoad runs, and a load reports ok, only when every declared native of every
\* export is bound, each to its export's function, and the report counts them
\* (JniLoader::load).
LoadComplete ==
    \A t \in Loaders :
        LET natives == {e \in ToSet(work[t].library) : e.kind = "natives"}
        IN  work[t].at = "onload" \/ work[t].ok =>
              /\ made[t] = UNION {{<<m, e.fn>> : m \in ToSet(e.methods)} : e \in natives}
              /\ work[t].bound_methods = Cardinality(made[t])

=============================================================================
