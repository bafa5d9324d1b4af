------------------------- MODULE GuestThreadProofs --------------------------
(***************************************************************************)
(* Two lock-free protocols over the guest threads.  SignalTarget: a        *)
(* forwarding handler never holds a freed GuestThread, for any number of   *)
(* host threads, guest threads and nested handlers.  HangWatchdog: what a  *)
(* sample says of a thread is true, for any number of threads and slots.   *)
(***************************************************************************)
EXTENDS SignalTarget, HangWatchdog, FiniteSetTheorems, TLAPS

(***************************************************************************)
(* The inductive invariant.                                                *)
(***************************************************************************)

\* A host thread owns a live GuestThread, and no two own the same one.
Ownership ==
    \A h \in Hosts : pc[h] # "idle" =>
        /\ mine[h] \in alive
        /\ \A g \in Hosts : g # h /\ pc[g] # "idle" => mine[g] # mine[h]

\* Only the owner names a thread, and only between thread_loop and retirement.
Naming ==
    \A h \in Hosts : current[h] # None =>
        pc[h] \in {"run", "clear", "wait", "cleared"} /\ current[h] = mine[h]

\* The target is a main thread whose owner has not reached the exchange.
Publication ==
    target # None => \E h \in Hosts :
        main[h] /\ mine[h] = target /\ pc[h] \in {"start", "run", "clear"}

\* Only a main thread ever waits for the readers.
Waiting == \A h \in Hosts : pc[h] = "wait" => main[h]

\* A handler on the fast path holds the thread its own host thread names.
FastPath ==
    \A h \in Hosts, d \in 1..MaxNest : at[<<h, d>>] = "fast" =>
        current[h] # None /\ got[<<h, d>>] = current[h]

\* A reader holds the published target or one whose owner waits for it.
SlowPath ==
    \A s \in Slots : at[s] = "loaded" =>
        /\ got[s] # None
        /\ got[s] = target \/ \E h \in Hosts : pc[h] = "wait" /\ mine[h] = got[s]

\* The counter counts the readers.
Counter == readers = Cardinality(Counting)

IInv ==
    /\ TargetTypeOK
    /\ Ownership
    /\ Naming
    /\ Publication
    /\ Waiting
    /\ FastPath
    /\ SlowPath
    /\ Counter

-----------------------------------------------------------------------------
(***************************************************************************)
(* There are finitely many handler invocations, so they can be counted.    *)
(***************************************************************************)
LEMMA CountingFinite ==
    /\ IsFiniteSet(Slots)
    /\ IsFiniteSet(Counting)
<1>1. IsFiniteSet(1..MaxNest)
    BY SignalTargetAssumption, FS_Interval
<1>2. IsFiniteSet(Slots)
    BY <1>1, SignalTargetAssumption, FS_Product DEF Slots
<1>3. Counting \in SUBSET Slots
    BY DEF Counting
<1> QED
    BY <1>2, <1>3, FS_Subset

LEMMA InitIInv == TargetInit => IInv
<1> SUFFICES ASSUME TargetInit PROVE IInv
    OBVIOUS
<1>1. TargetTypeOK
    BY DEF TargetInit, TargetTypeOK, PCs
<1>2. Counting = {}
    BY DEF TargetInit, Counting
<1>3. Counter
    BY <1>2, FS_EmptySet DEF TargetInit, Counter
<1>4. \A h \in Hosts, d \in 1..MaxNest : <<h, d>> \in Slots
    BY DEF Slots
<1>5. FastPath
    BY <1>4 DEF TargetInit, FastPath
<1> QED
    BY <1>1, <1>3, <1>5 DEF TargetInit, IInv, Ownership, Naming, Publication, Waiting, SlowPath

-----------------------------------------------------------------------------
(***************************************************************************)
(* forward_host_signal preserves the invariant.                            *)
(***************************************************************************)
LEMMA EnterIInv ==
    ASSUME IInv, NEW h \in Hosts, NEW d \in 1..MaxNest, Enter(h, d)
    PROVE  IInv'
<1> USE DEF IInv
<1>0. <<h, d>> \in Slots /\ IsFiniteSet(Counting)
    BY CountingFinite DEF Slots
<1>1. TargetTypeOK'
    BY <1>0 DEF TargetTypeOK, Enter
<1>2. (Ownership /\ Naming /\ Publication /\ Waiting)'
    BY DEF Enter, Ownership, Naming, Publication, Waiting
<1>3. FastPath'
    <2> SUFFICES ASSUME NEW g \in Hosts, NEW e \in 1..MaxNest, at'[<<g, e>>] = "fast"
                 PROVE  current[g] # None /\ got'[<<g, e>>] = current[g]
        BY DEF FastPath, Enter
    <2>1. <<g, e>> \in Slots
        BY DEF Slots
    <2> QED
        BY <1>0, <2>1 DEF TargetTypeOK, FastPath, Enter
<1>4. SlowPath'
    BY <1>0 DEF TargetTypeOK, SlowPath, Enter
<1>5. Counter'
    <2>1. CASE current[h] # None
        <3>1. Counting' = Counting
            BY <1>0, <2>1 DEF TargetTypeOK, Counting, Enter
        <3> QED
            BY <2>1, <3>1 DEF Counter, Enter
    <2>2. CASE current[h] = None
        <3>1. Counting' = Counting \cup {<<h, d>>} /\ <<h, d>> \notin Counting
            BY <1>0, <2>2 DEF TargetTypeOK, Counting, Enter
        <3>2. Cardinality(Counting') = Cardinality(Counting) + 1
            BY <1>0, <3>1, FS_AddElement
        <3> QED
            BY <2>2, <3>2 DEF Counter, Enter
    <2> QED
        BY <2>1, <2>2
<1> QED
    BY <1>1, <1>2, <1>3, <1>4, <1>5

LEMMA LoadIInv ==
    ASSUME IInv, NEW h \in Hosts, NEW d \in 1..MaxNest, Load(h, d)
    PROVE  IInv'
<1> USE DEF IInv
<1>0. <<h, d>> \in Slots
    BY DEF Slots
<1>1. TargetTypeOK'
    BY <1>0 DEF TargetTypeOK, Load
<1>2. (Ownership /\ Naming /\ Publication /\ Waiting)'
    BY DEF Load, Ownership, Naming, Publication, Waiting
<1>3. FastPath'
    <2> SUFFICES ASSUME NEW g \in Hosts, NEW e \in 1..MaxNest, at'[<<g, e>>] = "fast"
                 PROVE  current[g] # None /\ got'[<<g, e>>] = current[g]
        BY DEF FastPath, Load
    <2>1. <<g, e>> \in Slots
        BY DEF Slots
    <2> QED
        BY <1>0, <2>1 DEF TargetTypeOK, FastPath, Load
<1>4. SlowPath'
    BY <1>0 DEF TargetTypeOK, SlowPath, Load
<1>5. Counting' = Counting
    BY <1>0 DEF TargetTypeOK, Counting, Load
<1> QED
    BY <1>1, <1>2, <1>3, <1>4, <1>5 DEF Counter, Load

LEMMA PostIInv ==
    ASSUME IInv, NEW h \in Hosts, NEW d \in 1..MaxNest, Post(h, d)
    PROVE  IInv'
<1> USE DEF IInv
<1>0. <<h, d>> \in Slots
    BY DEF Slots
<1>1. TargetTypeOK'
    BY <1>0 DEF TargetTypeOK, Post
<1>2. (Ownership /\ Naming /\ Publication /\ Waiting)'
    BY DEF Post, Ownership, Naming, Publication, Waiting
<1>3. FastPath'
    <2> SUFFICES ASSUME NEW g \in Hosts, NEW e \in 1..MaxNest, at'[<<g, e>>] = "fast"
                 PROVE  current[g] # None /\ got'[<<g, e>>] = current[g]
        BY DEF FastPath, Post
    <2>1. <<g, e>> \in Slots
        BY DEF Slots
    <2> QED
        BY <1>0, <2>1 DEF TargetTypeOK, FastPath, Post
<1>4. SlowPath'
    BY <1>0 DEF TargetTypeOK, SlowPath, Post
<1>5. Counting' = Counting
    BY <1>0 DEF TargetTypeOK, Counting, Post
<1> QED
    BY <1>1, <1>2, <1>3, <1>4, <1>5 DEF Counter, Post

LEMMA LeaveIInv ==
    ASSUME IInv, NEW h \in Hosts, NEW d \in 1..MaxNest, Leave(h, d)
    PROVE  IInv'
<1> USE DEF IInv
<1>0. <<h, d>> \in Slots /\ IsFiniteSet(Counting)
    BY CountingFinite DEF Slots
<1>1. <<h, d>> \in Counting /\ Counting' = Counting \ {<<h, d>>}
    BY <1>0 DEF TargetTypeOK, Counting, Leave
<1>2. Cardinality(Counting') = Cardinality(Counting) - 1
    BY <1>0, <1>1, FS_RemoveElement
<1>3. IsFiniteSet(Counting')
    BY <1>0, <1>1, FS_RemoveElement
<1>4. Cardinality(Counting') \in Nat
    BY <1>3, FS_CardinalityType
<1>5. Counter'
    BY <1>2 DEF Counter, Leave
<1>6. TargetTypeOK'
    BY <1>0, <1>4, <1>5 DEF TargetTypeOK, Counter, Leave
<1>7. (Ownership /\ Naming /\ Publication /\ Waiting)'
    BY DEF Leave, Ownership, Naming, Publication, Waiting
<1>8. FastPath'
    <2> SUFFICES ASSUME NEW g \in Hosts, NEW e \in 1..MaxNest, at'[<<g, e>>] = "fast"
                 PROVE  current[g] # None /\ got[<<g, e>>] = current[g]
        BY DEF FastPath, Leave
    <2>1. <<g, e>> \in Slots
        BY DEF Slots
    <2> QED
        BY <1>0, <2>1 DEF TargetTypeOK, FastPath, Leave
<1>9. SlowPath'
    BY <1>0 DEF TargetTypeOK, SlowPath, Leave
<1> QED
    BY <1>5, <1>6, <1>7, <1>8, <1>9

-----------------------------------------------------------------------------
(***************************************************************************)
(* The normal context preserves the invariant.                             *)
(***************************************************************************)

\* What only depends on the handlers: at, got and readers stay as they are.
LEMMA CounterStable ==
    ASSUME IInv, UNCHANGED <<readers, at>>
    PROVE  Counter'
<1>1. Counting' = Counting
    BY DEF Counting
<1> QED
    BY <1>1 DEF IInv, Counter

LEMMA StartMainIInv ==
    ASSUME IInv, NEW h \in Hosts, NEW t \in Threads, StartMain(h, t)
    PROVE  IInv'
<1> USE DEF IInv
<1>1. TargetTypeOK'
    BY DEF TargetTypeOK, PCs, StartMain
<1>2. target = None /\ \A g \in Hosts : pc[g] # "wait"
    BY DEF StartMain, Publication, Waiting
<1>3. \A s \in Slots : at[s] # "loaded"
    BY <1>2 DEF SlowPath
<1>4. Ownership'
    BY DEF TargetTypeOK, Ownership, StartMain
<1>5. Naming'
    BY DEF TargetTypeOK, Naming, StartMain
<1>6. Publication'
    BY DEF TargetTypeOK, Publication, StartMain
<1>7. Waiting'
    BY DEF TargetTypeOK, Waiting, StartMain
<1>8. (FastPath /\ SlowPath)'
    BY <1>3 DEF FastPath, SlowPath, StartMain
<1>9. Counter'
    BY CounterStable DEF StartMain
<1> QED
    BY <1>1, <1>4, <1>5, <1>6, <1>7, <1>8, <1>9

LEMMA StartCloneIInv ==
    ASSUME IInv, NEW h \in Hosts, NEW t \in Threads, StartClone(h, t)
    PROVE  IInv'
<1> USE DEF IInv
<1>1. TargetTypeOK'
    BY DEF TargetTypeOK, PCs, StartClone
<1>2. Ownership'
    BY DEF TargetTypeOK, Ownership, StartClone
<1>3. Naming'
    BY DEF TargetTypeOK, Naming, StartClone
<1>4. Publication'
    BY DEF TargetTypeOK, Publication, StartClone
<1>5. Waiting'
    BY DEF TargetTypeOK, Waiting, StartClone
<1>6. FastPath'
    BY DEF FastPath, StartClone
<1>7. SlowPath'
    BY DEF TargetTypeOK, SlowPath, StartClone
<1>8. Counter'
    BY CounterStable DEF StartClone
<1> QED
    BY <1>1, <1>2, <1>3, <1>4, <1>5, <1>6, <1>7, <1>8

LEMMA LoopIInv ==
    ASSUME IInv, NEW h \in Hosts, EnterLoop(h) \/ LeaveLoop(h)
    PROVE  IInv'
<1> USE DEF IInv
<1>1. TargetTypeOK'
    BY DEF TargetTypeOK, PCs, EnterLoop, LeaveLoop
<1>2. (Ownership /\ Waiting)'
    BY DEF TargetTypeOK, Ownership, Waiting, EnterLoop, LeaveLoop
<1>3. Naming'
    BY DEF TargetTypeOK, Naming, EnterLoop, LeaveLoop
<1>4. Publication'
    BY DEF TargetTypeOK, Publication, EnterLoop, LeaveLoop
<1>5. FastPath'
    BY DEF TargetTypeOK, FastPath, Off, EnterLoop, LeaveLoop
<1>6. SlowPath'
    BY DEF TargetTypeOK, SlowPath, EnterLoop, LeaveLoop
<1>7. Counter'
    BY CounterStable DEF EnterLoop, LeaveLoop
<1> QED
    BY <1>1, <1>2, <1>3, <1>4, <1>5, <1>6, <1>7

LEMMA ClearCasIInv ==
    ASSUME IInv, NEW h \in Hosts, ClearCas(h)
    PROVE  IInv'
<1> USE DEF IInv
<1>1. TargetTypeOK'
    BY DEF TargetTypeOK, PCs, ClearCas
<1>2. Ownership'
    BY DEF TargetTypeOK, Ownership, ClearCas
<1>3. Naming'
    BY DEF TargetTypeOK, Naming, ClearCas
<1>4. Publication'
    BY DEF TargetTypeOK, Publication, ClearCas
<1>5. Waiting'
    \* If h owns the target, the host thread that published it is h itself.
    BY SignalTargetAssumption DEF TargetTypeOK, Ownership, Publication, Waiting, ClearCas
<1>6. FastPath'
    BY DEF FastPath, ClearCas
<1>7. SlowPath'
    BY DEF TargetTypeOK, SlowPath, ClearCas
<1>8. Counter'
    BY CounterStable DEF ClearCas
<1> QED
    BY <1>1, <1>2, <1>3, <1>4, <1>5, <1>6, <1>7, <1>8

\* A zero counter leaves no reader behind: this is where the count matters.
LEMMA ClearWaitIInv ==
    ASSUME IInv, NEW h \in Hosts, ClearWait(h)
    PROVE  IInv'
<1> USE DEF IInv
<1>1. TargetTypeOK'
    BY DEF TargetTypeOK, PCs, ClearWait
<1>2. (Ownership /\ Waiting)'
    BY DEF TargetTypeOK, Ownership, Waiting, ClearWait
<1>3. (Naming /\ Publication)'
    BY DEF TargetTypeOK, Naming, Publication, ClearWait
<1>4. Counting = {}
    BY CountingFinite, FS_EmptySet DEF Counter, ClearWait
<1>5. \A s \in Slots : at[s] # "loaded"
    BY <1>4 DEF Counting
<1>6. (FastPath /\ SlowPath)'
    BY <1>5 DEF FastPath, SlowPath, ClearWait
<1>7. Counter'
    BY CounterStable DEF ClearWait
<1> QED
    BY <1>1, <1>2, <1>3, <1>6, <1>7

LEMMA StopNamingIInv ==
    ASSUME IInv, NEW h \in Hosts, StopNaming(h)
    PROVE  IInv'
<1> USE DEF IInv
<1>1. TargetTypeOK'
    BY DEF TargetTypeOK, PCs, StopNaming
<1>2. (Ownership /\ Waiting)'
    BY DEF TargetTypeOK, Ownership, Waiting, StopNaming
<1>3. (Naming /\ Publication)'
    BY DEF TargetTypeOK, Naming, Publication, StopNaming
<1>4. FastPath'
    BY DEF TargetTypeOK, FastPath, Off, StopNaming
<1>5. SlowPath'
    BY DEF TargetTypeOK, SlowPath, StopNaming
<1>6. Counter'
    BY CounterStable DEF StopNaming
<1> QED
    BY <1>1, <1>2, <1>3, <1>4, <1>5, <1>6

LEMMA FreeIInv ==
    ASSUME IInv, NEW h \in Hosts, FreeThread(h)
    PROVE  IInv'
<1> USE DEF IInv
<1>1. TargetTypeOK'
    BY DEF TargetTypeOK, PCs, FreeThread
<1>2. Ownership'
    BY DEF TargetTypeOK, Ownership, FreeThread
<1>3. Naming'
    BY DEF TargetTypeOK, Naming, FreeThread
<1>4. Publication'
    BY DEF TargetTypeOK, Publication, FreeThread
<1>5. Waiting'
    BY DEF TargetTypeOK, Waiting, FreeThread
<1>6. FastPath'
    BY DEF FastPath, FreeThread
<1>7. SlowPath'
    BY DEF TargetTypeOK, SlowPath, FreeThread
<1>8. Counter'
    BY CounterStable DEF FreeThread
<1> QED
    BY <1>1, <1>2, <1>3, <1>4, <1>5, <1>6, <1>7, <1>8

-----------------------------------------------------------------------------
(***************************************************************************)
(* The invariant is inductive and implies what handlers rely on.           *)
(***************************************************************************)
LEMMA NextIInv == IInv /\ [TargetNext]_targetVars => IInv'
<1> SUFFICES ASSUME IInv, [TargetNext]_targetVars PROVE IInv'
    OBVIOUS
<1>1. CASE UNCHANGED targetVars
    BY <1>1 DEF targetVars, IInv, TargetTypeOK, Ownership, Naming, Publication, Waiting, FastPath, SlowPath,
                Counter, Counting
<1>2. CASE TargetNext
    <2> PICK h \in Hosts :
            \/ \E d \in 1..MaxNest : Enter(h, d) \/ Handler(h, d)
            \/ \E t \in Threads : StartMain(h, t) \/ StartClone(h, t)
            \/ EnterLoop(h) \/ LeaveLoop(h) \/ Retire(h)
        BY <1>2 DEF TargetNext
    <2>1. CASE \E d \in 1..MaxNest : Enter(h, d) \/ Handler(h, d)
        BY <2>1, EnterIInv, LoadIInv, PostIInv, LeaveIInv DEF Handler
    <2>2. CASE \E t \in Threads : StartMain(h, t) \/ StartClone(h, t)
        BY <2>2, StartMainIInv, StartCloneIInv
    <2>3. CASE EnterLoop(h) \/ LeaveLoop(h) \/ Retire(h)
        BY <2>3, LoopIInv, ClearCasIInv, ClearWaitIInv, StopNamingIInv, FreeIInv DEF Retire
    <2> QED
        BY <2>1, <2>2, <2>3
<1> QED
    BY <1>1, <1>2

LEMMA IInvSafe == IInv => HeldThreadAlive /\ NamedThreadAlive
<1> SUFFICES ASSUME IInv PROVE HeldThreadAlive /\ NamedThreadAlive
    OBVIOUS
<1> USE DEF IInv
<1>1. NamedThreadAlive
    BY DEF NamedThreadAlive, Ownership, Naming, Publication
<1>2. ASSUME NEW h \in Hosts, NEW d \in 1..MaxNest, at[<<h, d>>] = "fast"
      PROVE  got[<<h, d>>] \in alive
    BY <1>1, <1>2 DEF FastPath, NamedThreadAlive
<1>3. ASSUME NEW s \in Slots, at[s] = "loaded"
      PROVE  got[s] \in alive
    BY <1>1, <1>3 DEF SlowPath, NamedThreadAlive, Ownership
<1>4. \A s \in Slots : \E h \in Hosts, d \in 1..MaxNest : s = <<h, d>>
    BY DEF Slots
<1> QED
    BY <1>1, <1>2, <1>3, <1>4 DEF HeldThreadAlive

(***************************************************************************)
(* The state stays well typed; in particular g_target_readers never drops  *)
(* below zero.                                                             *)
(***************************************************************************)
THEOREM TypeCorrect == TargetSpec => []TargetTypeOK
<1>1. IInv => TargetTypeOK
    BY DEF IInv
<1> QED
    BY <1>1, InitIInv, NextIInv, PTL DEF TargetSpec

(***************************************************************************)
(* forward_host_signal never posts to a freed GuestThread, whatever order  *)
(* handlers, thread starts and thread exits run in.                        *)
(***************************************************************************)
THEOREM HandlersSafe == TargetSpec => []HeldThreadAlive
    BY InitIInv, NextIInv, IInvSafe, PTL DEF TargetSpec

(***************************************************************************)
(* The published target and the thread a host thread names always exist.   *)
(***************************************************************************)
THEOREM PublicationSafe == TargetSpec => []NamedThreadAlive
    BY InitIInv, NextIInv, IInvSafe, PTL DEF TargetSpec

-----------------------------------------------------------------------------
(***************************************************************************)
(* The hang watchdog (HangWatchdog): what a sample says of a guest thread  *)
(* is true, although slots are claimed, written and read without a lock.   *)
(***************************************************************************)
Acts == {"none"} \cup UNION {Activities[t] : t \in Guests}
Tids == Guests \cup {"free"}
Steps == {"idle", "claim", "first", "store", "one", "add"}
Entries == [tid : Tids, act : Acts, counter : Nat]
Recordings == [step : Steps, act : Acts, slot : 0..kMaxSlots]
Readings == [tid : Tids, act : Acts, counter : Nat, at : Nat]
States == [tid : Tids, act : Acts, counter : Nat, at : Nat, since : Nat, unchanged_samples : Nat]
Samplers == [slot : 0..(kMaxSlots + 1), read : {"tid", "counter"}, tid : Tids, act : Acts, out : Seq(Readings)]
WatchKeys == {"threads", "watch"} \X Nat

GuestTypes ==
    /\ g_slots \in [1..kMaxSlots -> Entries]
    /\ slot_of \in [Guests -> 0..kMaxSlots]
    /\ recording \in [Guests -> Recordings]
    /\ recorded \in [Guests -> Nat]

SamplerTypes ==
    /\ sampler \in Samplers
    /\ previous_ \in Seq(States)
    /\ notes_written_ \in 0..kMaxNotes
    /\ watch_keys \in Seq(WatchKeys) /\ Len(watch_keys) <= WatchCap

\* A slot that is not free counts the records of its thread, which knows the slot or is on
\* its first record in it.
SlotsCount ==
    \A s \in 1..kMaxSlots :
        /\ g_slots[s].tid = "free" => g_slots[s].counter = 0
        /\ \A t \in Guests : g_slots[s].tid = t =>
              /\ g_slots[s].counter = recorded[t]
              /\ \/ slot_of[t] = s
                 \/ slot_of[t] = 0 /\ recording[t].step \in {"first", "one"} /\ recording[t].slot = s

\* A thread writes the slot it owns; without a slot it has recorded nothing.
Owns(t) ==
    /\ slot_of[t] # 0 => g_slots[slot_of[t]].tid = t
    /\ slot_of[t] = 0 => recorded[t] = 0
    /\ recording[t].step \in {"store", "add"} => recording[t].slot = slot_of[t] /\ slot_of[t] # 0
    /\ recording[t].step \in {"first", "one"} =>
          slot_of[t] = 0 /\ recording[t].slot # 0 /\ g_slots[recording[t].slot].tid = t
    /\ recording[t].step = "claim" => slot_of[t] = 0 /\ recording[t].slot # 0

\* The sampler reads the counter of the thread whose tid it has read.
ReadsOwner ==
    sampler.read = "counter" =>
        sampler.slot \in 1..kMaxSlots /\ sampler.tid \in Guests /\ g_slots[sampler.slot].tid = sampler.tid

\* A counter read is the number of records finished then; a state that goes on began with it.
SamplesTrue ==
    /\ \A i \in DOMAIN sampler.out : sampler.out[i].counter = sampler.out[i].at
    /\ \A i \in DOMAIN previous_ :
          previous_[i].counter = previous_[i].at /\ previous_[i].since = previous_[i].at

WatchInv == GuestTypes /\ SamplerTypes /\ SlotsCount /\ (\A t \in Guests : Owns(t)) /\ ReadsOwner /\ SamplesTrue

\* A set of numbers that is not empty has a first member.
LEMMA LeastExists ==
    ASSUME NEW S \in SUBSET Nat, S # {}
    PROVE  \E m \in S : \A k \in S : m <= k
<1>. DEFINE R == OpToRel(<, Nat)
<1>1. \A k, m \in Nat : k < m => <<k, m>> \in R
  BY Zenon DEF OpToRel
<1>2. IsWellFoundedOn(R, Nat)
  BY NatLessThanWellFounded, Zenon
<1>. HIDE DEF R
<1>3. PICK m \in S : \A k \in S : ~(<<k, m>> \in R)
  BY <1>2, WFMin, Zenon
<1>4. ASSUME NEW k \in S PROVE m <= k
  <2>1. ~(k < m)
    BY <1>1, <1>3, Zenon
  <2>. QED  BY <2>1
<1>. QED  BY <1>4, Zenon

LEMMA FirstIn ==
    ASSUME NEW S \in SUBSET Nat, S # {}
    PROVE  First(S) \in S
<1>1. \E m \in S : \A k \in S : m <= k
  BY LeastExists, Zenon
<1>. QED  BY <1>1, Zenon DEF First

\* What a guest thread does leaves the sampler alone; it may take a free slot, never another's.
LEMMA SamplerUndisturbed ==
    ASSUME WatchInv, UNCHANGED SamplerRest,
           \A s \in 1..kMaxSlots : g_slots[s].tid # "free" => g_slots'[s].tid = g_slots[s].tid,
           "free" \notin Guests
    PROVE  SamplerTypes' /\ ReadsOwner' /\ SamplesTrue'
<1>1. UNCHANGED <<sampler, previous_, notes_written_, watch_keys>>
  BY Zenon DEF SamplerRest
<1>2. SamplerTypes' /\ SamplesTrue'
  BY <1>1, Zenon DEF WatchInv, SamplerTypes, SamplesTrue
<1>3. ReadsOwner'
  BY <1>1, Zenon DEF WatchInv, ReadsOwner
<1>. QED  BY <1>2, <1>3

LEMMA InitWatch == ASSUME WatchBounds, WatchInit PROVE WatchInv
<1>. USE DEF WatchInit
<1>1. GuestTypes
  BY DEF GuestTypes, Entries, Recordings, UnusedSlot, Idle, Steps, Tids, Acts, WatchBounds
<1>2. SamplerTypes
  BY DEF SamplerTypes, Samplers, Asleep, Tids, Acts, WatchBounds
<1>3. SlotsCount
  BY DEF SlotsCount, UnusedSlot, WatchBounds
<1>4. \A t \in Guests : Owns(t)
  BY DEF Owns, Idle
<1>5. ReadsOwner /\ SamplesTrue
  BY DEF ReadsOwner, SamplesTrue, Asleep
<1>. QED  BY <1>1, <1>2, <1>3, <1>4, <1>5 DEF WatchInv

LEMMA FirstFree ==
    ASSUME WatchBounds, FreeSlots # {}
    PROVE  First(FreeSlots) \in 1..kMaxSlots
<1>1. FreeSlots \in SUBSET Nat
  BY DEF FreeSlots, WatchBounds
<1>2. First(FreeSlots) \in FreeSlots
  BY <1>1, FirstIn, Zenon
<1>. QED  BY <1>2, Zenon DEF FreeSlots

LEMMA RecordInv ==
    ASSUME WatchBounds, WatchInv, NEW t \in Guests, NEW act \in Activities[t],
           record_thread_activity(t, act)
    PROVE  WatchInv'
<1>0. g_slots' = g_slots /\ slot_of' = slot_of /\ recorded' = recorded /\ UNCHANGED SamplerRest
  BY DEF record_thread_activity
<1>1. SamplerTypes' /\ ReadsOwner' /\ SamplesTrue'
  BY <1>0, SamplerUndisturbed, Zenon DEF WatchBounds
<1>2. act \in Acts
  BY Zenon DEF Acts
<1>3. recording[t].step = "idle"
  BY DEF record_thread_activity, Idle
<1>4. CASE slot_of[t] # 0 /\ recording' = [recording EXCEPT ![t] = [step |-> "store", act |-> act, slot |-> slot_of[t]]]
  <2>1. GuestTypes'
    BY <1>0, <1>2, <1>4 DEF GuestTypes, WatchInv, Recordings, Steps
  <2>2. SlotsCount'
    BY <1>0, <1>3, <1>4 DEF WatchInv, SlotsCount, GuestTypes
  <2>3. \A u \in Guests : Owns(u)'
    BY <1>0, <1>4 DEF WatchInv, Owns, GuestTypes
  <2>. QED  BY <1>1, <2>1, <2>2, <2>3, Zenon DEF WatchInv
<1>5. CASE /\ slot_of[t] = 0 /\ FreeSlots # {}
           /\ recording' = [recording EXCEPT ![t] = [step |-> "claim", act |-> act, slot |-> First(FreeSlots)]]
  <2>0. First(FreeSlots) \in 1..kMaxSlots
    BY <1>5, FirstFree, Zenon
  <2>1. GuestTypes'
    BY <1>0, <1>2, <1>5, <2>0 DEF GuestTypes, WatchInv, Recordings, Steps, WatchBounds
  <2>2. SlotsCount'
    BY <1>0, <1>3, <1>5 DEF WatchInv, SlotsCount, GuestTypes
  <2>3. \A u \in Guests : Owns(u)'
    BY <1>0, <1>5, <2>0 DEF WatchInv, Owns, GuestTypes
  <2>. QED  BY <1>1, <2>1, <2>2, <2>3, Zenon DEF WatchInv
<1>6. CASE UNCHANGED recording
  <2>1. GuestTypes' /\ SlotsCount'
    BY <1>0, <1>6, Zenon DEF WatchInv, GuestTypes, SlotsCount
  <2>2. \A u \in Guests : Owns(u)'
    BY <1>0, <1>6, Zenon DEF WatchInv, Owns
  <2>. QED  BY <1>1, <2>1, <2>2, Zenon DEF WatchInv
<1>. QED  BY <1>4, <1>5, <1>6, Zenon DEF record_thread_activity

LEMMA ClaimInv ==
    ASSUME WatchBounds, WatchInv, NEW t \in Guests, ClaimSlot(t)
    PROVE  WatchInv'
<1>. DEFINE k == recording[t].slot
<1>0. /\ slot_of' = slot_of /\ recorded' = recorded /\ UNCHANGED SamplerRest
      /\ slot_of[t] = 0 /\ k \in 1..kMaxSlots /\ recorded[t] = 0 /\ recording[t].step = "claim"
  BY DEF ClaimSlot, WatchInv, GuestTypes, Owns, Recordings, WatchBounds
<1>1. CASE /\ g_slots[k].tid = "free"
           /\ g_slots' = [g_slots EXCEPT ![k].tid = t]
           /\ recording' = [recording EXCEPT ![t].step = "first", ![t].slot = k]
  <2>0. g_slots' \in [1..kMaxSlots -> Entries]
    BY <1>0, <1>1 DEF GuestTypes, WatchInv, Entries, Tids
  <2>1. recording' \in [Guests -> Recordings]
    BY <1>0, <1>1 DEF GuestTypes, WatchInv, Recordings, Steps
  <2>2. /\ g_slots'[k].tid = t /\ g_slots'[k].counter = 0
        /\ \A s \in 1..kMaxSlots \ {k} : g_slots'[s] = g_slots[s]
        /\ recording'[t].step = "first" /\ recording'[t].slot = k
        /\ \A u \in Guests \ {t} : recording'[u] = recording[u]
    BY <1>0, <1>1 DEF GuestTypes, WatchInv, Recordings, Entries, SlotsCount
  <2>3. SlotsCount'
    <3>1. ASSUME NEW s \in 1..kMaxSlots, s # k, NEW u \in Guests, g_slots[s].tid = u
          PROVE  u # t
      BY <1>0, <3>1 DEF WatchInv, SlotsCount
    <3>2. ASSUME NEW s \in 1..kMaxSlots PROVE
             /\ g_slots'[s].tid = "free" => g_slots'[s].counter = 0
             /\ \A u \in Guests : g_slots'[s].tid = u =>
                   /\ g_slots'[s].counter = recorded[u]
                   /\ \/ slot_of[u] = s
                      \/ slot_of[u] = 0 /\ recording'[u].step \in {"first", "one"} /\ recording'[u].slot = s
      <4>1. CASE s = k
        BY <1>0, <2>2, <4>1 DEF WatchBounds
      <4>2. CASE s # k
        <5>1. g_slots'[s] = g_slots[s]
          BY <2>2, <4>2, Zenon
        <5>2. ASSUME NEW u \in Guests, g_slots[s].tid = u PROVE recording'[u] = recording[u]
          BY <2>2, <3>1, <4>2, <5>2, Zenon
        <5>3. g_slots[s].tid = "free" => g_slots[s].counter = 0
          BY Zenon DEF WatchInv, SlotsCount
        <5>4. ASSUME NEW u \in Guests, g_slots[s].tid = u
              PROVE  /\ g_slots[s].counter = recorded[u]
                     /\ \/ slot_of[u] = s
                        \/ slot_of[u] = 0 /\ recording[u].step \in {"first", "one"} /\ recording[u].slot = s
          BY <5>4, Zenon DEF WatchInv, SlotsCount
        <5>. QED  BY <5>1, <5>2, <5>3, <5>4, Zenon
      <4>. QED  BY <4>1, <4>2, Zenon
    <3>. QED  BY <1>0, <3>2, Zenon DEF SlotsCount
  <2>4. \A u \in Guests : Owns(u)'
    BY <1>0, <1>1, <2>2 DEF WatchInv, Owns, GuestTypes, WatchBounds
  <2>5. SamplerTypes' /\ ReadsOwner' /\ SamplesTrue'
    BY <1>0, <1>1, <2>2, SamplerUndisturbed, Zenon DEF WatchBounds
  <2>. QED  BY <1>0, <2>0, <2>1, <2>3, <2>4, <2>5, Zenon DEF WatchInv, GuestTypes
<1>2. CASE g_slots[k].tid # "free" /\ recording' = [recording EXCEPT ![t] = Idle] /\ UNCHANGED g_slots
  <2>1. GuestTypes'
    BY <1>0, <1>2 DEF GuestTypes, WatchInv, Recordings, Steps, Idle, Acts, WatchBounds
  <2>3. SlotsCount'
    BY <1>0, <1>2 DEF WatchInv, SlotsCount, GuestTypes
  <2>4. \A u \in Guests : Owns(u)'
    BY <1>0, <1>2 DEF WatchInv, Owns, GuestTypes, Idle
  <2>5. SamplerTypes' /\ ReadsOwner' /\ SamplesTrue'
    BY <1>0, <1>2, SamplerUndisturbed, Zenon DEF WatchBounds
  <2>. QED  BY <2>1, <2>3, <2>4, <2>5, Zenon DEF WatchInv
<1>. QED  BY <1>1, <1>2, Zenon DEF ClaimSlot, Step, Ends, Claims

LEMMA StoreActivityInv ==
    ASSUME WatchBounds, WatchInv, NEW t \in Guests, StoreActivity(t)
    PROVE  WatchInv'
<1>. DEFINE k == recording[t].slot
<1>0. /\ slot_of' = slot_of /\ recorded' = recorded /\ UNCHANGED SamplerRest
      /\ k \in 1..kMaxSlots /\ recording[t].step \in {"first", "store"}
      /\ g_slots' = [g_slots EXCEPT ![k].act = recording[t].act]
      /\ recording' = [recording EXCEPT ![t].step = IF recording[t].step = "first" THEN "one" ELSE "add", ![t].slot = k]
  BY DEF StoreActivity, Step, WatchInv, GuestTypes, Owns, Recordings, WatchBounds
<1>1. g_slots' \in [1..kMaxSlots -> Entries]
  BY <1>0 DEF GuestTypes, WatchInv, Entries, Recordings
<1>2. recording' \in [Guests -> Recordings]
  <2>1. recording \in [Guests -> Recordings]
    BY Zenon DEF WatchInv, GuestTypes
  <2>2. /\ recording[t].act \in Acts /\ DOMAIN recording[t] = {"step", "act", "slot"}
        /\ recording[t] = [step |-> recording[t].step, act |-> recording[t].act, slot |-> k]
    BY <2>1 DEF Recordings
  <2>. DEFINE r == [step |-> IF recording[t].step = "first" THEN "one" ELSE "add", act |-> recording[t].act, slot |-> k]
  <2>3. r \in Recordings
    BY <1>0, <2>2 DEF Recordings, Steps, WatchBounds
  <2>4. DOMAIN recording' = Guests /\ recording' = [u \in Guests |-> recording'[u]]
    BY <1>0, <2>1
  <2>5. \A u \in Guests \ {t} : recording'[u] = recording[u]
    BY <1>0, <2>1
  <2>6. recording'[t] = [[recording[t] EXCEPT !.step = r.step] EXCEPT !.slot = k]
    BY <1>0, <2>1
  <2>7. recording'[t] = r
    BY <2>2, <2>6
  <2>. HIDE DEF r
  <2>8. \A u \in Guests : recording'[u] \in Recordings
    BY <2>1, <2>3, <2>5, <2>7, Zenon
  <2>. QED  BY <2>4, <2>8, Zenon
<1>3. \A s \in 1..kMaxSlots : g_slots'[s].tid = g_slots[s].tid /\ g_slots'[s].counter = g_slots[s].counter
  BY <1>0 DEF GuestTypes, WatchInv, Entries
<1>4. /\ recording'[t].slot = k /\ recording'[t].step = IF recording[t].step = "first" THEN "one" ELSE "add"
      /\ \A u \in Guests \ {t} : recording'[u] = recording[u]
  BY <1>0 DEF GuestTypes, WatchInv, Recordings
<1>S. SlotsCount
  BY Zenon DEF WatchInv
<1>5. SlotsCount'
  <2>1. \A u \in Guests : recording[u].step \in {"first", "one"} =>
          recording'[u].step \in {"first", "one"} /\ recording'[u].slot = recording[u].slot
    BY <1>0, <1>4
  <2>2. ASSUME NEW s \in 1..kMaxSlots
        PROVE  /\ g_slots[s].tid = "free" => g_slots[s].counter = 0
               /\ \A u \in Guests : g_slots[s].tid = u =>
                     /\ g_slots[s].counter = recorded[u]
                     /\ \/ slot_of[u] = s
                        \/ slot_of[u] = 0 /\ recording'[u].step \in {"first", "one"} /\ recording'[u].slot = s
    <3>1. /\ g_slots[s].tid = "free" => g_slots[s].counter = 0
          /\ \A u \in Guests : g_slots[s].tid = u =>
                /\ g_slots[s].counter = recorded[u]
                /\ \/ slot_of[u] = s
                   \/ slot_of[u] = 0 /\ recording[u].step \in {"first", "one"} /\ recording[u].slot = s
      BY <1>S, Zenon DEF SlotsCount
    <3>. QED  BY <2>1, <3>1, Zenon
  <2>3. slot_of' = slot_of /\ recorded' = recorded
    BY <1>0, Zenon
  <2>4. ASSUME NEW s \in 1..kMaxSlots PROVE g_slots'[s].tid = "free" => g_slots'[s].counter = 0
    BY <1>3, <2>2, Zenon
  <2>5. ASSUME NEW s \in 1..kMaxSlots, NEW u \in Guests, g_slots'[s].tid = u
        PROVE  /\ g_slots'[s].counter = recorded'[u]
               /\ \/ slot_of'[u] = s
                  \/ slot_of'[u] = 0 /\ recording'[u].step \in {"first", "one"} /\ recording'[u].slot = s
    <3>1. g_slots[s].tid = u /\ g_slots'[s].counter = g_slots[s].counter
      BY <1>3, <2>5, Zenon
    <3>. QED  BY <2>2, <2>3, <3>1, Zenon
  <2>. QED  BY <2>4, <2>5, Zenon DEF SlotsCount
<1>6. \A u \in Guests : Owns(u)'
  BY <1>0, <1>3, <1>4 DEF WatchInv, Owns, GuestTypes, Recordings, WatchBounds
<1>7. SamplerTypes' /\ ReadsOwner' /\ SamplesTrue'
  BY <1>0, <1>3, SamplerUndisturbed, Zenon DEF WatchBounds
<1>. QED  BY <1>0, <1>1, <1>2, <1>5, <1>6, <1>7, Zenon DEF WatchInv, GuestTypes

LEMMA StoreCounterInv ==
    ASSUME WatchBounds, WatchInv, NEW t \in Guests, StoreCounter(t)
    PROVE  WatchInv'
<1>. DEFINE k == recording[t].slot
<1>0. /\ UNCHANGED SamplerRest
      /\ k \in 1..kMaxSlots /\ g_slots[k].tid = t /\ g_slots[k].counter = recorded[t] /\ recorded[t] \in Nat
      /\ recording[t].step = "one" => recorded[t] = 0
      /\ recording[t].step \in {"one", "add"}
  <2>1. UNCHANGED SamplerRest /\ recording[t].step \in {"one", "add"}
    BY DEF StoreCounter
  <2>2. k \in 1..kMaxSlots /\ g_slots[k].tid = t /\ recorded[t] \in Nat
    BY <2>1 DEF WatchInv, GuestTypes, Owns, Recordings, WatchBounds
  <2>3. g_slots[k].counter = recorded[t]
    BY <2>2, Zenon DEF WatchInv, SlotsCount
  <2>4. recording[t].step = "one" => recorded[t] = 0
    BY DEF WatchInv, Owns
  <2>. QED  BY <2>1, <2>2, <2>3, <2>4
<1>1. /\ g_slots' = [g_slots EXCEPT ![k].counter = recorded[t] + 1]
      /\ slot_of' = [slot_of EXCEPT ![t] = k]
      /\ recorded' = [recorded EXCEPT ![t] = @ + 1]
      /\ recording' = [recording EXCEPT ![t] = Idle]
  <2>1. Counted(t, k) = recorded[t] + 1
    BY <1>0 DEF Counted
  <2>. QED  BY <2>1, Zenon DEF StoreCounter, Ends
<1>2. g_slots' \in [1..kMaxSlots -> Entries]
  <2>1. recorded[t] + 1 \in Nat
    BY <1>0
  <2>. QED  BY <1>0, <1>1, <2>1 DEF GuestTypes, WatchInv, Entries
<1>3. recording' \in [Guests -> Recordings]
  BY <1>1 DEF GuestTypes, WatchInv, Recordings, Steps, Idle, Acts, WatchBounds
<1>4. slot_of' \in [Guests -> 0..kMaxSlots] /\ recorded' \in [Guests -> Nat]
  BY <1>0, <1>1 DEF GuestTypes, WatchInv, WatchBounds
<1>5. /\ g_slots'[k].tid = t /\ g_slots'[k].counter = recorded[t] + 1
      /\ \A s \in 1..kMaxSlots \ {k} : g_slots'[s] = g_slots[s]
  BY <1>0, <1>1 DEF GuestTypes, WatchInv, Entries
<1>6. /\ slot_of'[t] = k /\ recorded'[t] = recorded[t] + 1 /\ recording'[t].step = "idle"
      /\ \A u \in Guests \ {t} : slot_of'[u] = slot_of[u] /\ recorded'[u] = recorded[u] /\ recording'[u] = recording[u]
  BY <1>1 DEF GuestTypes, WatchInv, Idle
<1>S. SlotsCount /\ GuestTypes /\ \A u \in Guests : Owns(u)
  BY Zenon DEF WatchInv
<1>7. \A s \in 1..kMaxSlots : g_slots[s].tid = t => s = k
  <2>1. ASSUME NEW s \in 1..kMaxSlots, g_slots[s].tid = t PROVE s = k
    <3>1. \/ slot_of[t] = s
          \/ slot_of[t] = 0 /\ recording[t].step \in {"first", "one"} /\ recording[t].slot = s
      BY <1>S, <2>1, Zenon DEF SlotsCount
    <3>2. Owns(t)
      BY <1>S, Zenon
    <3>3. recording[t].step = "add" => k = slot_of[t] /\ slot_of[t] # 0
      BY <3>2, Zenon DEF Owns
    <3>4. recording[t].step = "one" => slot_of[t] = 0
      BY <3>2, Zenon DEF Owns
    <3>5. 0 \notin 1..kMaxSlots
      BY DEF WatchBounds
    <3>. QED  BY <1>0, <2>1, <3>1, <3>3, <3>4, <3>5, Zenon
  <2>. QED  BY <2>1, Zenon
<1>8. SlotsCount'
  <2>1. ASSUME NEW s \in 1..kMaxSlots, g_slots'[s].tid = "free" PROVE g_slots'[s].counter = 0
    <3>1. s # k
      BY <1>5, <2>1, Zenon DEF WatchBounds
    <3>. QED  BY <1>S, <1>5, <2>1, <3>1, Zenon DEF SlotsCount
  <2>2. ASSUME NEW s \in 1..kMaxSlots, NEW u \in Guests, g_slots'[s].tid = u
        PROVE  /\ g_slots'[s].counter = recorded'[u]
               /\ \/ slot_of'[u] = s
                  \/ slot_of'[u] = 0 /\ recording'[u].step \in {"first", "one"} /\ recording'[u].slot = s
    <3>1. CASE s = k
      BY <1>5, <1>6, <2>2, <3>1, Zenon
    <3>2. CASE s # k
      <4>1. g_slots'[s] = g_slots[s]
        BY <1>5, <3>2, Zenon
      <4>2. u # t
        BY <1>7, <2>2, <3>2, <4>1, Zenon
      <4>3. slot_of'[u] = slot_of[u] /\ recorded'[u] = recorded[u] /\ recording'[u] = recording[u]
        BY <1>6, <4>2, Zenon
      <4>4. /\ g_slots[s].counter = recorded[u]
            /\ \/ slot_of[u] = s
               \/ slot_of[u] = 0 /\ recording[u].step \in {"first", "one"} /\ recording[u].slot = s
        BY <1>S, <2>2, <4>1, Zenon DEF SlotsCount
      <4>. QED  BY <4>1, <4>3, <4>4, Zenon
    <3>. QED  BY <3>1, <3>2, Zenon
  <2>. QED  BY <2>1, <2>2, Zenon DEF SlotsCount
<1>9. \A u \in Guests : Owns(u)'
  <2>1. Owns(t)'
    <3>1. k # 0
      BY <1>0
    <3>. QED  BY <1>5, <1>6, <3>1, Zenon DEF Owns
  <2>2. ASSUME NEW u \in Guests, u # t PROVE Owns(u)'
    <3>0. Owns(u) /\ slot_of[u] \in 0..kMaxSlots /\ recording[u].slot \in 0..kMaxSlots
      BY <1>S DEF GuestTypes, Recordings
    <3>1. /\ slot_of[u] # 0 => slot_of[u] # k /\ slot_of[u] \in 1..kMaxSlots
          /\ recording[u].step \in {"first", "one"} => recording[u].slot # k /\ recording[u].slot \in 1..kMaxSlots
      <4>1. \A i \in 0..kMaxSlots : i # 0 => i \in 1..kMaxSlots
        BY DEF WatchBounds
      <4>2. slot_of[u] # 0 => slot_of[u] # k
        BY <1>0, <2>2, <3>0, Zenon DEF Owns
      <4>3. recording[u].step \in {"first", "one"} => recording[u].slot # k /\ recording[u].slot # 0
        BY <1>0, <2>2, <3>0, Zenon DEF Owns
      <4>. QED  BY <3>0, <4>1, <4>2, <4>3, Zenon
    <3>2. slot_of'[u] = slot_of[u] /\ recorded'[u] = recorded[u] /\ recording'[u] = recording[u]
      BY <1>6, <2>2, Zenon
    <3>3. slot_of[u] # 0 => g_slots'[slot_of[u]] = g_slots[slot_of[u]]
      BY <1>5, <3>1, Zenon
    <3>4. recording[u].step \in {"first", "one"} => g_slots'[recording[u].slot] = g_slots[recording[u].slot]
      BY <1>5, <3>1, Zenon
    <3>. QED  BY <3>0, <3>2, <3>3, <3>4, Zenon DEF Owns
  <2>. QED  BY <2>1, <2>2, Zenon
<1>10. SamplerTypes' /\ ReadsOwner' /\ SamplesTrue'
  BY <1>0, <1>5, SamplerUndisturbed, Zenon DEF WatchBounds
<1>. QED  BY <1>2, <1>3, <1>4, <1>8, <1>9, <1>10, Zenon DEF WatchInv, GuestTypes

\* The sampler leaves the guests' part of the state alone.
LEMMA GuestsUndisturbed ==
    ASSUME WatchInv, UNCHANGED GuestRest
    PROVE  GuestTypes' /\ SlotsCount' /\ \A t \in Guests : Owns(t)'
<1>1. g_slots' = g_slots /\ slot_of' = slot_of /\ recording' = recording /\ recorded' = recorded
  BY Zenon DEF GuestRest
<1>2. GuestTypes' /\ SlotsCount'
  BY <1>1, Zenon DEF WatchInv, GuestTypes, SlotsCount
<1>3. \A t \in Guests : Owns(t)'
  BY <1>1, Zenon DEF WatchInv, Owns
<1>. QED  BY <1>2, <1>3, Zenon

LEMMA WakeInv == ASSUME WatchBounds, WatchInv, WakeSampler PROVE WatchInv'
<1>0. /\ UNCHANGED GuestRest
      /\ previous_' = previous_ /\ notes_written_' = notes_written_ /\ watch_keys' = watch_keys
      /\ sampler' = [slot |-> 1, read |-> "tid", tid |-> "free", act |-> "none", out |-> <<>>]
  BY DEF WakeSampler, Asleep
<1>1. GuestTypes' /\ SlotsCount' /\ \A t \in Guests : Owns(t)'
  BY <1>0, GuestsUndisturbed, Zenon
<1>2. SamplerTypes'
  <2>1. sampler' \in Samplers
    BY <1>0 DEF Samplers, Tids, Acts, WatchBounds
  <2>. QED  BY <1>0, <2>1, Zenon DEF WatchInv, SamplerTypes
<1>3. ReadsOwner' /\ SamplesTrue'
  <2>1. sampler'.read = "tid" /\ DOMAIN sampler'.out = {}
    BY <1>0
  <2>2. ReadsOwner'
    BY <2>1, Zenon DEF ReadsOwner
  <2>. QED  BY <1>0, <2>1, <2>2, Zenon DEF WatchInv, SamplesTrue
<1>. QED  BY <1>1, <1>2, <1>3, Zenon DEF WatchInv

LEMMA ReadSlotInv == ASSUME WatchBounds, WatchInv, ReadSlot PROVE WatchInv'
<1>. DEFINE k == sampler.slot
            slot == g_slots[k]
            reading == [tid |-> sampler.tid, act |-> sampler.act, counter |-> slot.counter, at |-> recorded[sampler.tid]]
<1>0. /\ UNCHANGED GuestRest /\ k \in 1..kMaxSlots
      /\ previous_' = previous_ /\ notes_written_' = notes_written_ /\ watch_keys' = watch_keys
  BY Zenon DEF ReadSlot
<1>1. GuestTypes' /\ SlotsCount' /\ \A t \in Guests : Owns(t)'
  BY <1>0, GuestsUndisturbed, Zenon
<1>2. slot \in Entries /\ g_slots' = g_slots
  BY <1>0, Zenon DEF WatchInv, GuestTypes, GuestRest
<1>3. k + 1 \in 0..(kMaxSlots + 1) /\ k \in 0..(kMaxSlots + 1)
  BY <1>0 DEF WatchBounds
<1>4. sampler \in Samplers /\ previous_' \in Seq(States) /\ notes_written_' \in 0..kMaxNotes
      /\ watch_keys' \in Seq(WatchKeys) /\ Len(watch_keys') <= WatchCap
  BY <1>0, Zenon DEF WatchInv, SamplerTypes
<1>5. CASE sampler.read = "tid" /\ sampler' = [sampler EXCEPT !.slot = @ + 1]
  <2>1. sampler' \in Samplers /\ sampler'.read = "tid" /\ sampler'.out = sampler.out
    BY <1>3, <1>4, <1>5 DEF Samplers
  <2>2. ReadsOwner' /\ SamplesTrue'
    BY <1>0, <2>1 DEF WatchInv, ReadsOwner, SamplesTrue
  <2>. QED  BY <1>1, <1>4, <2>1, <2>2, Zenon DEF WatchInv, SamplerTypes
<1>6. CASE slot.tid # "free" /\ sampler' = [sampler EXCEPT !.read = "counter", !.tid = slot.tid, !.act = slot.act]
  <2>1. sampler' \in Samplers /\ sampler'.tid = slot.tid /\ sampler'.out = sampler.out /\ sampler'.slot = k
    BY <1>2, <1>4, <1>6 DEF Samplers, Entries
  <2>2. slot.tid \in Guests
    BY <1>2, <1>6 DEF Entries, Tids
  <2>3. ReadsOwner' /\ SamplesTrue'
    BY <1>0, <1>2, <2>1, <2>2, Zenon DEF WatchInv, ReadsOwner, SamplesTrue
  <2>. QED  BY <1>1, <1>4, <2>1, <2>3, Zenon DEF WatchInv, SamplerTypes
<1>7. CASE sampler.read = "counter" /\ sampler' = [Asleep EXCEPT !.slot = k + 1, !.out = Append(sampler.out, reading)]
  <2>1. sampler.tid \in Guests /\ slot.tid = sampler.tid
    BY <1>7, Zenon DEF WatchInv, ReadsOwner
  <2>2. slot.counter = recorded[sampler.tid] /\ recorded[sampler.tid] \in Nat
    <3>1. slot.counter = recorded[sampler.tid]
      BY <1>0, <2>1, Zenon DEF WatchInv, SlotsCount
    <3>. QED  BY <2>1, <3>1, Zenon DEF WatchInv, GuestTypes
  <2>3. reading \in Readings /\ reading.counter = reading.at
    BY <1>2, <1>4, <2>1, <2>2 DEF Readings, Samplers, Entries
  <2>4. sampler.out \in Seq(Readings) /\ \A i \in DOMAIN sampler.out : sampler.out[i].counter = sampler.out[i].at
    BY <1>4 DEF Samplers, WatchInv, SamplesTrue
  <2>. HIDE DEF reading
  <2>5. /\ Append(sampler.out, reading) \in Seq(Readings)
        /\ \A i \in DOMAIN Append(sampler.out, reading) :
              Append(sampler.out, reading)[i].counter = Append(sampler.out, reading)[i].at
    BY <2>3, <2>4
  <2>6. /\ sampler' \in Samplers /\ sampler'.read = "tid" /\ sampler'.out = Append(sampler.out, reading)
    BY <1>3, <1>7, <2>5 DEF Samplers, Asleep, Tids, Acts
  <2>7. ReadsOwner' /\ SamplesTrue'
    <3>1. ReadsOwner'
      BY <2>6 DEF ReadsOwner
    <3>. QED  BY <1>0, <2>5, <2>6, <3>1, Zenon DEF WatchInv, SamplesTrue
  <2>. QED  BY <1>1, <1>4, <2>6, <2>7, Zenon DEF WatchInv, SamplerTypes
<1>. QED  BY <1>5, <1>6, <1>7, Zenon DEF ReadSlot

\* A state that sample describes goes on only from a state of the last sample with the same
\* counter, so it began with the records the thread has finished now.
LEMMA StateTrue ==
    ASSUME WatchBounds, WatchInv, NEW s \in Readings, s.counter = s.at
    PROVE  /\ State(s) \in States
           /\ State(s).counter = State(s).at /\ State(s).since = State(s).at
<1>. DEFINE prior == previous_[First(Prior(s))]
            goes_on == Prior(s) # {} /\ Same(prior, s)
            since == IF goes_on THEN prior.since ELSE s.at
            count == IF goes_on THEN Up(prior.unchanged_samples) ELSE 0
<1>1. State(s) = [tid |-> s.tid, act |-> s.act, counter |-> s.counter, at |-> s.at,
                  since |-> since, unchanged_samples |-> count]
  BY Zenon DEF State
<1>2. s.tid \in Tids /\ s.act \in Acts /\ s.counter \in Nat /\ s.at \in Nat
  BY DEF Readings
<1>3. ASSUME Prior(s) # {}
      PROVE  /\ prior.unchanged_samples \in Nat
             /\ prior.counter = prior.at /\ prior.since = prior.at
  <2>1. previous_ \in Seq(States) /\ DOMAIN previous_ \subseteq Nat
    BY DEF WatchInv, SamplerTypes
  <2>2. Prior(s) \in SUBSET Nat
    BY <2>1, Zenon DEF Prior
  <2>3. First(Prior(s)) \in DOMAIN previous_
    BY <1>3, <2>2, FirstIn, Zenon DEF Prior
  <2>4. prior \in States
    BY <2>1, <2>3
  <2>5. prior.unchanged_samples \in Nat
    BY <2>4 DEF States
  <2>. QED  BY <2>3, <2>5, Zenon DEF WatchInv, SamplesTrue
<1>. HIDE DEF prior
<1>4. since = s.at
  BY <1>3, Zenon DEF Same
<1>5. count \in Nat
  BY <1>3 DEF Up, WatchBounds
<1>. HIDE DEF since, count
<1>. QED  BY <1>1, <1>2, <1>4, <1>5 DEF States

LEMMA NoteWatchIs ==
    ASSUME WatchBounds, NEW keys \in Seq(WatchKeys), NEW more \in Seq(WatchKeys)
    PROVE  NoteWatch(keys, more) \in Seq(WatchKeys) /\ Len(NoteWatch(keys, more)) <= WatchCap
<1>. DEFINE all == keys \o more
            n == IF Len(all) < WatchCap THEN Len(all) ELSE WatchCap
<1>1. all \in Seq(WatchKeys)
  OBVIOUS
<1>2. NoteWatch(keys, more) = SubSeq(all, 1, n)
  BY Zenon DEF NoteWatch
<1>. HIDE DEF all
<1>3. n \in Nat /\ n <= WatchCap /\ n <= Len(all)
  BY <1>1 DEF WatchBounds
<1>. HIDE DEF n
<1>. QED  BY <1>1, <1>2, <1>3 DEF WatchBounds

LEMMA SampleInv ==
    ASSUME WatchBounds, WatchInv, NEW chunks \in 0..MaxChunks, sample(chunks)
    PROVE  WatchInv'
<1>. DEFINE next == [i \in DOMAIN sampler.out |-> State(sampler.out[i])]
            census == write_threads_census(chunks)
            before == IF notes_written_ = 0 THEN NoteWatch(<<>>, census) ELSE watch_keys
            note == << <<"watch", notes_written_ + 1>> >>
<1>0. UNCHANGED GuestRest /\ sampler' = Asleep /\ previous_' = next
  BY Zenon DEF sample
<1>1. GuestTypes' /\ SlotsCount' /\ \A t \in Guests : Owns(t)'
  BY <1>0, GuestsUndisturbed, Zenon
<1>2. sampler.out \in Seq(Readings)
  BY DEF WatchInv, SamplerTypes, Samplers
<1>3. ASSUME NEW i \in DOMAIN sampler.out
      PROVE  next[i] \in States /\ next[i].counter = next[i].at /\ next[i].since = next[i].at
  <2>1. sampler.out[i] \in Readings
    BY <1>2
  <2>2. sampler.out[i].counter = sampler.out[i].at
    BY Zenon DEF WatchInv, SamplesTrue
  <2>. QED  BY <2>1, <2>2, StateTrue, Zenon
<1>4. next \in Seq(States) /\ DOMAIN next = DOMAIN sampler.out
  <2>1. DOMAIN next = DOMAIN sampler.out
    BY Zenon
  <2>2. DOMAIN sampler.out = 1..Len(sampler.out) /\ Len(sampler.out) \in Nat
    BY <1>2
  <2>3. next \in [1..Len(sampler.out) -> States]
    BY <1>3, <2>2, Zenon
  <2>. HIDE DEF next
  <2>. QED  BY <2>1, <2>2, <2>3
<1>5. \A i \in DOMAIN next : next[i].counter = next[i].at /\ next[i].since = next[i].at
  BY <1>3, <1>4, Zenon
<1>6. sampler' \in Samplers /\ sampler'.read = "tid" /\ sampler'.out = <<>>
  BY <1>0 DEF Samplers, Asleep, Tids, Acts, WatchBounds
<1>7. notes_written_' \in 0..kMaxNotes /\ watch_keys' \in Seq(WatchKeys) /\ Len(watch_keys') <= WatchCap
  <2>0. notes_written_ \in 0..kMaxNotes /\ watch_keys \in Seq(WatchKeys) /\ Len(watch_keys) <= WatchCap
    BY Zenon DEF WatchInv, SamplerTypes
  <2>1. CASE /\ notes_written_ < kMaxNotes /\ notes_written_' = notes_written_ + 1
             /\ watch_keys' = NoteWatch(before, note)
    <3>1. census \in Seq(WatchKeys)
      <4>1. census = [i \in 1..chunks |-> <<"threads", i>>] \o << <<"threads", 0>> >>
        BY Zenon DEF write_threads_census
      <4>2. \A i \in Nat : <<"threads", i>> \in WatchKeys
        BY DEF WatchKeys
      <4>3. [i \in 1..chunks |-> <<"threads", i>>] \in Seq(WatchKeys)
        BY <4>2 DEF WatchBounds
      <4>4. << <<"threads", 0>> >> \in Seq(WatchKeys)
        BY <4>2
      <4>. QED  BY <4>1, <4>3, <4>4
    <3>2. before \in Seq(WatchKeys)
      <4>1. <<>> \in Seq(WatchKeys)
        OBVIOUS
      <4>2. NoteWatch(<<>>, census) \in Seq(WatchKeys)
        BY <4>1, <3>1, NoteWatchIs, Zenon
      <4>. QED  BY <2>0, <4>2, Zenon
    <3>3. note \in Seq(WatchKeys)
      <4>1. notes_written_ + 1 \in Nat
        BY <2>0
      <4>2. <<"watch", notes_written_ + 1>> \in WatchKeys
        BY <4>1 DEF WatchKeys
      <4>. QED  BY <4>2
    <3>4. notes_written_' \in 0..kMaxNotes
      BY <2>0, <2>1 DEF WatchBounds
    <3>. HIDE DEF before, note
    <3>. QED  BY <2>1, <3>2, <3>3, <3>4, NoteWatchIs, Zenon
  <2>2. CASE notes_written_' = notes_written_ /\ watch_keys' = watch_keys
    BY <2>0, <2>2, Zenon
  <2>. QED  BY <2>1, <2>2, Zenon DEF sample
<1>8. SamplerTypes'
  BY <1>0, <1>4, <1>6, <1>7, Zenon DEF SamplerTypes
<1>9. ReadsOwner' /\ SamplesTrue'
  <2>1. "tid" # "counter" /\ DOMAIN sampler'.out = {}
    BY <1>6
  <2>. QED  BY <1>0, <1>5, <1>6, <2>1, Zenon DEF ReadsOwner, SamplesTrue
<1>. QED  BY <1>1, <1>8, <1>9, Zenon DEF WatchInv

LEMMA WatchInvSafe == ASSUME WatchBounds, WatchInv PROVE WatchSafe
<1>1. WatchTypeOK
  <2>1. \A s \in 1..kMaxSlots : g_slots[s].tid \in Guests \cup {"free"} /\ g_slots[s].counter \in Nat
    BY DEF WatchInv, GuestTypes, Entries, Tids
  <2>2. \A t \in Guests : slot_of[t] \in 0..kMaxSlots /\ recording[t].slot \in 0..kMaxSlots
    BY DEF WatchInv, GuestTypes, Recordings
  <2>3. sampler.slot \in 0..(kMaxSlots + 1)
    BY DEF WatchInv, SamplerTypes, Samplers
  <2>. QED  BY <2>1, <2>2, <2>3, Zenon DEF WatchTypeOK, WatchInv, SamplerTypes
<1>2. SlotOwned
  <2>1. ASSUME NEW t \in Guests, NEW s \in (Writes(t) \cup {slot_of[t]}) \ {0} PROVE g_slots[s].tid = t
    BY DEF Writes, WatchInv, Owns
  <2>2. ASSUME NEW s \in 1..kMaxSlots, NEW r \in 1..kMaxSlots, s # r, g_slots[s].tid = g_slots[r].tid
        PROVE  g_slots[s].tid = "free"
    <3>1. g_slots[s].tid \in Guests \cup {"free"}
      BY DEF WatchInv, GuestTypes, Entries, Tids
    <3>2. ASSUME NEW t \in Guests, g_slots[s].tid = t PROVE FALSE
      <4>1. slot_of[t] = s \/ (slot_of[t] = 0 /\ recording[t].slot = s)
        BY <3>2, Zenon DEF WatchInv, SlotsCount
      <4>2. slot_of[t] = r \/ (slot_of[t] = 0 /\ recording[t].slot = r)
        BY <2>2, <3>2, Zenon DEF WatchInv, SlotsCount
      <4>3. s # 0 /\ r # 0
        OBVIOUS
      <4>. QED  BY <2>2, <4>1, <4>2, <4>3, Zenon
    <3>. QED  BY <3>1, <3>2, Zenon
  <2>. QED  BY <2>1, <2>2, Zenon DEF SlotOwned
<1>3. CounterExact
  <2>1. ASSUME NEW t \in Guests, slot_of[t] # 0 PROVE g_slots[slot_of[t]].counter = recorded[t]
    <3>1. slot_of[t] \in 1..kMaxSlots
      BY <2>1 DEF WatchInv, GuestTypes, WatchBounds
    <3>2. g_slots[slot_of[t]].tid = t
      BY <2>1, Zenon DEF WatchInv, Owns
    <3>. QED  BY <3>1, <3>2, Zenon DEF WatchInv, SlotsCount
  <2>. QED  BY <2>1, Zenon DEF CounterExact
<1>4. StuckTrue
  BY Zenon DEF WatchInv, SamplesTrue, StuckTrue
<1>. QED  BY <1>1, <1>2, <1>3, <1>4, Zenon DEF WatchSafe

LEMMA WatchStep == ASSUME WatchBounds, WatchInv, [WatchNext]_(watchVars) PROVE WatchInv'
<1>1. CASE WatchNext
  <2>1. ASSUME NEW t \in Guests, NEW act \in Activities[t], record_thread_activity(t, act) PROVE WatchInv'
    BY <2>1, RecordInv, Zenon
  <2>2. ASSUME NEW t \in Guests, ClaimSlot(t) PROVE WatchInv'
    BY <2>2, ClaimInv, Zenon
  <2>3. ASSUME NEW t \in Guests, StoreActivity(t) PROVE WatchInv'
    BY <2>3, StoreActivityInv, Zenon
  <2>4. ASSUME NEW t \in Guests, StoreCounter(t) PROVE WatchInv'
    BY <2>4, StoreCounterInv, Zenon
  <2>5. ASSUME NEW chunks \in 0..MaxChunks, sample(chunks) PROVE WatchInv'
    BY <2>5, SampleInv, Zenon
  <2>. QED  BY <1>1, <2>1, <2>2, <2>3, <2>4, <2>5, WakeInv, ReadSlotInv, Zenon DEF WatchNext, Sampling
<1>2. CASE UNCHANGED watchVars
  <2>1. UNCHANGED SamplerRest /\ UNCHANGED GuestRest
    BY <1>2, Zenon DEF watchVars, SamplerRest, GuestRest
  <2>2. g_slots' = g_slots
    BY <2>1, Zenon DEF GuestRest
  <2>. QED  BY <2>1, <2>2, GuestsUndisturbed, SamplerUndisturbed, Zenon DEF WatchInv, WatchBounds
<1>. QED  BY <1>1, <1>2, Zenon

\* For any number of guest threads, slots and samples, what a sample of the watchdog says is
\* true: a slot belongs to one thread, its counter is the number of records that thread has
\* finished, and a thread counted as unchanged finished none since the sample it is counted
\* from (record_thread_activity, snapshot_thread_activity and HangWatchdog::sample, which
\* share no lock).
THEOREM WatchdogTrue == WatchSpec => []WatchSafe
<1>. USE WatchAssumption
<1>1. WatchInit => WatchInv
  BY InitWatch, Zenon
<1>2. WatchInv /\ [WatchNext]_(watchVars) => WatchInv'
  BY WatchStep, Zenon
<1>3. WatchInv => WatchSafe
  BY WatchInvSafe, Zenon
<1>. QED  BY <1>1, <1>2, <1>3, PTL DEF WatchSpec
=============================================================================
