---------------------------- MODULE HangWatchdog ----------------------------
(***************************************************************************)
(* The hang watchdog (core/src/hang_watchdog.cpp): guest threads record    *)
(* their last activity in lock-free slots; a sampler notes threads whose   *)
(* slot stays the same.                                                    *)
(*                                                                         *)
(* Each relaxed store of a slot and each load of the sampler is a step of  *)
(* its own.  The kind and the number of an activity are one value.         *)
(* in_progress is left out: sample() does not copy it into the State it    *)
(* describes.  A time is the number of records the thread had finished.    *)
(* A tid names one thread: a later thread that the kernel gives the tid of *)
(* an ended one, and that goes on with its slot, is the same thread here.  *)
(***************************************************************************)
EXTENDS Naturals, Sequences

CONSTANTS Guests,           \* guest threads, by tid
          Activities,       \* per thread: its syscalls and host calls
          kMaxSlots,        \* slots there are
          MaxRecords,       \* bound: calls of record_thread_activity per thread
          kStuckThreshold, kMaxNotes,
          WatchCap,         \* kMaxWatchDetails of the report
          MaxChunks         \* bound: lines of the census

\* The bounds are numbers, and no thread has the tid of a free slot.
WatchBounds ==
    /\ "free" \notin Guests
    /\ {kMaxSlots, kStuckThreshold, kMaxNotes, WatchCap, MaxChunks} \subseteq Nat

ASSUME WatchAssumption == WatchBounds

VARIABLES
    g_slots,        \* the table
    slot_of,        \* per thread: its slot, or 0
    recording,      \* per thread: how far a record has come
    records,        \* history: per thread, records begun
    recorded,       \* history: per thread, records that reached its slot
    sampler,        \* the snapshot under way
    previous_,      \* the states of the last sample
    notes_written_,
    watch_keys      \* the keys of the report's watch table

watchVars == <<g_slots, slot_of, recording, records, recorded, sampler, previous_, notes_written_, watch_keys>>

UnusedSlot == [tid |-> "free", act |-> "none", counter |-> 0]
Idle == [step |-> "idle", act |-> "none", slot |-> 0]
Asleep == [slot |-> 0, read |-> "tid", tid |-> "free", act |-> "none", out |-> <<>>]

WatchInit ==
    /\ g_slots = [s \in 1..kMaxSlots |-> UnusedSlot]
    /\ slot_of = [t \in Guests |-> 0]
    /\ recording = [t \in Guests |-> Idle]
    /\ records = [t \in Guests |-> 0] /\ recorded = [t \in Guests |-> 0]
    /\ sampler = Asleep /\ previous_ = <<>>
    /\ notes_written_ = 0 /\ watch_keys = <<>>
-----------------------------------------------------------------------------
SamplerRest == <<sampler, previous_, notes_written_, watch_keys>>
Step(t, step, slot) == recording' = [recording EXCEPT ![t].step = step, ![t].slot = slot]
Ends(t) == recording' = [recording EXCEPT ![t] = Idle]
FreeSlots == {s \in 1..kMaxSlots : g_slots[s].tid = "free"}
First(S) == CHOOSE s \in S : \A u \in S : s <= u

(* record_thread_activity: the slot it remembers, or the scan for the first *)
(* free one; a thread scans only until it has claimed its slot.             *)
record_thread_activity(t, act) ==
    /\ recording[t] = Idle /\ records[t] < MaxRecords[t]
    /\ records' = [records EXCEPT ![t] = @ + 1]
    /\ \/ /\ slot_of[t] # 0
          /\ recording' = [recording EXCEPT ![t] = [step |-> "store", act |-> act, slot |-> slot_of[t]]]
       \/ /\ slot_of[t] = 0 /\ FreeSlots # {}
          /\ recording' = [recording EXCEPT ![t] = [step |-> "claim", act |-> act, slot |-> First(FreeSlots)]]
       \/ slot_of[t] = 0 /\ FreeSlots = {} /\ UNCHANGED recording
    /\ UNCHANGED <<g_slots, slot_of, recorded, SamplerRest>>

Claims(t) == g_slots[recording[t].slot].tid = "free"

ClaimSlot(t) ==
    /\ recording[t].step = "claim"
    /\ \/ /\ Claims(t)
          /\ g_slots' = [g_slots EXCEPT ![recording[t].slot].tid = t]
          /\ Step(t, "first", recording[t].slot)
       \/ ~Claims(t) /\ Ends(t) /\ UNCHANGED g_slots
    /\ UNCHANGED <<slot_of, records, recorded, SamplerRest>>

StoreActivity(t) ==
    /\ recording[t].step \in {"first", "store"}
    /\ g_slots' = [g_slots EXCEPT ![recording[t].slot].act = recording[t].act]
    /\ Step(t, IF recording[t].step = "first" THEN "one" ELSE "add", recording[t].slot)
    /\ UNCHANGED <<slot_of, records, recorded, SamplerRest>>

Counted(t, slot) == IF recording[t].step = "one" THEN 1 ELSE g_slots[slot].counter + 1

StoreCounter(t) ==
    /\ recording[t].step \in {"one", "add"}
    /\ LET slot == recording[t].slot IN
       /\ g_slots' = [g_slots EXCEPT ![slot].counter = Counted(t, slot)]
       /\ slot_of' = [slot_of EXCEPT ![t] = slot]
    /\ recorded' = [recorded EXCEPT ![t] = @ + 1]
    /\ Ends(t)
    /\ UNCHANGED <<records, SamplerRest>>
-----------------------------------------------------------------------------
GuestRest == <<g_slots, slot_of, recording, records, recorded>>

(* run_forever and snapshot_thread_activity: one slot after another, its    *)
(* fields one after another.  A tid never changes once it is set, so it is  *)
(* read together with the activity.                                         *)
WakeSampler ==
    /\ sampler.slot = 0 /\ sampler' = [Asleep EXCEPT !.slot = 1]
    /\ UNCHANGED <<GuestRest, previous_, notes_written_, watch_keys>>

ReadSlot ==
    /\ sampler.slot \in 1..kMaxSlots
    /\ LET slot == g_slots[sampler.slot] IN
       \/ /\ sampler.read = "tid" /\ slot.tid = "free"
          /\ sampler' = [sampler EXCEPT !.slot = @ + 1]
       \/ /\ sampler.read = "tid" /\ slot.tid # "free"
          /\ sampler' = [sampler EXCEPT !.read = "counter", !.tid = slot.tid, !.act = slot.act]
       \/ /\ sampler.read = "counter"
          /\ sampler' = [Asleep EXCEPT !.slot = sampler.slot + 1,
                !.out = Append(sampler.out, [tid |-> sampler.tid, act |-> sampler.act, counter |-> slot.counter,
                                             at |-> recorded[sampler.tid]])]
    /\ UNCHANGED <<GuestRest, previous_, notes_written_, watch_keys>>

(* Mistakes: the activity alone is compared; the threshold is never reached. *)
SameActivity(prior, s) == prior.act = s.act
SameNever(prior, s) == prior.counter < s.counter

Same(prior, s) == prior.act = s.act /\ prior.counter = s.counter

Up(n) == IF n < kStuckThreshold THEN n + 1 ELSE n

Prior(s) == {i \in DOMAIN previous_ : previous_[i].tid = s.tid}

(* The state of a thread in the sample goes on from its state in the last   *)
(* sample when that is the same.                                            *)
State(s) ==
    LET prior == previous_[First(Prior(s))]
        goes_on == Prior(s) # {} /\ Same(prior, s)
    IN [tid |-> s.tid, act |-> s.act, counter |-> s.counter, at |-> s.at,
        since |-> IF goes_on THEN prior.since ELSE s.at,
        unchanged_samples |-> IF goes_on THEN Up(prior.unchanged_samples) ELSE 0]

NoteWatch(keys, more) == SubSeq(keys \o more, 1, IF Len(keys \o more) < WatchCap THEN Len(keys \o more) ELSE WatchCap)

write_threads_census(chunks) == [i \in 1..chunks |-> <<"threads", i>>] \o << <<"threads", 0>> >>

Stuck(states) == {i \in DOMAIN states : states[i].unchanged_samples >= kStuckThreshold}

(* HangWatchdog::sample after its snapshot.  The census goes out once, with *)
(* the first note, into the same table of the report.                       *)
sample(chunks) ==
    /\ sampler.slot = kMaxSlots + 1
    /\ sampler' = Asleep
    /\ LET next == [i \in DOMAIN sampler.out |-> State(sampler.out[i])] IN
       /\ previous_' = next
       /\ \/ /\ notes_written_ < kMaxNotes /\ Stuck(next) # {}
             /\ notes_written_' = notes_written_ + 1
             /\ watch_keys' = NoteWatch(IF notes_written_ = 0 THEN NoteWatch(<<>>, write_threads_census(chunks))
                                        ELSE watch_keys, << <<"watch", notes_written_ + 1>> >>)
          \/ /\ notes_written_ >= kMaxNotes \/ Stuck(next) = {}
             /\ UNCHANGED <<notes_written_, watch_keys>>
    /\ UNCHANGED GuestRest

Sampling == WakeSampler \/ ReadSlot \/ \E chunks \in 0..MaxChunks : sample(chunks)

WatchNext ==
    \/ \E t \in Guests : \E act \in Activities[t] : record_thread_activity(t, act)
    \/ \E t \in Guests : ClaimSlot(t) \/ StoreActivity(t) \/ StoreCounter(t)
    \/ Sampling

WatchSpec == WatchInit /\ [][WatchNext]_watchVars
-----------------------------------------------------------------------------
(* The type of the state.                                                   *)
WatchTypeOK ==
    /\ \A s \in 1..kMaxSlots : g_slots[s].tid \in Guests \cup {"free"} /\ g_slots[s].counter \in Nat
    /\ \A t \in Guests : slot_of[t] \in 0..kMaxSlots /\ recording[t].slot \in 0..kMaxSlots
    /\ sampler.slot \in 0..(kMaxSlots + 1) /\ notes_written_ \in 0..kMaxNotes
    /\ Len(watch_keys) <= WatchCap

Writes(t) == IF recording[t].step \in {"first", "store", "one", "add"} THEN {recording[t].slot} ELSE {}

(* A slot belongs to one thread and a thread has one slot: two threads that *)
(* go for the same free slot do not both write it (the exchange of          *)
(* record_thread_activity).                                                 *)
SlotOwned ==
    /\ \A t \in Guests : \A s \in (Writes(t) \cup {slot_of[t]}) \ {0} : g_slots[s].tid = t
    /\ \A s, r \in 1..kMaxSlots : s # r /\ g_slots[s].tid = g_slots[r].tid => g_slots[s].tid = "free"

(* The counter of a slot is the number of records its thread brought to an  *)
(* end in it; only the records of a lost race or a full table are missing.  *)
CounterExact == \A t \in Guests : slot_of[t] # 0 => g_slots[slot_of[t]].counter = recorded[t]

(* A thread that is counted as unchanged finished no record since the       *)
(* sample it is counted from, though its slot is read field by field while  *)
(* it writes.                                                               *)
StuckTrue ==
    \A i \in DOMAIN previous_ : previous_[i].unchanged_samples > 0 => previous_[i].since = previous_[i].at

(* All of them: what a sample says of a thread is true, although slots are  *)
(* claimed, written and read without a lock (record_thread_activity, sample). *)
WatchSafe == WatchTypeOK /\ SlotOwned /\ CounterExact /\ StuckTrue

(* The notes the report holds.                                              *)
Reported == {n \in 1..kMaxNotes : <<"watch", n>> \in {watch_keys[i] : i \in DOMAIN watch_keys}}

(* A thread that has a slot and stops for good is reported: the sampler     *)
(* goes on until all its notes are lines of the report, or until the        *)
(* report's table is full, which takes no more of them although sample()    *)
(* counts them and says that it wrote them.                                 *)
HangReported ==
    (\E t \in Guests : slot_of[t] # 0) ~> (Reported = 1..kMaxNotes \/ Len(watch_keys) = WatchCap)
=============================================================================
