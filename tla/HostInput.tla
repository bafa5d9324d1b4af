----------------------------- MODULE HostInput ------------------------------
(***************************************************************************)
(* HostInput (core/src/android/host_input.cpp) and its backend             *)
(* (core/android/input_driver_backend.cpp): the input queue of a guest.    *)
(*                                                                         *)
(* A guest loops on a descriptor of its own making: a worker thread of the *)
(* backend sits on the platform's looper, and when the platform's queue    *)
(* has events it makes the descriptor readable and lets go of the queue.   *)
(* After each event a guest takes or finishes, rearm looks whether the     *)
(* queue is empty and if so lets the worker back on it.  HostInput::mutex_ *)
(* puts one guest call at a time in the backend; the worker takes no lock. *)
(*                                                                         *)
(* The module has two topics: the queue, with its worker and the table of  *)
(* events, and a query of a motion event, where the arguments a getter     *)
(* forwards are checked against the pointers and the history it has.       *)
(***************************************************************************)
EXTENDS Integers, FiniteSets

CONSTANTS Readers,     \* guest threads
          Loopers,     \* guest loopers
          MaxEvents,   \* bound: events that arrive, and their handles (the table is full then)
          TableSize,   \* handles the table of events has
          MaxIndex     \* bound: an index a guest asks for

VARIABLES
    input_topic,
    \* the platform's queue
    arrived,       \* events that arrived
    queued_events, \* events in the queue
    taken,         \* events given out and not finished
    attached,      \* the queue is attached to the worker's looper
    \* AndroidInputBackend::QueueState and its worker
    signalled,     \* the eventfd is readable
    queue_ready,   \* QueueState::ready
    prepared,      \* QueueState::looper is set
    woken_worker,  \* ALooper_wake since the worker's last poll
    worker,        \* where the worker is
    \* HostInput
    rearming,      \* where the guest call that holds mutex_ is in rearm
    event_state_,  \* the handle's event and the thread that took it
    handles_used,
    queue_looper,  \* Queue::looper
    registered,    \* the loopers the descriptor is registered with
    query          \* the query of the topic "query"

platform == <<arrived, queued_events, taken, attached>>
queueState == <<signalled, queue_ready, prepared, woken_worker, worker>>
eventTable == <<event_state_, handles_used, queue_looper, registered>>
inputVars == <<input_topic, platform, queueState, rearming, eventTable, query>>

None == "none"
NoQuery == [getter |-> None]

\* The bounds are numbers, and no looper is the value for no looper.
InputBounds ==
    /\ "none" \notin Loopers
    /\ MaxEvents \in Nat /\ TableSize \in Nat /\ MaxIndex \in Nat

ASSUME InputAssumption == InputBounds

QueueInit ==
    /\ arrived = 0 /\ queued_events = {} /\ taken = {} /\ attached = FALSE
    /\ signalled = FALSE /\ queue_ready = FALSE /\ prepared = FALSE /\ woken_worker = FALSE
    /\ worker = "none" /\ rearming = "no"
    /\ event_state_ = [h \in {} |-> 0] /\ handles_used = 0
    /\ queue_looper = None /\ registered = {}
-----------------------------------------------------------------------------
Queue == input_topic = "queue"

(* Platform: an event arrives.                                              *)
Arrive ==
    /\ Queue /\ arrived < MaxEvents
    /\ arrived' = arrived + 1 /\ queued_events' = queued_events \cup {arrived'}
    /\ UNCHANGED <<input_topic, taken, attached, queueState, rearming, eventTable, query>>

Works(at) == Queue /\ worker = at
WorkerGoes(to) == worker' = to

(* AInputQueue_fromJava: the first call for a queue retains its Java owner, *)
(* makes the descriptor and the worker, and adds the handle.  A later one   *)
(* finds the queue in both tables and gives its reference back; a call that *)
(* fails leaves nothing behind.                                             *)
fromJava ==
    /\ Works("none") /\ WorkerGoes("start")
    /\ UNCHANGED <<input_topic, platform, signalled, queue_ready, prepared, woken_worker, rearming, eventTable,
                   query>>

(* AndroidInputBackend::run, up to the loop.                                *)
WorkerStart ==
    /\ Works("start") /\ prepared' = TRUE /\ WorkerGoes("top")
    /\ UNCHANGED <<input_topic, platform, signalled, queue_ready, woken_worker, rearming, eventTable, query>>

WorkerAttach ==
    /\ Works("top")
    /\ attached' = (attached \/ ~queue_ready)
    /\ WorkerGoes("poll")
    /\ UNCHANGED <<input_topic, arrived, queued_events, taken, signalled, queue_ready, prepared, woken_worker,
                   rearming, eventTable, query>>

CallbackDue == attached /\ queued_events # {}

(* ALooper_pollOnce(-1): returns for a wake, or after the callback of an    *)
(* attached queue that has events.                                          *)
WorkerPoll ==
    /\ Works("poll")
    /\ CallbackDue \/ woken_worker
    /\ woken_worker' = FALSE
    /\ WorkerGoes(IF CallbackDue THEN "on_ready" ELSE "polled")
    /\ UNCHANGED <<input_topic, platform, signalled, queue_ready, prepared, rearming, eventTable, query>>

(* on_ready: exchange, then the write if ready was not set.                 *)
OnReady ==
    /\ Works("on_ready")
    /\ queue_ready' = TRUE
    /\ WorkerGoes(IF queue_ready THEN "polled" ELSE "write")
    /\ UNCHANGED <<input_topic, platform, signalled, prepared, woken_worker, rearming, eventTable, query>>

OnReadyWrite ==
    /\ Works("write") /\ signalled' = TRUE /\ WorkerGoes("polled")
    /\ UNCHANGED <<input_topic, platform, queue_ready, prepared, woken_worker, rearming, eventTable, query>>

WorkerPolled ==
    /\ Works("polled")
    /\ WorkerGoes(IF queue_ready /\ attached THEN "detach" ELSE "top")
    /\ UNCHANGED <<input_topic, platform, signalled, queue_ready, prepared, woken_worker, rearming, eventTable, query>>

WorkerDetach ==
    /\ Works("detach") /\ attached' = FALSE /\ WorkerGoes("top")
    /\ UNCHANGED <<input_topic, arrived, queued_events, taken, signalled, queue_ready, prepared, woken_worker,
                   rearming, eventTable, query>>
-----------------------------------------------------------------------------

Wake == woken_worker' = (woken_worker \/ prepared)   \* it may have no looper yet

(* Mistake: ready is cleared before the descriptor is drained.              *)
RearmSwapped ==
    \/ /\ rearming = "drain" /\ queue_ready' = FALSE /\ rearming' = "store"
       /\ UNCHANGED <<signalled, woken_worker>>
    \/ /\ rearming = "store" /\ signalled' = FALSE /\ rearming' = "no"
       /\ Wake /\ UNCHANGED queue_ready

(* rearm, once the queue was found empty: the descriptor is drained, ready  *)
(* cleared, and the worker woken.                                           *)
RearmSteps ==
    \/ /\ rearming = "drain" /\ signalled' = FALSE /\ rearming' = "store"
       /\ UNCHANGED <<queue_ready, woken_worker>>
    \/ /\ rearming = "store" /\ queue_ready' = FALSE /\ rearming' = "wake"
       /\ UNCHANGED <<signalled, woken_worker>>
    \/ /\ rearming = "wake" /\ Wake /\ rearming' = "no"
       /\ UNCHANGED <<signalled, queue_ready>>

Rearm ==
    /\ Queue /\ RearmSteps
    /\ UNCHANGED <<input_topic, platform, prepared, worker, eventTable, query>>

(* A guest call with the handle of the queue; mutex_ is free.               *)
Call == Queue /\ worker # "none" /\ rearming = "no"

(* rearm begins: AInputQueue_hasEvents.                                     *)
RearmAfter(left) == rearming' = IF left = {} THEN "drain" ELSE "no"

NoHandle(e) == UNCHANGED <<taken, event_state_, handles_used>>   \* finished again

(* AInputQueue_getEvent.                                                    *)
getEvent(t) ==
    /\ Call
    /\ IF queued_events = {} THEN UNCHANGED <<queued_events, taken, event_state_, handles_used>>
       ELSE LET e == CHOOSE e \in queued_events : \A f \in queued_events : e <= f IN
            /\ queued_events' = queued_events \ {e}
            /\ IF Cardinality(DOMAIN event_state_) = TableSize THEN NoHandle(e)
               ELSE /\ taken' = taken \cup {e}
                    /\ handles_used' = handles_used + 1
                    /\ event_state_' = [h \in DOMAIN event_state_ \cup {handles_used'} |->
                         IF h = handles_used' THEN [native |-> e, owner |-> t] ELSE event_state_[h]]
    /\ RearmAfter(queued_events')
    /\ UNCHANGED <<input_topic, arrived, attached, queueState, queue_looper, registered, query>>

Mine(t, h) == h \in DOMAIN event_state_ /\ event_state_[h].owner = t

Forget(h) ==
    /\ taken' = taken \ {event_state_[h].native}
    /\ event_state_' = [g \in DOMAIN event_state_ \ {h} |-> event_state_[g]]

(* AInputQueue_finishEvent, and AInputQueue_preDispatchEvent of an event    *)
(* the input method takes: the platform has it back, then rearm.            *)
finishEvent(t, h) ==
    /\ Call /\ Mine(t, h) /\ Forget(h) /\ RearmAfter(queued_events)
    /\ UNCHANGED <<input_topic, arrived, queued_events, attached, queueState, handles_used, queue_looper,
                   registered, query>>

(* A looper that takes the descriptor, then the old one without it.         *)
Attached(l) == registered' = (registered \cup {l}) \ ({queue_looper} \ {l})

(* AInputQueue_attachLooper.  HostLooper::add_fd may refuse the arguments,  *)
(* and when the platform's looper refuses the descriptor it drops the       *)
(* registration, an older one included (-EINVAL either way).                *)
attachLooper(l) ==
    /\ Call
    /\ \/ UNCHANGED <<registered, queue_looper>>
       \/ registered' = registered \ {l} /\ UNCHANGED queue_looper
       \/ Attached(l) /\ queue_looper' = l
    /\ UNCHANGED <<input_topic, platform, queueState, rearming, event_state_, handles_used, query>>

detachLooper ==
    /\ Call
    /\ registered' = registered \ {queue_looper} /\ queue_looper' = None
    /\ UNCHANGED <<input_topic, platform, queueState, rearming, event_state_, handles_used, query>>

(* The looper's callback for the readable descriptor returns 0 or cannot    *)
(* enter the guest: HostLooper unregisters it, and Queue::looper stays.     *)
LooperDrops(l) ==
    /\ Queue /\ l \in registered /\ signalled
    /\ registered' = registered \ {l}
    /\ UNCHANGED <<input_topic, platform, queueState, rearming, event_state_, handles_used, queue_looper, query>>

QueueNext ==
    \/ Arrive \/ fromJava
    \/ WorkerStart \/ WorkerAttach \/ WorkerPoll \/ OnReady \/ OnReadyWrite \/ WorkerPolled \/ WorkerDetach
    \/ Rearm
    \/ \E t \in Readers : getEvent(t) \/ \E h \in 1..MaxEvents : finishEvent(t, h)
    \/ \E l \in Loopers : attachLooper(l) \/ LooperDrops(l)
    \/ detachLooper
-----------------------------------------------------------------------------
(* What a getter of a motion event takes, in the order of its arguments.    *)
Signature == [plain |-> <<>>, pointer |-> <<"pointer">>, axis |-> <<"axis", "pointer">>,
              historical_time |-> <<"history">>, historical |-> <<"pointer", "history">>,
              historical_axis |-> <<"axis", "pointer", "history">>]
Getters == DOMAIN Signature
Axis(g) == g \in {"axis", "historical_axis"}
Historical(g) == g \in {"historical_time", "historical", "historical_axis"}

PointerArgument(g) == IF Axis(g) THEN 2 ELSE 1

HistoryArgument(g) == IF g = "historical_time" THEN 1 ELSE IF Axis(g) THEN 3 ELSE 2
TakesPointer(g) == g \in {"pointer", "axis", "historical", "historical_axis"}

(* The arguments the backend passes on, by the getter's name.               *)
Arity(g) ==
    IF g = "historical_axis" THEN 3
    ELSE IF g = "axis" \/ (Historical(g) /\ g # "historical_time") THEN 2
    ELSE IF g \in {"pointer", "historical_time"} THEN 1 ELSE 0

QueryInit ==
    query \in [getter : Getters, type : {"key", "motion"}, args : [1..3 -> 0..MaxIndex],
               pointers : 1..MaxIndex, history : 0..MaxIndex, answer : {<<"asked">>}]

(* handle_host_call, from the type of the event on.                         *)
Ask ==
    /\ input_topic = "query" /\ query.answer = <<"asked">>
    /\ query' = [query EXCEPT !.answer =
         IF query.type # "motion" THEN <<"einval">>
         ELSE IF TakesPointer(query.getter) /\ query.args[PointerArgument(query.getter)] >= query.pointers
           THEN <<"invalid">>
         ELSE IF Historical(query.getter) /\ query.args[HistoryArgument(query.getter)] >= query.history
           THEN <<"invalid">>
         ELSE <<"forwarded", [i \in 1..Arity(query.getter) |-> query.args[i]]>>]
    /\ UNCHANGED <<input_topic, platform, queueState, rearming, eventTable>>

InputInit ==
    /\ QueueInit
    /\ \/ input_topic = "queue" /\ query = NoQuery
       \/ input_topic = "query" /\ QueryInit

InputNext == QueueNext \/ Ask

InputSpec == InputInit /\ [][InputNext]_inputVars
-----------------------------------------------------------------------------
(* The type of the state.                                                   *)
InputTypeOK ==
    /\ arrived \in 0..MaxEvents /\ queued_events \cup taken \subseteq 1..arrived
    /\ {attached, signalled, queue_ready, prepared, woken_worker} \subseteq BOOLEAN
    /\ worker \in {"none", "start", "top", "poll", "on_ready", "write", "polled", "detach"}
    /\ rearming \in {"no", "drain", "store", "wake"}
    /\ DOMAIN event_state_ \subseteq 1..handles_used /\ handles_used <= MaxEvents
    /\ \A h \in DOMAIN event_state_ : event_state_[h] \in [native : 1..MaxEvents, owner : Readers]
    /\ queue_looper \in Loopers \cup {None} /\ registered \subseteq Loopers

(* An event is not forgotten: when the worker sleeps with nothing to wake   *)
(* it and no guest call is in rearm, a queue with events has a readable     *)
(* descriptor, so that a looper it is registered with comes back to it.     *)
ReadinessKept ==
    (worker = "poll" /\ ~woken_worker /\ ~CallbackDue /\ rearming = "no" /\ queued_events # {}) => signalled

(* The worker is on the platform's queue, or about to be, whenever ready is *)
(* clear and no rearm is under way: it never sleeps off an empty queue that *)
(* a later event must wake it for.                                          *)
WorkerOnQueue ==
    (worker = "poll" /\ ~woken_worker /\ rearming = "no" /\ ~queue_ready) => attached

(* Each event the platform has given out is in the table under one handle,  *)
(* and each handle of the table names such an event: the application gets   *)
(* an answer for each (an unfinished event blocks the input channel), and   *)
(* for none twice.                                                          *)
EventsAccounted ==
    /\ taken = {event_state_[h].native : h \in DOMAIN event_state_}
    /\ \A g, h \in DOMAIN event_state_ : event_state_[g].native = event_state_[h].native => g = h
    /\ queued_events \cap taken = {}

(* The descriptor is registered with no looper but the one the queue        *)
(* records, whatever is attached, refused, dropped by a callback and        *)
(* attached again: a detach then leaves none that still reports its events. *)
(* (A callback that gives the descriptor up, or a refused second attach,    *)
(* leaves it with none until the guest attaches again.)                     *)
OneLooper == registered \subseteq {queue_looper} \ {None}

(* The roles of the getter's arguments allow the call.                      *)
InRange(q) ==
    LET roles == Signature[q.getter] IN
    \A i \in DOMAIN roles :
        CASE roles[i] = "pointer" -> q.args[i] < q.pointers
          [] roles[i] = "history" -> q.args[i] < q.history
          [] OTHER -> TRUE

(* A getter of a motion event is forwarded exactly when the pointer and the *)
(* history it names are there, and with the arguments it takes.             *)
IndicesInRange ==
    input_topic = "query" /\ query.answer[1] \notin {"asked", "einval"} =>
        query.answer = IF InRange(query) THEN <<"forwarded", [i \in DOMAIN Signature[query.getter] |-> query.args[i]]>>
                       ELSE <<"invalid">>

(* All of them, in every state of a queue and of a query (rearm, getEvent,  *)
(* finishEvent, attachLooper, handle_host_call).                            *)
InputSafe == InputTypeOK /\ ReadinessKept /\ WorkerOnQueue /\ EventsAccounted /\ OneLooper /\ IndicesInRange
=============================================================================
