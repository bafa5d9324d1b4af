---------------------------- MODULE SignalTarget ----------------------------
(***************************************************************************)
(* How a host signal finds a guest thread (core/src/signals.cpp) and how a *)
(* guest thread retires before it is freed (core/src/process.cpp).         *)
(*                                                                         *)
(* A host thread that runs guest code names its GuestThread in the         *)
(* thread-local t_current_thread.  A host signal that lands on a thread    *)
(* naming none goes to g_process_signal_target, the main guest thread.     *)
(* The handler takes no lock: it counts itself in g_target_readers before  *)
(* it loads the pointer, and clear_process_signal_target unpublishes the   *)
(* pointer and then waits for that counter to reach zero.                  *)
(*                                                                         *)
(* Every atomic in the code is seq_cst, so steps interleave.  A handler    *)
(* interrupts the normal code of its own host thread, and a handler of     *)
(* another signal number may interrupt it in turn (sa_mask is empty).      *)
(***************************************************************************)
EXTENDS Integers, FiniteSets

CONSTANTS
    Hosts,      \* host threads
    Threads,    \* addresses of GuestThread objects; an address is reused
    MaxNest,    \* handlers nested on one host thread (ten signals forwarded)
    None        \* nullptr

ASSUME SignalTargetAssumption ==
    /\ IsFiniteSet(Hosts)
    /\ MaxNest \in Nat
    /\ None \notin Threads

VARIABLES
    target,     \* g_process_signal_target
    readers,    \* g_target_readers
    current,    \* t_current_thread of every host thread
    pc,         \* normal context of every host thread
    mine,       \* the GuestThread a host thread owns
    main,       \* whether that GuestThread is the Process's main thread
    alive,      \* GuestThread objects that exist
    at,         \* progress of every handler invocation
    got         \* the GuestThread pointer the invocation holds

targetVars == <<target, readers, current, pc, mine, main, alive, at, got>>

(***************************************************************************)
(* Slot <<h, d>> is the handler invocation at nesting depth d on host h.   *)
(***************************************************************************)
Slots == Hosts \X (1..MaxNest)
Off(h) == \A d \in 1..MaxNest : at[<<h, d>>] = "off"
Counting == {s \in Slots : at[s] \in {"counted", "loaded", "posted"}}
Top(h, d) == \A e \in 1..MaxNest : e > d => at[<<h, e>>] = "off"

PCs == {"idle", "start", "run", "clear", "wait", "cleared", "retired"}

\* The state of every host thread and handler has its type.
TargetTypeOK ==
    /\ target \in Threads \cup {None}
    /\ readers \in Nat
    /\ current \in [Hosts -> Threads \cup {None}]
    /\ pc \in [Hosts -> PCs]
    /\ mine \in [Hosts -> Threads \cup {None}]
    /\ main \in [Hosts -> BOOLEAN]
    /\ alive \subseteq Threads
    /\ at \in [Slots -> {"off", "fast", "counted", "loaded", "posted"}]
    /\ got \in [Slots -> Threads \cup {None}]

TargetInit ==
    /\ target = None
    /\ readers = 0
    /\ current = [h \in Hosts |-> None]
    /\ pc = [h \in Hosts |-> "idle"]
    /\ mine = [h \in Hosts |-> None]
    /\ main = [h \in Hosts |-> FALSE]
    /\ alive = {}
    /\ at = [s \in Slots |-> "off"]
    /\ got = [s \in Slots |-> None]

-----------------------------------------------------------------------------
(***************************************************************************)
(* The handler, forward_host_signal.                                       *)
(***************************************************************************)

\* A signal lands on h: the fast path takes t_current_thread, every other
\* invocation registers as a reader first.
Enter(h, d) ==
    /\ at[<<h, d>>] = "off"
    /\ d > 1 => at[<<h, d - 1>>] # "off"
    /\ IF current[h] # None
         THEN /\ at' = [at EXCEPT ![<<h, d>>] = "fast"]
              /\ got' = [got EXCEPT ![<<h, d>>] = current[h]]
              /\ UNCHANGED readers
         ELSE /\ at' = [at EXCEPT ![<<h, d>>] = "counted"]
              /\ readers' = readers + 1
              /\ UNCHANGED got
    /\ UNCHANGED <<target, current, pc, mine, main, alive>>

Load(h, d) ==
    /\ at[<<h, d>>] = "counted"
    /\ Top(h, d)
    /\ got' = [got EXCEPT ![<<h, d>>] = target]
    /\ at' = [at EXCEPT ![<<h, d>>] = IF target = None THEN "posted" ELSE "loaded"]
    /\ UNCHANGED <<target, readers, current, pc, mine, main, alive>>

\* post_signal on the thread the invocation holds.
Post(h, d) ==
    /\ at[<<h, d>>] \in {"fast", "loaded"}
    /\ Top(h, d)
    /\ at' = [at EXCEPT ![<<h, d>>] = IF at[<<h, d>>] = "fast" THEN "off" ELSE "posted"]
    /\ got' = [got EXCEPT ![<<h, d>>] = None]
    /\ UNCHANGED <<target, readers, current, pc, mine, main, alive>>

\* Mistake: an early return skips the decrement.
LeaveUndecremented(h, d) ==
    /\ at[<<h, d>>] = "posted"
    /\ Top(h, d)
    /\ at' = [at EXCEPT ![<<h, d>>] = "off"]
    /\ UNCHANGED <<target, readers, current, pc, mine, main, alive, got>>

Leave(h, d) ==
    /\ at[<<h, d>>] = "posted"
    /\ Top(h, d)
    /\ readers' = readers - 1
    /\ at' = [at EXCEPT ![<<h, d>>] = "off"]
    /\ UNCHANGED <<target, current, pc, mine, main, alive, got>>

-----------------------------------------------------------------------------
(***************************************************************************)
(* Normal context.  It runs only while no handler interrupts it.           *)
(***************************************************************************)

\* Process::run builds main_ and publishes it.  The header asks that a
\* published target is cleared before another one is set.
StartMain(h, t) ==
    /\ Off(h)
    /\ pc[h] = "idle"
    /\ t \notin alive
    /\ \A g \in Hosts : main[g] => pc[g] \in {"idle", "cleared", "retired"}
    /\ alive' = alive \cup {t}
    /\ mine' = [mine EXCEPT ![h] = t]
    /\ main' = [main EXCEPT ![h] = TRUE]
    /\ target' = t
    /\ pc' = [pc EXCEPT ![h] = "start"]
    /\ UNCHANGED <<readers, current, at, got>>

\* Process::clone_thread: a new host thread owns the child.
StartClone(h, t) ==
    /\ Off(h)
    /\ pc[h] = "idle"
    /\ t \notin alive
    /\ \E g \in Hosts : pc[g] = "run"
    /\ alive' = alive \cup {t}
    /\ mine' = [mine EXCEPT ![h] = t]
    /\ main' = [main EXCEPT ![h] = FALSE]
    /\ pc' = [pc EXCEPT ![h] = "start"]
    /\ UNCHANGED <<target, readers, current, at, got>>

\* thread_loop names the thread before it runs guest code.
EnterLoop(h) ==
    /\ Off(h)
    /\ pc[h] = "start"
    /\ current' = [current EXCEPT ![h] = mine[h]]
    /\ pc' = [pc EXCEPT ![h] = "run"]
    /\ UNCHANGED <<target, readers, mine, main, alive, at, got>>

\* The thread ran its last guest instruction.  A cloned thread stops being
\* named before it is unregistered, main_ only afterwards.
LeaveLoop(h) ==
    /\ Off(h)
    /\ pc[h] = "run"
    /\ current' = [current EXCEPT ![h] = IF main[h] THEN mine[h] ELSE None]
    /\ pc' = [pc EXCEPT ![h] = "clear"]
    /\ UNCHANGED <<target, readers, mine, main, alive, at, got>>

\* clear_process_signal_target: the compare-exchange.  A thread that is not
\* the target returns at once.
ClearCas(h) ==
    /\ Off(h)
    /\ pc[h] = "clear"
    /\ target' = IF target = mine[h] THEN None ELSE target
    /\ pc' = [pc EXCEPT ![h] = IF target = mine[h] THEN "wait" ELSE "cleared"]
    /\ UNCHANGED <<readers, current, mine, main, alive, at, got>>

\* Mistake: the caller frees the thread without waiting for the readers.
ClearWithoutWait(h) ==
    /\ Off(h)
    /\ pc[h] = "wait"
    /\ pc' = [pc EXCEPT ![h] = "cleared"]
    /\ UNCHANGED <<target, readers, current, mine, main, alive, at, got>>

\* The spin, yield and sleep loop ends when it reads a zero counter.
ClearWait(h) ==
    /\ Off(h)
    /\ pc[h] = "wait"
    /\ readers = 0
    /\ pc' = [pc EXCEPT ![h] = "cleared"]
    /\ UNCHANGED <<target, readers, current, mine, main, alive, at, got>>

\* run() stops naming main_ after the target is retired.
StopNaming(h) ==
    /\ Off(h)
    /\ pc[h] = "cleared"
    /\ current' = [current EXCEPT ![h] = None]
    /\ pc' = [pc EXCEPT ![h] = "retired"]
    /\ UNCHANGED <<target, readers, mine, main, alive, at, got>>

\* The unique_ptr of thread_main, or ~Process for main_, frees the thread.
FreeThread(h) ==
    /\ Off(h)
    /\ pc[h] = "retired"
    /\ alive' = alive \ {mine[h]}
    /\ mine' = [mine EXCEPT ![h] = None]
    /\ main' = [main EXCEPT ![h] = FALSE]
    /\ pc' = [pc EXCEPT ![h] = "idle"]
    /\ UNCHANGED <<target, readers, current, at, got>>

-----------------------------------------------------------------------------
Handler(h, d) == Load(h, d) \/ Post(h, d) \/ Leave(h, d)

Retire(h) == ClearCas(h) \/ ClearWait(h) \/ StopNaming(h) \/ FreeThread(h)

TargetNext ==
    \E h \in Hosts :
        \/ \E d \in 1..MaxNest : Enter(h, d) \/ Handler(h, d)
        \/ \E t \in Threads : StartMain(h, t) \/ StartClone(h, t)
        \/ EnterLoop(h) \/ LeaveLoop(h) \/ Retire(h)

TargetSpec == TargetInit /\ [][TargetNext]_targetVars

(***************************************************************************)
(* Handlers and the retiring code run whenever they can.  Nothing makes a  *)
(* host signal arrive, a thread start or guest code end.                   *)
(***************************************************************************)
TargetFairness ==
    \A h \in Hosts :
        /\ \A d \in 1..MaxNest : WF_targetVars(Handler(h, d))
        /\ WF_targetVars(Retire(h))

TargetFairSpec == TargetSpec /\ TargetFairness

-----------------------------------------------------------------------------
(***************************************************************************)
(* A handler never holds a GuestThread that has been freed, on the fast    *)
(* path or through the published target: signals.cpp promises it of        *)
(* clear_process_signal_target ("when this returns, no forwarding handler  *)
(* holds `thread` or can still acquire it, so the caller may destroy it"). *)
(***************************************************************************)
HeldThreadAlive ==
    \A s \in Slots : at[s] \in {"fast", "loaded"} => got[s] \in alive

(***************************************************************************)
(* The published target and every named thread exist, so the next handler  *)
(* acquires a live thread whenever it runs.                                *)
(***************************************************************************)
NamedThreadAlive ==
    /\ target # None => target \in alive
    /\ \A h \in Hosts : current[h] # None => current[h] \in alive

SignalsStop == <>[][~ \E h \in Hosts, d \in 1..MaxNest : Enter(h, d)]_targetVars

(***************************************************************************)
(* Once host signals stop arriving, clear_process_signal_target returns:   *)
(* its wait loop is not held up by itself, by a handler nested in another  *)
(* one, or by a reader that never gives its count back.                    *)
(***************************************************************************)
ClearReturns ==
    SignalsStop => \A h \in Hosts : pc[h] = "wait" ~> pc[h] = "idle"
=============================================================================
