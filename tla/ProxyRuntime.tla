----------------------------- MODULE ProxyRuntime -----------------------------
(***************************************************************************)
(* ProxyRuntime (core/src/jni/proxy_runtime.cpp): activation of one plugin *)
(* or installed app per process, and the loads behind                      *)
(* ZBridge.onProxyLoaded, from any number of Java threads.                 *)
(*                                                                         *)
(* A thread that loads a proxy runs the library's JNI_OnLoad itself, and   *)
(* JNI_OnLoad may load further proxies: frames[t] is the stack of proxies  *)
(* thread t is inside of, and proxy_pc[t] the place in the innermost call. *)
(* Everything between two waits or unlocks of mutex_ is one step.          *)
(***************************************************************************)
EXTENDS Naturals, Sequences

CONSTANTS
    Threads,
    Proxies,        \* canonical proxy paths
    Runtimes,       \* plugins (root and targetSdk) and installed apps
    Loaders,        \* class loaders
    Home,           \* the runtime a proxy path belongs to
    OnLoads,        \* <<p, q>>: the JNI_OnLoad of p may load q
    Nobody

ASSUME ProxyAssumption ==
    /\ Nobody \notin Threads \cup Runtimes \cup Loaders
    /\ Home \in [Proxies -> Runtimes]

VARIABLES
    active,         \* active_, with plugin_root_, target_sdk_ and installed_
    class_loader,   \* the one the engine has bound
    start_state,
    entry_state, owner,   \* entries_
    frames, proxy_pc,
    asleep,         \* threads in cv_.wait that nobody has notified
    starts, loads   \* history: calls of engine_.start and engine_.load

config == <<active, class_loader>>
history == <<starts, loads>>
proxyVars == <<config, start_state, entry_state, owner, frames, proxy_pc, asleep, history>>

ProxyWaiting == {"wait_entry", "wait_start"}
Results == {"ok", "failed", "recursive"}
Running == {"run"} \cup Results     \* a result stays until the next step of its thread

\* Entries, stacks and places have their types; an active runtime has a loader.
ProxyTypeOK ==
    /\ active \in Runtimes \cup {Nobody}
    /\ class_loader \in Loaders \cup {Nobody}
    /\ active # Nobody => class_loader # Nobody
    /\ start_state \in {"NotStarted", "Starting", "Started", "Failed"}
    /\ entry_state \in [Proxies -> {"Unknown", "Loading", "Loaded", "Failed"}]
    /\ owner \in [Proxies -> Threads \cup {Nobody}]
    /\ frames \in [Threads -> Seq(Proxies)]
    /\ proxy_pc \in [Threads -> {"lookup", "starting"} \cup ProxyWaiting \cup Running]
    /\ asleep \subseteq {t \in Threads : proxy_pc[t] \in ProxyWaiting}
    /\ starts \in Nat /\ loads \in [Proxies -> Nat]

ProxyInit ==
    /\ active = Nobody /\ class_loader = Nobody
    /\ start_state = "NotStarted"
    /\ entry_state = [p \in Proxies |-> "Unknown"] /\ owner = [p \in Proxies |-> Nobody]
    /\ frames = [t \in Threads |-> <<>>] /\ proxy_pc = [t \in Threads |-> "run"]
    /\ asleep = {}
    /\ starts = 0 /\ loads = [p \in Proxies |-> 0]

-----------------------------------------------------------------------------

\* activate_plugin and activate_installed: one runtime for the life of the
\* process, recorded once the engine has bound its class loader (which accepts
\* only one).
Activate(r, cl) ==
    /\ active \in {Nobody, r} /\ class_loader \in {Nobody, cl}
    /\ class_loader' = cl
    /\ active' = r

ActivateRuntime ==
    /\ \E r \in Runtimes, cl \in Loaders : Activate(r, cl)
    /\ UNCHANGED <<start_state, entry_state, owner, frames, proxy_pc, asleep, history>>

-----------------------------------------------------------------------------
Inside(t) == frames[t] # <<>>
Top(t) == frames[t][Len(frames[t])]

\* on_proxy_loaded returns, and the JNI_OnLoad of the proxy passes the result
\* on to the code that loads it.
Return(t, result) ==
    /\ frames' = [frames EXCEPT ![t] = SubSeq(@, 1, Len(@) - 1)]
    /\ proxy_pc' = [proxy_pc EXCEPT ![t] = result]

Sleep(t, place) ==
    /\ proxy_pc' = [proxy_pc EXCEPT ![t] = place]
    /\ asleep' = asleep \cup {t}

\* cv_.notify_all
NotifyAll == asleep' = {}

\* Mistake: a failed load tells nobody.
FailSilently(t) ==
    /\ entry_state' = [entry_state EXCEPT ![Top(t)] = "Failed"]
    /\ asleep' = asleep
    /\ Return(t, "failed")

fail_locked(t) ==
    /\ entry_state' = [entry_state EXCEPT ![Top(t)] = "Failed"]
    /\ NotifyAll
    /\ Return(t, "failed")

\* Java code, or the JNI_OnLoad of the innermost frame, loads a proxy.
LoadProxy(t, p) ==
    /\ proxy_pc[t] \in Running
    /\ Inside(t) => <<Top(t), p>> \in OnLoads
    /\ frames' = [frames EXCEPT ![t] = Append(@, p)]
    /\ proxy_pc' = [proxy_pc EXCEPT ![t] = "lookup"]
    /\ UNCHANGED <<config, start_state, entry_state, owner, asleep, history>>

AtEntry(t) == proxy_pc[t] = "lookup" \/ (proxy_pc[t] = "wait_entry" /\ t \notin asleep)

\* The outcome is known, or this thread itself is about to produce it.
FindEntry(t) ==
    /\ AtEntry(t)
    /\ \/ entry_state[Top(t)] = "Loaded" /\ Return(t, "ok")
       \/ entry_state[Top(t)] = "Failed" /\ Return(t, "failed")
       \/ entry_state[Top(t)] = "Loading" /\ owner[Top(t)] = t /\ Return(t, "recursive")
    /\ UNCHANGED <<config, start_state, entry_state, owner, asleep, history>>

\* Mistake: a proxy that another thread is loading counts as loaded.
AnswerEarly(t) ==
    /\ AtEntry(t)
    /\ entry_state[Top(t)] = "Loading" /\ owner[Top(t)] # t
    /\ Return(t, "ok")
    /\ UNCHANGED <<config, start_state, entry_state, owner, asleep, history>>

\* Another thread is loading it.
AwaitEntry(t) ==
    /\ AtEntry(t)
    /\ entry_state[Top(t)] = "Loading" /\ owner[Top(t)] # t
    /\ Sleep(t, "wait_entry")
    /\ UNCHANGED <<config, start_state, entry_state, owner, frames, history>>

\* The path does not resolve or is no proxy path of the active runtime, or the
\* guest library is missing.
RefuseProxy(t) ==
    /\ AtEntry(t)
    /\ entry_state[Top(t)] = "Unknown"
    /\ fail_locked(t)
    /\ UNCHANGED <<config, start_state, owner, history>>

\* With the entry its own, the thread sleeps while another one starts the
\* runtime, starts it itself, or goes on to load: engine_.load runs the
\* library's constructors and its JNI_OnLoad.
AwaitStart(t) ==
    /\ start_state = "Starting"
    /\ Sleep(t, "wait_start")
    /\ UNCHANGED <<start_state, frames, history>>

BeginStart(t) ==
    /\ start_state = "NotStarted"
    /\ start_state' = "Starting" /\ starts' = starts + 1
    /\ proxy_pc' = [proxy_pc EXCEPT ![t] = "starting"]
    /\ UNCHANGED <<frames, asleep, loads>>

EnterLoad(t) ==
    /\ loads' = [loads EXCEPT ![Top(t)] = @ + 1]
    /\ proxy_pc' = [proxy_pc EXCEPT ![t] = "run"]
    /\ UNCHANGED <<frames, starts>>

BeginLoad(t) ==
    /\ start_state = "Started"
    /\ EnterLoad(t)
    /\ UNCHANGED <<start_state, asleep>>

\* The first half of a load is one critical section: the entry becomes this
\* thread's, or fails with the runtime.
Claim(t) ==
    /\ AtEntry(t)
    /\ entry_state[Top(t)] = "Unknown"
    /\ active = Home[Top(t)]
    /\ owner' = [owner EXCEPT ![Top(t)] = t]
    /\ \/ /\ start_state = "Failed"
          /\ fail_locked(t)
          /\ UNCHANGED <<start_state, history>>
       \/ /\ entry_state' = [entry_state EXCEPT ![Top(t)] = "Loading"]
          /\ AwaitStart(t) \/ BeginStart(t) \/ BeginLoad(t)
    /\ UNCHANGED config

\* A thread that slept while another one started the runtime; a failure of
\* some other proxy may have woken it too early.
WakeStarted(t) ==
    /\ proxy_pc[t] = "wait_start" /\ t \notin asleep
    /\ \/ /\ start_state = "Failed"
          /\ fail_locked(t)
          /\ UNCHANGED <<start_state, history>>
       \/ AwaitStart(t) /\ UNCHANGED entry_state
       \/ BeginLoad(t) /\ UNCHANGED entry_state
    /\ UNCHANGED <<config, owner>>

\* engine_.start returns.
StartReturns(t, ok) ==
    /\ proxy_pc[t] = "starting"
    /\ start_state' = IF ok THEN "Started" ELSE "Failed"
    /\ IF ok THEN EnterLoad(t) /\ NotifyAll /\ UNCHANGED entry_state
             ELSE fail_locked(t) /\ UNCHANGED history
    /\ UNCHANGED <<config, owner>>

\* engine_.load returns.
LoadReturns(t, ok) ==
    /\ proxy_pc[t] \in Running /\ Inside(t)
    /\ IF ok THEN /\ entry_state' = [entry_state EXCEPT ![Top(t)] = "Loaded"]
                  /\ NotifyAll
                  /\ Return(t, "ok")
             ELSE fail_locked(t)
    /\ UNCHANGED <<config, start_state, owner, history>>

Step(t) ==
    \/ FindEntry(t) \/ AwaitEntry(t) \/ Claim(t) \/ RefuseProxy(t) \/ WakeStarted(t)
    \/ \E ok \in BOOLEAN : StartReturns(t, ok) \/ LoadReturns(t, ok)

ProxyNext ==
    \/ ActivateRuntime
    \/ \E t \in Threads : Step(t) \/ \E p \in Proxies : LoadProxy(t, p)

ProxySpec == ProxyInit /\ [][ProxyNext]_proxyVars

\* Every thread runs, zbhost's start returns, and so does every JNI_OnLoad,
\* whatever it loads on the way.
ProxyFairSpec ==
    /\ ProxySpec
    /\ \A t \in Threads : WF_proxyVars(Step(t)) /\ SF_proxyVars(\E ok \in BOOLEAN : LoadReturns(t, ok))

-----------------------------------------------------------------------------
(***************************************************************************)
(* "Outcomes are final": a proxy that has loaded or failed stays so, and   *)
(* no proxy that was seen once is forgotten and tried again.               *)
(***************************************************************************)
OutcomesFinal ==
    [][\A p \in Proxies :
         /\ entry_state[p] \in {"Loaded", "Failed"} => entry_state'[p] = entry_state[p]
         /\ entry_state[p] = "Loading" => entry_state'[p] # "Unknown"]_proxyVars

(***************************************************************************)
(* "a failed start is never retried [...] and a successful load is never   *)
(* repeated": engine_.start runs at most once in the process, and          *)
(* engine_.load at most once for a library.                                *)
(***************************************************************************)
AtMostOnce == starts <= 1 /\ \A p \in Proxies : loads[p] <= 1

(***************************************************************************)
(* Every thread that loads a proxy learns its outcome, whoever loaded the  *)
(* library: it is told "ok" only of a library that has loaded and a        *)
(* failure only of one that has failed, and that its load is recursive     *)
(* only while it is inside that load.                                      *)
(***************************************************************************)
AnswersAgree ==
    [][\A t \in Threads :
         Len(frames'[t]) < Len(frames[t]) =>
             /\ proxy_pc'[t] = "ok" => entry_state'[Top(t)] = "Loaded"
             /\ proxy_pc'[t] = "failed" => entry_state'[Top(t)] = "Failed"
             /\ proxy_pc'[t] = "recursive" => \E i \in DOMAIN frames'[t] : frames'[t][i] = Top(t)]_proxyVars

(***************************************************************************)
(* Guest code of a library runs only in a runtime that has started, for    *)
(* the plugin that is active, and in the thread that owns the entry.       *)
(***************************************************************************)
LoadsInRuntime ==
    \A t \in Threads : \A i \in DOMAIN frames[t] :
        i < Len(frames[t]) \/ proxy_pc[t] \in Running =>
            /\ start_state = "Started" /\ active = Home[frames[t][i]]
            /\ entry_state[frames[t][i]] = "Loading" /\ owner[frames[t][i]] = t

(***************************************************************************)
(* No thread sleeps on cv_ for ever: with JNI_OnLoads that do not load     *)
(* each other in a circle, every call of on_proxy_loaded returns.          *)
(***************************************************************************)
LoadsReturnTo(t) == Inside(t) ~> ~Inside(t)
=============================================================================
