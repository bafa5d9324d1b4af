---------------------------- MODULE MCRuntimeLive ----------------------------
(***************************************************************************)
(* The two parts of the runtime in which a host thread waits for another   *)
(* one: the loads of proxies, and the commands and carriers of library     *)
(* mode.  They share no state here, so a behaviour works on one of them.   *)
(* Library mode runs without signals and with an id for a borrower, and    *)
(* again with signals and without that id: no step of it but Init and the  *)
(* arrival of a signal depends on these two constants.                     *)
(***************************************************************************)
EXTENDS ProxyRuntime, LibraryRuntime

CONSTANTS p1, p2, r1

\* Two libraries of one plugin; another plugin may be active instead.
MCHome == [p \in Proxies |-> r1]
\* The JNI_OnLoad of p1 loads p2, and p1 itself.
MCOnLoads == {<<p1, p2>>, <<p1, p1>>}

VARIABLE part

WithSignals == INSTANCE LibraryRuntime WITH Signalled <- {CHOOSE c \in Carriers : TRUE, Service}, MaxIds <- 2

MCInit ==
    /\ part \in {"proxy", "library", "signals"}
    /\ ProxyInit
    /\ IF part = "signals" THEN WithSignals!Init ELSE Init

MCNext ==
    /\ UNCHANGED part
    /\ \/ part = "proxy" /\ ProxyNext /\ UNCHANGED vars
       \/ part = "library" /\ Next /\ UNCHANGED proxyVars
       \/ part = "signals" /\ WithSignals!Next /\ UNCHANGED proxyVars

(* The fairness of ProxyFairSpec and FairSpec, for the part that runs.      *)
MCFairness ==
    /\ \A t \in Threads : /\ WF_proxyVars(part = "proxy" /\ Step(t))
                          /\ SF_proxyVars(part = "proxy" /\ \E ok \in BOOLEAN : LoadReturns(t, ok))
    /\ WF_vars(part # "proxy" /\ up /\ ServiceStep)
    /\ \A k \in Clients : WF_vars(part # "proxy" /\ up /\ ClientStep(k))
    /\ \A c \in Carriers : WF_vars(part # "proxy" /\ up /\ CarrierStep(c))

MCSpec == MCInit /\ [][MCNext]_<<part, vars, proxyVars>> /\ MCFairness
-----------------------------------------------------------------------------
(* No thread sleeps on cv_ for ever: with JNI_OnLoads that do not load each *)
(* other in a circle, every call of on_proxy_loaded returns.  The threads   *)
(* are interchangeable, and one is named.                                   *)
LoadsReturn == LoadsReturnTo(CHOOSE t \in Threads : TRUE)
==============================================================================
