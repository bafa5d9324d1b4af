------------------------------- MODULE JniIds -------------------------------
(***************************************************************************)
(* jmethodID values of the guest: IdTable (core/src/jni/handles.cpp), the  *)
(* shorties kept beside it under another mutex (intern_method,             *)
(* host_jni.cpp) and their use by GetMethodShorty and CallMethodA.  A      *)
(* guest thread may use any id that any guest thread has been given.       *)
(***************************************************************************)
EXTENDS Integers, Sequences, Functions

CONSTANTS Askers,    \* guest threads
          HostIds,   \* ART's jmethodID values
          ShortyOf   \* of the method of every one of them

ASSUME IdsAssumption == \A host \in HostIds : ShortyOf[host] # "empty"

VARIABLES ids_,      \* IdTable: ids_[guest] is the host's id, index_ its inverse
          shorties,
          id_asking, \* what every thread is in the middle of
          id_given,  \* the ids guest code has seen
          id_dead

idsVars == <<ids_, shorties, id_asking, id_given, id_dead>>

Empty == "empty"
Nothing == [at |-> "idle"]

IdsInit ==
    /\ ids_ = <<>>
    /\ shorties = <<>>
    /\ id_asking = [t \in Askers |-> Nothing]
    /\ id_given = {}
    /\ id_dead = FALSE

Does(t, what) == id_asking' = [id_asking EXCEPT ![t] = what]
At(t, place) == ~id_dead /\ id_asking[t].at = place

\* Mistake: every request adds an entry.
intern_blindly(host) == Append(ids_, host)

intern(host) == IF host \in Range(ids_) THEN ids_ ELSE Append(ids_, host)

shorties_with(guest, shorty) ==
    LET size == IF Len(shorties) < guest THEN guest ELSE Len(shorties)
    IN  [i \in 1..size |-> IF i = guest THEN shorty ELSE IF i <= Len(shorties) THEN shorties[i] ELSE Empty]

method_shorty(id) == IF id = 0 \/ id > Len(shorties) THEN Empty ELSE shorties[id]

\* GetMethodID and FromReflectedMethod, once ART has answered: methods.intern.
GetMethodID(t, host) ==
    /\ At(t, "idle")
    /\ ids_' = intern(host)
    /\ Does(t, [at |-> "shorty", host |-> host, guest |-> CHOOSE id \in DOMAIN ids_' : ids_'[id] = host])
    /\ UNCHANGED <<shorties, id_given, id_dead>>

\* The rest of intern_method, and the return to the guest.
StoreShorty(t) ==
    /\ At(t, "shorty")
    /\ shorties' = shorties_with(id_asking[t].guest, ShortyOf[id_asking[t].host])
    /\ id_given' = id_given \union {id_asking[t].guest}
    /\ Does(t, Nothing)
    /\ UNCHANGED <<ids_, id_dead>>

\* CallMethodA: method_id, which is fatal for an id the table does not have.
CallMethodA(t, id) ==
    /\ At(t, "idle")
    /\ IF id <= Len(ids_) THEN Does(t, [at |-> "call", host |-> ids_[id], guest |-> id]) /\ UNCHANGED id_dead
                          ELSE id_dead' = TRUE /\ UNCHANGED id_asking
    /\ UNCHANGED <<ids_, shorties, id_given>>

\* CallMethodA: method_shorty, fatal when there is none; the call is made.
CallWithShorty(t) ==
    LET shorty == method_shorty(id_asking[t].guest)
    IN  /\ At(t, "call")
        /\ IF shorty = Empty THEN id_dead' = TRUE /\ UNCHANGED id_asking
                             ELSE /\ Does(t, [at |-> "called", host |-> id_asking[t].host, shorty |-> shorty])
                                  /\ UNCHANGED id_dead
        /\ UNCHANGED <<ids_, shorties, id_given>>

CallEnds(t) == At(t, "called") /\ Does(t, Nothing) /\ UNCHANGED <<ids_, shorties, id_given, id_dead>>

\* GetMethodShorty, fatal when there is none.
GetMethodShorty(t, id) ==
    /\ At(t, "idle")
    /\ id_dead' = (method_shorty(id) = Empty)
    /\ UNCHANGED <<ids_, shorties, id_asking, id_given>>

IdsNext ==
    \E t \in Askers :
      \/ StoreShorty(t) \/ CallWithShorty(t) \/ CallEnds(t)
      \/ \E host \in HostIds : GetMethodID(t, host)
      \/ \E id \in id_given : CallMethodA(t, id) \/ GetMethodShorty(t, id)

IdsSpec == IdsInit /\ [][IdsNext]_idsVars

-----------------------------------------------------------------------------
\* An id in the guest's hands always has its shorty, and a call by any thread
\* reaches ART with the method and the shorty of one and the same method, although
\* id and shorty are stored under two mutexes (intern_method).
IdsResolve ==
    /\ ~id_dead
    /\ \A id \in id_given : method_shorty(id) = ShortyOf[ids_[id]]
    /\ \A t \in Askers : id_asking[t].at = "called" => id_asking[t].shorty = ShortyOf[id_asking[t].host]

\* A method has one jmethodID, whichever threads ask for it (IdTable::intern); the
\* guest may compare ids.
OneIdPerMethod == IsInjective(ids_)

\* Both, after any calls of any threads.
IdsSafe == IdsResolve /\ OneIdPerMethod
=============================================================================
