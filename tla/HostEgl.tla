------------------------------- MODULE HostEgl -------------------------------
(***************************************************************************)
(* EGL objects as guest handles (core/src/gl/host_egl.cpp, egl_manual.cpp): *)
(* the table that maps a driver pointer to a handle and a handle to a      *)
(* pointer and its class, the error of a call refused here, the guest      *)
(* copies of driver strings, and the ring of missed eglGetProcAddress      *)
(* names.  The driver may give a new object the address of a destroyed     *)
(* one.  Handles are never given back: handle i is the i-th entry.         *)
(***************************************************************************)
EXTENDS Integers, Sequences, FiniteSets, FiniteSetsExt, SequencesExt

CONSTANTS Threads,
          Addresses,  \* where the driver puts contexts and surfaces
          Configs,    \* the driver's configs, in its order
          MaxHandles, \* capacity of GlobalHandles
          Names,      \* names eglGetProcAddress misses
          RecentMisses, MaxMisses, \* kRecentMisses; a bound on misses
          MaxStrings  \* a bound: guest copies of one driver string

VARIABLES egl_objects,   \* entries [ptr, kind]
          alive,      \* what the driver has at each address
          given,     \* history: <<handle, address, class>> of live objects
          reused,    \* history: an address came back as another class
          passed,    \* the last driver call: class wanted and address passed
          pending_error,   \* t_pending_error of each thread
          sticky,    \* the driver's error of each thread
          refused,      \* history: the error of each thread's last refused call
          told,      \* the last answer of eglGetError, and the one expected
          cache, asking, copies, answers, overlapped, \* eglQueryString
          missed, recent, reported, history \* eglGetProcAddress

objectVars == <<egl_objects, alive, given, reused>>
errorVars == <<pending_error, sticky, refused, told>>
stringVars == <<cache, asking, copies, answers, overlapped>>
missVars == <<missed, recent, reported, history>>
eglVars == <<objectVars, passed, errorVars, stringVars, missVars>>

Success == "success"
None == "none"
Untold == [got |-> Success, expected |-> Success]
NoCall == [kind |-> None, ptr |-> None]
Classes == {"context", "surface", "config"}
egl_object_error(kind) == IF kind = "config" THEN "bad_parameter" ELSE "bad_" \o kind

-----------------------------------------------------------------------------
(* The table.                                                               *)

Find(table, ptr) == {h \in DOMAIN table : table[h].ptr = ptr}

(* handle_for: by_value_ first, whatever the class; 0 when the table is     *)
(* full.                                                                    *)
Entered(table, ptr, kind) ==
    IF Find(table, ptr) # {} \/ Len(table) >= MaxHandles THEN table
    ELSE Append(table, [ptr |-> ptr, kind |-> kind])

handle_for(table, ptr, kind) ==
    LET found == Find(Entered(table, ptr, kind), ptr)
    IN IF found = {} THEN 0 ELSE Min(found)

lookup(h, kind) ==
    IF h \in DOMAIN egl_objects /\ egl_objects[h].kind = kind THEN egl_objects[h].ptr ELSE None

-----------------------------------------------------------------------------
(* Mistake: one error for all threads.                                      *)
RejectForAll(t, error) ==
    /\ pending_error' = [u \in Threads |-> error]
    /\ refused' = [refused EXCEPT ![t] = error]
    /\ UNCHANGED sticky

(* Call::fail: the error shadows the driver's until eglGetError reads it.   *)
reject(t, error) ==
    /\ pending_error' = [pending_error EXCEPT ![t] = error]
    /\ refused' = [refused EXCEPT ![t] = error]
    /\ UNCHANGED sticky

(* eglCreateContext, eglCreateWindowSurface, eglCreatePlatformWindowSurface,*)
(* eglCreatePbufferSurface with valid arguments: the driver creates the     *)
(* object or sets its own error.                                            *)
Create(t, kind) ==
    /\ passed' = NoCall /\ told' = Untold
    /\ UNCHANGED <<stringVars, missVars>>
    /\ \/ \E p \in {a \in Addresses : alive[a] = None} :
             LET h == handle_for(egl_objects, p, kind)
             IN /\ alive' = [alive EXCEPT ![p] = kind]
                /\ egl_objects' = Entered(egl_objects, p, kind)
                /\ given' = IF h = 0 THEN given ELSE given \cup {<<h, p, kind>>}
                /\ reused' = (reused \/ (h # 0 /\ egl_objects'[h].kind # kind))
                /\ UNCHANGED <<pending_error, sticky, refused>>
       \/ /\ sticky' = [sticky EXCEPT ![t] = "driver"]
          /\ UNCHANGED <<objectVars, pending_error, refused>>

(* Refused before the driver is asked: an unknown native window, an         *)
(* attribute list that does not end, what cannot cross (eglCreateImage,     *)
(* eglCreateSync, pixmaps, native displays).                                *)
CreateRefused(t, error) ==
    /\ reject(t, error)
    /\ passed' = NoCall /\ told' = Untold
    /\ UNCHANGED <<objectVars, stringVars, missVars>>

(* Any call that takes a handle (Call::handle_of): eglMakeCurrent,          *)
(* eglSwapBuffers, eglQuery..., eglGetConfigAttrib; eglDestroyContext and   *)
(* eglDestroySurface also end the object.  Handle 0 is EGL_NO_....          *)
handle_of(t, h, kind, destroys) ==
    LET p == lookup(h, kind)
    IN /\ told' = Untold
       /\ UNCHANGED <<egl_objects, reused, stringVars, missVars>>
       /\ \/ /\ p = None
             /\ reject(t, egl_object_error(kind))
             /\ passed' = NoCall
             /\ UNCHANGED <<alive, given>>
          \/ /\ p # None
             /\ passed' = [kind |-> kind, ptr |-> p]
             /\ UNCHANGED <<pending_error, refused>>
             /\ IF alive[p] = kind
                THEN /\ alive' = IF destroys THEN [alive EXCEPT ![p] = None] ELSE alive
                     /\ given' = IF destroys THEN {g \in given : g[2] # p} ELSE given
                     /\ UNCHANGED sticky
                ELSE /\ sticky' = [sticky EXCEPT ![t] = "driver"]
                     /\ UNCHANGED <<alive, given>>

(* eglGetCurrentContext, eglGetCurrentSurface: the handle of an object the  *)
(* driver still has.                                                        *)
GetCurrent(p) ==
    LET kind == alive[p]
        h == handle_for(egl_objects, p, kind)
    IN /\ kind \in {"context", "surface"}
       /\ egl_objects' = Entered(egl_objects, p, kind)
       /\ given' = IF h = 0 THEN given ELSE given \cup {<<h, p, kind>>}
       /\ passed' = NoCall /\ told' = Untold
       /\ UNCHANGED <<alive, reused, pending_error, sticky, refused, stringVars, missVars>>

(* eglChooseConfig, eglGetConfigs: at most as many handles as the guest's   *)
(* array holds.                                                             *)
serve_configs(size) ==
    LET found == SubSeq(Configs, 1, Min({size, Len(Configs)}))
        filled == FoldLeft(LAMBDA table, p : Entered(table, p, "config"), egl_objects, found)
    IN /\ egl_objects' = filled
       /\ given' = given \cup {<<Min(Find(filled, p)), p, "config">> :
                                  p \in {q \in Range(found) : Find(filled, q) # {}}}
       /\ passed' = NoCall /\ told' = Untold
       /\ UNCHANGED <<alive, reused, pending_error, sticky, refused, stringVars, missVars>>

(* handle_host_call: an error recorded here is answered before the driver's.*)
eglGetError(t) ==
    /\ told' = [got |-> IF pending_error[t] # Success THEN pending_error[t] ELSE sticky[t],
                expected |-> IF refused[t] # Success THEN refused[t] ELSE sticky[t]]
    /\ pending_error' = [pending_error EXCEPT ![t] = Success]
    /\ sticky' = IF pending_error[t] # Success THEN sticky ELSE [sticky EXCEPT ![t] = Success]
    /\ refused' = [refused EXCEPT ![t] = Success]
    /\ passed' = NoCall
    /\ UNCHANGED <<objectVars, stringVars, missVars>>

-----------------------------------------------------------------------------
(* eglQueryString: the cache is looked at under the lock, a copy made       *)
(* without it, and stored under it again.                                   *)
eglQueryString(t) ==
    /\ ~asking[t]
    /\ IF cache # 0
       THEN /\ answers' = [answers EXCEPT ![t] = cache]
            /\ UNCHANGED <<asking, overlapped>>
       ELSE /\ asking' = [asking EXCEPT ![t] = TRUE]
            /\ overlapped' = (overlapped \/ \E u \in Threads : asking[u])
            /\ UNCHANGED answers
    /\ UNCHANGED <<objectVars, passed, errorVars, missVars, cache, copies>>

StoreCopy(t) ==
    /\ asking[t] /\ copies < MaxStrings
    /\ copies' = copies + 1
    /\ cache' = copies + 1
    /\ answers' = [answers EXCEPT ![t] = copies + 1]
    /\ asking' = [asking EXCEPT ![t] = FALSE]
    /\ UNCHANGED <<objectVars, passed, errorVars, missVars, overlapped>>

RingSlot(seen) == (seen - 1) % RecentMisses

(* eglGetProcAddress of a name no guest library has: counted, kept in the   *)
(* ring, and the ring written out oldest first.                             *)
eglGetProcAddress(name) ==
    LET seen == missed + 1
        kept == Min({seen, RecentMisses})
    IN /\ missed < MaxMisses
       /\ missed' = seen
       /\ recent' = [recent EXCEPT ![RingSlot(seen)] = name]
       /\ reported' = [i \in 1..kept |-> recent'[(seen - kept + i - 1) % RecentMisses]]
       /\ history' = Append(history, name)
       /\ UNCHANGED <<objectVars, passed, errorVars, stringVars>>

-----------------------------------------------------------------------------
Init ==
    /\ egl_objects = <<>>
    /\ alive = [a \in Addresses \cup Range(Configs) |->
                  IF a \in Range(Configs) THEN "config" ELSE None]
    /\ given = {} /\ reused = FALSE /\ passed = NoCall
    /\ pending_error = [t \in Threads |-> Success] /\ sticky = [t \in Threads |-> Success]
    /\ refused = [t \in Threads |-> Success] /\ told = Untold
    /\ cache = 0 /\ asking = [t \in Threads |-> FALSE] /\ copies = 0
    /\ answers = [t \in Threads |-> 0] /\ overlapped = FALSE
    /\ missed = 0 /\ recent = [i \in 0..(RecentMisses - 1) |-> None]
    /\ reported = <<>> /\ history = <<>>

(* The three tables are independent; a behaviour exercises one of them.     *)
Objects ==
    /\ missed = 0 /\ copies = 0 /\ \A t \in Threads : ~asking[t]
    /\ \/ \E p \in Addresses : GetCurrent(p)
       \/ \E size \in 1..(Len(Configs) + 1) : serve_configs(size)
       \/ \E t \in Threads :
             \/ \E k \in {"context", "surface"} : Create(t, k)
             \/ \E e \in {"bad_native_window"} : CreateRefused(t, e)
             \/ \E h \in 1..MaxHandles, k \in Classes : handle_of(t, h, k, FALSE)
             \/ \E h \in 1..MaxHandles, k \in {"context", "surface"} : handle_of(t, h, k, TRUE)
             \/ eglGetError(t)

Strings == /\ missed = 0 /\ egl_objects = <<>>
           /\ \E t \in Threads : eglQueryString(t) \/ StoreCopy(t)

Misses == /\ copies = 0 /\ egl_objects = <<>> /\ passed = NoCall /\ told = Untold
          /\ \E n \in Names : eglGetProcAddress(n)

Next == Objects \/ Strings \/ Misses

Spec == Init /\ [][Next]_eglVars

-----------------------------------------------------------------------------
(* Types of the variables.                                                  *)
TypeOK ==
    /\ Len(egl_objects) <= MaxHandles
    /\ \A h \in DOMAIN egl_objects : egl_objects[h].kind \in Classes
    /\ cache \in 0..MaxStrings /\ missed \in 0..MaxMisses

(* What the guest holds names what it was given: one handle for an object   *)
(* however often it is asked for, so that == works, different handles for   *)
(* different objects, and the object itself and its class behind it, over   *)
(* creation, destruction and reuse of its address.  An address that comes   *)
(* back as an object of another class is the exception: by_value_ answers   *)
(* with the old handle, whose class is wrong.                               *)
HandlesName ==
    ~reused => /\ \A g \in given : lookup(g[1], g[3]) = g[2]
               /\ \A f, g \in given : f[1] = g[1] <=> f[2] = g[2]

(* The driver is never handed a live object of another class: kinds_ turns  *)
(* a mistyped handle away with that class's error, but not once an address  *)
(* has come back as an object of another class.                             *)
ClassChecked ==
    (passed # NoCall /\ ~reused) => alive[passed.ptr] \in {passed.kind, None}

(* eglGetError of a thread answers with the error of its own last refused   *)
(* call, whatever other threads do and whatever the driver reports, and     *)
(* with the driver's error after that.                                      *)
ErrorsDelivered == told.got = told.expected

(* "One guest copy per (display, name)": the guest is given one copy of a   *)
(* driver string, the one it may keep, unless several threads asked for it  *)
(* before it was in the cache.  Each of these makes a copy of its own, and  *)
(* nobody makes one later.                                                  *)
OneCopy ==
    /\ ~overlapped => copies <= 1 /\ \A t \in Threads : answers[t] \in {0, cache}
    /\ copies <= Cardinality(Threads)

(* The report's procaddress-last lines are the last misses, oldest first.   *)
MissesInOrder ==
    /\ Len(reported) = Min({Len(history), RecentMisses})
    /\ \A i \in DOMAIN reported : reported[i] = history[Len(history) - Len(reported) + i]

=============================================================================
