-------------------------- MODULE HostLooperProofs --------------------------
(***************************************************************************)
(* RegisteredIsPolled, RegistrationKept and NoStaleDispatch of HostLooper, *)
(* for any numbers of loopers, threads, descriptors and registrations.     *)
(***************************************************************************)
EXTENDS HostLooper, TLAPS

-----------------------------------------------------------------------------
(***************************************************************************)
(* The inductive invariant.                                                *)
(***************************************************************************)

\* Where the owner is, by the kind of its looper, and what it serves there.
Places ==
    \A o \in Owners :
        /\ looper_pc[o] \in {"poll", "drain", "serve"} => looper[o] = "guest"
        /\ looper_pc[o] \in {"fired", "unregister"} => looper[o] = "attached"
        /\ looper_pc[o] \in {"callback", "fired", "unregister"} => serving[o] \in Fds \X Serials
        /\ looper[o] = "none" => looper_pc[o] # "callback"

\* A registration of an attached looper and its binding are changed together,
\* and nothing is registered with a looper that is not there.
Bound ==
    \A o \in Owners, fd \in Fds :
        /\ looper[o] = "attached" => bindings[o][fd] = registrations[o][fd]
        /\ looper[o] = "none" => registrations[o][fd] = 0

\* next_serial is newer than every serial that anyone holds.
Fresh ==
    /\ \A o \in Owners, fd \in Fds : registrations[o][fd] < next_serial /\ real[o][fd] < next_serial
    /\ \A t \in Threads : call[t] # Idle => call[t].serial < next_serial
    /\ \A o \in Owners : serving[o][2] < next_serial
    /\ \A o \in Owners : \A e \in snapshot[o] : e[2] < next_serial

\* What a thread has still to tell is about a looper that is there, and, with
\* one thread at a time, is what the table says or was said before a drop.
Tellings ==
    /\ \A t \in Threads : call[t] # Idle => looper[call[t].looper] # "none"
    /\ \A t \in Threads : call[t] # Idle /\ <<call[t].looper, call[t].fd>> \notin overlapped =>
         registrations[call[t].looper][call[t].fd] \in {0, call[t].serial}
    /\ \A t, u \in Threads :
         /\ call[t] # Idle /\ call[u] # Idle /\ t # u
         /\ call[t].looper = call[u].looper /\ call[t].fd = call[u].fd
         => <<call[t].looper, call[t].fd>> \in overlapped

\* A callback about to be dropped by the real looper is not registered (again).
Retired ==
    \A o \in Owners : looper_pc[o] = "unregister" => registrations[o][serving[o][1]] # serving[o][2]

IInv == LooperTypeOK /\ Places /\ Bound /\ Fresh /\ Tellings /\ Retired /\ RealIsTold

\* A looper that is not attached has no bindings and no real looper.
LEMMA Unattached ==
    ASSUME LooperTypeOK, NEW o \in Owners, looper[o] # "attached", NEW fd \in Fds
    PROVE  bindings[o][fd] = 0 /\ real[o][fd] = 0
BY Zenon DEF LooperTypeOK

-----------------------------------------------------------------------------
(***************************************************************************)
(* What the table operations do.                                           *)
(***************************************************************************)

\* Register changes one registration, and its binding if the looper is attached.
LEMMA RegisterEffect ==
    ASSUME LooperTypeOK, NEW o \in Owners, NEW fd \in Fds, NEW s \in 0..MaxSerial, Register(o, fd, s)
    PROVE  /\ registrations' \in [Owners -> [Fds -> 0..MaxSerial]]
           /\ bindings' \in [Owners -> [Fds -> 0..MaxSerial]]
           /\ registrations'[o][fd] = s
           /\ looper[o] = "attached" => bindings'[o][fd] = s
           /\ looper[o] # "attached" => bindings' = bindings
           /\ \A p \in Owners, f \in Fds : p # o \/ f # fd =>
                registrations'[p][f] = registrations[p][f] /\ bindings'[p][f] = bindings[p][f]
<1>. USE DEF Register, Bind, LooperTypeOK
<1>1. /\ registrations' \in [Owners -> [Fds -> 0..MaxSerial]]
      /\ registrations'[o][fd] = s
      /\ \A p \in Owners, f \in Fds : p # o \/ f # fd =>
           registrations'[p][f] = registrations[p][f]
  OBVIOUS
<1>2. CASE looper[o] = "attached"
  BY <1>1, <1>2
<1>3. CASE looper[o] # "attached"
  BY <1>1, <1>3, Zenon
<1>. QED  BY <1>2, <1>3, Zenon

\* drop_registration_locked does nothing, or ends the registration it names.
LEMMA DropEffect ==
    ASSUME LooperTypeOK, NEW o \in Owners, NEW fd \in Fds, NEW s, Drop(o, fd, s), MaxSerial \in Nat
    PROVE  /\ registrations' \in [Owners -> [Fds -> 0..MaxSerial]]
           /\ bindings' \in [Owners -> [Fds -> 0..MaxSerial]]
           /\ registrations'[o][fd] = IF registrations[o][fd] = s THEN 0 ELSE registrations[o][fd]
           /\ bindings'[o][fd] = IF registrations[o][fd] = s /\ looper[o] = "attached"
                                   THEN 0 ELSE bindings[o][fd]
           /\ \A p \in Owners, f \in Fds : p # o \/ f # fd =>
                registrations'[p][f] = registrations[p][f] /\ bindings'[p][f] = bindings[p][f]
<1>1. CASE registrations[o][fd] = s
  <2>1. Register(o, fd, 0) /\ 0 \in 0..MaxSerial
    BY <1>1 DEF Drop
  <2>. QED  BY <1>1, <2>1, RegisterEffect
<1>2. CASE registrations[o][fd] # s
  BY <1>2, Zenon DEF Drop, LooperTypeOK
<1>. QED  BY <1>1, <1>2, Zenon

-----------------------------------------------------------------------------
(***************************************************************************)
(* The owner's poll, and the calls of the real looper.                     *)
(***************************************************************************)
LEMMA PollKeeps ==
    ASSUME IInv, MaxSerial \in Nat, NEW o \in Owners,
           \/ PollOnce(o) \/ PollReturns(o) \/ PollTimesOut(o) \/ Drain(o) \/ ServeCallback(o)
           \/ PollEnds(o) \/ DispatchAttached(o) \/ \E fd \in Fds : Fires(o, fd)
    PROVE  IInv'
<1>. USE DEF IInv, Goes, Serials
<1>1. UNCHANGED <<table, real, outside, call, overlapped>>
  BY Zenon DEF PollOnce, PollReturns, PollTimesOut, Drain, ServeCallback, PollEnds, DispatchAttached,
     Fires
<1>2. Bound' /\ Tellings' /\ RealIsTold'
  BY <1>1, Zenon DEF Bound, Tellings, RealIsTold, Current, Telling, table
<1>3. /\ \A p \in Owners \ {o} : looper_pc'[p] = looper_pc[p] /\ snapshot'[p] = snapshot[p]
                                  /\ serving'[p] = serving[p]
      /\ woken' \subseteq woken
  BY DEF PollOnce, PollReturns, PollTimesOut, Drain, ServeCallback, PollEnds, DispatchAttached,
     Fires, LooperTypeOK
<1>4. ASSUME LooperTypeOK', Places', Fresh', Retired'
      PROVE  IInv'
  BY <1>2, <1>4, Zenon
<1>. USE DEF LooperTypeOK, table, outside
<1>5. CASE PollOnce(o)
  <2>1. snapshot'[o] \in SUBSET (Fds \X Serials) /\ \A e \in snapshot'[o] : e[2] < next_serial
    BY <1>5 DEF PollOnce, Fresh
  <2>2. LooperTypeOK' /\ Places' /\ Fresh' /\ Retired'
    BY <1>1, <1>3, <1>5, <2>1 DEF PollOnce, Places, Fresh, Retired
  <2>. QED  BY <1>4, <2>2, Zenon
<1>6. CASE PollReturns(o) \/ PollTimesOut(o) \/ PollEnds(o)
  <2>1. snapshot'[o] \subseteq snapshot[o] /\ snapshot' \in [Owners -> SUBSET (Fds \X Serials)]
    <3>1. PICK S \in SUBSET snapshot[o] : snapshot' = [snapshot EXCEPT ![o] = S]
      BY <1>6, Zenon DEF PollReturns, PollTimesOut, PollEnds, Hot
    <3>2. S \in SUBSET (Fds \X Serials)
      OBVIOUS
    <3>. QED  BY <3>1, <3>2, Zenon
  <2>2. /\ UNCHANGED <<serving, woken>> /\ looper[o] = "guest"
        /\ \E pc \in {"idle", "drain", "serve"} : looper_pc' = [looper_pc EXCEPT ![o] = pc]
    BY <1>6, Zenon DEF PollReturns, PollTimesOut, PollEnds, Places
  <2>3. LooperTypeOK'
    BY <1>1, <2>1, <2>2
  <2>4. Places'
    BY <1>1, <2>2, ZenonT(40) DEF Places
  <2>5. Fresh'
    <3>1. \A p \in Owners : snapshot'[p] \subseteq snapshot[p]
      BY <1>3, <2>1, Zenon
    <3>. QED  BY <1>1, <2>2, <3>1, Zenon DEF Fresh
  <2>6. Retired'
    BY <1>1, <2>2, Zenon DEF Retired
  <2>. QED  BY <1>4, <2>3, <2>4, <2>5, <2>6, Zenon
<1>7. CASE Drain(o)
  BY <1>1, <1>3, <1>4, <1>7 DEF Drain, Places, Fresh, Retired
<1>8. CASE ServeCallback(o)
  <2>1. /\ serving'[o] \in snapshot[o] /\ snapshot'[o] \subseteq snapshot[o]
        /\ snapshot' \in [Owners -> SUBSET (Fds \X Serials)]
        /\ serving' \in [Owners -> {Nothing} \cup (Fds \X Serials)]
    BY <1>8 DEF ServeCallback
  <2>2. LooperTypeOK' /\ Places' /\ Fresh' /\ Retired'
    BY <1>1, <1>3, <1>8, <2>1 DEF ServeCallback, Places, Fresh, Retired
  <2>. QED  BY <1>4, <2>2, Zenon
<1>9. CASE DispatchAttached(o)
  <2>1. bindings[o][serving[o][1]] # serving[o][2] =>
            registrations[o][serving[o][1]] # serving[o][2]
    BY <1>9, ZenonT(40) DEF DispatchAttached, Places, Bound
  <2>2. LooperTypeOK' /\ Places' /\ Fresh' /\ Retired'
    BY <1>1, <1>3, <1>9, <2>1 DEF DispatchAttached, Places, Fresh, Retired
  <2>. QED  BY <1>4, <2>2, Zenon
<1>10. ASSUME NEW fd \in Fds, Fires(o, fd)
       PROVE  IInv'
  <2>1. /\ looper[o] = "attached" /\ real[o][fd] \in Serials /\ real[o][fd] < next_serial
        /\ serving'[o] = <<fd, real[o][fd]>>
        /\ serving' \in [Owners -> {Nothing} \cup (Fds \X Serials)]
    BY <1>10 DEF Fires, Fresh
  <2>2. LooperTypeOK' /\ Places' /\ Fresh' /\ Retired'
    BY <1>1, <1>3, <1>10, <2>1 DEF Fires, Places, Fresh, Retired
  <2>. QED  BY <1>4, <2>2, Zenon
<1>. QED  BY <1>5, <1>6, <1>7, <1>8, <1>9, <1>10, Zenon

\* The real looper drops a callback that is not registered any more.
LEMMA UnregisterKeeps ==
    ASSUME IInv, MaxSerial \in Nat, NEW o \in Owners, Unregister(o)
    PROVE  IInv'
<1>. USE DEF IInv
<1>. DEFINE fd == serving[o][1]
            s == serving[o][2]
<1>1. /\ fd \in Fds /\ s \in Serials /\ looper[o] = "attached" /\ registrations[o][fd] # s
  BY Zenon DEF Unregister, Places, Retired
<1>2. /\ real' = [real EXCEPT ![o][fd] = IF @ = s THEN 0 ELSE @]
      /\ serving' = [serving EXCEPT ![o] = Nothing]
      /\ looper_pc' = [looper_pc EXCEPT ![o] = "idle"]
      /\ UNCHANGED <<table, woken, outside, snapshot, call, overlapped>>
  BY Zenon DEF Unregister, Goes
<1>. HIDE DEF fd, s
<1>3. /\ real' \in [Owners -> [Fds -> 0..MaxSerial]]
      /\ \A p \in Owners, f \in Fds : real'[p][f] \in {0, real[p][f]}
      /\ \A p \in Owners, f \in Fds : real'[p][f] # real[p][f] =>
           p = o /\ f = fd /\ real[o][fd] = s
  BY <1>1, <1>2 DEF LooperTypeOK
<1>4. LooperTypeOK'
  BY <1>2, <1>3 DEF LooperTypeOK, table, outside
<1>5. Places' /\ Bound' /\ Tellings' /\ Retired'
  BY <1>2 DEF Places, Bound, Tellings, Retired, LooperTypeOK, table
<1>6. Fresh'
  BY <1>2, <1>3 DEF Fresh, LooperTypeOK, table, Nothing
<1>7. RealIsTold'
  BY <1>1, <1>2, <1>3 DEF RealIsTold, Current, Telling, table
<1>. QED  BY <1>4, <1>5, <1>6, <1>7, Zenon

\* A callback that ends ends its own registration at most.
LEMMA CallbackKeeps ==
    ASSUME IInv, MaxSerial \in Nat, NEW o \in Owners,
           CallbackFails(o) \/ \E keep \in BOOLEAN : CallbackReturns(o, keep)
    PROVE  IInv'
<1>. USE DEF IInv, Goes
<1>. DEFINE fd == serving[o][1]
            s == serving[o][2]
<1>1. /\ looper_pc[o] = "callback" /\ fd \in Fds /\ s \in Serials
      /\ looper[o] \in {"guest", "attached"}
      /\ UNCHANGED <<looper, callbacks, next_serial, woken, real, ready, call, overlapped>>
      /\ finished' \in BOOLEAN
  BY ZenonT(40) DEF CallbackFails, CallbackReturns, Places, LooperTypeOK, outside
<1>2. /\ \/ looper_pc'[o] = "serve" /\ looper[o] = "guest"
         \/ looper_pc'[o] = "idle"
         \/ /\ looper_pc'[o] = "unregister" /\ looper[o] = "attached"
            /\ Drop(o, fd, s) /\ serving' = serving
      /\ looper_pc' = [looper_pc EXCEPT ![o] = looper_pc'[o]]
  BY <1>1 DEF CallbackFails, CallbackReturns, LooperTypeOK
<1>3. /\ serving' \in {serving, [serving EXCEPT ![o] = Nothing]}
      /\ snapshot' \in {snapshot, [snapshot EXCEPT ![o] = {}]}
  BY Zenon DEF CallbackFails, CallbackReturns
<1>4. Drop(o, fd, s) \/ UNCHANGED <<registrations, bindings>>
  BY Zenon DEF CallbackFails, CallbackReturns
<1>5. /\ registrations' \in [Owners -> [Fds -> 0..MaxSerial]]
      /\ bindings' \in [Owners -> [Fds -> 0..MaxSerial]]
      /\ \A p \in Owners, f \in Fds :
           \/ registrations'[p][f] = registrations[p][f] /\ bindings'[p][f] = bindings[p][f]
           \/ /\ registrations'[p][f] = 0
              /\ bindings'[p][f] = IF looper[p] = "attached" THEN 0 ELSE bindings[p][f]
  <2>1. CASE Drop(o, fd, s)
    <3>. HIDE DEF fd, s
    <3>. QED  BY <1>1, <2>1, DropEffect
  <2>2. CASE UNCHANGED <<registrations, bindings>>
    BY <2>2, Zenon DEF LooperTypeOK
  <2>. QED  BY <1>4, <2>1, <2>2, Zenon
<1>6. LooperTypeOK'
  <2>1. looper_pc' \in [Owners -> {"idle", "poll", "drain", "serve", "callback", "fired", "unregister"}]
    BY <1>2, Zenon DEF LooperTypeOK
  <2>2. /\ snapshot' \in [Owners -> SUBSET (Fds \X Serials)]
        /\ serving' \in [Owners -> {Nothing} \cup (Fds \X Serials)]
    BY <1>3, Zenon DEF LooperTypeOK
  <2>3. \A p \in Owners : looper'[p] # "attached" => \A f \in Fds : bindings'[p][f] = 0 /\ real'[p][f] = 0
    BY <1>1, <1>5, Unattached
  <2>. QED  BY <1>1, <1>5, <2>1, <2>2, <2>3, Zenon DEF LooperTypeOK
<1>7. Places'
  BY <1>1, <1>2, <1>3 DEF Places, LooperTypeOK
<1>8. Bound'
  BY <1>1, <1>5 DEF Bound, LooperTypeOK
<1>9. Fresh'
  <2>1. next_serial' = next_serial /\ next_serial \in Nat /\ 0 < next_serial
    BY <1>1 DEF LooperTypeOK
  <2>2. \A p \in Owners, f \in Fds : registrations'[p][f] < next_serial /\ real'[p][f] < next_serial
    BY <1>1, <1>5, <2>1, Zenon DEF Fresh
  <2>3. \A p \in Owners : serving'[p][2] < next_serial
    <3>1. \A p \in Owners : serving'[p] \in {serving[p], Nothing}
      BY <1>3, Zenon DEF LooperTypeOK
    <3>2. Nothing[2] = 0
      BY Zenon DEF Nothing
    <3>. QED  BY <2>1, <3>1, <3>2, Zenon DEF Fresh
  <2>4. \A p \in Owners : snapshot'[p] \subseteq snapshot[p]
    BY <1>3, Zenon DEF LooperTypeOK
  <2>. QED  BY <1>1, <2>1, <2>2, <2>3, <2>4, Zenon DEF Fresh
<1>10. Tellings'
  <2>1. \A t \in Threads : call[t] # Idle => call[t].looper \in Owners /\ call[t].fd \in Fds
    BY Zenon DEF LooperTypeOK, Calls
  <2>. QED  BY <1>1, <1>5, <2>1, ZenonT(40) DEF Tellings
<1>11. Retired'
  <2>1. ASSUME NEW p \in Owners, looper_pc'[p] = "unregister"
        PROVE  registrations'[p][serving'[p][1]] # serving'[p][2]
    <3>1. CASE p = o
      <4>1. Drop(o, fd, s) /\ serving'[o] = serving[o]
        BY <1>2, <2>1, <3>1, Zenon
      <4>2. registrations'[o][fd] = IF registrations[o][fd] = s THEN 0 ELSE registrations[o][fd]
        <5>. HIDE DEF fd, s
        <5>. QED  BY <1>1, <4>1, DropEffect
      <4>. QED  BY <1>1, <3>1, <4>1, <4>2 DEF Serials
    <3>2. CASE p # o
      <4>1. looper_pc[p] = "unregister" /\ serving'[p] = serving[p]
        BY <1>2, <1>3, <2>1, <3>2, Zenon DEF LooperTypeOK
      <4>2. serving[p][1] \in Fds /\ serving[p][2] \in Serials
        BY <4>1, Zenon DEF Places
      <4>. QED  BY <1>5, <4>1, <4>2 DEF Retired, Serials
    <3>. QED  BY <3>1, <3>2, Zenon
  <2>. QED  BY <2>1, Zenon DEF Retired
<1>12. RealIsTold'
  BY <1>1, <1>5, SMTT(40) DEF RealIsTold, Current, Telling
<1>. QED  BY <1>6, <1>7, <1>8, <1>9, <1>10, <1>11, <1>12, Zenon

-----------------------------------------------------------------------------
(***************************************************************************)
(* add_fd and remove_fd, and their second halves.                          *)
(***************************************************************************)

\* The new registration is newer than all others, or none; the thread that
\* makes it has to tell, and is alone in that or marks the descriptor.
LEMMA BeginsKeeps ==
    ASSUME IInv, MaxSerial \in Nat, NEW t \in Threads, NEW o \in Owners, NEW fd \in Fds,
           NEW op \in {"add", "remove"}, NEW s \in 0..MaxSerial, looper[o] # "none",
           Register(o, fd, s), Begins(t, op, o, fd, s),
           \/ s = next_serial /\ next_serial' = next_serial + 1
           \/ s = 0 /\ next_serial' = next_serial,
           next_serial' \in 1..MaxSerial + 1, callbacks' \subseteq Serials
    PROVE  IInv'
<1>. USE DEF IInv
<1>1. /\ call[t] = Idle
      /\ call' = [call EXCEPT ![t] = [op |-> op, looper |-> o, fd |-> fd, serial |-> s]]
      /\ overlapped' = IF \E u \in Threads : call[u] # Idle /\ call[u].looper = o /\ call[u].fd = fd
                         THEN overlapped \cup {<<o, fd>>} ELSE overlapped
      /\ UNCHANGED <<looper, woken, real, outside, polls>>
  BY Zenon DEF Begins
<1>2. /\ registrations' \in [Owners -> [Fds -> 0..MaxSerial]]
      /\ bindings' \in [Owners -> [Fds -> 0..MaxSerial]]
      /\ registrations'[o][fd] = s
      /\ looper[o] = "attached" => bindings'[o][fd] = s
      /\ looper[o] # "attached" => bindings' = bindings
      /\ \A p \in Owners, f \in Fds : p # o \/ f # fd =>
           registrations'[p][f] = registrations[p][f] /\ bindings'[p][f] = bindings[p][f]
  BY RegisterEffect
<1>3. /\ call'[t] = [op |-> op, looper |-> o, fd |-> fd, serial |-> s] /\ call'[t] # Idle
      /\ call'[t] \in Calls /\ call' \in [Threads -> Calls]
      /\ \A u \in Threads \ {t} : call'[u] = call[u]
  <2>1. [op |-> op, looper |-> o, fd |-> fd, serial |-> s] \in Calls
    BY Zenon DEF Calls
  <2>2. [op |-> op, looper |-> o, fd |-> fd, serial |-> s] # Idle
    BY Zenon DEF Idle
  <2>. QED  BY <1>1, <2>1, <2>2, Zenon DEF LooperTypeOK
<1>4. LooperTypeOK'
  <2>1. UNCHANGED <<looper, woken, real, ready, finished, looper_pc, snapshot, serving>>
    BY <1>1, Zenon DEF outside, polls
  <2>2. overlapped' \subseteq Owners \X Fds
    BY <1>1 DEF LooperTypeOK
  <2>3. \A p \in Owners : looper[p] # "attached" => \A f \in Fds : bindings'[p][f] = 0 /\ real[p][f] = 0
    BY <1>2, Unattached
  <2>. QED  BY <1>2, <1>3, <2>1, <2>2, <2>3 DEF LooperTypeOK
<1>5. Places' /\ Bound'
  <2>1. Places'
    BY <1>1, Zenon DEF Places, polls
  <2>2. ASSUME NEW p \in Owners, NEW f \in Fds
        PROVE  /\ looper[p] = "attached" => bindings'[p][f] = registrations'[p][f]
               /\ looper[p] = "none" => registrations'[p][f] = 0
    <3>1. CASE p = o /\ f = fd
      BY <1>2, <3>1, Zenon
    <3>2. CASE p # o \/ f # fd
      BY <1>2, <3>2 DEF Bound
    <3>. QED  BY <3>1, <3>2, Zenon
  <2>. QED  BY <1>1, <2>1, <2>2, Zenon DEF Bound
<1>6. Fresh'
  <2>1. next_serial \in Nat /\ next_serial' \in Nat /\ next_serial <= next_serial' /\ s < next_serial'
    BY DEF LooperTypeOK
  <2>2. \A p \in Owners, f \in Fds : registrations[p][f] \in Nat /\ real[p][f] \in Nat
    BY DEF LooperTypeOK
  <2>3. ASSUME NEW p \in Owners, NEW f \in Fds
        PROVE  registrations'[p][f] < next_serial' /\ real[p][f] < next_serial'
    <3>1. registrations'[p][f] \in {s, registrations[p][f]}
      BY <1>2, Zenon
    <3>2. registrations[p][f] < next_serial /\ real[p][f] < next_serial
      BY Zenon DEF Fresh
    <3>. QED  BY <2>1, <2>2, <3>1, <3>2
  <2>4. ASSUME NEW u \in Threads, call'[u] # Idle
        PROVE  call'[u].serial < next_serial'
    <3>1. CASE u = t
      BY <1>3, <2>1, <3>1
    <3>2. CASE u # t
      <4>1. call[u] # Idle /\ call'[u] = call[u] /\ call[u] \in Calls
        BY <1>3, <2>4, <3>2, Zenon DEF LooperTypeOK
      <4>2. call[u].serial < next_serial /\ call[u].serial \in Nat
        BY <4>1 DEF Fresh, Calls
      <4>. QED  BY <2>1, <4>1, <4>2
    <3>. QED  BY <3>1, <3>2, Zenon
  <2>5. ASSUME NEW p \in Owners PROVE serving[p][2] < next_serial'
    <3>1. serving[p][2] < next_serial /\ serving[p] \in {Nothing} \cup (Fds \X Serials)
      BY Zenon DEF Fresh, LooperTypeOK
    <3>2. serving[p][2] \in Nat
      BY <3>1, SMTT(40) DEF Nothing, Serials
    <3>. QED  BY <2>1, <3>1, <3>2
  <2>6. ASSUME NEW p \in Owners, NEW e \in snapshot[p] PROVE e[2] < next_serial'
    <3>1. e[2] < next_serial /\ e \in Fds \X Serials
      BY Zenon DEF Fresh, LooperTypeOK
    <3>2. e[2] \in Nat
      BY <3>1, SMTT(40) DEF Serials
    <3>. QED  BY <2>1, <3>1, <3>2
  <2>. QED  BY <1>1, <2>3, <2>4, <2>5, <2>6, Zenon DEF Fresh, polls
<1>7. Tellings'
  <2>1. \A u \in Threads : call[u] # Idle => call[u].looper \in Owners /\ call[u].fd \in Fds
    BY Zenon DEF LooperTypeOK, Calls
  <2>2. \A u \in Threads : call'[u] # Idle => looper'[call'[u].looper] # "none"
    BY <1>1, <1>3, ZenonT(40) DEF Tellings
  <2>3. ASSUME NEW u \in Threads, call'[u] # Idle,
               <<call'[u].looper, call'[u].fd>> \notin overlapped'
        PROVE  registrations'[call'[u].looper][call'[u].fd] \in {0, call'[u].serial}
    <3>1. CASE u = t
      BY <1>2, <1>3, <3>1, SMTT(40)
    <3>2. CASE u # t
      <4>1. call'[u] = call[u] /\ call[u] # Idle
        BY <1>3, <2>3, <3>2, Zenon
      <4>2. call[u].looper # o \/ call[u].fd # fd
        BY <1>1, <2>3, <4>1
      <4>3. <<call[u].looper, call[u].fd>> \notin overlapped
        BY <1>1, <2>3, <4>1, SMTT(40)
      <4>4. registrations[call[u].looper][call[u].fd] \in {0, call[u].serial}
        BY <4>1, <4>3, Zenon DEF Tellings
      <4>5. registrations'[call[u].looper][call[u].fd] = registrations[call[u].looper][call[u].fd]
        BY <1>2, <2>1, <4>1, <4>2, Zenon
      <4>. QED  BY <4>1, <4>4, <4>5, Zenon
    <3>. QED  BY <3>1, <3>2, Zenon
  <2>4. ASSUME NEW u \in Threads, NEW v \in Threads, call'[u] # Idle, call'[v] # Idle, u # v,
               call'[u].looper = call'[v].looper, call'[u].fd = call'[v].fd
        PROVE  <<call'[u].looper, call'[u].fd>> \in overlapped'
    <3>1. CASE u # t /\ v # t
      BY <1>1, <1>3, <2>4, <3>1, Zenon DEF Tellings
    <3>2. CASE u = t \/ v = t
      BY <1>1, <1>3, <2>4, <3>2, Zenon
    <3>. QED  BY <3>1, <3>2, Zenon
  <2>. QED  BY <2>2, <2>3, <2>4, Zenon DEF Tellings
<1>8. Retired'
  <2>1. ASSUME NEW p \in Owners, looper_pc[p] = "unregister"
        PROVE  registrations'[p][serving[p][1]] # serving[p][2]
    <3>1. serving[p][1] \in Fds /\ serving[p][2] \in Serials /\ serving[p][2] < next_serial
      BY <2>1, Zenon DEF Places, Fresh
    <3>2. registrations'[p][serving[p][1]] \in {s, registrations[p][serving[p][1]]}
      BY <1>2, <3>1, Zenon
    <3>3. next_serial \in Nat
      BY DEF LooperTypeOK
    <3>4. s # serving[p][2]
      BY <3>1, <3>3, SMTT(40) DEF Serials
    <3>. QED  BY <2>1, <3>2, <3>4, Zenon DEF Retired
  <2>. QED  BY <1>1, <2>1, Zenon DEF Retired, polls
<1>9. RealIsTold'
  <2>1. Telling(o, fd)'
    BY <1>3 DEF Telling
  <2>2. ASSUME NEW p \in Owners, NEW f \in Fds, p # o \/ f # fd, ~Telling(p, f)'
        PROVE  ~Telling(p, f)
    BY <1>1, <1>3, <2>2, Zenon DEF Telling
  <2>3. ASSUME NEW p \in Owners, NEW f \in Fds,
               looper'[p] = "attached", Current(p, f)', ~Telling(p, f)'
        PROVE  real'[p][f] = registrations'[p][f] /\ bindings'[p][f] = registrations'[p][f]
    <3>1. p # o \/ f # fd
      BY <2>1, <2>3, Zenon
    <3>. QED  BY <1>1, <1>2, <2>2, <2>3, <3>1, SMTT(40) DEF RealIsTold, Current
  <2>. QED  BY <2>3, Zenon DEF RealIsTold
<1>. QED  BY <1>4, <1>5, <1>6, <1>7, <1>8, <1>9, Zenon

LEMMA AddRemoveKeeps ==
    ASSUME IInv, MaxSerial \in Nat, NEW t \in Threads, NEW o \in Owners, NEW fd \in Fds,
           RemoveFd(t, o, fd) \/ \E callback \in BOOLEAN : AddFd(t, o, fd, callback)
    PROVE  IInv'
<1>1. CASE RemoveFd(t, o, fd)
  <2>1. looper[o] # "none"
    BY <1>1, Zenon DEF RemoveFd, IInv, Bound
  <2>. QED  BY <1>1, <2>1, BeginsKeeps DEF RemoveFd, IInv, LooperTypeOK
<1>2. ASSUME NEW callback \in BOOLEAN, AddFd(t, o, fd, callback)
      PROVE  IInv'
  <2>1. next_serial \in Serials /\ next_serial + 1 \in 1..MaxSerial + 1 /\ next_serial \in 0..MaxSerial
    BY <1>2 DEF AddFd, IInv, LooperTypeOK, Serials
  <2>2. callbacks' \subseteq Serials
    BY <1>2, <2>1, Zenon DEF AddFd, IInv, LooperTypeOK
  <2>. QED  BY <1>2, <2>1, <2>2, BeginsKeeps, Zenon DEF AddFd
<1>. QED  BY <1>1, <1>2, Zenon

\* The real looper learns what the table says of the descriptor, or refuses it
\* and the table forgets it.
LEMMA TellKeeps ==
    ASSUME IInv, MaxSerial \in Nat, NEW t \in Threads, Tell(t)
    PROVE  IInv'
<1>. USE DEF IInv
<1>. DEFINE o == call[t].looper
            fd == call[t].fd
            s == call[t].serial
<1>1. /\ call[t] # Idle /\ o \in Owners /\ fd \in Fds /\ s \in 0..MaxSerial
      /\ call' = [call EXCEPT ![t] = Idle]
      /\ UNCHANGED <<looper, callbacks, next_serial, outside, polls, overlapped>>
  <2>1. call[t] # Idle /\ call[t] \in Calls
    BY Zenon DEF Tell, TellGuest, TellReal, LooperTypeOK
  <2>2. o \in Owners /\ fd \in Fds /\ s \in 0..MaxSerial
    BY <2>1, Zenon DEF Calls
  <2>. QED  BY <2>1, <2>2, Zenon DEF Tell, TellGuest, TellReal, table
<1>2. /\ call' \in [Threads -> Calls] /\ call'[t] = Idle
      /\ \A u \in Threads \ {t} : call'[u] = call[u]
  BY <1>1, Zenon DEF LooperTypeOK, Calls
<1>3. \/ /\ looper[o] = "guest" /\ woken' = woken \cup {o}
         /\ UNCHANGED <<registrations, bindings, real>>
      \/ /\ looper[o] = "attached" /\ woken' = woken
         /\ real' = [real EXCEPT ![o][fd] = s] /\ UNCHANGED <<registrations, bindings>>
      \/ /\ looper[o] = "attached" /\ woken' = woken
         /\ Drop(o, fd, s) /\ UNCHANGED real
  BY Zenon DEF Tell, TellGuest, TellReal, table
<1>. HIDE DEF o, fd, s
<1>4. /\ registrations' \in [Owners -> [Fds -> 0..MaxSerial]]
      /\ bindings' \in [Owners -> [Fds -> 0..MaxSerial]]
      /\ \A p \in Owners, f \in Fds :
           \/ registrations'[p][f] = registrations[p][f] /\ bindings'[p][f] = bindings[p][f]
           \/ /\ registrations'[p][f] = 0
              /\ bindings'[p][f] = IF looper[p] = "attached" THEN 0 ELSE bindings[p][f]
  BY <1>1, <1>3, DropEffect DEF LooperTypeOK
<1>5. /\ real' \in [Owners -> [Fds -> 0..MaxSerial]]
      /\ \A p \in Owners, f \in Fds : p # o \/ f # fd => real'[p][f] = real[p][f]
      /\ real'[o][fd] \in {real[o][fd], s}
      /\ looper[o] # "attached" => real' = real
  <2>1. real' = real \/ (real' = [real EXCEPT ![o][fd] = s] /\ looper[o] = "attached")
    BY <1>3, Zenon
  <2>2. CASE real' = real
    BY <2>2, Zenon DEF LooperTypeOK
  <2>3. CASE real' = [real EXCEPT ![o][fd] = s] /\ looper[o] = "attached"
    BY <1>1, <2>3, Zenon DEF LooperTypeOK
  <2>. QED  BY <2>1, <2>2, <2>3, Zenon
<1>6. LooperTypeOK'
  <2>1. UNCHANGED <<ready, finished, looper_pc, snapshot, serving>>
    BY <1>1, Zenon DEF outside, polls
  <2>2. woken' \subseteq {p \in Owners : looper[p] = "guest"}
    BY <1>1, <1>3 DEF LooperTypeOK
  <2>3. \A p \in Owners : looper[p] # "attached" => \A f \in Fds : bindings'[p][f] = 0 /\ real'[p][f] = 0
    <3>1. ASSUME NEW p \in Owners, looper[p] # "attached", NEW f \in Fds
          PROVE  bindings'[p][f] = 0 /\ real'[p][f] = 0
      <4>1. bindings[p][f] = 0 /\ real[p][f] = 0
        BY <3>1, Unattached, Zenon
      <4>2. real'[p][f] = real[p][f]
        BY <1>5, <3>1, Zenon
      <4>. QED  BY <1>4, <3>1, <4>1, <4>2, Zenon
    <3>. QED  BY <3>1, Zenon
  <2>. QED  BY <1>1, <1>2, <1>4, <1>5, <2>1, <2>2, <2>3, Zenon DEF LooperTypeOK
<1>7. Places' /\ Bound'
  BY <1>1, <1>4 DEF Places, Bound, LooperTypeOK, polls
<1>8. Fresh'
  <2>1. s < next_serial
    BY <1>1, Zenon DEF Fresh, s
  <2>2. next_serial \in Nat /\ 0 < next_serial
    BY DEF LooperTypeOK
  <2>3. \A p \in Owners, f \in Fds : registrations'[p][f] < next_serial /\ real'[p][f] < next_serial
    <3>1. ASSUME NEW p \in Owners, NEW f \in Fds
          PROVE  registrations'[p][f] < next_serial /\ real'[p][f] < next_serial
      <4>1. registrations'[p][f] \in {0, registrations[p][f]}
        BY <1>4, Zenon
      <4>2. real'[p][f] \in {s, real[p][f]}
        BY <1>5, Zenon
      <4>3. registrations[p][f] < next_serial /\ real[p][f] < next_serial
        BY Zenon DEF Fresh
      <4>. QED  BY <2>1, <2>2, <4>1, <4>2, <4>3, Zenon
    <3>. QED  BY <3>1, Zenon
  <2>4. \A u \in Threads : call'[u] # Idle => call'[u].serial < next_serial
    BY <1>2, Zenon DEF Fresh
  <2>. QED  BY <1>1, <2>3, <2>4, Zenon DEF Fresh, polls
<1>9. Tellings'
  <2>1. \A u \in Threads : call[u] # Idle => call[u].looper \in Owners /\ call[u].fd \in Fds
    BY Zenon DEF LooperTypeOK, Calls
  <2>. QED  BY <1>1, <1>2, <1>4, <2>1 DEF Tellings
<1>10. Retired'
  <2>1. ASSUME NEW p \in Owners, looper_pc[p] = "unregister"
        PROVE  registrations'[p][serving[p][1]] # serving[p][2]
    <3>1. serving[p][1] \in Fds /\ serving[p][2] \in Serials
      BY <2>1, Zenon DEF Places
    <3>. QED  BY <1>4, <2>1, <3>1 DEF Retired, Serials
  <2>. QED  BY <1>1, <2>1, Zenon DEF Retired, polls
<1>11. RealIsTold'
  <2>1. ASSUME NEW p \in Owners, NEW f \in Fds,
               looper'[p] = "attached", Current(p, f)', ~Telling(p, f)'
        PROVE  real'[p][f] = registrations'[p][f] /\ bindings'[p][f] = registrations'[p][f]
    <3>1. CASE p # o \/ f # fd
      <4>1. ~Telling(p, f)
        BY <1>1, <1>2, <2>1, <3>1, Zenon DEF Telling, o, fd
      <4>2. registrations'[p][f] = registrations[p][f] /\ bindings'[p][f] = bindings[p][f]
        BY <1>4, <2>1, Zenon DEF Current
      <4>. QED  BY <1>1, <1>5, <2>1, <3>1, <4>1, <4>2, Zenon DEF RealIsTold, Current
    <3>2. CASE p = o /\ f = fd
      <4>1. registrations[o][fd] \in {0, s}
        BY <1>1, <2>1, <3>2, Zenon DEF Tellings, Current, o, fd, s
      <4>2. registrations'[o][fd] # 0 /\ looper[o] = "attached"
        BY <1>1, <2>1, <3>2, Zenon DEF Current
      <4>3. ~Drop(o, fd, s)
        BY <1>1, <4>1, <4>2, DropEffect
      <4>4. real' = [real EXCEPT ![o][fd] = s] /\ UNCHANGED <<registrations, bindings>>
        BY <1>3, <4>2, <4>3, Zenon
      <4>. QED  BY <1>1, <3>2, <4>1, <4>2, <4>4, Zenon DEF Bound, LooperTypeOK
    <3>. QED  BY <3>1, <3>2, Zenon
  <2>. QED  BY <2>1, Zenon DEF RealIsTold
<1>. QED  BY <1>6, <1>7, <1>8, <1>9, <1>10, <1>11, Zenon

\* A looper is made, woken, or nothing of it changes.
LEMMA OtherKeeps ==
    ASSUME IInv, MaxSerial \in Nat,
           \/ \E o \in Owners : Prepare(o) \/ Wake(o)
           \/ Event \/ EndRuntime \/ UNCHANGED looperVars
    PROVE  IInv'
<1>. USE DEF IInv
<1>1. ASSUME NEW o \in Owners, Prepare(o)
      PROVE  IInv'
  <2>1. /\ looper[o] = "none" /\ looper'[o] \in {"guest", "attached"}
        /\ looper' \in [Owners -> {"none", "guest", "attached"}]
        /\ \A p \in Owners \ {o} : looper'[p] = looper[p]
        /\ UNCHANGED <<registrations, callbacks, bindings, next_serial, woken, real, outside, polls,
                       call, overlapped>>
    BY <1>1 DEF Prepare, LooperTypeOK
  <2>2. LooperTypeOK'
    BY <2>1, ZenonT(40) DEF LooperTypeOK, outside, polls
  <2>3. Places'
    BY <2>1, Zenon DEF Places, polls
  <2>4. Bound'
    BY <2>1 DEF Bound, LooperTypeOK
  <2>5. Fresh' /\ Retired'
    BY <2>1, Zenon DEF Fresh, Retired, polls
  <2>6. Tellings'
    BY <2>1 DEF Tellings, LooperTypeOK, Calls
  <2>7. RealIsTold'
    BY <2>1 DEF RealIsTold, Current, Telling, Bound
  <2>. QED  BY <2>2, <2>3, <2>4, <2>5, <2>6, <2>7, Zenon
<1>2. ASSUME UNCHANGED <<table, real, polls, call, overlapped>>,
             woken' \subseteq {o \in Owners : looper[o] = "guest"},
             ready' \subseteq Fds, finished' \in BOOLEAN
      PROVE  IInv'
  <2>1. LooperTypeOK'
    BY <1>2, Zenon DEF LooperTypeOK, table, polls
  <2>2. Places' /\ Bound' /\ Retired'
    BY <1>2, Zenon DEF Places, Bound, Retired, table, polls
  <2>4. Fresh'
    BY <1>2, Zenon DEF Fresh, table, polls
  <2>5. Tellings'
    BY <1>2, Zenon DEF Tellings, table
  <2>3. RealIsTold'
    BY <1>2, Zenon DEF RealIsTold, Current, Telling, table
  <2>. QED  BY <2>1, <2>2, <2>3, <2>4, <2>5, Zenon
<1>. DEFINE Rest == UNCHANGED <<table, real, polls, call, overlapped>>
            Guests == {o \in Owners : looper[o] = "guest"}
<1>3. ASSUME NEW o \in Owners, Wake(o)
      PROVE  IInv'
  <2>1. Rest /\ woken' \subseteq Guests /\ UNCHANGED <<ready, finished>>
    BY <1>3, Zenon DEF Wake, LooperTypeOK, outside
  <2>. QED  BY <1>2, <2>1, Zenon DEF LooperTypeOK
<1>4. CASE Event
  <2>1. Rest /\ UNCHANGED <<woken, finished>> /\ ready' \subseteq Fds
    BY <1>4, Zenon DEF Event, LooperTypeOK
  <2>. QED  BY <1>2, <2>1, Zenon DEF LooperTypeOK
<1>5. CASE EndRuntime
  <2>1. Rest /\ UNCHANGED <<woken, ready>> /\ finished' = TRUE
    BY <1>5, Zenon DEF EndRuntime
  <2>. QED  BY <1>2, <2>1, Zenon DEF LooperTypeOK
<1>6. CASE UNCHANGED looperVars
  <2>1. Rest /\ UNCHANGED <<woken, ready, finished>>
    BY <1>6, Zenon DEF looperVars, outside
  <2>. QED  BY <1>2, <2>1, Zenon DEF LooperTypeOK
<1>. QED  BY <1>1, <1>3, <1>4, <1>5, <1>6, Zenon

-----------------------------------------------------------------------------
LEMMA InitIInv == ASSUME MaxSerial \in Nat PROVE LooperInit => IInv
<1>. SUFFICES ASSUME LooperInit PROVE IInv
  OBVIOUS
<1>. USE DEF LooperInit
<1>1. LooperTypeOK
  <2>1. /\ looper \in [Owners -> {"none", "guest", "attached"}]
        /\ registrations \in [Owners -> [Fds -> 0..MaxSerial]]
        /\ \A o \in Owners, fd \in Fds : registrations[o][fd] = 0
        /\ call \in [Threads -> Calls] /\ next_serial \in 1..MaxSerial + 1
    BY DEF Calls
  <2>2. /\ looper_pc \in [Owners -> {"idle", "poll", "drain", "serve", "callback", "fired", "unregister"}]
        /\ snapshot \in [Owners -> SUBSET (Fds \X Serials)]
        /\ serving \in [Owners -> {Nothing} \cup (Fds \X Serials)]
    OBVIOUS
  <2>. QED  BY <2>1, <2>2, Zenon DEF LooperTypeOK
<1>2. Places /\ Bound /\ Tellings /\ Retired
  BY Zenon DEF Places, Bound, Tellings, Retired
<1>3. Fresh
  BY DEF Fresh, Nothing
<1>4. RealIsTold
  BY Zenon DEF RealIsTold, Current
<1>. QED  BY <1>1, <1>2, <1>3, <1>4, Zenon DEF IInv

LEMMA NextIInv == ASSUME MaxSerial \in Nat PROVE IInv /\ [LooperNext]_looperVars => IInv'
BY PollKeeps, UnregisterKeeps, CallbackKeeps, AddRemoveKeeps, TellKeeps, OtherKeeps, Zenon
   DEF LooperNext, OwnerStep

LEMMA InvariantHolds == ASSUME MaxSerial \in Nat PROVE LooperSpec => []IInv
BY InitIInv, NextIInv, PTL DEF LooperSpec

-----------------------------------------------------------------------------
(***************************************************************************)
(* A descriptor registered with an attached looper is registered with the  *)
(* real one once add_fd has returned, for any number of threads, whatever  *)
(* callbacks end meanwhile and whatever the real looper refuses.           *)
(***************************************************************************)
THEOREM RegisteredDescriptorsPolled == LooperSpec => []RegisteredIsPolled
<1>. USE LooperAssumption
<1>1. IInv => RegisteredIsPolled
  BY Zenon DEF IInv, RegisteredIsPolled
<1>. QED  BY <1>1, InvariantHolds, PTL

(***************************************************************************)
(* dispatch_attached accepts a callback only for the registration in       *)
(* force: binding and registration are changed together under the mutex.   *)
(***************************************************************************)
LEMMA OnlyCurrentDispatched ==
    ASSUME IInv, LooperNext, NEW o \in Owners,
           looper[o] = "attached", looper_pc[o] # "callback", looper_pc'[o] = "callback"
    PROVE  registrations[o][serving[o][1]] = serving[o][2]
<1>. USE DEF IInv, Goes
<1>1. looper_pc \in [Owners -> {"idle", "poll", "drain", "serve", "callback", "fired",
                                "unregister"}]
  BY Zenon DEF LooperTypeOK
<1>2. DispatchAttached(o) \/ ServeCallback(o)
  <2>1. ASSUME NEW p \in Owners, NEW pc, Goes(p, pc)
        PROVE  p = o /\ pc = "callback"
    BY <1>1, <2>1, Zenon
  <2>2. looper_pc' # looper_pc
    BY <1>1, Zenon
  <2>3. PICK p \in Owners : OwnerStep(p) \/ PollTimesOut(p) \/ \E fd \in Fds : Fires(p, fd)
    BY <2>2, ZenonT(40) DEF LooperNext, Prepare, Wake, Tell, TellGuest, TellReal, RemoveFd, AddFd, Begins, Event,
       EndRuntime, polls
  <2>. HIDE DEF Goes
  <2>4. ~(PollOnce(p) \/ PollTimesOut(p) \/ Drain(p) \/ PollEnds(p))
    <3>1. ~Goes(p, "poll") /\ ~Goes(p, "idle") /\ ~Goes(p, "serve")
      BY <2>1, SMTT(40)
    <3>. QED  BY <3>1, Zenon DEF PollOnce, PollTimesOut, Drain, PollEnds
  <2>9. ~PollReturns(p)
    BY <2>1, SMTT(40) DEF PollReturns
  <2>5. ~(CallbackFails(p) \/ Unregister(p) \/ \E fd \in Fds : Fires(p, fd))
    BY <2>1 DEF CallbackFails, Unregister, Fires
  <2>6. ~(\E keep \in BOOLEAN : CallbackReturns(p, keep))
    BY <2>1, Zenon DEF CallbackReturns
  <2>7. DispatchAttached(p) \/ ServeCallback(p)
    BY <2>3, <2>4, <2>5, <2>6, <2>9, Zenon DEF OwnerStep
  <2>8. p = o
    BY <2>1, <2>7, Zenon DEF DispatchAttached, ServeCallback
  <2>. QED  BY <2>7, <2>8, Zenon
<1>3. ~ServeCallback(o)
  BY Zenon DEF ServeCallback, Places
<1>4. looper_pc[o] = "fired" /\ bindings[o][serving[o][1]] = serving[o][2]
  <2>1. looper_pc[o] = "fired" /\ looper_pc'[o] = "callback"
    BY <1>2, <1>3, Zenon DEF DispatchAttached
  <2>2. looper_pc'[o] = IF bindings[o][serving[o][1]] = serving[o][2] THEN "callback" ELSE "unregister"
    BY <1>1, <1>2, <1>3, Zenon DEF DispatchAttached
  <2>. QED  BY <2>1, <2>2, Zenon
<1>. QED  BY <1>4, Zenon DEF Places, Bound

\* A registration ends by a call about its descriptor, by its own callback, or
\* because the real looper refuses it.
LEMMA RegistrationEnds ==
    ASSUME IInv, MaxSerial \in Nat, LooperNext, NEW o \in Owners, NEW fd \in Fds,
           registrations[o][fd] # 0, registrations'[o][fd] # registrations[o][fd]
    PROVE  \/ Telling(o, fd)'
           \/ serving[o] = <<fd, registrations[o][fd]>>
           \/ \E t \in Threads : call[t] # Idle /\ call[t].serial = registrations[o][fd]
<1>. USE DEF IInv
<1>1. ASSUME NEW t \in Threads, NEW p \in Owners, NEW f \in Fds, NEW op \in {"add", "remove"},
             NEW s \in 0..MaxSerial, Register(p, f, s), Begins(t, op, p, f, s)
      PROVE  Telling(o, fd)'
  <2>1. p = o /\ f = fd
    BY <1>1, RegisterEffect, SMTT(40)
  <2>2. call'[t] = [op |-> op, looper |-> p, fd |-> f, serial |-> s]
    BY <1>1, Zenon DEF Begins, LooperTypeOK
  <2>3. call'[t] # Idle /\ call'[t].looper = o /\ call'[t].fd = fd
    BY <2>1, <2>2, SMTT(40) DEF Idle
  <2>. QED  BY <2>3, Zenon DEF Telling
<1>2. ASSUME NEW t \in Threads, NEW p \in Owners, NEW f \in Fds,
             RemoveFd(t, p, f) \/ \E callback \in BOOLEAN : AddFd(t, p, f, callback)
      PROVE  Telling(o, fd)'
  <2>1. CASE RemoveFd(t, p, f)
    <3>1. 0 \in 0..MaxSerial
      OBVIOUS
    <3>. QED  BY <1>1, <2>1, <3>1, Zenon DEF RemoveFd
  <2>2. ASSUME NEW callback \in BOOLEAN, AddFd(t, p, f, callback)
        PROVE  Telling(o, fd)'
    <3>1. next_serial \in 0..MaxSerial
      BY <2>2 DEF AddFd, LooperTypeOK
    <3>. QED  BY <1>1, <2>2, <3>1, Zenon DEF AddFd
  <2>. QED  BY <1>2, <2>1, <2>2, Zenon
<1>3. ASSUME NEW t \in Threads, Tell(t)
      PROVE  call[t] # Idle /\ call[t].serial = registrations[o][fd]
  <2>1. call[t] # Idle /\ call[t] \in Calls
    BY <1>3, Zenon DEF Tell, TellGuest, TellReal, LooperTypeOK
  <2>2. call[t].looper \in Owners /\ call[t].fd \in Fds
    BY <2>1, Zenon DEF Calls
  <2>3. Drop(call[t].looper, call[t].fd, call[t].serial)
    BY <1>3, Zenon DEF Tell, TellGuest, TellReal, table
  <2>. DEFINE p == call[t].looper  f == call[t].fd  s == call[t].serial
  <2>4. registrations'[p][f] = IF registrations[p][f] = s THEN 0 ELSE registrations[p][f]
    BY <2>2, <2>3, DropEffect, ZenonT(40)
  <2>5. \A q \in Owners, g \in Fds : q # p \/ g # f => registrations'[q][g] = registrations[q][g]
    BY <2>2, <2>3, DropEffect, SMTT(40)
  <2>. HIDE DEF p, f, s
  <2>6. s = registrations[o][fd]
    BY <2>4, <2>5, Zenon
  <2>. QED  BY <2>1, <2>6, Zenon DEF s
<1>4. ASSUME NEW p \in Owners,
             CallbackFails(p) \/ \E keep \in BOOLEAN : CallbackReturns(p, keep)
      PROVE  serving[o] = <<fd, registrations[o][fd]>>
  <2>1. serving[p] \in Fds \X Serials
    BY <1>4, ZenonT(40) DEF CallbackFails, CallbackReturns, Places
  <2>2. Drop(p, serving[p][1], serving[p][2])
    BY <1>4, Zenon DEF CallbackFails, CallbackReturns
  <2>3. p = o /\ serving[p][1] = fd /\ serving[p][2] = registrations[o][fd]
    <3>. DEFINE f == serving[p][1]  s == serving[p][2]
    <3>1. f \in Fds
      BY <2>1, Zenon
    <3>2. registrations'[p][f] = IF registrations[p][f] = s THEN 0 ELSE registrations[p][f]
      BY <2>2, <3>1, DropEffect, ZenonT(40)
    <3>3. \A q \in Owners, g \in Fds : q # p \/ g # f => registrations'[q][g] = registrations[q][g]
      BY <2>2, <3>1, DropEffect, SMTT(40)
    <3>. HIDE DEF f, s
    <3>4. p = o /\ f = fd /\ s = registrations[o][fd]
      BY <3>2, <3>3, Zenon
    <3>. QED  BY <3>4, Zenon DEF f, s
  <2>. QED  BY <2>1, <2>3, SMTT(40)
<1>. QED
  BY <1>2, <1>3, <1>4, Zenon DEF LooperNext, OwnerStep, Prepare, PollOnce, PollReturns, PollTimesOut, Drain,
     ServeCallback, PollEnds, DispatchAttached, Unregister, Wake, Fires, Event, EndRuntime, table

(***************************************************************************)
(* What a callback or another thread has registered anew survives the end  *)
(* of the old registration, and no callback is accepted for a registration *)
(* that was removed or replaced (drop_registration_locked,                 *)
(* dispatch_attached), for any number of threads and descriptors.          *)
(***************************************************************************)
THEOREM RegistrationsSurvive == LooperSpec => RegistrationsKept
<1>. USE LooperAssumption
<1>. DEFINE Accepted == \A o \in Owners :
              looper[o] = "attached" /\ looper_pc[o] # "callback" /\ looper_pc'[o] = "callback" =>
                  registrations[o][serving[o][1]] = serving[o][2]
            Ended == \A o \in Owners, fd \in Fds :
              registrations[o][fd] # 0 /\ registrations'[o][fd] # registrations[o][fd] =>
                  \/ Telling(o, fd)'
                  \/ serving[o] = <<fd, registrations[o][fd]>>
                  \/ \E t \in Threads : call[t] # Idle /\ call[t].serial = registrations[o][fd]
<1>1. IInv /\ [LooperNext]_looperVars => [Accepted]_looperVars
  BY OnlyCurrentDispatched, Zenon
<1>2. IInv /\ [LooperNext]_looperVars => [Ended]_looperVars
  BY RegistrationEnds, Zenon
<1>3. LooperSpec => [][Accepted]_looperVars /\ [][Ended]_looperVars
  BY <1>1, <1>2, InvariantHolds, PTL DEF LooperSpec
<1>. QED  BY <1>3, Zenon DEF RegistrationsKept, NoStaleDispatch, RegistrationKept
=============================================================================
