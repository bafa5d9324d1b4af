------------------------ MODULE LibraryRuntimeProofs ------------------------
(***************************************************************************)
(* Type correctness, LeaseSafe, CarrierForEveryWaiter and NothingLost of    *)
(* LibraryRuntime, for any numbers of host threads, carriers and ids.      *)
(***************************************************************************)
EXTENDS LibraryRuntime, FiniteSetTheorems, TLAPS

-----------------------------------------------------------------------------
(***************************************************************************)
(* The inductive invariant.  LeaseSafe speaks of the carrier's thread and  *)
(* of the clients; what makes it inductive is the state of the record that *)
(* Impl::mutex guards and that both sides test.                            *)
(***************************************************************************)

\* Before start nothing has happened.
Dormant ==
    spc = "off" =>
        /\ ids = MaxIds
        /\ ~ready
        /\ \A k \in Clients : kpc[k] = "idle"
        /\ \A c \in Carriers : cpc[c] = "none"

\* Impl::available holds the listed records; a listed record is Available and
\* its thread is inside PARK; outside PARK a record is Available.
Records ==
    /\ available = {c \in Carriers : listed[c]}
    /\ \A c \in Carriers : listed[c] => state[c] = "Available" /\ cpc[c] \in ParkPCs
    /\ \A c \in Carriers : cpc[c] \notin ParkPCs => state[c] = "Available"

\* A client with a lease has a record to itself, and the record is Leased.
Leases ==
    /\ \A k \in Clients : kpc[k] \in LeasePCs =>
         /\ lease[k] \in Carriers
         /\ state[lease[k]] = "Leased"
    /\ \A j, k \in Clients :
         kpc[j] \in LeasePCs /\ kpc[k] \in LeasePCs /\ lease[j] = lease[k] => j = k

IInv == TypeOK /\ Dormant /\ Records /\ Leases

-----------------------------------------------------------------------------
(***************************************************************************)
(* Types.                                                                  *)
(***************************************************************************)

\* The service thread and the runner keep the types.
LEMMA ServiceTypes ==
    ASSUME TypeOK, Dormant, ServiceStep
    PROVE  TypeOK'
<1>. USE LibraryRuntimeAssumption DEF TypeOK, Clients, Parkers, runtimeVars, serviceVars, clientVars, carrierVars, threadVars, vars
<1>1. CASE Start
  BY <1>1 DEF Start, Dormant, ServicePCs
<1>2. CASE StartupFails
  BY <1>2, Zenon DEF StartupFails, ServicePCs
<1>3. CASE HandleReady
  BY <1>3, Zenon DEF HandleReady, ServicePCs
<1>4. CASE ServeToken
  BY <1>4, Zenon DEF ServeToken, ServicePCs
<1>5. CASE ServeSignals
  BY <1>5, Zenon DEF ServeSignals, ServicePCs
<1>6. CASE ServePop
  <2>1. CASE commands = <<>>
    BY <1>6, <2>1, Zenon DEF ServePop, ServicePCs
  <2>2. CASE commands # <<>>
    <3>1. Head(commands) \in Clients /\ Tail(commands) \in Seq(Clients)
      BY <2>2
    <3>. QED  BY <1>6, <2>2, <3>1, Zenon DEF ServePop, ServicePCs
  <2>. QED  BY <2>1, <2>2, Zenon
<1>7. CASE ServePark
  BY <1>7, Zenon DEF ServePark, ServicePCs
<1>8. CASE DeliverService
  BY <1>8, Zenon DEF DeliverService, ServicePCs
<1>9. CASE DeliverServiceFatal
  BY <1>9, Zenon DEF DeliverServiceFatal, EndsProcess, ServicePCs
<1>10. CASE ExecuteCall
  BY <1>10, Zenon DEF ExecuteCall, ServicePCs
<1>11. CASE ExecuteSpawn
  BY <1>11 DEF ExecuteSpawn, Registered, ServicePCs, CarrierPCs, ParkPCs
<1>12. CASE ExecuteSpawnFails
  BY <1>12, Zenon DEF ExecuteSpawnFails, ServicePCs
<1>13. CASE ExecuteFatal
  BY <1>13, Zenon DEF ExecuteFatal, EndsProcess, ServicePCs
<1>14. CASE Answer
  BY <1>14, Zenon DEF Answer, ServicePCs
<1>15. CASE RunnerFinish
  BY <1>15 DEF RunnerFinish, ServicePCs
<1>16. CASE RunnerNotify
  BY <1>16, Zenon DEF RunnerNotify, NotifyCarrierCv, ServicePCs, ClientPCs, LeasePCs
<1>17. CASE RunnerFail
  BY <1>17 DEF RunnerFail, ServicePCs
<1>. QED  BY <1>1, <1>2, <1>3, <1>4, <1>5, <1>6, <1>7, <1>8, <1>9, <1>10, <1>11, <1>12, <1>13, <1>14, <1>15, <1>16, <1>17, Zenon DEF ServiceStep

\* A client keeps the types.
LEMMA ClientTypes ==
    ASSUME TypeOK, Leases, NEW k \in Clients, ClientStep(k) \/ ClientChoice(k)
    PROVE  TypeOK'
<1>. USE LibraryRuntimeAssumption DEF TypeOK, Clients, Parkers, runtimeVars, serviceVars, clientVars, carrierVars, threadVars, vars
<1>1. CASE Submit(k)
  BY <1>1 DEF Submit, ClientPCs, LeasePCs
<1>2. CASE WakeService(k)
  BY <1>2, Zenon DEF WakeService, ClientPCs, LeasePCs
<1>3. CASE FutureGet(k)
  BY <1>3, Zenon DEF FutureGet, ClientPCs, LeasePCs
<1>4. CASE AwaitCarrier(k)
  BY <1>4, Zenon DEF AwaitCarrier, ClientPCs, LeasePCs
<1>5. CASE BorrowTimeout(k)
  BY <1>5, Zenon DEF BorrowTimeout, ClientPCs, LeasePCs
<1>6. CASE AllocateBorrower(k)
  <2>1. CASE ids > 0
    BY <1>6, <2>1 DEF AllocateBorrower, ClientPCs, LeasePCs
  <2>2. CASE ~(ids > 0)
    BY <1>6, <2>2, ZenonT(40) DEF AllocateBorrower, ClientPCs, LeasePCs
  <2>. QED  BY <2>1, <2>2, Zenon
<1>7. CASE ListBorrower(k)
  BY <1>7 DEF ListBorrower, Leases, ClientPCs, LeasePCs
<1>8. CASE AbandonLease(k)
  BY <1>8, Zenon DEF AbandonLease, ReleaseCarrier, ClientPCs, LeasePCs
<1>9. CASE CallOnBorrower(k)
  BY <1>9, Zenon DEF CallOnBorrower, ClientPCs, LeasePCs
<1>10. CASE CallOnBorrowerFatal(k)
  BY <1>10, Zenon DEF CallOnBorrowerFatal, EndsProcess, ClientPCs, LeasePCs
<1>11. CASE UnlistBorrower(k)
  BY <1>11, Zenon DEF UnlistBorrower, ClientPCs, LeasePCs
<1>12. CASE MoveSignals(k)
  BY <1>12, ZenonT(40) DEF MoveSignals, ClientPCs, LeasePCs
<1>13. CASE FreeBorrower(k)
  BY <1>13 DEF FreeBorrower, ClientPCs, LeasePCs
<1>14. CASE ReleaseLease(k)
  BY <1>14, Zenon DEF ReleaseLease, ReleaseCarrier, ClientPCs, LeasePCs
<1>15. CASE \E c \in Carriers : LeaseCarrier(k, c)
  BY <1>15 DEF LeaseCarrier, ClientPCs, LeasePCs
<1>. QED  BY <1>1, <1>2, <1>3, <1>4, <1>5, <1>6, <1>7, <1>8, <1>9, <1>10, <1>11, <1>12, <1>13, <1>14, <1>15, Zenon DEF ClientStep, ClientChoice

\* A carrier keeps the types.
LEMMA CarrierTypes ==
    ASSUME TypeOK, NEW c \in Carriers, CarrierStep(c)
    PROVE  TypeOK'
<1>. USE LibraryRuntimeAssumption DEF TypeOK, Clients, Parkers, runtimeVars, serviceVars, clientVars, carrierVars, threadVars, vars
<1>1. CASE ParkEnter(c)
  BY <1>1, Zenon DEF ParkEnter, CarrierPCs, ParkPCs
<1>2. CASE ParkToken(c)
  BY <1>2, Zenon DEF ParkToken, CarrierPCs, ParkPCs
<1>3. CASE CheckReleased(c)
  BY <1>3, Zenon DEF CheckReleased, CarrierPCs, ParkPCs
<1>4. CASE CheckSignals(c)
  BY <1>4, Zenon DEF CheckSignals, CarrierPCs, ParkPCs
<1>5. CASE CheckAvailable(c)
  BY <1>5, Zenon DEF CheckAvailable, CarrierPCs, ParkPCs
<1>6. CASE CheckLeased(c)
  BY <1>6, Zenon DEF CheckLeased, CarrierPCs, ParkPCs
<1>7. CASE ParkNotify(c)
  BY <1>7, Zenon DEF ParkNotify, NotifyCarrierCv, CarrierPCs, ParkPCs, ClientPCs, LeasePCs
<1>8. CASE ParkSleep(c)
  BY <1>8, Zenon DEF ParkSleep, CarrierPCs, ParkPCs
<1>9. CASE DeliverCarrier(c)
  BY <1>9 DEF DeliverCarrier, CarrierPCs, ParkPCs
<1>10. CASE DeliverCarrierFatal(c)
  BY <1>10, Zenon DEF DeliverCarrierFatal, EndsProcess, CarrierPCs, ParkPCs
<1>11. CASE CarrierExit(c)
  BY <1>11 DEF CarrierExit, CarrierPCs, ParkPCs
<1>. QED  BY <1>1, <1>2, <1>3, <1>4, <1>5, <1>6, <1>7, <1>8, <1>9, <1>10, <1>11, Zenon DEF CarrierStep

\* Signals and spurious returns keep the types.
LEMMA OtherTypes ==
    ASSUME TypeOK, Signal \/ SpuriousWake
    PROVE  TypeOK'
<1>. USE LibraryRuntimeAssumption DEF TypeOK, Clients, Parkers, runtimeVars, serviceVars, clientVars, carrierVars, threadVars, vars
<1>1. CASE SignalService
  BY <1>1, Zenon DEF SignalService, PostTo
<1>2. ASSUME NEW c \in Carriers, TkillCarrier(c)
      PROVE  TypeOK'
  <2>1. CASE c \in borrowers
    BY <1>2, <2>1 DEF TkillCarrier
  <2>2. CASE c \notin borrowers
    BY <1>2, <2>2, ZenonT(40) DEF TkillCarrier, PostTo
  <2>. QED  BY <2>1, <2>2, Zenon
<1>3. ASSUME NEW c \in Carriers, HostSignal(c)
      PROVE  TypeOK'
  <2>. DEFINE t == IF attached[c] THEN c ELSE Service
  <2>1. PostTo(t) /\ t \in Parkers
    BY <1>3 DEF HostSignal
  <2>. HIDE DEF t
  <2>. QED  BY <1>3, <2>1 DEF HostSignal, PostTo
<1>4. CASE SpuriousWake
  <2>1. CASE spc = "park" /\ spc' = "token" /\ UNCHANGED <<up, runtimeVars, commands, swapped,
               cmd, result, clientVars, carrierVars, threadVars>>
    BY <2>1 DEF ServicePCs
  <2>2. ASSUME NEW c \in Carriers, cpc' = [cpc EXCEPT ![c] = "token"],
               UNCHANGED <<up, runtimeVars, serviceVars, clientVars, available, carriers, state,
                           listed, attached, threadVars>>
        PROVE  TypeOK'
    BY <2>2, Zenon DEF CarrierPCs, ParkPCs
  <2>3. ASSUME NEW k \in Clients, kpc' = [kpc EXCEPT ![k] = "await"],
               UNCHANGED <<up, runtimeVars, serviceVars, reply, lease, carrierVars, threadVars>>
        PROVE  TypeOK'
    BY <2>3, Zenon DEF ClientPCs
  <2>. QED  BY <1>4, <2>1, <2>2, <2>3, Zenon DEF SpuriousWake
<1>. QED  BY <1>1, <1>2, <1>3, <1>4, Zenon DEF Signal

-----------------------------------------------------------------------------
(***************************************************************************)
(* Records and leases.                                                     *)
(***************************************************************************)

\* Notifying carrier_cv moves no client into or out of a lease.
LEMMA NotifyKeepsLeases ==
    ASSUME TypeOK, NotifyCarrierCv
    PROVE  \A k \in Clients : /\ kpc'[k] \in LeasePCs <=> kpc[k] \in LeasePCs
                              /\ kpc[k] = "idle" => kpc'[k] = "idle"
BY DEF NotifyCarrierCv, LeasePCs, TypeOK

\* A client that ends its lease leaves the record Released and its own lease
\* empty, and touches nothing else that the invariant speaks of.
LEMMA ReleaseKeeps ==
    ASSUME IInv, NEW k \in Clients, kpc[k] \in LeasePCs, ReleaseCarrier(k),
           UNCHANGED <<available, listed, cpc>>
    PROVE  Records' /\ Leases'
<1>. USE DEF IInv, TypeOK
<1>1. /\ lease[k] \in Carriers
      /\ state[lease[k]] = "Leased"
      /\ \A j \in Clients : kpc[j] \in LeasePCs /\ j # k => lease[j] # lease[k]
  BY Zenon DEF Leases
<1>2. Records'
  BY <1>1, Zenon DEF Records, ReleaseCarrier
<1>3. Leases'
  BY <1>1 DEF Leases, ReleaseCarrier, LeasePCs
<1>. QED  BY <1>2, <1>3, Zenon

\* The service and the runner: only a spawn touches a record's thread, and
\* that thread had none.
LEMMA ServiceLeases ==
    ASSUME IInv, ServiceStep
    PROVE  Records' /\ Leases'
<1>. USE DEF IInv, carrierVars, clientVars
<1>1. CASE UNCHANGED <<carrierVars, kpc, lease>>
  BY <1>1, Zenon DEF Records, Leases
<1>2. CASE ExecuteSpawn
  <2>1. PICK c \in Carriers \ Registered : cpc' = [cpc EXCEPT ![c] = "guest"]
    BY <1>2, Zenon DEF ExecuteSpawn
  <2>2. cpc[c] = "none" /\ UNCHANGED <<available, listed, state, kpc, lease>>
    BY <1>2, <2>1, Zenon DEF ExecuteSpawn, Registered
  <2>. QED  BY <2>1, <2>2 DEF Records, Leases, ParkPCs, TypeOK
<1>3. CASE RunnerNotify
  BY <1>3, NotifyKeepsLeases, Zenon DEF RunnerNotify, Records, Leases
<1>. QED
  BY <1>1, <1>2, <1>3, Zenon DEF ServiceStep, Start, StartupFails, HandleReady, ServeToken, ServeSignals,
     ServePop, ServePark, DeliverService, DeliverServiceFatal, ExecuteCall, ExecuteSpawnFails,
     ExecuteFatal, Answer, RunnerFinish, RunnerFail

\* A client takes a lease on a listed record, works under it, and ends it.
LEMMA ClientLeases ==
    ASSUME IInv, NEW k \in Clients, ClientStep(k) \/ ClientChoice(k)
    PROVE  Records' /\ Leases'
<1>. USE DEF IInv, carrierVars, clientVars
<1>1. CASE \E c \in Carriers : LeaseCarrier(k, c)
  <2>. PICK c \in Carriers : LeaseCarrier(k, c)
    BY <1>1, Zenon
  <2>1. listed[c] /\ state[c] = "Available" /\ cpc[c] \in ParkPCs
    BY Zenon DEF LeaseCarrier, Records
  <2>2. \A j \in Clients : kpc[j] \in LeasePCs => lease[j] # c
    BY <2>1, Zenon DEF Leases
  <2>3. Records'
    BY <2>1, Zenon DEF LeaseCarrier, Records, TypeOK
  <2>4. Leases'
    BY <2>1, <2>2 DEF LeaseCarrier, Leases, TypeOK, LeasePCs
  <2>. QED  BY <2>3, <2>4
<1>2. CASE AbandonLease(k) \/ ReleaseLease(k)
  BY <1>2, ReleaseKeeps, Zenon DEF AbandonLease, ReleaseLease, LeasePCs
<1>3. ASSUME NEW pc, pc \in LeasePCs => kpc[k] \in LeasePCs, kpc' = [kpc EXCEPT ![k] = pc],
             UNCHANGED <<carrierVars, lease>>
      PROVE  Records' /\ Leases'
  BY <1>3, SMTT(40) DEF Records, Leases, TypeOK
<1>4. CASE CallOnBorrower(k) \/ CallOnBorrowerFatal(k)
  BY <1>4 DEF CallOnBorrower, CallOnBorrowerFatal, Records, Leases
<1>5. CASE Submit(k) \/ WakeService(k) \/ FutureGet(k) \/ AwaitCarrier(k) \/ BorrowTimeout(k)
  <2>1. PICK pc \in {"wake", "future", "await", "idle", "cvwait"} : kpc' = [kpc EXCEPT ![k] = pc]
    BY <1>5 DEF Submit, WakeService, FutureGet, AwaitCarrier, BorrowTimeout
  <2>. QED
    BY <1>3, <1>5, <2>1, Zenon DEF Submit, WakeService, FutureGet, AwaitCarrier, BorrowTimeout, LeasePCs
<1>6. CASE AllocateBorrower(k) \/ ListBorrower(k) \/ UnlistBorrower(k) \/ MoveSignals(k)
             \/ FreeBorrower(k)
  <2>1. PICK pc \in LeasePCs : kpc' = [kpc EXCEPT ![k] = pc]
    BY <1>6, Zenon DEF AllocateBorrower, ListBorrower, UnlistBorrower, MoveSignals, FreeBorrower, LeasePCs
  <2>2. kpc[k] \in LeasePCs /\ UNCHANGED <<carrierVars, lease>>
    BY <1>6, Zenon DEF AllocateBorrower, ListBorrower, UnlistBorrower, MoveSignals, FreeBorrower, LeasePCs
  <2>. QED  BY <1>3, <2>1, <2>2, Zenon
<1>. QED  BY <1>1, <1>2, <1>4, <1>5, <1>6, Zenon DEF ClientStep, ClientChoice

\* A carrier decides under the lock, from the state of its record: it leaves
\* PARK only when it is Released, or when it is Available and then unlisted.
LEMMA CarrierLeases ==
    ASSUME IInv, NEW c \in Carriers, CarrierStep(c)
    PROVE  Records' /\ Leases'
<1>. USE DEF IInv, clientVars
<1>1. CASE CheckReleased(c)
  <2>1. ~listed[c] /\ \A k \in Clients : kpc[k] \in LeasePCs => lease[k] # c
    BY <1>1, Zenon DEF CheckReleased, Records, Leases
  <2>2. Records'
    BY <1>1, <2>1, Zenon DEF CheckReleased, Records, ParkPCs, TypeOK
  <2>3. Leases'
    BY <1>1, <2>1, Zenon DEF CheckReleased, Leases, TypeOK
  <2>. QED  BY <2>2, <2>3, Zenon
<1>2. CASE CheckSignals(c) \/ CheckAvailable(c)
  <2>1. Records'
    <3>1. CASE CheckSignals(c)
      BY <3>1, Zenon DEF CheckSignals, Records, ParkPCs, TypeOK
    <3>2. CASE CheckAvailable(c)
      <4>1. /\ cpc'[c] \in ParkPCs
            /\ \A d \in Carriers \ {c} : cpc'[d] = cpc[d] /\ listed'[d] = listed[d]
            /\ listed'[c] = TRUE
        BY <3>2, Zenon DEF CheckAvailable, ParkPCs, TypeOK
      <4>2. state[c] = "Available" /\ state' = state /\ available' = available \cup {c}
        BY <3>2, Zenon DEF CheckAvailable
      <4>. QED  BY <4>1, <4>2, Zenon DEF Records, TypeOK
    <3>. QED  BY <1>2, <3>1, <3>2, Zenon
  <2>2. Leases'
    BY <1>2, Zenon DEF CheckSignals, CheckAvailable, Leases
  <2>. QED  BY <2>1, <2>2
<1>3. CASE ParkNotify(c)
  BY <1>3, NotifyKeepsLeases DEF ParkNotify, Records, Leases, ParkPCs, TypeOK
<1>4. CASE ParkEnter(c) \/ ParkToken(c) \/ CheckLeased(c) \/ ParkSleep(c)
  <2>1. /\ \A d \in Carriers \ {c} : cpc'[d] = cpc[d]
        /\ cpc'[c] \in ParkPCs
        /\ UNCHANGED <<available, listed, state, clientVars>>
    BY <1>4, Zenon DEF ParkEnter, ParkToken, CheckLeased, ParkSleep, ParkPCs, TypeOK
  <2>. QED  BY <2>1, Zenon DEF Records, Leases
<1>5. CASE DeliverCarrier(c) \/ CarrierExit(c)
  BY <1>5, SMTT(40) DEF DeliverCarrier, CarrierExit, Records, Leases, ParkPCs, TypeOK
<1>6. CASE DeliverCarrierFatal(c)
  BY <1>6 DEF DeliverCarrierFatal, carrierVars, Records, Leases
<1>. QED  BY <1>1, <1>2, <1>3, <1>4, <1>5, <1>6, Zenon DEF CarrierStep

\* A signal or a spurious return changes no record and no lease.
LEMMA OtherLeases ==
    ASSUME IInv, Signal \/ SpuriousWake
    PROVE  Records' /\ Leases'
<1>. USE DEF IInv, carrierVars, clientVars
<1>1. CASE UNCHANGED <<carrierVars, clientVars>>
  BY <1>1, Zenon DEF Records, Leases
<1>2. ASSUME NEW c \in Carriers, cpc[c] = "park", cpc' = [cpc EXCEPT ![c] = "token"],
             UNCHANGED <<available, state, listed, clientVars>>
      PROVE  Records' /\ Leases'
  BY <1>2, Zenon DEF Records, Leases, ParkPCs, TypeOK
<1>3. ASSUME NEW k \in Clients, kpc' = [kpc EXCEPT ![k] = "await"], UNCHANGED <<carrierVars, lease>>
      PROVE  Records' /\ Leases'
  BY <1>3 DEF Records, Leases, LeasePCs, TypeOK
<1>4. CASE Signal
  BY <1>1, <1>4, Zenon DEF Signal, SignalService, TkillCarrier, HostSignal
<1>5. CASE SpuriousWake
  BY <1>1, <1>2, <1>3, <1>5, Zenon DEF SpuriousWake
<1>. QED  BY <1>4, <1>5, Zenon

-----------------------------------------------------------------------------
\* Nothing but the start happens before the start.
LEMMA StaysDormant ==
    ASSUME IInv, Next
    PROVE  Dormant'
<1>. USE DEF IInv, Dormant
<1>1. CASE spc # "off"
  BY <1>1, ZenonT(40) DEF Next, ServiceStep, Start, StartupFails, HandleReady, ServeToken, ServeSignals,
     ServePop, ServePark, DeliverService, DeliverServiceFatal, ExecuteCall, ExecuteSpawn,
     ExecuteSpawnFails, ExecuteFatal, Answer, RunnerFinish, RunnerNotify, RunnerFail, ClientStep,
     ClientChoice, WakeService, FutureGet, LeaseCarrier, AwaitCarrier, AllocateBorrower,
     ListBorrower, AbandonLease, MoveSignals, FreeBorrower, ReleaseLease, Submit, BorrowTimeout,
     CallOnBorrower, CallOnBorrowerFatal, UnlistBorrower, CarrierStep, ParkEnter, ParkToken,
     CheckReleased, CheckSignals, CheckAvailable, CheckLeased, ParkNotify, ParkSleep,
     DeliverCarrier, DeliverCarrierFatal, CarrierExit, Signal, SignalService, TkillCarrier,
     HostSignal, SpuriousWake, vars, serviceVars
<1>2. CASE spc = "off"
  <2>1. ASSUME ServiceStep
        PROVE  spc' = "boot"
    BY <1>2, <2>1, Zenon DEF ServiceStep, Start, StartupFails, HandleReady, ServeToken, ServeSignals,
       ServePop, ServePark, DeliverService, DeliverServiceFatal, ExecuteCall, ExecuteSpawn,
       ExecuteSpawnFails, ExecuteFatal, Answer, RunnerFinish, RunnerNotify, RunnerFail
  <2>2. ASSUME NEW k \in Clients
        PROVE  ~ClientStep(k) /\ ~ClientChoice(k)
    BY <1>2, Zenon DEF ClientStep, ClientChoice, WakeService, FutureGet, LeaseCarrier, AwaitCarrier,
       AllocateBorrower, ListBorrower, AbandonLease, MoveSignals, FreeBorrower, ReleaseLease,
       Submit, BorrowTimeout, CallOnBorrower, CallOnBorrowerFatal, UnlistBorrower
  <2>3. ASSUME NEW c \in Carriers
        PROVE  ~CarrierStep(c)
    BY <1>2, Zenon DEF CarrierStep, ParkEnter, ParkToken, CheckReleased, CheckSignals, CheckAvailable,
       CheckLeased, ParkNotify, ParkSleep, DeliverCarrier, DeliverCarrierFatal, CarrierExit
  <2>4. ~Signal /\ ~SpuriousWake
    BY <1>2, Zenon DEF Signal, SignalService, TkillCarrier, HostSignal, Registered, SpuriousWake
  <2>. QED
    BY <1>2, <2>1, <2>2, <2>3, <2>4 DEF Next, vars, runtimeVars, serviceVars, clientVars,
       carrierVars, threadVars
<1>. QED  BY <1>1, <1>2, Zenon

LEMMA InitIInv == Init => IInv
<1>. SUFFICES ASSUME Init PROVE IInv
  OBVIOUS
<1>. USE LibraryRuntimeAssumption DEF Init
<1>1. TypeOK
  <2>1. commands \in Seq(Clients) /\ swapped \in Seq(Clients)
    OBVIOUS
  <2>2. "off" \in ServicePCs /\ "idle" \in ClientPCs /\ "none" \in CarrierPCs
    BY Zenon DEF ServicePCs, ClientPCs, CarrierPCs
  <2>. QED  BY <2>1, <2>2, Zenon DEF TypeOK
<1>2. Dormant /\ Records
  BY Zenon DEF Dormant, Records
<1>3. Leases
  BY DEF Leases, LeasePCs
<1>. QED  BY <1>1, <1>2, <1>3, Zenon DEF IInv

LEMMA NextIInv == IInv /\ [Next]_vars => IInv'
<1>. SUFFICES ASSUME IInv, [Next]_vars PROVE IInv'
  OBVIOUS
<1>1. CASE UNCHANGED vars
  BY <1>1, Zenon DEF IInv, TypeOK, Dormant, Records, Leases, vars, runtimeVars, serviceVars, clientVars,
     carrierVars, threadVars
<1>2. CASE Next
  <2>1. Dormant'
    BY <1>2, StaysDormant, Zenon
  <2>2. CASE ServiceStep
    BY <2>1, <2>2, ServiceTypes, ServiceLeases, Zenon DEF IInv
  <2>3. ASSUME NEW k \in Clients, ClientStep(k) \/ ClientChoice(k) PROVE IInv'
    BY <2>1, <2>3, ClientTypes, ClientLeases, Zenon DEF IInv
  <2>4. ASSUME NEW c \in Carriers, CarrierStep(c) PROVE IInv'
    BY <2>1, <2>4, CarrierTypes, CarrierLeases, Zenon DEF IInv
  <2>5. CASE Signal \/ SpuriousWake
    BY <2>1, <2>5, OtherTypes, OtherLeases, Zenon DEF IInv
  <2>. QED  BY <1>1, <1>2, <2>2, <2>3, <2>4, <2>5, Zenon DEF Next
<1>. QED  BY <1>1, <1>2, Zenon

LEMMA InvariantHolds == Spec => []IInv
BY InitIInv, NextIInv, PTL DEF Spec

-----------------------------------------------------------------------------
(***************************************************************************)
(* Every reachable state of the library runtime is well typed; in          *)
(* particular the count of free processor ids never goes below zero.       *)
(***************************************************************************)
THEOREM TypeCorrect == Spec => []TypeOK
<1>1. IInv => TypeOK
  BY DEF IInv
<1>. QED  BY <1>1, InvariantHolds, PTL

(***************************************************************************)
(* What the comment on ParkedCarrier promises: a lease never starts while  *)
(* the carrier runs guest code, a leased carrier stays in PARK until it is *)
(* released, and two host threads never hold the same carrier.             *)
(***************************************************************************)
THEOREM LeasesExclusive == Spec => []LeaseSafe
<1>1. IInv => LeaseSafe
  <2>. SUFFICES ASSUME IInv PROVE LeaseSafe
    OBVIOUS
  <2>1. ASSUME NEW c \in available
        PROVE  cpc[c] \in ParkPCs /\ Holders(c) = {}
    BY <2>1, Zenon DEF IInv, Records, Leases, Holders
  <2>2. ASSUME NEW k \in Clients, kpc[k] \in LeasePCs
        PROVE  cpc[lease[k]] \in ParkPCs /\ Holders(lease[k]) = {k}
    BY <2>2 DEF IInv, Records, Leases, Holders
  <2>. QED  BY <2>1, <2>2 DEF LeaseSafe
<1>. QED  BY <1>1, InvariantHolds, PTL

-----------------------------------------------------------------------------
(***************************************************************************)
(* Counting commands, carriers and ids.                                    *)
(*                                                                         *)
(* NothingLost and CarrierForEveryWaiter count: places of a command, free  *)
(* ids, carriers that a borrow can still get.  A count is kept only        *)
(* together with what is known of the promises, of the command in the      *)
(* service's hands, and of the end of the guest.                           *)
(***************************************************************************)

\* The promise of a client that waits for no answer is empty.
Promises == \A k \in Clients : kpc[k] \notin {"wake", "future"} => reply[k] = "none"

\* The service has a command exactly while it executes and answers it, and
\* the runner has commands only once it ended the runtime.
Hands ==
    /\ cmd = None <=> spc \notin {"execute", "answer"}
    /\ result = "none" <=> spc # "answer"
    /\ swapped # <<>> => spc \in {"notify", "fail"}

\* Before READY no client got in.  The guest that ended without ending the
\* host process had no carrier.
Ending ==
    /\ ~ready => /\ spc \in {"off", "boot", "return", "notify", "fail"}
                 /\ Registered = {}
                 /\ \A k \in Clients : kpc[k] = "idle"
    /\ spc \in {"return", "notify", "fail"} => exiting
    /\ finished => spc \in {"notify", "fail"}
    /\ exiting /\ up => /\ spc \in {"answer", "return", "notify", "fail"}
                        /\ Registered = {}

\* The clients that wait for a carrier, and those whose spawn succeeded and
\* who will wait once they learn of it.
Owed ==
    Waiting \cup {k \in Borrowers : reply[k] = "ok" \/ (cmd = k /\ result = "ok")}

CarrierOwed == Cardinality(Owed) <= Cardinality(Unleased)

CInv == Promises /\ Hands /\ Ending /\ AnsweredOnce /\ IdsConserved /\ CarrierOwed

-----------------------------------------------------------------------------
(***************************************************************************)
(* How often a client's command is in a queue.                             *)
(***************************************************************************)

\* A queue holds a client's command finitely often.
LEMMA CountType ==
    ASSUME NEW q \in Seq(Clients), NEW k
    PROVE  InQueue(q, k) \in Nat /\ IsFiniteSet({i \in DOMAIN q : q[i] = k})
<1>1. DOMAIN q = 1..Len(q) /\ Len(q) \in Nat
  OBVIOUS
<1>2. IsFiniteSet(1..Len(q))
  BY <1>1, FS_Interval
<1>3. IsFiniteSet({i \in DOMAIN q : q[i] = k})
  BY <1>1, <1>2, FS_Subset, Zenon
<1>. QED  BY <1>3, FS_CardinalityType DEF InQueue

LEMMA CountEmpty == \A k : InQueue(<<>>, k) = 0
BY FS_EmptySet DEF InQueue

\* submit adds one command of its client and none of another.
LEMMA CountAppend ==
    ASSUME NEW q \in Seq(Clients), NEW j \in Clients, NEW k
    PROVE  InQueue(Append(q, j), k) = InQueue(q, k) + (IF j = k THEN 1 ELSE 0)
<1>. DEFINE S == {i \in DOMAIN q : q[i] = k}
            T == {i \in DOMAIN Append(q, j) : Append(q, j)[i] = k}
            n == Len(q) + 1
<1>1. /\ DOMAIN q = 1..Len(q) /\ DOMAIN Append(q, j) = 1..n /\ Len(q) \in Nat
      /\ \A i \in 1..Len(q) : Append(q, j)[i] = q[i]
      /\ Append(q, j)[n] = j
  OBVIOUS
<1>2. IsFiniteSet(S) /\ Cardinality(S) \in Nat
  BY CountType, Zenon DEF InQueue
<1>3. n \notin S
  BY <1>1
<1>6. InQueue(q, k) = Cardinality(S) /\ InQueue(Append(q, j), k) = Cardinality(T)
  BY Zenon DEF InQueue
<1>7. T = IF j = k THEN S \cup {n} ELSE S
  BY <1>1
<1>. HIDE DEF S, T
<1>4. CASE j = k
  BY <1>2, <1>3, <1>4, <1>6, <1>7, FS_AddElement, Zenon
<1>5. CASE j # k
  BY <1>2, <1>5, <1>6, <1>7
<1>. QED  BY <1>4, <1>5, Zenon

\* Taking the first command takes one of its client and none of another.
LEMMA CountTail ==
    ASSUME NEW q \in Seq(Clients), q # <<>>, NEW k
    PROVE  InQueue(q, k) = InQueue(Tail(q), k) + (IF Head(q) = k THEN 1 ELSE 0)
<1>. DEFINE S == {i \in DOMAIN q : q[i] = k}
            T == {i \in DOMAIN Tail(q) : Tail(q)[i] = k}
            f == [i \in T |-> i + 1]
<1>1. /\ DOMAIN q = 1..Len(q) /\ Len(q) \in Nat /\ Len(q) > 0
      /\ Tail(q) \in Seq(Clients) /\ Len(Tail(q)) = Len(q) - 1
      /\ DOMAIN Tail(q) = 1..(Len(q) - 1)
      /\ \A i \in 1..(Len(q) - 1) : Tail(q)[i] = q[i + 1]
      /\ Head(q) = q[1]
  OBVIOUS
<1>2. IsFiniteSet(T) /\ Cardinality(T) \in Nat
  BY <1>1, CountType, Zenon DEF InQueue
<1>3. f \in Bijection(T, S \ {1})
  <2>1. f \in [T -> S \ {1}]
    BY <1>1
  <2>2. \A a, b \in T : f[a] = f[b] => a = b
    BY <1>1
  <2>3. \A s \in S \ {1} : \E t \in T : f[t] = s
    <3>. SUFFICES ASSUME NEW s \in S \ {1} PROVE \E t \in T : f[t] = s
      OBVIOUS
    <3>1. s - 1 \in T /\ (s - 1) + 1 = s
      BY <1>1
    <3>. QED  BY <3>1, Zenon
  <2>4. DOMAIN f = T
    BY Zenon
  <2>5. f \in Injection(T, S \ {1})
    BY <2>1, <2>2, <2>4, Zenon DEF Injection, IsInjective
  <2>6. f \in Surjection(T, S \ {1})
    BY <2>1, <2>3, Zenon DEF Surjection
  <2>. QED  BY <2>5, <2>6, Zenon DEF Bijection
<1>4. IsFiniteSet(S \ {1}) /\ Cardinality(S \ {1}) = Cardinality(T)
  BY <1>2, <1>3, FS_Bijection, Zenon DEF ExistsBijection
<1>7. InQueue(q, k) = Cardinality(S) /\ InQueue(Tail(q), k) = Cardinality(T)
  BY DEF InQueue
<1>8. S = IF Head(q) = k THEN (S \ {1}) \cup {1} ELSE S \ {1}
  BY <1>1
<1>. HIDE DEF S, T
<1>9. Cardinality((S \ {1}) \cup {1}) = Cardinality(S \ {1}) + 1
  BY <1>4, FS_AddElement, Zenon
<1>5. CASE Head(q) = k
  BY <1>2, <1>4, <1>5, <1>7, <1>8, <1>9, ZenonT(40)
<1>6. CASE Head(q) # k
  <2>1. Cardinality(S) = Cardinality(T)
    BY <1>4, <1>6, <1>8
  <2>. QED  BY <1>2, <1>6, <1>7, <2>1
<1>. QED  BY <1>5, <1>6, Zenon

-----------------------------------------------------------------------------
(***************************************************************************)
(* Promises and the service's hands.                                       *)
(***************************************************************************)
LEMMA ServiceHands ==
    ASSUME IInv, CInv, ServiceStep
    PROVE  Promises' /\ Hands'
<1>. USE LibraryRuntimeAssumption DEF IInv, CInv, TypeOK, Hands, Promises, Clients, clientVars
<1>1. CASE Start \/ StartupFails \/ HandleReady \/ ServeToken \/ ServeSignals \/ ServePark
             \/ DeliverService \/ DeliverServiceFatal
  BY <1>1, Zenon DEF Start, StartupFails, HandleReady, ServeToken, ServeSignals, ServePark,
     DeliverService, DeliverServiceFatal
<1>2. CASE ServePop
  <2>1. commands # <<>> => Head(commands) \in Clients
    OBVIOUS
  <2>. QED  BY <1>2, <2>1, Zenon DEF ServePop
<1>3. CASE ExecuteCall \/ ExecuteSpawn \/ ExecuteSpawnFails \/ ExecuteFatal
  BY <1>3, Zenon DEF ExecuteCall, ExecuteSpawn, ExecuteSpawnFails, ExecuteFatal
<1>4. CASE Answer
  <2>1. cmd \in Clients /\ kpc[cmd] \in {"wake", "future"}
    <3>1. cmd \in Clients
      BY <1>4, Zenon DEF Answer
    <3>2. InQueue(commands, cmd) \in Nat /\ InQueue(swapped, cmd) \in Nat
      BY CountType, Zenon
    <3>. QED  BY <3>1, <3>2 DEF AnsweredOnce
  <2>. QED  BY <1>4, <2>1, Zenon DEF Answer
<1>5. CASE RunnerFinish \/ RunnerNotify
  BY <1>5 DEF RunnerFinish, RunnerNotify, NotifyCarrierCv
<1>6. CASE RunnerFail
  <2>1. Head(swapped) \in Clients /\ kpc[Head(swapped)] \in {"wake", "future"}
    <3>. DEFINE h == Head(swapped)
    <3>1. h \in Clients /\ Tail(swapped) \in Seq(Clients) /\ swapped # <<>>
      BY <1>6 DEF RunnerFail
    <3>2. InQueue(commands, h) \in Nat /\ InQueue(Tail(swapped), h) \in Nat
      BY <3>1, CountType, ZenonT(40)
    <3>3. InQueue(swapped, h) = InQueue(Tail(swapped), h) + 1
      BY <3>1, CountTail, Zenon
    <3>. HIDE DEF h
    <3>4. kpc[h] \in {"wake", "future"}
      BY <3>1, <3>2, <3>3, SMTT(40) DEF AnsweredOnce
    <3>. QED  BY <3>1, <3>4, Zenon DEF h
  <2>. QED  BY <1>6, <2>1, Zenon DEF RunnerFail
<1>. QED  BY <1>1, <1>2, <1>3, <1>4, <1>5, <1>6, Zenon DEF ServiceStep

LEMMA OthersHands ==
    ASSUME IInv, CInv,
           \/ \E k \in Clients : ClientStep(k) \/ ClientChoice(k)
           \/ \E c \in Carriers : CarrierStep(c)
           \/ Signal
           \/ SpuriousWake
    PROVE  Promises' /\ Hands'
<1>. USE DEF IInv, CInv, TypeOK, Hands, Promises, serviceVars, clientVars
<1>1. ASSUME NEW k \in Clients, ClientStep(k) \/ ClientChoice(k)
      PROVE  Promises' /\ Hands'
  <2>1. CASE Submit(k) \/ WakeService(k) \/ FutureGet(k) \/ AwaitCarrier(k) \/ BorrowTimeout(k)
    BY <2>1, Zenon DEF Submit, WakeService, FutureGet, AwaitCarrier, BorrowTimeout
  <2>2. CASE AllocateBorrower(k) \/ ListBorrower(k) \/ UnlistBorrower(k) \/ MoveSignals(k)
               \/ FreeBorrower(k)
    BY <2>2, Zenon DEF AllocateBorrower, ListBorrower, UnlistBorrower, MoveSignals, FreeBorrower
  <2>3. CASE AbandonLease(k) \/ ReleaseLease(k) \/ CallOnBorrower(k) \/ CallOnBorrowerFatal(k)
               \/ \E c \in Carriers : LeaseCarrier(k, c)
    BY <2>3, Zenon DEF AbandonLease, ReleaseLease, ReleaseCarrier, CallOnBorrower, CallOnBorrowerFatal,
       LeaseCarrier
  <2>. QED  BY <1>1, <2>1, <2>2, <2>3, Zenon DEF ClientStep, ClientChoice
<1>2. ASSUME NEW c \in Carriers, CarrierStep(c)
      PROVE  Promises' /\ Hands'
  <2>1. CASE ParkNotify(c)
    BY <2>1, Zenon DEF ParkNotify, NotifyCarrierCv
  <2>2. UNCHANGED <<serviceVars, clientVars>> => Promises' /\ Hands'
    OBVIOUS
  <2>. QED
    BY <1>2, <2>1, <2>2, Zenon DEF CarrierStep, ParkEnter, ParkToken, CheckReleased, CheckSignals,
       CheckAvailable, CheckLeased, ParkSleep, DeliverCarrier, DeliverCarrierFatal, CarrierExit
<1>3. CASE Signal
  BY <1>3, Zenon DEF Signal, SignalService, TkillCarrier, HostSignal
<1>4. CASE SpuriousWake
  BY <1>4, Zenon DEF SpuriousWake
<1>. QED  BY <1>1, <1>2, <1>3, <1>4, Zenon

-----------------------------------------------------------------------------
(***************************************************************************)
(* The end of the guest.                                                   *)
(***************************************************************************)

\* A client with a lease, and a carrier in PARK, are cut off when the process
\* ends: the carrier is registered, so the host process ends too.
LEMMA LeaseRegistered ==
    ASSUME IInv, NEW k \in Clients, kpc[k] \in LeasePCs
    PROVE  Registered # {}
BY Zenon DEF IInv, Leases, Records, Registered, ParkPCs

LEMMA EndingKept ==
    ASSUME IInv, CInv, up, Next
    PROVE  Ending'
<1>. USE DEF Ending
<1>1. CASE ServiceStep
  <2>. USE DEF CInv, clientVars, carrierVars, runtimeVars, Registered
  <2>1. ASSUME UNCHANGED <<up, ready, finished, exiting, kpc, cpc>>, spc = "off" \/ ready,
               spc \notin {"answer", "return", "notify", "fail"}, spc' \notin {"return", "notify", "fail"},
               spc = "off" => spc' = "boot"
        PROVE  Ending'
    <3>1. ~exiting /\ ~finished
      BY <2>1, Zenon
    <3>. QED  BY <2>1, <3>1, Zenon
  <2>5. CASE Start
    BY <2>1, <2>5, Zenon DEF Start
  <2>13. CASE StartupFails
    <3>1. ~finished /\ Registered = {} /\ cpc' = cpc /\ \A k \in Clients : kpc'[k] = "idle"
      BY <2>13, Zenon DEF StartupFails
    <3>. QED  BY <2>13, <3>1, Zenon DEF StartupFails
  <2>6. CASE HandleReady
    BY <2>6 DEF HandleReady
  <2>7. CASE ServeToken \/ ServeSignals \/ ServePark
    <3>1. ready /\ spc \in {"token", "signals", "park"} /\ spc' \in {"signals", "deliver", "pop", "token"}
      BY <2>7, Zenon DEF ServeToken, ServeSignals, ServePark
    <3>. QED  BY <2>1, <2>7, <3>1, Zenon DEF ServeToken, ServeSignals, ServePark
  <2>8. CASE ServePop \/ DeliverService
    <3>1. ready /\ spc \in {"pop", "deliver"} /\ spc' \in {"park", "execute", "boot"}
      BY <2>8, Zenon DEF ServePop, DeliverService
    <3>. QED  BY <2>1, <2>8, <3>1, Zenon DEF ServePop, DeliverService
  <2>9. CASE DeliverServiceFatal
    BY <2>9, Zenon DEF DeliverServiceFatal, EndsProcess
  <2>10. CASE ExecuteCall \/ ExecuteSpawnFails
    <3>1. ready /\ spc = "execute" /\ spc' = "answer"
      BY <2>10, Zenon DEF ExecuteCall, ExecuteSpawnFails
    <3>. QED  BY <2>1, <2>10, <3>1, Zenon DEF ExecuteCall, ExecuteSpawnFails
  <2>11. CASE ExecuteFatal
    BY <2>11, Zenon DEF ExecuteFatal, EndsProcess
  <2>12. CASE Answer
    BY <2>12, Zenon DEF Answer
  <2>3. CASE ExecuteSpawn
    BY <2>3, Zenon DEF ExecuteSpawn
  <2>4. CASE RunnerFinish \/ RunnerNotify \/ RunnerFail
    BY <2>4, Zenon DEF RunnerFinish, RunnerNotify, NotifyCarrierCv, RunnerFail
  <2>. QED
    BY <1>1, <2>3, <2>4, <2>5, <2>6, <2>7, <2>8, <2>9, <2>10, <2>11, <2>12, <2>13, Zenon
      DEF ServiceStep
<1>2. ASSUME NEW k \in Clients, ClientStep(k) \/ ClientChoice(k)
      PROVE  Ending'
  <2>1. ready
    <3>1. CASE kpc[k] # "idle"
      BY <3>1, Zenon DEF CInv
    <3>2. CASE kpc[k] = "idle"
      BY <1>2, <3>2, Zenon DEF ClientStep, ClientChoice, WakeService, FutureGet, LeaseCarrier,
         AwaitCarrier, AllocateBorrower, ListBorrower, AbandonLease, MoveSignals, FreeBorrower,
         ReleaseLease, Submit, BorrowTimeout, CallOnBorrower, CallOnBorrowerFatal, UnlistBorrower
    <3>. QED  BY <3>1, <3>2, Zenon
  <2>2. CASE CallOnBorrowerFatal(k)
    <3>1. ~up' /\ UNCHANGED <<ready, finished, spc>> /\ exiting'
      BY <2>2, LeaseRegistered, ZenonT(40) DEF CallOnBorrowerFatal, EndsProcess, serviceVars, LeasePCs
    <3>. QED  BY <2>1, <3>1, Zenon DEF CInv
  <2>3. CASE UNCHANGED <<up, ready, finished, exiting, spc, cpc>>
    BY <2>1, <2>3, Zenon DEF CInv, Registered
  <2>. QED
    BY <1>2, <2>2, <2>3, Zenon DEF ClientStep, ClientChoice, WakeService, FutureGet, LeaseCarrier,
       AwaitCarrier, AllocateBorrower, ListBorrower, AbandonLease, MoveSignals, FreeBorrower,
       ReleaseLease, Submit, BorrowTimeout, CallOnBorrower, UnlistBorrower, runtimeVars,
       serviceVars, carrierVars
<1>3. ASSUME NEW c \in Carriers, CarrierStep(c)
      PROVE  Ending'
  <2>1. c \in Registered /\ ready
    <3>1. cpc[c] # "none"
      BY <1>3, ZenonT(40) DEF CarrierStep, ParkEnter, ParkToken, CheckReleased, CheckSignals, CheckAvailable,
         CheckLeased, ParkNotify, ParkSleep, DeliverCarrier, DeliverCarrierFatal, CarrierExit
    <3>. QED  BY <3>1, Zenon DEF CInv, Registered
  <2>2. ~exiting
    BY <2>1, Zenon DEF CInv
  <2>3. CASE DeliverCarrierFatal(c)
    <3>1. ~up' /\ UNCHANGED <<ready, finished, spc>> /\ exiting'
      BY <2>3, Zenon DEF DeliverCarrierFatal, EndsProcess, serviceVars
    <3>. QED  BY <2>1, <3>1, Zenon DEF CInv
  <2>4. CASE UNCHANGED <<ready, finished, exiting, spc>>
    BY <2>1, <2>2, <2>4, Zenon DEF CInv
  <2>. QED
    BY <1>3, <2>3, <2>4, Zenon DEF CarrierStep, ParkEnter, ParkToken, CheckReleased, CheckSignals,
       CheckAvailable, CheckLeased, ParkNotify, ParkSleep, DeliverCarrier, CarrierExit,
       runtimeVars, serviceVars
<1>4. CASE Signal
  <2>1. UNCHANGED <<up, ready, finished, exiting, spc, kpc, cpc>>
    BY <1>4, Zenon DEF Signal, SignalService, TkillCarrier, HostSignal, runtimeVars, serviceVars,
       clientVars, carrierVars
  <2>. QED  BY <2>1, Zenon DEF CInv, Registered
<1>5. CASE SpuriousWake
  <2>1. UNCHANGED <<up, ready, finished, exiting>>
    BY <1>5, Zenon DEF SpuriousWake, runtimeVars
  <2>2. spc' = spc \/ (spc = "park" /\ spc' = "token")
    BY <1>5, Zenon DEF SpuriousWake, serviceVars
  <2>3. \A k \in Clients : kpc[k] = "idle" => kpc'[k] = "idle"
    BY <1>5, Zenon DEF SpuriousWake, clientVars, IInv, TypeOK
  <2>4. Registered' = Registered
    BY <1>5, Zenon DEF SpuriousWake, Registered, carrierVars, IInv, TypeOK
  <2>. QED  BY <2>1, <2>2, <2>3, <2>4, Zenon DEF CInv
<1>6. CASE UNCHANGED vars
  BY <1>6, Zenon DEF CInv, Registered, vars, runtimeVars, serviceVars, clientVars, carrierVars
<1>. QED  BY <1>1, <1>2, <1>3, <1>4, <1>5, <1>6 DEF Next

-----------------------------------------------------------------------------
(***************************************************************************)
(* Every command is in one place.                                          *)
(***************************************************************************)

\* The client's command has no answer yet.
Open(k) == kpc[k] \in {"wake", "future"} /\ reply[k] = "none"

LEMMA OneAsked ==
    ASSUME NEW a \in Nat, NEW b \in Nat, a + b + 1 \in {0, 1}
    PROVE  a = 0 /\ b = 0
OBVIOUS

LEMMA AnsweredFrame ==
    ASSUME AnsweredOnce, UNCHANGED <<commands, swapped, cmd>>,
           \A k \in Clients : Open(k)' <=> Open(k)
    PROVE  AnsweredOnce'
BY Zenon DEF AnsweredOnce, InQueue, Open

LEMMA ServiceAnswers ==
    ASSUME IInv, CInv, ServiceStep
    PROVE  AnsweredOnce'
<1>. USE LibraryRuntimeAssumption DEF IInv, CInv, TypeOK, Hands
<1>. DEFINE Asked(k) == InQueue(commands, k) + InQueue(swapped, k) + (IF cmd = k THEN 1 ELSE 0)
<1>0. ASSUME NEW k \in Clients
      PROVE  /\ InQueue(commands, k) \in Nat /\ InQueue(swapped, k) \in Nat
             /\ Asked(k) = IF Open(k) THEN 1 ELSE 0
  <2>1. InQueue(commands, k) \in Nat /\ InQueue(swapped, k) \in Nat
    BY CountType, Zenon
  <2>. QED  BY <2>1, Zenon DEF AnsweredOnce, Open
<1>1. CASE UNCHANGED <<commands, swapped, cmd, kpc, reply>>
  BY <1>1, AnsweredFrame, Zenon DEF Open
<1>2. CASE ServePop
  <2>1. CASE commands = <<>>
    BY <1>1, <1>2, <2>1, Zenon DEF ServePop, clientVars
  <2>2. CASE commands # <<>>
    <3>1. /\ cmd = None /\ cmd' = Head(commands) /\ commands' = Tail(commands)
          /\ UNCHANGED <<swapped, kpc, reply>>
      BY <1>2, <2>2, Zenon DEF ServePop, clientVars
    <3>2. ASSUME NEW k \in Clients
          PROVE  InQueue(commands', k) + InQueue(swapped', k) + (IF cmd' = k THEN 1 ELSE 0)
                   = IF kpc'[k] \in {"wake", "future"} /\ reply'[k] = "none" THEN 1 ELSE 0
      <4>1. InQueue(commands, k) = InQueue(Tail(commands), k) + (IF Head(commands) = k THEN 1 ELSE 0)
        BY <2>2, CountTail, Zenon
      <4>2. InQueue(Tail(commands), k) \in Nat
        <5>1. Tail(commands) \in Seq(Clients)
          BY <2>2
        <5>. QED  BY <5>1, CountType, Zenon
      <4>3. k # None
        BY Zenon DEF Clients
      <4>. QED  BY <1>0, <3>1, <4>1, <4>2, <4>3, SMTT(40) DEF Open
    <3>. QED  BY <3>2, Zenon DEF AnsweredOnce, InQueue
  <2>. QED  BY <2>1, <2>2, Zenon
<1>3. CASE Answer
  <2>1. /\ cmd \in Clients /\ cmd' = None /\ UNCHANGED <<commands, swapped, kpc>>
        /\ reply' = [reply EXCEPT ![cmd] = result] /\ result # "none"
    BY <1>3, Zenon DEF Answer
  <2>2. ASSUME NEW k \in Clients
        PROVE  InQueue(commands', k) + InQueue(swapped', k) + (IF cmd' = k THEN 1 ELSE 0)
                 = IF kpc'[k] \in {"wake", "future"} /\ reply'[k] = "none" THEN 1 ELSE 0
    <3>1. k # None
      BY DEF Clients
    <3>2. CASE k = cmd
      <4>1. InQueue(commands, k) = 0 /\ InQueue(swapped, k) = 0
        <5>1. Asked(k) \in {0, 1} /\ InQueue(commands, k) \in Nat /\ InQueue(swapped, k) \in Nat
          BY <1>0, Zenon
        <5>2. InQueue(commands, k) + InQueue(swapped, k) + 1 \in {0, 1}
          BY <3>2, <5>1, Zenon
        <5>. QED  BY <5>1, <5>2, OneAsked, Zenon
      <4>2. reply'[k] # "none"
        BY <2>1, <3>2, Zenon
      <4>. QED  BY <2>1, <3>1, <4>1, <4>2
    <3>3. CASE k # cmd
      BY <1>0, <2>1, <3>1, <3>3, Zenon DEF Open
    <3>. QED  BY <3>2, <3>3, Zenon
  <2>. QED  BY <2>2 DEF AnsweredOnce, InQueue
<1>4. CASE RunnerFinish
  <2>1. /\ swapped = <<>> /\ swapped' = commands /\ commands' = <<>>
        /\ UNCHANGED <<cmd, kpc, reply>>
    BY <1>4, Zenon DEF RunnerFinish, clientVars
  <2>2. ASSUME NEW k \in Clients
        PROVE  InQueue(commands', k) + InQueue(swapped', k) + (IF cmd' = k THEN 1 ELSE 0)
                 = IF kpc'[k] \in {"wake", "future"} /\ reply'[k] = "none" THEN 1 ELSE 0
    BY <1>0, <2>1, CountEmpty DEF Open
  <2>. QED  BY <2>2 DEF AnsweredOnce, InQueue
<1>5. CASE RunnerFail
  <2>. DEFINE h == Head(swapped)
  <2>1. /\ swapped # <<>> /\ h \in Clients /\ swapped' = Tail(swapped)
        /\ UNCHANGED <<commands, cmd, kpc>> /\ reply' = [reply EXCEPT ![h] = "failed"]
    BY <1>5 DEF RunnerFail
  <2>2. ASSUME NEW k \in Clients
        PROVE  InQueue(commands', k) + InQueue(swapped', k) + (IF cmd' = k THEN 1 ELSE 0)
                 = IF kpc'[k] \in {"wake", "future"} /\ reply'[k] = "none" THEN 1 ELSE 0
    <3>1. InQueue(swapped, k) = InQueue(Tail(swapped), k) + (IF h = k THEN 1 ELSE 0)
      BY <2>1, CountTail, Zenon
    <3>2. InQueue(Tail(swapped), k) \in Nat
      <4>1. Tail(swapped) \in Seq(Clients)
        BY <2>1
      <4>. QED  BY <4>1, CountType, Zenon
    <3>. HIDE DEF h
    <3>3. CASE k = h
      <4>1. InQueue(commands, k) = 0 /\ InQueue(Tail(swapped), k) = 0 /\ cmd # k
        <5>. DEFINE a == InQueue(commands, k)
                    d == InQueue(Tail(swapped), k)
                    e == IF cmd = k THEN 1 ELSE 0
        <5>1. Asked(k) \in {0, 1} /\ a \in Nat /\ d \in Nat /\ e \in {0, 1}
          BY <1>0, <3>2, Zenon
        <5>2. a + (d + 1) + e \in {0, 1}
          BY <3>1, <3>3, <5>1, Zenon
        <5>3. e = 1 => cmd = k
          OBVIOUS
        <5>4. e = 0 => cmd # k
          OBVIOUS
        <5>. HIDE DEF a, d, e
        <5>5. a = 0 /\ d = 0 /\ e = 0
          BY <5>1, <5>2
        <5>. QED  BY <5>4, <5>5, Zenon DEF a, d
      <4>2. reply'[k] = "failed"
        BY <2>1, <3>3, Zenon
      <4>. QED  BY <2>1, <4>1, <4>2
    <3>4. CASE k # h
      BY <1>0, <2>1, <3>1, <3>2, <3>4, SMTT(40) DEF Open
    <3>. QED  BY <3>3, <3>4, ZenonT(40)
  <2>. QED  BY <2>2 DEF AnsweredOnce, InQueue
<1>6. CASE RunnerNotify
  <2>1. \A k \in Clients : Open(k)' <=> Open(k)
    BY <1>6, Zenon DEF RunnerNotify, NotifyCarrierCv, Open
  <2>. QED  BY <1>6, <2>1, AnsweredFrame, Zenon DEF RunnerNotify
<1>. QED
  BY <1>1, <1>2, <1>3, <1>4, <1>5, <1>6, Zenon DEF ServiceStep, Start, StartupFails, HandleReady,
     ServeToken, ServeSignals, ServePark, DeliverService, DeliverServiceFatal, ExecuteCall,
     ExecuteSpawn, ExecuteSpawnFails, ExecuteFatal, clientVars

LEMMA OthersAnswer ==
    ASSUME IInv, CInv,
           \/ \E k \in Clients : ClientStep(k) \/ ClientChoice(k)
           \/ \E c \in Carriers : CarrierStep(c)
           \/ Signal
           \/ SpuriousWake
    PROVE  AnsweredOnce'
<1>. USE DEF IInv, CInv, TypeOK
<1>1. CASE UNCHANGED <<serviceVars, clientVars>>
  BY <1>1, AnsweredFrame, Zenon DEF Open, serviceVars, clientVars
<1>2. ASSUME NEW k \in Clients, ClientStep(k) \/ ClientChoice(k)
      PROVE  AnsweredOnce'
  <2>1. CASE Submit(k)
    <3>1. /\ kpc[k] = "idle" /\ reply[k] = "none" /\ commands' = Append(commands, k)
          /\ kpc' = [kpc EXCEPT ![k] = "wake"] /\ UNCHANGED <<swapped, cmd, reply>>
      BY <2>1, Zenon DEF Submit, Promises
    <3>2. ASSUME NEW j \in Clients
          PROVE  InQueue(commands', j) + InQueue(swapped', j) + (IF cmd' = j THEN 1 ELSE 0)
                   = IF kpc'[j] \in {"wake", "future"} /\ reply'[j] = "none" THEN 1 ELSE 0
      <4>1. InQueue(Append(commands, k), j) = InQueue(commands, j) + (IF k = j THEN 1 ELSE 0)
        BY CountAppend, Zenon
      <4>2. InQueue(commands, j) \in Nat /\ InQueue(swapped, j) \in Nat
        BY CountType, Zenon
      <4>3. InQueue(commands, j) + InQueue(swapped, j) + (IF cmd = j THEN 1 ELSE 0)
              = IF kpc[j] \in {"wake", "future"} /\ reply[j] = "none" THEN 1 ELSE 0
        BY Zenon DEF AnsweredOnce
      <4>4. CASE j = k
        BY <3>1, <4>1, <4>2, <4>3, <4>4, SMTT(40)
      <4>5. CASE j # k
        BY <3>1, <4>1, <4>2, <4>3, <4>5, SMTT(40)
      <4>. QED  BY <4>4, <4>5, Zenon
    <3>. QED  BY <3>2, Zenon DEF AnsweredOnce, InQueue
  <2>2. CASE FutureGet(k)
    <3>1. \A j \in Clients : Open(j)' <=> Open(j)
      BY <2>2, Zenon DEF FutureGet, Open
    <3>. QED  BY <2>2, <3>1, AnsweredFrame, Zenon DEF FutureGet, serviceVars
  <2>3. CASE WakeService(k)
    <3>1. \A j \in Clients : Open(j)' <=> Open(j)
      BY <2>3, Zenon DEF WakeService, Open
    <3>. QED  BY <2>3, <3>1, AnsweredFrame, Zenon DEF WakeService, serviceVars
  <2>4. ASSUME NEW pc, pc \notin {"wake", "future"}, kpc[k] \notin {"wake", "future"},
               kpc' = [kpc EXCEPT ![k] = pc], UNCHANGED <<serviceVars, reply>>
        PROVE  AnsweredOnce'
    <3>1. \A j \in Clients : Open(j)' <=> Open(j)
      BY <2>4, Zenon DEF Open
    <3>. QED  BY <2>4, <3>1, AnsweredFrame, Zenon DEF serviceVars
  <2>5. CASE AwaitCarrier(k) \/ BorrowTimeout(k) \/ \E c \in Carriers : LeaseCarrier(k, c)
    BY <2>4, <2>5, Zenon DEF AwaitCarrier, BorrowTimeout, LeaseCarrier
  <2>6. CASE AllocateBorrower(k) \/ ListBorrower(k) \/ UnlistBorrower(k) \/ MoveSignals(k)
               \/ FreeBorrower(k)
    BY <2>4, <2>6, Zenon DEF AllocateBorrower, ListBorrower, UnlistBorrower, MoveSignals, FreeBorrower
  <2>7. CASE AbandonLease(k) \/ ReleaseLease(k)
    BY <2>4, <2>7, Zenon DEF AbandonLease, ReleaseLease, ReleaseCarrier
  <2>8. CASE CallOnBorrower(k) \/ CallOnBorrowerFatal(k)
    BY <1>1, <2>8, Zenon DEF CallOnBorrower, CallOnBorrowerFatal
  <2>. QED  BY <1>2, <2>1, <2>2, <2>3, <2>5, <2>6, <2>7, <2>8, Zenon DEF ClientStep, ClientChoice
<1>3. ASSUME NEW c \in Carriers, CarrierStep(c)
      PROVE  AnsweredOnce'
  <2>1. CASE ParkNotify(c)
    <3>1. \A k \in Clients : Open(k)' <=> Open(k)
      BY <2>1, Zenon DEF ParkNotify, NotifyCarrierCv, Open
    <3>. QED  BY <2>1, <3>1, AnsweredFrame, Zenon DEF ParkNotify, serviceVars
  <2>. QED
    BY <1>1, <1>3, <2>1, ZenonT(40) DEF CarrierStep, ParkEnter, ParkToken, CheckReleased, CheckSignals,
       CheckAvailable, CheckLeased, ParkSleep, DeliverCarrier, DeliverCarrierFatal, CarrierExit
<1>4. CASE Signal
  BY <1>1, <1>4, Zenon DEF Signal, SignalService, TkillCarrier, HostSignal
<1>5. CASE SpuriousWake
  <2>1. UNCHANGED <<commands, swapped, cmd>> /\ \A k \in Clients : Open(k)' <=> Open(k)
    BY <1>5, Zenon DEF SpuriousWake, Open, serviceVars, clientVars
  <2>. QED  BY <2>1, AnsweredFrame, Zenon
<1>. QED  BY <1>2, <1>3, <1>4, <1>5, Zenon

-----------------------------------------------------------------------------
(***************************************************************************)
(* Processor ids.                                                          *)
(***************************************************************************)
LEMMA FiniteParts ==
    /\ IsFiniteSet(Clients)
    /\ \A S \in SUBSET Clients : IsFiniteSet(S) /\ Cardinality(S) \in Nat
    /\ \A S \in SUBSET Carriers : IsFiniteSet(S) /\ Cardinality(S) \in Nat
<1>1. IsFiniteSet(Clients)
  BY LibraryRuntimeAssumption, FS_Union, Zenon DEF Clients
<1>. QED  BY <1>1, LibraryRuntimeAssumption, FS_Subset, FS_CardinalityType, Zenon

\* The id of the service thread.
ServiceId == IF spc \in {"off", "notify", "fail"} THEN 0 ELSE 1

LEMMA IdsFrame ==
    ASSUME IdsConserved, Registered' = Registered, Jits' = Jits, ids' = ids,
           ServiceId' = ServiceId
    PROVE  IdsConserved'
BY Zenon DEF IdsConserved, ServiceId

LEMMA ServiceIds ==
    ASSUME IInv, CInv, ServiceStep
    PROVE  IdsConserved'
<1>. USE DEF IInv, CInv, TypeOK
<1>1. CASE UNCHANGED <<kpc, cpc, ids>> /\ ServiceId' = ServiceId
  BY <1>1, IdsFrame, Zenon DEF Registered, Jits
<1>2. CASE Start \/ RunnerFinish
  <2>1. Registered' = Registered /\ Jits' = Jits
    BY <1>2, Zenon DEF Start, RunnerFinish, clientVars, carrierVars, Registered, Jits
  <2>2. Cardinality(Registered) \in Nat /\ Cardinality(Jits) \in Nat
    BY FiniteParts, Zenon DEF Registered, Jits
  <2>. QED  BY <1>2, <2>1, <2>2, LibraryRuntimeAssumption, SMTT(40) DEF Start, RunnerFinish, IdsConserved
<1>3. CASE ExecuteSpawn
  <2>1. PICK c \in Carriers \ Registered : cpc' = [cpc EXCEPT ![c] = "guest"]
    BY <1>3, ZenonT(40) DEF ExecuteSpawn
  <2>2. Registered' = Registered \cup {c} /\ c \notin Registered
    BY <2>1, Zenon DEF Registered
  <2>3. Jits' = Jits /\ ids' = ids - 1 /\ spc = "execute" /\ spc' = "answer"
    BY <1>3, Zenon DEF ExecuteSpawn, clientVars, Jits
  <2>4. /\ Cardinality(Registered) \in Nat /\ Cardinality(Jits) \in Nat
        /\ Cardinality(Registered') = Cardinality(Registered) + 1
    BY <2>2, FiniteParts, FS_AddElement, Zenon DEF Registered, Jits
  <2>. QED  BY <2>3, <2>4, LibraryRuntimeAssumption DEF IdsConserved
<1>4. CASE RunnerNotify
  <2>1. Registered' = Registered /\ Jits' = Jits /\ ids' = ids /\ ServiceId' = ServiceId
    BY <1>4, Zenon DEF RunnerNotify, NotifyCarrierCv, carrierVars, threadVars, Registered, Jits, ServiceId
  <2>. QED  BY <2>1, IdsFrame, Zenon
<1>. QED
  BY <1>1, <1>2, <1>3, <1>4, ZenonT(40) DEF ServiceStep, StartupFails, HandleReady, ServeToken, ServeSignals,
     ServePop, ServePark, DeliverService, DeliverServiceFatal, ExecuteCall, ExecuteSpawnFails,
     ExecuteFatal, Answer, RunnerFail, clientVars, carrierVars, threadVars, ServiceId

LEMMA ClientIds ==
    ASSUME IInv, CInv, NEW k \in Clients, ClientStep(k) \/ ClientChoice(k)
    PROVE  IdsConserved'
<1>. USE DEF IInv, CInv, TypeOK
<1>1. Registered' = Registered /\ ServiceId' = ServiceId
  BY Zenon DEF ClientStep, ClientChoice, WakeService, FutureGet, LeaseCarrier, AwaitCarrier,
     AllocateBorrower, ListBorrower, AbandonLease, MoveSignals, FreeBorrower, ReleaseLease, Submit,
     BorrowTimeout, CallOnBorrower, CallOnBorrowerFatal, UnlistBorrower, Registered, ServiceId,
     serviceVars, carrierVars
<1>2. Cardinality(Registered) \in Nat /\ Cardinality(Jits) \in Nat /\ IsFiniteSet(Jits)
  BY FiniteParts, Zenon DEF Registered, Jits
<1>3. CASE AllocateBorrower(k) /\ ids > 0
  <2>1. Jits' = Jits \cup {k} /\ k \notin Jits /\ ids' = ids - 1
    BY <1>3, Zenon DEF AllocateBorrower, Jits
  <2>2. Cardinality(Jits') = Cardinality(Jits) + 1
    BY <1>2, <2>1, FS_AddElement, Zenon
  <2>. QED  BY <1>1, <1>2, <2>1, <2>2, LibraryRuntimeAssumption, SMTT(40) DEF IdsConserved, ServiceId
<1>4. CASE FreeBorrower(k)
  <2>1. Jits' = Jits \ {k} /\ k \in Jits /\ ids' = ids + 1
    BY <1>4 DEF FreeBorrower, Jits
  <2>2. Cardinality(Jits') = Cardinality(Jits) - 1
    BY <1>2, <2>1, FS_RemoveElement, Zenon
  <2>. QED  BY <1>1, <1>2, <2>1, <2>2, LibraryRuntimeAssumption, SMTT(40) DEF IdsConserved, ServiceId
<1>5. ASSUME Jits' = Jits, ids' = ids
      PROVE  IdsConserved'
  BY <1>1, <1>5, IdsFrame, Zenon
<1>6. CASE Submit(k) \/ WakeService(k) \/ FutureGet(k) \/ AwaitCarrier(k) \/ BorrowTimeout(k)
  BY <1>5, <1>6, ZenonT(40) DEF Submit, WakeService, FutureGet, AwaitCarrier, BorrowTimeout, Jits, threadVars
<1>7. CASE ListBorrower(k) \/ UnlistBorrower(k) \/ MoveSignals(k)
             \/ (AllocateBorrower(k) /\ ~(ids > 0))
  BY <1>5, <1>7, ZenonT(40) DEF ListBorrower, UnlistBorrower, MoveSignals, AllocateBorrower, Jits
<1>8. CASE AbandonLease(k) \/ ReleaseLease(k) \/ CallOnBorrower(k) \/ CallOnBorrowerFatal(k)
             \/ \E c \in Carriers : LeaseCarrier(k, c)
  BY <1>5, <1>8, Zenon DEF AbandonLease, ReleaseLease, ReleaseCarrier, CallOnBorrower,
     CallOnBorrowerFatal, LeaseCarrier, Jits, clientVars, threadVars
<1>. QED  BY <1>3, <1>4, <1>6, <1>7, <1>8, Zenon DEF ClientStep, ClientChoice

LEMMA CarrierIds ==
    ASSUME IInv, CInv, NEW c \in Carriers, CarrierStep(c)
    PROVE  IdsConserved'
<1>. USE DEF IInv, CInv, TypeOK
<1>1. Jits' = Jits /\ ServiceId' = ServiceId
  BY ZenonT(40) DEF CarrierStep, ParkEnter, ParkToken, CheckReleased, CheckSignals, CheckAvailable,
     CheckLeased, ParkNotify, NotifyCarrierCv, ParkSleep, DeliverCarrier, DeliverCarrierFatal,
     CarrierExit, Jits, ServiceId, serviceVars, clientVars
<1>2. CASE CarrierExit(c)
  <2>1. Registered' = Registered \ {c} /\ c \in Registered /\ ids' = ids + 1
    BY <1>2 DEF CarrierExit, Registered
  <2>2. /\ Cardinality(Registered) \in Nat /\ Cardinality(Jits) \in Nat
        /\ Cardinality(Registered') = Cardinality(Registered) - 1
    <3>1. Registered \in SUBSET Carriers /\ Jits \in SUBSET Clients
      BY Zenon DEF Registered, Jits
    <3>2. /\ IsFiniteSet(Registered) /\ Cardinality(Registered) \in Nat
          /\ Cardinality(Jits) \in Nat
      BY <3>1, FiniteParts, Zenon
    <3>3. Cardinality(Registered \ {c}) = Cardinality(Registered) - 1
      BY <2>1, <3>2, FS_RemoveElement, ZenonT(40)
    <3>. QED  BY <2>1, <3>2, <3>3, Zenon
  <2>. QED  BY <1>1, <2>1, <2>2, LibraryRuntimeAssumption DEF IdsConserved, ServiceId
<1>3. ASSUME Registered' = Registered, ids' = ids
      PROVE  IdsConserved'
  BY <1>1, <1>3, IdsFrame, Zenon
<1>4. CASE ~CarrierExit(c)
  <2>1. ids' = ids
    BY <1>4, ZenonT(40) DEF CarrierStep, ParkEnter, ParkToken, CheckReleased, CheckSignals, CheckAvailable,
       CheckLeased, ParkNotify, ParkSleep, DeliverCarrier, DeliverCarrierFatal, threadVars
  <2>2. /\ cpc[c] # "none" /\ cpc'[c] # "none"
        /\ \A d \in Carriers \ {c} : cpc'[d] = cpc[d]
    BY <1>4, Zenon DEF CarrierStep, ParkEnter, ParkToken, CheckReleased, CheckSignals, CheckAvailable,
       CheckLeased, ParkNotify, ParkSleep, DeliverCarrier, DeliverCarrierFatal, carrierVars
  <2>3. Registered' = Registered
    BY <2>2, Zenon DEF Registered
  <2>. QED  BY <1>3, <2>1, <2>3, Zenon
<1>. QED  BY <1>2, <1>4, Zenon

-----------------------------------------------------------------------------
(***************************************************************************)
(* A carrier for every borrow.                                             *)
(***************************************************************************)

\* Fewer borrows, as many carriers.
LEMMA OwedFrame ==
    ASSUME CarrierOwed, Owed \in SUBSET Clients, Owed' \subseteq Owed, Unleased' = Unleased
    PROVE  CarrierOwed'
<1>1. IsFiniteSet(Owed) /\ Cardinality(Owed) \in Nat
  BY FiniteParts, Zenon
<1>2. Cardinality(Owed') <= Cardinality(Owed) /\ Cardinality(Owed') \in Nat
  BY <1>1, FS_Subset, FS_CardinalityType, Zenon
<1>3. Cardinality(Unleased) \in Nat
  BY FiniteParts, Zenon DEF Unleased, Registered
<1>. QED  BY <1>1, <1>2, <1>3 DEF CarrierOwed

LEMMA OwedClients == Owed \in SUBSET Clients /\ Unleased \in SUBSET Carriers
BY Zenon DEF Owed, Waiting, Unleased, Registered, Clients

LEMMA ServiceOwed ==
    ASSUME IInv, CInv, ServiceStep
    PROVE  CarrierOwed'
<1>. USE LibraryRuntimeAssumption DEF IInv, CInv, TypeOK, Hands, Clients
<1>1. CASE ExecuteSpawn
  <2>1. PICK c \in Carriers \ Registered : cpc' = [cpc EXCEPT ![c] = "guest"]
    BY <1>1, ZenonT(40) DEF ExecuteSpawn
  <2>2. state[c] = "Available" /\ cpc[c] = "none" /\ state' = state
    BY <1>1, Zenon DEF ExecuteSpawn, Registered, Records, ParkPCs
  <2>3. Unleased' = Unleased \cup {c} /\ c \notin Unleased
    BY <2>1, <2>2 DEF Unleased, Registered
  <2>4. Owed' \in SUBSET (Owed \cup {cmd})
    BY <1>1, ZenonT(40) DEF ExecuteSpawn, clientVars, Owed, Waiting
  <2>5. /\ IsFiniteSet(Owed) /\ Cardinality(Owed) \in Nat
        /\ IsFiniteSet(Unleased) /\ Cardinality(Unleased) \in Nat
    BY OwedClients, FiniteParts, Zenon
  <2>6. Cardinality(Unleased') = Cardinality(Unleased) + 1
    BY <2>3, <2>5, FS_AddElement, ZenonT(40)
  <2>7. IsFiniteSet(Owed \cup {cmd}) /\ Cardinality(Owed \cup {cmd}) <= Cardinality(Owed) + 1
    <3>1. Cardinality(Owed \cup {cmd}) = IF cmd \in Owed THEN Cardinality(Owed) ELSE Cardinality(Owed) + 1
      BY <2>5, FS_AddElement, Zenon
    <3>2. IsFiniteSet(Owed \cup {cmd})
      BY <2>5, FS_AddElement, Zenon
    <3>. QED  BY <2>5, <3>1, <3>2
  <2>8. Cardinality(Owed') <= Cardinality(Owed \cup {cmd}) /\ Cardinality(Owed') \in Nat
    BY <2>4, <2>7, FS_Subset, FS_CardinalityType, Zenon
  <2>9. Cardinality(Owed \cup {cmd}) \in Nat
    BY <2>7, FS_CardinalityType, Zenon
  <2>. QED  BY <2>5, <2>6, <2>7, <2>8, <2>9 DEF CarrierOwed
<1>2. ASSUME Owed' \subseteq Owed, UNCHANGED <<cpc, state>>
      PROVE  CarrierOwed'
  BY <1>2, OwedFrame, OwedClients, Zenon DEF Unleased, Registered
<1>3. CASE UNCHANGED <<reply, kpc, cmd, result, cpc, state>>
  BY <1>2, <1>3, Zenon DEF Owed, Waiting
<1>4. CASE ServePop
  <2>1. result = "none" /\ result' = "none"
    BY <1>4, Zenon DEF ServePop
  <2>. QED  BY <1>2, <1>4, <2>1, Zenon DEF ServePop, clientVars, carrierVars, Owed, Waiting
<1>5. CASE ExecuteCall \/ ExecuteSpawnFails \/ ExecuteFatal
  BY <1>2, <1>5, ZenonT(40) DEF ExecuteCall, ExecuteSpawnFails, ExecuteFatal, clientVars, carrierVars, Owed,
     Waiting
<1>6. CASE Answer
  <2>1. Owed' \subseteq Owed
    BY <1>6, Zenon DEF Answer, Owed, Waiting
  <2>. QED  BY <1>2, <1>6, <2>1, Zenon DEF Answer, carrierVars
<1>7. CASE RunnerNotify \/ RunnerFail
  <2>1. Owed' \subseteq Owed
    BY <1>7, Zenon DEF RunnerNotify, NotifyCarrierCv, RunnerFail, Owed, Waiting
  <2>. QED  BY <1>2, <1>7, <2>1, Zenon DEF RunnerNotify, RunnerFail, carrierVars
<1>. QED
  BY <1>1, <1>3, <1>4, <1>5, <1>6, <1>7, Zenon DEF ServiceStep, Start, StartupFails, HandleReady,
     ServeToken, ServeSignals, ServePark, DeliverService, DeliverServiceFatal, RunnerFinish,
     clientVars, carrierVars

LEMMA ClientOwed ==
    ASSUME IInv, CInv, NEW k \in Clients, ClientStep(k) \/ ClientChoice(k)
    PROVE  CarrierOwed'
<1>. USE DEF IInv, CInv, TypeOK
<1>1. ASSUME NEW c \in Carriers, LeaseCarrier(k, c)
      PROVE  CarrierOwed'
  <2>1. /\ c \in Unleased
        /\ Unleased' = Unleased \ {c}
    BY <1>1, Zenon DEF LeaseCarrier, Records, Unleased, Registered, ParkPCs
  <2>2. reply[k] = "none" /\ cmd # k
    <3>1. InQueue(commands, k) \in Nat /\ InQueue(swapped, k) \in Nat
      BY CountType, Zenon
    <3>2. kpc[k] = "await"
      BY <1>1, Zenon DEF LeaseCarrier
    <3>3. reply[k] = "none"
      BY <3>2, Zenon DEF Promises
    <3>4. InQueue(commands, k) + InQueue(swapped, k) + (IF cmd = k THEN 1 ELSE 0) = 0
      BY <3>2, Zenon DEF AnsweredOnce
    <3>. QED  BY <3>1, <3>3, <3>4
  <2>3. k \in Owed /\ Owed' = Owed \ {k}
    BY <1>1, <2>2, Zenon DEF LeaseCarrier, serviceVars, Owed, Waiting
  <2>4. /\ IsFiniteSet(Owed) /\ Cardinality(Owed) \in Nat
        /\ IsFiniteSet(Unleased) /\ Cardinality(Unleased) \in Nat
    BY OwedClients, FiniteParts, Zenon
  <2>5. /\ Cardinality(Owed') = Cardinality(Owed) - 1
        /\ Cardinality(Unleased') = Cardinality(Unleased) - 1
    BY <2>1, <2>3, <2>4, FS_RemoveElement, Zenon
  <2>. QED  BY <2>4, <2>5, SMTT(40) DEF CarrierOwed
<1>2. ASSUME Owed' \subseteq Owed, Unleased' = Unleased
      PROVE  CarrierOwed'
  BY <1>2, OwedFrame, OwedClients, Zenon
<1>3. CASE Submit(k) \/ WakeService(k) \/ AwaitCarrier(k) \/ BorrowTimeout(k)
  BY <1>2, <1>3, ZenonT(40) DEF Submit, WakeService, AwaitCarrier, BorrowTimeout, Owed, Waiting, Unleased,
     Registered, serviceVars, carrierVars
<1>4. CASE FutureGet(k)
  <2>1. Owed' \subseteq Owed
    BY <1>4 DEF FutureGet, Owed, Waiting, serviceVars
  <2>. QED  BY <1>2, <1>4, <2>1, Zenon DEF FutureGet, Unleased, Registered, carrierVars
<1>5. CASE AllocateBorrower(k) \/ ListBorrower(k) \/ UnlistBorrower(k) \/ MoveSignals(k)
             \/ FreeBorrower(k)
  <2>1. Owed' \subseteq Owed
    BY <1>5, ZenonT(40) DEF AllocateBorrower, ListBorrower, UnlistBorrower, MoveSignals, FreeBorrower, Owed,
       Waiting, serviceVars
  <2>2. Unleased' = Unleased
    BY <1>5, ZenonT(40) DEF AllocateBorrower, ListBorrower, UnlistBorrower, MoveSignals, FreeBorrower,
       Unleased, Registered, carrierVars
  <2>. QED  BY <1>2, <2>1, <2>2, Zenon
<1>6. CASE AbandonLease(k) \/ ReleaseLease(k)
  <2>1. Owed' \subseteq Owed
    BY <1>6, Zenon DEF AbandonLease, ReleaseLease, ReleaseCarrier, Owed, Waiting, serviceVars
  <2>2. Unleased' = Unleased
    <3>1. lease[k] \in Carriers /\ state[lease[k]] = "Leased"
      BY <1>6, Zenon DEF AbandonLease, ReleaseLease, Leases, LeasePCs
    <3>2. cpc' = cpc /\ state' = [state EXCEPT ![lease[k]] = "Released"]
      BY <1>6, Zenon DEF AbandonLease, ReleaseLease, ReleaseCarrier
    <3>. QED  BY <3>1, <3>2, Zenon DEF Unleased, Registered
  <2>. QED  BY <1>2, <2>1, <2>2
<1>7. CASE CallOnBorrower(k) \/ CallOnBorrowerFatal(k)
  BY <1>2, <1>7, Zenon DEF CallOnBorrower, CallOnBorrowerFatal, Owed, Waiting, Unleased, Registered,
     serviceVars, clientVars, carrierVars
<1>. QED  BY <1>1, <1>3, <1>4, <1>5, <1>6, <1>7, Zenon DEF ClientStep, ClientChoice

LEMMA CarrierStepOwed ==
    ASSUME IInv, CInv, NEW c \in Carriers, CarrierStep(c)
    PROVE  CarrierOwed'
<1>. USE DEF IInv, CInv, TypeOK
<1>1. Owed' = Owed
  BY ZenonT(40) DEF CarrierStep, ParkEnter, ParkToken, CheckReleased, CheckSignals, CheckAvailable,
     CheckLeased, ParkNotify, NotifyCarrierCv, ParkSleep, DeliverCarrier, DeliverCarrierFatal,
     CarrierExit, Owed, Waiting, serviceVars, clientVars
<1>2. Unleased' = Unleased
  <2>1. CASE ParkEnter(c) \/ ParkToken(c) \/ CheckSignals(c) \/ CheckAvailable(c) \/ CheckLeased(c)
    BY <2>1, ZenonT(40) DEF ParkEnter, ParkToken, CheckSignals, CheckAvailable, CheckLeased, Unleased,
       Registered
  <2>2. CASE ParkNotify(c) \/ ParkSleep(c) \/ DeliverCarrier(c) \/ DeliverCarrierFatal(c)
               \/ CarrierExit(c) \/ CheckReleased(c)
    BY <2>2, Zenon DEF ParkNotify, ParkSleep, DeliverCarrier, DeliverCarrierFatal, CarrierExit,
       CheckReleased, Unleased, Registered, carrierVars
  <2>. QED  BY <2>1, <2>2 DEF CarrierStep
<1>. QED  BY <1>1, <1>2, OwedFrame, OwedClients, Zenon

\* A signal or a spurious return moves no id and no carrier.
LEMMA OthersCount ==
    ASSUME IInv, CInv, Signal \/ SpuriousWake
    PROVE  IdsConserved' /\ CarrierOwed'
<1>. USE DEF IInv, CInv, TypeOK
<1>0. /\ UNCHANGED <<reply, cmd, result, state>>
      /\ \A k \in Clients : kpc'[k] = kpc[k] \/ (kpc[k] = "cvwait" /\ kpc'[k] = "await")
      /\ \A c \in Carriers : cpc'[c] = cpc[c] \/ (cpc[c] = "park" /\ cpc'[c] = "token")
  <2>1. CASE Signal
    BY <2>1, ZenonT(40) DEF Signal, SignalService, TkillCarrier, HostSignal, serviceVars, clientVars,
       carrierVars
  <2>2. CASE SpuriousWake
    BY <2>2, ZenonT(40) DEF SpuriousWake, serviceVars, clientVars, carrierVars
  <2>. QED  BY <2>1, <2>2, ZenonT(40)
<1>1. Owed' = Owed /\ Jits' = Jits
  BY <1>0, ZenonT(40) DEF Owed, Waiting, Jits
<1>2. Unleased' = Unleased /\ Registered' = Registered
  BY <1>0, SMTT(40) DEF Unleased, Registered
<1>3. ids' = ids /\ ServiceId' = ServiceId
  BY Zenon DEF Signal, SignalService, TkillCarrier, HostSignal, SpuriousWake, ServiceId, serviceVars,
     threadVars
<1>. QED  BY <1>1, <1>2, <1>3, OwedFrame, OwedClients, IdsFrame, Zenon

-----------------------------------------------------------------------------
LEMMA InitCInv == Init => CInv
<1>. SUFFICES ASSUME Init PROVE CInv
  OBVIOUS
<1>. USE LibraryRuntimeAssumption DEF Init
<1>1. Promises /\ Hands /\ Ending
  BY Zenon DEF Promises, Hands, Ending, Registered
<1>2. AnsweredOnce
  <2>1. \A k \in Clients : k # None
    BY Zenon DEF Clients
  <2>. QED  BY <2>1, CountEmpty DEF AnsweredOnce
<1>3. Registered = {} /\ Jits = {} /\ Owed = {} /\ Unleased = {}
  BY Zenon DEF Registered, Jits, Owed, Waiting, Unleased, Clients
<1>4. IdsConserved /\ CarrierOwed
  BY <1>3, FS_EmptySet DEF IdsConserved, CarrierOwed
<1>. QED  BY <1>1, <1>2, <1>4, Zenon DEF CInv

LEMMA NextCInv == IInv /\ CInv /\ [Next]_vars => CInv'
<1>. SUFFICES ASSUME IInv, CInv, [Next]_vars PROVE CInv'
  OBVIOUS
<1>1. CASE UNCHANGED vars
  BY <1>1, ZenonT(40) DEF CInv, Promises, Hands, Ending, AnsweredOnce, InQueue, IdsConserved, CarrierOwed, Jits,
     Owed, Waiting, Unleased, Registered, vars, runtimeVars, serviceVars, clientVars, carrierVars,
     threadVars
<1>2. CASE Next /\ up
  <2>1. Ending'
    BY <1>2, EndingKept
  <2>2. CASE ServiceStep
    BY <2>1, <2>2, ServiceHands, ServiceAnswers, ServiceIds, ServiceOwed DEF CInv
  <2>3. ASSUME NEW k \in Clients, ClientStep(k) \/ ClientChoice(k) PROVE CInv'
    BY <2>1, <2>3, OthersHands, OthersAnswer, ClientIds, ClientOwed, Zenon DEF CInv
  <2>4. ASSUME NEW c \in Carriers, CarrierStep(c) PROVE CInv'
    BY <2>1, <2>4, OthersHands, OthersAnswer, CarrierIds, CarrierStepOwed, Zenon DEF CInv
  <2>5. CASE Signal \/ SpuriousWake
    BY <2>1, <2>5, OthersHands, OthersAnswer, OthersCount, Zenon DEF CInv
  <2>. QED  BY <1>1, <1>2, <2>2, <2>3, <2>4, <2>5 DEF Next
<1>. QED  BY <1>1, <1>2, Zenon DEF Next

LEMMA CountsHold == Spec => [](IInv /\ CInv)
BY InitIInv, NextIInv, InitCInv, NextCInv, PTL DEF Spec

-----------------------------------------------------------------------------
(***************************************************************************)
(* Every borrow that waits for "any carrier" has one to wait for, for any  *)
(* number of clients that overtake each other, give up or die: no spawned  *)
(* carrier is counted for two borrows.                                     *)
(***************************************************************************)
THEOREM CarriersSuffice == Spec => []CarrierForEveryWaiter
<1>1. CInv => CarrierForEveryWaiter
  <2>. SUFFICES ASSUME CInv PROVE Cardinality(Waiting) <= Cardinality(Unleased)
    BY Zenon DEF CarrierForEveryWaiter
  <2>1. Waiting \in SUBSET Owed
    BY Zenon DEF Owed
  <2>2. /\ IsFiniteSet(Owed) /\ Cardinality(Owed) \in Nat
        /\ Cardinality(Unleased) \in Nat
    BY OwedClients, FiniteParts, Zenon
  <2>3. Cardinality(Waiting) <= Cardinality(Owed) /\ Cardinality(Waiting) \in Nat
    BY <2>1, <2>2, FS_Subset, FS_CardinalityType, Zenon
  <2>. QED  BY <2>2, <2>3 DEF CInv, CarrierOwed
<1>. QED  BY <1>1, CountsHold, PTL

(***************************************************************************)
(* Every command is answered once, the processor ids are conserved, and    *)
(* the runtime that reports its end leaves nobody behind: a carrier that   *)
(* was registered would have ended the host process, and a borrow that     *)
(* waits has a carrier.                                                    *)
(***************************************************************************)
THEOREM NothingIsLost == Spec => []NothingLost
<1>1. IInv /\ CInv => NothingLost
  <2>. SUFFICES ASSUME IInv, CInv PROVE NothingLost
    OBVIOUS
  <2>1. ASSUME finished, up
        PROVE  Registered = {} /\ \A k \in Clients : kpc[k] \in {"idle", "wake", "future"}
    <3>1. Registered = {}
      BY <2>1, Zenon DEF CInv, Ending
    <3>2. Unleased = {}
      BY <3>1, Zenon DEF Unleased
    <3>3. Owed = {}
      <4>1. IsFiniteSet(Owed) /\ Cardinality(Owed) \in Nat
        BY OwedClients, FiniteParts, Zenon
      <4>2. Cardinality(Owed) <= 0
        BY <3>2, FS_EmptySet, Zenon DEF CInv, CarrierOwed
      <4>. QED  BY <4>1, <4>2, FS_EmptySet
    <3>4. ASSUME NEW k \in Clients
          PROVE  kpc[k] \in {"idle", "wake", "future"}
      <4>1. kpc[k] \notin LeasePCs
        BY <3>1, LeaseRegistered, Zenon
      <4>2. kpc[k] \notin {"await", "cvwait"}
        BY <3>3 DEF Owed, Waiting
      <4>. QED  BY <4>1, <4>2, Zenon DEF IInv, TypeOK, ClientPCs
    <3>. QED  BY <3>1, <3>4, Zenon
  <2>. QED  BY <2>1, Zenon DEF NothingLost, FinishedIsQuiet, CInv
<1>. QED  BY <1>1, CountsHold, PTL
=============================================================================
