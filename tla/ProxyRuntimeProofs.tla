------------------------- MODULE ProxyRuntimeProofs -------------------------
(***************************************************************************)
(* ProxyRuntime, for any numbers of threads, proxies and runtimes, and     *)
(* JNI_OnLoads that load each other in any way.                            *)
(***************************************************************************)
EXTENDS ProxyRuntime, Integers, TLAPS

\* A thread that has claimed the entry of its innermost frame and not yet
\* entered the library.
Claimed == {"starting", "wait_start"}

\* The frames whose entry the thread owns: all but an innermost one that is
\* still being looked up.
Held(t, i) == i \in 1..Len(frames[t]) /\ (i < Len(frames[t]) \/ proxy_pc[t] \in Running \cup Claimed)

Entered == \A t \in Threads : proxy_pc[t] \notin Running => frames[t] # <<>>

Owned ==
    \A t \in Threads : \A i \in 1..Len(frames[t]) : Held(t, i) =>
        /\ active = Home[frames[t][i]]
        /\ entry_state[frames[t][i]] = "Loading" /\ owner[frames[t][i]] = t

\* A proxy is loaded in one frame only, and whoever owns its entry is inside it.
OneFrame ==
    \A t \in Threads : \A i, j \in 1..Len(frames[t]) :
        Held(t, i) /\ Held(t, j) /\ frames[t][i] = frames[t][j] => i = j

OwnersInside ==
    \A p \in Proxies : entry_state[p] = "Loading" =>
        owner[p] \in Threads /\ \E i \in 1..Len(frames[owner[p]]) : Held(owner[p], i) /\ frames[owner[p]][i] = p

InStartedRuntime ==
    \A t \in Threads : \A i \in 1..Len(frames[t]) :
        i < Len(frames[t]) \/ proxy_pc[t] \in Running => start_state = "Started"

OneStart ==
    /\ starts <= 1
    /\ start_state = "NotStarted" => starts = 0
    /\ \A t \in Threads : proxy_pc[t] = "starting" => start_state = "Starting"
    /\ \A t, u \in Threads : proxy_pc[t] = "starting" /\ proxy_pc[u] = "starting" => t = u

OneLoad ==
    /\ \A p \in Proxies : loads[p] <= 1 /\ (entry_state[p] = "Unknown" => loads[p] = 0)
    /\ \A t \in Threads : proxy_pc[t] \in Claimed => loads[Top(t)] = 0

IInv == ProxyTypeOK /\ Entered /\ Owned /\ OneFrame /\ OwnersInside /\ InStartedRuntime /\ OneStart /\ OneLoad

-----------------------------------------------------------------------------
(***************************************************************************)
(* Sequences.                                                              *)
(***************************************************************************)
LEMMA EmptySeq ==
    ASSUME NEW S
    PROVE  /\ << >> \in Seq(S) /\ Len(<< >>) = 0
           /\ \A s \in Seq(S) : s # << >> => Len(s) \in Nat \ {0}
OBVIOUS

LEMMA LenProperties ==
    ASSUME NEW S, NEW s \in Seq(S)
    PROVE  Len(s) \in Nat /\ s \in [1..Len(s) -> S] /\ DOMAIN s = 1..Len(s)
OBVIOUS

LEMMA ElementOfSeq ==
    ASSUME NEW S, NEW s \in Seq(S), NEW n \in 1..Len(s)
    PROVE  s[n] \in S
OBVIOUS

LEMMA AppendProperties ==
    ASSUME NEW S, NEW s \in Seq(S), NEW e \in S
    PROVE  /\ Append(s, e) \in Seq(S) /\ Append(s, e) # << >>
           /\ Len(Append(s, e)) = Len(s) + 1
           /\ \A i \in 1..Len(s) : Append(s, e)[i] = s[i]
           /\ Append(s, e)[Len(s) + 1] = e
OBVIOUS

-----------------------------------------------------------------------------
\* What on_proxy_loaded's return does to the stacks.
LEMMA Popped ==
    ASSUME ProxyTypeOK, NEW t \in Threads, frames[t] # <<>>, NEW result \in Results, Return(t, result)
    PROVE  /\ frames' \in [Threads -> Seq(Proxies)]
           /\ Len(frames[t]) \in Nat \ {0} /\ Len(frames'[t]) = Len(frames[t]) - 1
           /\ \A i \in 1..(Len(frames[t]) - 1) : frames'[t][i] = frames[t][i]
           /\ \A u \in Threads \ {t} : frames'[u] = frames[u] /\ proxy_pc'[u] = proxy_pc[u]
           /\ proxy_pc'[t] = result
           /\ Top(t) \in Proxies
<1>. DEFINE s == frames[t]
<1>1. s \in Seq(Proxies) /\ Len(s) \in Nat \ {0}
  BY EmptySeq, LenProperties DEF ProxyTypeOK
<1>2. /\ SubSeq(s, 1, Len(s) - 1) \in Seq(Proxies)
      /\ Len(SubSeq(s, 1, Len(s) - 1)) = Len(s) - 1
      /\ \A i \in 1..(Len(s) - 1) : SubSeq(s, 1, Len(s) - 1)[i] = s[i]
  BY <1>1
<1>3. frames'[t] = SubSeq(s, 1, Len(s) - 1)
  BY DEF Return, ProxyTypeOK
<1>4. \A u \in Threads \ {t} : frames'[u] = frames[u] /\ proxy_pc'[u] = proxy_pc[u]
  BY DEF Return, ProxyTypeOK
<1>5. frames' \in [Threads -> Seq(Proxies)]
  BY <1>2 DEF Return, ProxyTypeOK
<1>6. proxy_pc'[t] = result /\ Top(t) \in Proxies
  BY <1>1 DEF Return, ProxyTypeOK, Top
<1>. QED  BY <1>1, <1>2, <1>3, <1>4, <1>5, <1>6

\* A thread leaves its innermost frame with the outcome of its proxy: of an entry
\* nobody had claimed, or of its own.
LEMMA SettleIInv ==
    ASSUME IInv, NEW t \in Threads, frames[t] # <<>>, NEW result \in Results, Return(t, result),
           NEW outcome \in {"Loaded", "Failed"}, entry_state' = [entry_state EXCEPT ![Top(t)] = outcome],
           entry_state[Top(t)] = "Unknown" \/ Held(t, Len(frames[t])),
           owner' \in [Proxies -> Threads \cup {Nobody}],
           \A p \in Proxies \ {Top(t)} : owner'[p] = owner[p],
           UNCHANGED start_state \/ (proxy_pc[t] = "starting" /\ start_state' = "Failed"),
           asleep' = {}, UNCHANGED <<config, history>>
    PROVE  IInv'
<1>. USE DEF IInv
<1>. DEFINE n == Len(frames[t])
<1>1. /\ frames' \in [Threads -> Seq(Proxies)]
      /\ n \in Nat \ {0} /\ Len(frames'[t]) = n - 1
      /\ \A i \in 1..(n - 1) : frames'[t][i] = frames[t][i]
      /\ \A u \in Threads \ {t} : frames'[u] = frames[u] /\ proxy_pc'[u] = proxy_pc[u]
      /\ proxy_pc'[t] = result /\ result \in Running \ {"run"}
      /\ Top(t) \in Proxies
  BY Popped DEF Running, Results
<1>2. Top(t) = frames[t][n]
  BY DEF Top
<1>3. \A u \in Threads : Len(frames[u]) \in Nat
  BY LenProperties DEF ProxyTypeOK
<1>4. ProxyTypeOK'
  <2>1. proxy_pc' \in [Threads -> {"lookup", "starting"} \cup ProxyWaiting \cup Running]
    BY DEF ProxyTypeOK, Return, Running
  <2>2. entry_state' \in [Proxies -> {"Unknown", "Loading", "Loaded", "Failed"}]
    BY <1>1 DEF ProxyTypeOK
  <2>. QED  BY <1>1, <2>1, <2>2 DEF ProxyTypeOK, config, history
<1>5. \A u \in Threads \ {t} : \A i \in 1..Len(frames[u]) : Held(u, i)' <=> Held(u, i)
  BY <1>1 DEF Held
<1>6. \A i \in 1..(n - 1) : Held(t, i) /\ Held(t, i)'
  BY <1>1 DEF Held
<1>. HIDE DEF n
<1>7. \A u \in Threads : \A i \in 1..Len(frames'[u]) : Held(u, i)' =>
          /\ i \in 1..Len(frames[u]) /\ Held(u, i) /\ frames'[u][i] = frames[u][i]
          /\ frames[u][i] # Top(t) /\ frames[u][i] \in Proxies
  <2>. SUFFICES ASSUME NEW u \in Threads, NEW i \in 1..Len(frames'[u]), Held(u, i)'
                PROVE  /\ i \in 1..Len(frames[u]) /\ Held(u, i) /\ frames'[u][i] = frames[u][i]
                       /\ frames[u][i] # Top(t) /\ frames[u][i] \in Proxies
    OBVIOUS
  <2>1. i \in 1..Len(frames[u]) /\ Held(u, i) /\ frames'[u][i] = frames[u][i]
    BY <1>1, <1>3, <1>5, <1>6, SMTT(40) DEF n
  <2>2. frames[u][i] \in Proxies
    BY <2>1, ElementOfSeq DEF ProxyTypeOK
  <2>3. entry_state[frames[u][i]] = "Loading" /\ owner[frames[u][i]] = u
    BY <2>1 DEF Owned
  <2>4. CASE entry_state[Top(t)] = "Unknown"
    BY <2>1, <2>2, <2>3, <2>4
  <2>5. CASE Held(t, n)
    <3>1. n \in 1..Len(frames[t]) /\ owner[Top(t)] = t
      BY <1>1, <1>2, <2>5 DEF Owned, n
    <3>2. CASE u = t
      <4>1. i # n
        BY <1>1, <3>2
      <4>. QED  BY <4>1, <3>1, <3>2, <2>1, <2>2, <2>5, <1>2 DEF OneFrame
    <3>. QED  BY <3>1, <3>2, <2>1, <2>2, <2>3
  <2>. QED  BY <2>4, <2>5 DEF n
<1>8. Owned'
  BY <1>7 DEF Owned, config
<1>9. OneFrame'
  BY <1>7 DEF OneFrame
<1>10. OwnersInside'
  <2>. SUFFICES ASSUME NEW p \in Proxies, entry_state'[p] = "Loading"
                PROVE  /\ owner'[p] \in Threads
                       /\ \E i \in 1..Len(frames'[owner'[p]]) :
                              Held(owner[p], i)' /\ frames'[owner'[p]][i] = p
    BY DEF OwnersInside
  <2>1. p # Top(t) /\ entry_state[p] = "Loading" /\ owner'[p] = owner[p]
    BY <1>1 DEF ProxyTypeOK
  <2>2. PICK u \in Threads : u = owner[p]
    BY <2>1 DEF OwnersInside
  <2>3. PICK i \in 1..Len(frames[u]) : Held(u, i) /\ frames[u][i] = p
    BY <2>1, <2>2 DEF OwnersInside
  <2>4. i \in 1..Len(frames'[u]) /\ Held(u, i)' /\ frames'[u][i] = p
    <3>1. CASE u = t
      <4>1. i \in 1..(n - 1) /\ i \in 1..Len(frames'[t])
        BY <1>1, <1>2, <2>1, <2>3, <3>1 DEF n
      <4>. QED  BY <1>1, <1>6, <4>1, <2>3, <3>1
    <3>2. CASE u # t
      BY <1>1, <1>5, <2>3, <3>2
    <3>. QED  BY <3>1, <3>2
  <2>. QED  BY <2>1, <2>2, <2>4
<1>11. InStartedRuntime'
  <2>1. start_state = "Started" => start_state' = "Started"
    BY DEF OneStart
  <2>. SUFFICES ASSUME NEW u \in Threads, NEW i \in 1..Len(frames'[u]),
                       i < Len(frames'[u]) \/ proxy_pc'[u] \in Running
                PROVE  start_state = "Started"
    BY <2>1 DEF InStartedRuntime
  <2>2. CASE u = t
    <3>1. i \in 1..Len(frames[t]) /\ i < Len(frames[t])
      BY <1>1, <2>2 DEF n
    <3>. QED  BY <3>1 DEF InStartedRuntime
  <2>3. CASE u # t
    BY <1>1, <2>3 DEF InStartedRuntime
  <2>. QED  BY <2>2, <2>3
<1>12. OneStart'
  BY <1>1, ZenonT(40) DEF OneStart, history, Running, Results
<1>13. OneLoad'
  <2>1. \A u \in Threads : proxy_pc'[u] \in Claimed => u # t /\ Top(u)' = Top(u)
    BY <1>1 DEF Claimed, Top, Running, Results
  <2>. QED  BY <1>1, <2>1 DEF OneLoad, history, ProxyTypeOK
<1>14. Entered'
  BY <1>1 DEF Entered
<1>. QED  BY <1>4, <1>8, <1>9, <1>10, <1>11, <1>12, <1>13, <1>14

\* A thread leaves a frame whose entry is not its own, or whose entry it owns in
\* a frame further out: nothing changes for anybody else.
LEMMA FindEntryIInv ==
    ASSUME IInv, NEW t \in Threads, FindEntry(t)
    PROVE  IInv'
<1>. USE DEF IInv
<1>. DEFINE n == Len(frames[t])
<1>0. proxy_pc[t] \in {"lookup", "wait_entry"} /\ frames[t] # <<>>
  BY DEF FindEntry, AtEntry, Entered, Running, Results
<1>1. PICK result \in Results : Return(t, result)
  BY DEF FindEntry, Results
<1>2. /\ frames' \in [Threads -> Seq(Proxies)]
      /\ n \in Nat \ {0} /\ Len(frames'[t]) = n - 1
      /\ \A i \in 1..(n - 1) : frames'[t][i] = frames[t][i]
      /\ \A u \in Threads \ {t} : frames'[u] = frames[u] /\ proxy_pc'[u] = proxy_pc[u]
      /\ proxy_pc'[t] = result /\ result \in Running \ {"run"}
  BY <1>0, <1>1, Popped, SMTT(40) DEF Running, Results
<1>3. \A u \in Threads : Len(frames[u]) \in Nat
  BY LenProperties DEF ProxyTypeOK
<1>4. UNCHANGED <<active, class_loader, start_state, entry_state, owner, asleep, starts, loads>>
  BY DEF FindEntry, config, history
<1>5. ProxyTypeOK'
  <2>1. proxy_pc' \in [Threads -> {"lookup", "starting"} \cup ProxyWaiting \cup Running]
    BY <1>1 DEF ProxyTypeOK, Return, Running
  <2>2. t \notin asleep
    BY DEF FindEntry, AtEntry, ProxyTypeOK, ProxyWaiting
  <2>3. asleep' \subseteq {u \in Threads : proxy_pc'[u] \in ProxyWaiting}
    BY <1>2, <1>4, <2>2, ZenonT(40) DEF ProxyTypeOK
  <2>. QED  BY <1>2, <1>4, <2>1, <2>3 DEF ProxyTypeOK
<1>6. \A u \in Threads, i \in Nat :
          Held(u, i) <=> (Held(u, i)' /\ i \in 1..Len(frames[u]) /\ i \in 1..Len(frames'[u]))
  <2>1. \A u \in Threads \ {t} : \A i \in Nat :
          Held(u, i) <=> (Held(u, i)' /\ i \in 1..Len(frames[u]) /\ i \in 1..Len(frames'[u]))
    BY <1>2 DEF Held
  <2>2. \A i \in Nat : Held(t, i) <=> i \in 1..(n - 1)
    BY <1>0, <1>2 DEF Held, Claimed, Running, Results
  <2>3. \A i \in Nat : Held(t, i)' <=> i \in 1..(n - 1)
    BY <1>2 DEF Held
  <2>4. \A i \in Nat :
          Held(t, i) <=> (Held(t, i)' /\ i \in 1..Len(frames[t]) /\ i \in 1..Len(frames'[t]))
    BY <1>2, <2>2, <2>3
  <2>. QED  BY <2>1, <2>4
<1>7. \A u \in Threads, i \in Nat : Held(u, i) => frames'[u][i] = frames[u][i]
  <2>1. \A i \in Nat : Held(t, i) => i \in 1..(n - 1)
    BY <1>0, <1>2 DEF Held, Claimed, Running, Results
  <2>. QED  BY <1>2, <2>1
<1>8. \A u \in Threads, i \in Nat : Held(u, i)' => Held(u, i)
  BY <1>2, <1>6 DEF Held
<1>9. Owned' /\ OneFrame'
  BY <1>4, <1>6, <1>7, <1>8 DEF Owned, OneFrame
<1>10. OwnersInside'
  <2>. SUFFICES ASSUME NEW p \in Proxies, entry_state'[p] = "Loading"
                PROVE  /\ owner'[p] \in Threads
                       /\ \E i \in 1..Len(frames'[owner'[p]]) :
                              Held(owner[p], i)' /\ frames'[owner'[p]][i] = p
    BY DEF OwnersInside
  <2>1. PICK u \in Threads : u = owner[p]
    BY <1>4 DEF OwnersInside
  <2>2. PICK i \in 1..Len(frames[u]) : Held(u, i) /\ frames[u][i] = p
    BY <1>4, <2>1 DEF OwnersInside
  <2>. QED  BY <1>3, <1>4, <1>6, <1>7, <2>1, <2>2
<1>11. InStartedRuntime'
  BY <1>2, <1>3, <1>4 DEF InStartedRuntime
<1>12. OneStart'
  BY <1>2, <1>4, ZenonT(40) DEF OneStart, Running, Results
<1>13. OneLoad'
  <2>1. \A u \in Threads : proxy_pc'[u] \in Claimed => u # t /\ Top(u)' = Top(u)
    BY <1>2 DEF Claimed, Top, Running, Results
  <2>. QED  BY <1>2, <1>4, <2>1 DEF OneLoad
<1>14. Entered'
  BY <1>2 DEF Entered
<1>. QED  BY <1>5, <1>9, <1>10, <1>11, <1>12, <1>13, <1>14

\* The entry of the innermost frame becomes the thread's, or stays it, on the
\* way into the library.
LEMMA HoldIInv ==
    ASSUME IInv, NEW t \in Threads, frames[t] # <<>>,
           entry_state[Top(t)] = "Unknown" \/ proxy_pc[t] \in Claimed,
           active = Home[Top(t)],
           entry_state' = [entry_state EXCEPT ![Top(t)] = "Loading"], owner' = [owner EXCEPT ![Top(t)] = t],
           NEW place \in {"wait_start", "starting", "run"}, proxy_pc' = [proxy_pc EXCEPT ![t] = place],
           asleep' \subseteq {u \in Threads : proxy_pc'[u] \in ProxyWaiting},
           \/ place = "wait_start" /\ UNCHANGED <<start_state, starts, loads>>
           \/ /\ place = "starting" /\ start_state = "NotStarted" /\ start_state' = "Starting"
              /\ starts' = starts + 1 /\ UNCHANGED loads
           \/ /\ place = "run" /\ (start_state = "Started" \/ proxy_pc[t] = "starting")
              /\ start_state' = "Started"
              /\ loads' = [loads EXCEPT ![Top(t)] = @ + 1] /\ UNCHANGED starts,
           UNCHANGED <<config, frames>>
    PROVE  IInv'
<1>. USE DEF IInv
<1>. DEFINE n == Len(frames[t])
<1>1. n \in Nat \ {0} /\ Top(t) \in Proxies /\ Top(t) = frames[t][n]
  <2>1. frames[t] \in Seq(Proxies) /\ n \in Nat \ {0}
    BY EmptySeq, LenProperties DEF ProxyTypeOK
  <2>. QED  BY <2>1 DEF Top
<1>2. \A u \in Threads : Len(frames[u]) \in Nat /\ \A i \in 1..Len(frames[u]) : frames[u][i] \in Proxies
  BY LenProperties, ElementOfSeq DEF ProxyTypeOK
<1>3. /\ \A u \in Threads \ {t} : proxy_pc'[u] = proxy_pc[u]
      /\ proxy_pc'[t] = place
      /\ \A p \in Proxies \ {Top(t)} : entry_state'[p] = entry_state[p] /\ owner'[p] = owner[p]
      /\ entry_state'[Top(t)] = "Loading" /\ owner'[Top(t)] = t
      /\ UNCHANGED <<active, class_loader, frames>>
  BY <1>1 DEF ProxyTypeOK, config
<1>4. ProxyTypeOK'
  <2>1. /\ proxy_pc' \in [Threads -> {"lookup", "starting"} \cup ProxyWaiting \cup Running]
        /\ entry_state' \in [Proxies -> {"Unknown", "Loading", "Loaded", "Failed"}]
        /\ owner' \in [Proxies -> Threads \cup {Nobody}]
    BY ZenonT(40) DEF ProxyTypeOK, ProxyWaiting, Running
  <2>2. /\ start_state' \in {"NotStarted", "Starting", "Started", "Failed"}
        /\ starts' \in Nat /\ loads' \in [Proxies -> Nat]
    BY DEF ProxyTypeOK
  <2>. QED  BY <1>3, <2>1, <2>2 DEF ProxyTypeOK
<1>5. proxy_pc[t] \in Claimed => Held(t, n)
  BY <1>1 DEF Held
<1>6. \A u \in Threads \ {t} : \A i \in 1..Len(frames[u]) : Held(u, i)' <=> Held(u, i)
  BY <1>3 DEF Held
<1>7. \A i \in 1..n : Held(t, i)' /\ (i # n => Held(t, i))
  BY <1>1, <1>3 DEF Held, Claimed, Running
<1>. HIDE DEF n
<1>8. \A u \in Threads : \A i \in 1..Len(frames[u]) :
          Held(u, i) /\ frames[u][i] = Top(t) => u = t /\ i = n
  <2>1. CASE entry_state[Top(t)] = "Unknown"
    BY <2>1 DEF Owned
  <2>2. CASE proxy_pc[t] \in Claimed
    BY <1>1, <1>5, <2>2, SMTT(40) DEF Owned, OneFrame, n
  <2>. QED  BY <2>1, <2>2
<1>9. Owned'
  BY <1>1, <1>2, <1>3, <1>6, <1>7, <1>8 DEF Owned, n
<1>10. OneFrame'
  BY <1>1, <1>2, <1>3, <1>6, <1>7, <1>8 DEF OneFrame, n
<1>11. OwnersInside'
  <2>. SUFFICES ASSUME NEW p \in Proxies, entry_state'[p] = "Loading"
                PROVE  /\ owner'[p] \in Threads
                       /\ \E i \in 1..Len(frames'[owner'[p]]) :
                              Held(owner[p], i)' /\ frames'[owner'[p]][i] = p
    BY DEF OwnersInside
  <2>1. CASE p = Top(t)
    BY <1>1, <1>3, <1>7, <2>1 DEF n
  <2>2. CASE p # Top(t)
    <3>1. PICK u \in Threads : u = owner[p]
      BY <1>3, <2>2 DEF OwnersInside
    <3>2. PICK i \in 1..Len(frames[u]) : Held(u, i) /\ frames[u][i] = p
      BY <1>3, <2>2, <3>1 DEF OwnersInside
    <3>3. Held(u, i)'
      BY <1>6, <1>7, <3>2 DEF n
    <3>. QED  BY <1>3, <2>2, <3>1, <3>2, <3>3
  <2>. QED  BY <2>1, <2>2
<1>12. InStartedRuntime'
  <2>. SUFFICES ASSUME NEW u \in Threads, NEW i \in 1..Len(frames[u]),
                       i < Len(frames[u]) \/ proxy_pc'[u] \in Running
                PROVE  start_state' = "Started"
    BY <1>3 DEF InStartedRuntime
  <2>1. CASE i < Len(frames[u]) \/ u # t
    BY <1>3, <2>1 DEF InStartedRuntime
  <2>2. CASE u = t /\ proxy_pc'[u] \in Running
    BY <1>3, <2>2 DEF Running, Results
  <2>. QED  BY <2>1, <2>2
<1>13. OneStart'
  BY <1>3 DEF OneStart, ProxyTypeOK
<1>14. OneLoad'
  <2>1. loads[Top(t)] = 0
    BY <1>1 DEF OneLoad
  <2>2. \A u \in Threads \ {t} : proxy_pc[u] \in Claimed => Top(u) # Top(t) /\ Top(u) \in Proxies
    <3>. SUFFICES ASSUME NEW u \in Threads \ {t}, proxy_pc[u] \in Claimed
                  PROVE  Top(u) # Top(t) /\ Top(u) \in Proxies
      OBVIOUS
    <3>1. frames[u] # <<>>
      BY DEF Entered, Claimed, Running, Results
    <3>2. Len(frames[u]) \in Nat \ {0}
      BY <3>1, EmptySeq, LenProperties DEF ProxyTypeOK
    <3>3. Len(frames[u]) \in 1..Len(frames[u]) /\ Held(u, Len(frames[u]))
      BY <3>2 DEF Held
    <3>. QED  BY <1>2, <1>8, <3>3 DEF Top
  <2>3. \A u \in Threads : Top(u)' = Top(u)
    BY <1>3 DEF Top
  <2>. QED  BY <1>1, <1>3, <2>1, <2>2, <2>3 DEF OneLoad, ProxyTypeOK, Claimed
<1>15. Entered'
  BY <1>3 DEF Entered, Running, Results
<1>. QED  BY <1>4, <1>9, <1>10, <1>11, <1>12, <1>13, <1>14, <1>15

\* Another frame is entered, its entry not yet the thread's.
LEMMA LoadProxyIInv ==
    ASSUME IInv, NEW t \in Threads, NEW p \in Proxies, LoadProxy(t, p)
    PROVE  IInv'
<1>. USE DEF IInv
<1>. DEFINE n == Len(frames[t])
<1>1. /\ n \in Nat /\ frames'[t] \in Seq(Proxies) /\ Len(frames'[t]) = n + 1
      /\ \A i \in 1..n : frames'[t][i] = frames[t][i]
  <2>1. frames[t] \in Seq(Proxies) /\ frames'[t] = Append(frames[t], p)
    BY DEF LoadProxy, ProxyTypeOK
  <2>. QED  BY <2>1, AppendProperties, LenProperties
<1>2. /\ \A u \in Threads \ {t} : frames'[u] = frames[u] /\ proxy_pc'[u] = proxy_pc[u]
      /\ proxy_pc[t] \in Running /\ proxy_pc'[t] = "lookup"
      /\ UNCHANGED <<active, class_loader, start_state, entry_state, owner, asleep, starts, loads>>
  BY DEF LoadProxy, ProxyTypeOK, config, history
<1>3. \A u \in Threads : Len(frames[u]) \in Nat
  BY LenProperties DEF ProxyTypeOK
<1>4. ProxyTypeOK'
  <2>1. frames' \in [Threads -> Seq(Proxies)]
    BY <1>1 DEF LoadProxy, ProxyTypeOK
  <2>2. proxy_pc' \in [Threads -> {"lookup", "starting"} \cup ProxyWaiting \cup Running]
    BY DEF LoadProxy, ProxyTypeOK
  <2>3. t \notin asleep
    BY <1>2 DEF ProxyTypeOK, ProxyWaiting, Running, Results
  <2>4. asleep' \subseteq {u \in Threads : proxy_pc'[u] \in ProxyWaiting}
    BY <1>2, <2>3, SMTT(40) DEF ProxyTypeOK
  <2>. QED  BY <1>2, <2>1, <2>2, <2>4 DEF ProxyTypeOK
<1>5. \A u \in Threads, i \in Nat : Held(u, i)' <=> Held(u, i)
  <2>1. \A i \in Nat : Held(t, i)' <=> i \in 1..n
    BY <1>1, <1>2 DEF Held, Claimed, Running, Results
  <2>2. \A i \in Nat : Held(t, i) <=> i \in 1..n
    BY <1>1, <1>2 DEF Held
  <2>3. \A u \in Threads \ {t}, i \in Nat : Held(u, i)' <=> Held(u, i)
    BY <1>2 DEF Held
  <2>. QED  BY <2>1, <2>2, <2>3
<1>6. \A u \in Threads, i \in Nat : Held(u, i) =>
          /\ i \in 1..Len(frames[u]) /\ i \in 1..Len(frames'[u])
          /\ frames'[u][i] = frames[u][i]
  BY <1>1, <1>2 DEF Held
<1>7. Owned' /\ OneFrame'
  BY <1>1, <1>2, <1>3, <1>5, <1>6, SMTT(40) DEF Owned, OneFrame
<1>8. OwnersInside'
  <2>. SUFFICES ASSUME NEW q \in Proxies, entry_state'[q] = "Loading"
                PROVE  /\ owner'[q] \in Threads
                       /\ \E i \in 1..Len(frames'[owner'[q]]) :
                              Held(owner[q], i)' /\ frames'[owner'[q]][i] = q
    BY DEF OwnersInside
  <2>1. PICK u \in Threads : u = owner[q]
    BY <1>2 DEF OwnersInside
  <2>2. PICK i \in 1..Len(frames[u]) : Held(u, i) /\ frames[u][i] = q
    BY <1>2, <2>1 DEF OwnersInside
  <2>. QED  BY <1>2, <1>3, <1>5, <1>6, <2>1, <2>2
<1>9. InStartedRuntime'
  <2>. SUFFICES ASSUME NEW u \in Threads, NEW i \in 1..Len(frames'[u]),
                       i < Len(frames'[u]) \/ proxy_pc'[u] \in Running
                PROVE  start_state = "Started"
    BY <1>2 DEF InStartedRuntime
  <2>1. CASE u = t
    <3>1. i \in 1..n
      BY <1>1, <1>2, <2>1 DEF Running, Results
    <3>. QED  BY <1>2, <3>1 DEF InStartedRuntime
  <2>2. CASE u # t
    BY <1>2, <2>2 DEF InStartedRuntime
  <2>. QED  BY <2>1, <2>2
<1>10. OneStart' /\ Entered'
  <2>1. frames'[t] # <<>>
    BY <1>1, EmptySeq
  <2>. QED  BY <1>2, <2>1 DEF OneStart, Entered
<1>11. OneLoad'
  <2>1. \A u \in Threads : proxy_pc'[u] \in Claimed => u # t /\ Top(u)' = Top(u)
    BY <1>2 DEF Claimed, Top
  <2>. QED  BY <1>2, <2>1 DEF OneLoad
<1>. QED  BY <1>4, <1>7, <1>8, <1>9, <1>10, <1>11

\* Steps that leave the stacks and the entries alone.
LEMMA QuietIInv ==
    ASSUME IInv, UNCHANGED <<start_state, entry_state, owner, frames, history>>, ProxyTypeOK',
           active \in {Nobody, active'},
           \A t \in Threads :
               \/ proxy_pc'[t] = proxy_pc[t]
               \/ proxy_pc[t] \in {"lookup", "wait_entry"} /\ proxy_pc'[t] = "wait_entry"
    PROVE  IInv'
<1>. USE DEF IInv
<1>1. \A t \in Threads :
          /\ proxy_pc'[t] \in Running <=> proxy_pc[t] \in Running
          /\ proxy_pc'[t] \in Claimed <=> proxy_pc[t] \in Claimed
          /\ proxy_pc'[t] = "starting" <=> proxy_pc[t] = "starting"
  BY DEF Running, Results, Claimed
<1>2. \A t \in Threads : \A i : Held(t, i)' <=> Held(t, i)
  BY <1>1 DEF Held
<1>3. \A t \in Threads : \A i \in 1..Len(frames[t]) :
          frames[t][i] \in Proxies /\ Home[frames[t][i]] # Nobody
  BY ProxyAssumption, ElementOfSeq DEF ProxyTypeOK
<1>4. Owned' /\ OneFrame'
  BY <1>2, <1>3 DEF Owned, OneFrame
<1>5. OwnersInside'
  <2>. SUFFICES ASSUME NEW q \in Proxies, entry_state'[q] = "Loading"
                PROVE  /\ owner'[q] \in Threads
                       /\ \E i \in 1..Len(frames'[owner'[q]]) :
                              Held(owner[q], i)' /\ frames'[owner'[q]][i] = q
    BY DEF OwnersInside
  <2>1. PICK u \in Threads : u = owner[q]
    BY DEF OwnersInside
  <2>. QED  BY <1>2, <2>1 DEF OwnersInside
<1>6. InStartedRuntime' /\ Entered' /\ OneStart'
  BY <1>1 DEF InStartedRuntime, Entered, OneStart, history
<1>7. OneLoad'
  BY <1>1 DEF OneLoad, history, Top
<1>. QED  BY <1>4, <1>5, <1>6, <1>7

LEMMA AwaitEntryIInv ==
    ASSUME IInv, NEW t \in Threads, AwaitEntry(t)
    PROVE  IInv'
<1>1. ProxyTypeOK'
  BY DEF IInv, ProxyTypeOK, AwaitEntry, Sleep, ProxyWaiting, config, history
<1>. QED  BY <1>1, QuietIInv DEF IInv, ProxyTypeOK, AwaitEntry, AtEntry, Sleep, config

LEMMA ActivateIInv ==
    ASSUME IInv, ActivateRuntime
    PROVE  IInv'
<1>1. ProxyTypeOK'
  BY ProxyAssumption, SMTT(40) DEF IInv, ProxyTypeOK, ActivateRuntime, Activate, history
<1>. QED  BY <1>1, QuietIInv DEF ActivateRuntime, Activate

\* Where a thread is when it settles or claims the entry of its innermost frame.
LEMMA Places ==
    ASSUME IInv, NEW t \in Threads
    PROVE  /\ AtEntry(t) \/ proxy_pc[t] \in Claimed => frames[t] # <<>>
           /\ frames[t] # <<>> => Top(t) \in Proxies
           /\ frames[t] # <<>> /\ proxy_pc[t] \in Running \cup Claimed =>
                  /\ Held(t, Len(frames[t]))
                  /\ active = Home[Top(t)] /\ entry_state[Top(t)] = "Loading" /\ owner[Top(t)] = t
<1>. USE DEF IInv
<1>1. AtEntry(t) \/ proxy_pc[t] \in Claimed => frames[t] # <<>>
  BY DEF AtEntry, Claimed, Entered, Running, Results
<1>2. frames[t] \in Seq(Proxies) /\ (frames[t] # <<>> => Len(frames[t]) \in 1..Len(frames[t]))
  BY EmptySeq, LenProperties DEF ProxyTypeOK
<1>3. frames[t] # <<>> => Top(t) \in Proxies
  BY <1>2, ElementOfSeq DEF Top
<1>4. frames[t] # <<>> /\ proxy_pc[t] \in Running \cup Claimed => Held(t, Len(frames[t]))
  BY <1>2 DEF Held
<1>. QED  BY <1>1, <1>2, <1>3, <1>4, ZenonT(40) DEF Owned, Top

LEMMA RefuseProxyIInv ==
    ASSUME IInv, NEW t \in Threads, RefuseProxy(t)
    PROVE  IInv'
<1>1. frames[t] # <<>>
  BY Places DEF RefuseProxy
<1>2. owner' \in [Proxies -> Threads \cup {Nobody}]
  BY DEF RefuseProxy, IInv, ProxyTypeOK
<1>. QED  BY <1>1, <1>2, SettleIInv, ZenonT(40) DEF RefuseProxy, fail_locked, NotifyAll, Results

LEMMA ClaimIInv ==
    ASSUME IInv, NEW t \in Threads, Claim(t)
    PROVE  IInv'
<1>1. frames[t] # <<>> /\ Top(t) \in Proxies
  BY Places DEF Claim
<1>2. /\ owner' \in [Proxies -> Threads \cup {Nobody}]
      /\ \A p \in Proxies \ {Top(t)} : owner'[p] = owner[p]
  BY <1>1 DEF Claim, IInv, ProxyTypeOK
<1>3. CASE fail_locked(t) /\ UNCHANGED <<start_state, history>>
  BY <1>1, <1>2, <1>3, SettleIInv, ZenonT(40) DEF Claim, fail_locked, NotifyAll, Results
<1>4. CASE entry_state' = [entry_state EXCEPT ![Top(t)] = "Loading"] /\ AwaitStart(t)
  <2>1. asleep' \subseteq {u \in Threads : proxy_pc'[u] \in ProxyWaiting}
    BY <1>4 DEF AwaitStart, Sleep, IInv, ProxyTypeOK, ProxyWaiting
  <2>. QED  BY <1>1, <1>4, <2>1, HoldIInv, ZenonT(40) DEF Claim, AwaitStart, Sleep, history
<1>5. CASE entry_state' = [entry_state EXCEPT ![Top(t)] = "Loading"] /\ BeginStart(t)
  <2>1. t \notin asleep
    BY SMTT(40) DEF Claim, AtEntry, IInv, ProxyTypeOK, ProxyWaiting
  <2>2. asleep' \subseteq {u \in Threads : proxy_pc'[u] \in ProxyWaiting}
    BY <1>5, <2>1 DEF BeginStart, IInv, ProxyTypeOK
  <2>. QED  BY <1>1, <1>5, <2>2, HoldIInv, ZenonT(40) DEF Claim, BeginStart
<1>6. CASE entry_state' = [entry_state EXCEPT ![Top(t)] = "Loading"] /\ BeginLoad(t)
  <2>1. t \notin asleep
    BY SMTT(40) DEF Claim, AtEntry, IInv, ProxyTypeOK, ProxyWaiting
  <2>2. asleep' \subseteq {u \in Threads : proxy_pc'[u] \in ProxyWaiting}
    BY <1>6, <2>1 DEF BeginLoad, EnterLoad, IInv, ProxyTypeOK
  <2>. QED  BY <1>1, <1>6, <2>2, HoldIInv, ZenonT(40) DEF Claim, BeginLoad, EnterLoad
<1>. QED  BY <1>3, <1>4, <1>5, <1>6 DEF Claim

\* The entry of a thread that waits for the start is its own already.
LEMMA StillOwned ==
    ASSUME IInv, NEW t \in Threads, proxy_pc[t] \in Claimed, UNCHANGED <<entry_state, owner>>
    PROVE  /\ frames[t] # <<>> /\ active = Home[Top(t)]
           /\ entry_state' = [entry_state EXCEPT ![Top(t)] = "Loading"]
           /\ owner' = [owner EXCEPT ![Top(t)] = t]
<1>1. /\ frames[t] # <<>> /\ active = Home[Top(t)] /\ Top(t) \in Proxies
      /\ entry_state[Top(t)] = "Loading" /\ owner[Top(t)] = t
  BY Places
<1>. QED  BY <1>1 DEF IInv, ProxyTypeOK

LEMMA WakeStartedIInv ==
    ASSUME IInv, NEW t \in Threads, WakeStarted(t)
    PROVE  IInv'
<1>1. proxy_pc[t] \in Claimed /\ t \notin asleep
  BY DEF WakeStarted, Claimed
<1>2. CASE fail_locked(t) /\ UNCHANGED <<start_state, history>>
  <2>1. frames[t] # <<>> /\ Held(t, Len(frames[t]))
    BY <1>1, Places
  <2>2. owner' \in [Proxies -> Threads \cup {Nobody}] /\ UNCHANGED <<owner, config>>
    BY DEF WakeStarted, IInv, ProxyTypeOK
  <2>. QED  BY <1>2, <2>1, <2>2, SettleIInv, ZenonT(40) DEF fail_locked, NotifyAll, Results
<1>3. CASE AwaitStart(t) /\ UNCHANGED entry_state
  <2>1. asleep' \subseteq {u \in Threads : proxy_pc'[u] \in ProxyWaiting}
    BY <1>3 DEF AwaitStart, Sleep, IInv, ProxyTypeOK, ProxyWaiting
  <2>. QED  BY <1>1, <1>3, <2>1, StillOwned, HoldIInv, ZenonT(40) DEF WakeStarted, AwaitStart, Sleep, history
<1>4. CASE BeginLoad(t) /\ UNCHANGED entry_state
  <2>1. asleep' \subseteq {u \in Threads : proxy_pc'[u] \in ProxyWaiting}
    BY <1>1, <1>4 DEF BeginLoad, EnterLoad, IInv, ProxyTypeOK
  <2>. QED  BY <1>1, <1>4, <2>1, StillOwned, HoldIInv, ZenonT(40) DEF WakeStarted, BeginLoad, EnterLoad
<1>. QED  BY <1>2, <1>3, <1>4 DEF WakeStarted

LEMMA StartReturnsIInv ==
    ASSUME IInv, NEW t \in Threads, NEW ok \in BOOLEAN, StartReturns(t, ok)
    PROVE  IInv'
<1>1. proxy_pc[t] = "starting" /\ proxy_pc[t] \in Claimed
  BY DEF StartReturns, Claimed
<1>2. CASE ok
  <2>1. EnterLoad(t) /\ asleep' = {} /\ start_state' = "Started" /\ UNCHANGED <<entry_state, owner, config>>
    BY <1>2 DEF StartReturns, NotifyAll
  <2>. QED  BY <1>1, <2>1, StillOwned, HoldIInv, ZenonT(40) DEF EnterLoad
<1>3. CASE ~ok
  <2>1. fail_locked(t) /\ start_state' = "Failed" /\ UNCHANGED <<owner, config, history>>
    BY <1>3, SMTT(40) DEF StartReturns
  <2>2. frames[t] # <<>> /\ Held(t, Len(frames[t]))
    BY <1>1, Places
  <2>3. owner' \in [Proxies -> Threads \cup {Nobody}]
    BY <2>1, SMTT(40) DEF IInv, ProxyTypeOK
  <2>. QED  BY <1>1, <2>1, <2>2, <2>3, SettleIInv, ZenonT(40) DEF fail_locked, NotifyAll, Results
<1>. QED  BY <1>2, <1>3

LEMMA LoadReturnsIInv ==
    ASSUME IInv, NEW t \in Threads, NEW ok \in BOOLEAN, LoadReturns(t, ok)
    PROVE  IInv'
<1>1. frames[t] # <<>> /\ Held(t, Len(frames[t]))
  BY Places DEF LoadReturns, Inside
<1>2. owner' \in [Proxies -> Threads \cup {Nobody}]
  BY SMTT(40) DEF LoadReturns, IInv, ProxyTypeOK
<1>3. CASE ok
  BY <1>1, <1>2, <1>3, SettleIInv DEF LoadReturns, NotifyAll, Results
<1>4. CASE ~ok
  BY <1>1, <1>2, <1>4, SettleIInv DEF LoadReturns, fail_locked, NotifyAll, Results
<1>. QED  BY <1>3, <1>4

LEMMA InitIInv == ProxyInit => IInv
<1>. SUFFICES ASSUME ProxyInit PROVE IInv
  OBVIOUS
<1>1. /\ frames \in [Threads -> Seq(Proxies)]
      /\ \A t \in Threads : frames[t] = <<>> /\ Len(frames[t]) = 0 /\ proxy_pc[t] = "run"
  BY EmptySeq DEF ProxyInit
<1>2. ProxyTypeOK
  BY <1>1 DEF ProxyInit, ProxyTypeOK, Running
<1>3. Entered /\ Owned /\ OneFrame /\ InStartedRuntime
  BY <1>1 DEF Entered, Owned, OneFrame, InStartedRuntime, Running
<1>4. OwnersInside /\ OneStart /\ OneLoad
  BY <1>1 DEF ProxyInit, OwnersInside, OneStart, OneLoad, Claimed
<1>. QED  BY <1>2, <1>3, <1>4 DEF IInv

LEMMA NextIInv == IInv /\ [ProxyNext]_proxyVars => IInv'
<1>. SUFFICES ASSUME IInv, [ProxyNext]_proxyVars PROVE IInv'
  OBVIOUS
<1>1. CASE ActivateRuntime
  BY <1>1, ActivateIInv
<1>2. CASE \E t \in Threads : Step(t)
  BY <1>2, FindEntryIInv, AwaitEntryIInv, ClaimIInv, RefuseProxyIInv, WakeStartedIInv,
     StartReturnsIInv, LoadReturnsIInv DEF Step
<1>3. CASE \E t \in Threads : \E p \in Proxies : LoadProxy(t, p)
  BY <1>3, LoadProxyIInv
<1>4. CASE UNCHANGED proxyVars
  <2>1. ProxyTypeOK'
    BY <1>4 DEF IInv, ProxyTypeOK, proxyVars, config, history
  <2>. QED  BY <1>4, <2>1, QuietIInv DEF proxyVars, config, history
<1>. QED  BY <1>1, <1>2, <1>3, <1>4 DEF ProxyNext

LEMMA SpecIInv == ProxySpec => []IInv
  BY InitIInv, NextIInv, PTL DEF ProxySpec

-----------------------------------------------------------------------------
(***************************************************************************)
(* The stacks of calls, the entries and the activation of the process are  *)
(* what proxy_runtime.cpp declares, for any set of threads and proxies.    *)
(***************************************************************************)
THEOREM ProxyTypeCorrect == ProxySpec => []ProxyTypeOK
<1>1. IInv => ProxyTypeOK
  BY DEF IInv
<1>. QED  BY <1>1, SpecIInv, PTL

(***************************************************************************)
(* engine_.start runs at most once in the process and engine_.load at most *)
(* once for a library, however many threads race in onProxyLoaded.         *)
(***************************************************************************)
THEOREM StartedAndLoadedOnce == ProxySpec => []AtMostOnce
<1>1. IInv => AtMostOnce
  BY DEF IInv, OneStart, OneLoad, AtMostOnce
<1>. QED  BY <1>1, SpecIInv, PTL

(***************************************************************************)
(* A library's code runs only in a started runtime of the active plugin,   *)
(* in the thread that owns the entry.                                      *)
(***************************************************************************)
THEOREM LoadsOnlyInRuntime == ProxySpec => []LoadsInRuntime
<1>1. IInv => LoadsInRuntime
  <2>. SUFFICES ASSUME IInv, NEW t \in Threads, NEW i \in 1..Len(frames[t]),
                       i < Len(frames[t]) \/ proxy_pc[t] \in Running
                PROVE  /\ start_state = "Started" /\ active = Home[frames[t][i]]
                       /\ entry_state[frames[t][i]] = "Loading" /\ owner[frames[t][i]] = t
    <3>1. \A t \in Threads : IInv => DOMAIN frames[t] = 1..Len(frames[t])
      BY LenProperties DEF IInv, ProxyTypeOK
    <3>. QED  BY <3>1 DEF LoadsInRuntime
  <2>1. Held(t, i)
    BY DEF Held
  <2>. QED  BY <2>1 DEF IInv, Owned, InStartedRuntime
<1>. QED  BY <1>1, SpecIInv, PTL

-----------------------------------------------------------------------------
Final ==
    \A p \in Proxies :
        /\ entry_state[p] \in {"Loaded", "Failed"} => entry_state'[p] = entry_state[p]
        /\ entry_state[p] = "Loading" => entry_state'[p] # "Unknown"

Agree ==
    \A t \in Threads :
        Len(frames'[t]) < Len(frames[t]) =>
            /\ proxy_pc'[t] = "ok" => entry_state'[Top(t)] = "Loaded"
            /\ proxy_pc'[t] = "failed" => entry_state'[Top(t)] = "Failed"
            /\ proxy_pc'[t] = "recursive" => \E i \in DOMAIN frames'[t] : frames'[t][i] = Top(t)

\* The answers of the thread that settles the entry.
LEMMA SettleAgrees ==
    ASSUME IInv, NEW t \in Threads, frames[t] # <<>>,
           NEW outcome \in {"Loaded", "Failed"}, entry_state' = [entry_state EXCEPT ![Top(t)] = outcome],
           Return(t, IF outcome = "Loaded" THEN "ok" ELSE "failed"),
           entry_state[Top(t)] \in {"Unknown", "Loading"}
    PROVE  Final /\ Agree
<1>1. Top(t) \in Proxies
  BY Places
<1>2. \A u \in Threads \ {t} : frames'[u] = frames[u] /\ Len(frames[u]) \in Nat
  BY LenProperties DEF Return, IInv, ProxyTypeOK
<1>3. proxy_pc'[t] = IF outcome = "Loaded" THEN "ok" ELSE "failed"
  BY DEF Return, IInv, ProxyTypeOK
<1>4. Final
  BY <1>1 DEF Final, IInv, ProxyTypeOK
<1>5. entry_state'[Top(t)] = outcome
  BY <1>1 DEF IInv, ProxyTypeOK
<1>6. \A u \in Threads \ {t} : ~(Len(frames'[u]) < Len(frames[u]))
  BY <1>2
<1>. QED  BY <1>3, <1>4, <1>5, <1>6 DEF Agree

\* The answers to a call that finds the outcome, or its own load, in the entry.
LEMMA FindEntryAgrees ==
    ASSUME IInv, NEW t \in Threads, FindEntry(t)
    PROVE  Final /\ Agree
<1>. DEFINE n == Len(frames[t])
<1>1. frames[t] # <<>> /\ Top(t) \in Proxies
  BY Places DEF FindEntry
<1>2. PICK result \in Results :
          /\ Return(t, result)
          /\ \/ result = "ok" /\ entry_state[Top(t)] = "Loaded"
             \/ result = "failed" /\ entry_state[Top(t)] = "Failed"
             \/ result = "recursive" /\ entry_state[Top(t)] = "Loading" /\ owner[Top(t)] = t
  BY SMTT(40) DEF FindEntry, Results
<1>3. /\ frames' \in [Threads -> Seq(Proxies)]
      /\ n \in Nat \ {0} /\ Len(frames'[t]) = n - 1
      /\ \A i \in 1..(n - 1) : frames'[t][i] = frames[t][i]
      /\ \A u \in Threads \ {t} : frames'[u] = frames[u]
      /\ proxy_pc'[t] = result
  BY <1>1, <1>2, Popped DEF IInv
<1>4. entry_state' = entry_state
  BY DEF FindEntry
<1>5. result = "recursive" => \E i \in DOMAIN frames'[t] : frames'[t][i] = Top(t)
  <2>. SUFFICES ASSUME result = "recursive"
                PROVE  \E i \in DOMAIN frames'[t] : frames'[t][i] = Top(t)
    OBVIOUS
  <2>1. PICK i \in 1..n : Held(t, i) /\ frames[t][i] = Top(t)
    BY <1>1, <1>2 DEF IInv, OwnersInside
  <2>2. i \in 1..(n - 1)
    BY <1>3, <2>1 DEF Held, FindEntry, AtEntry, Claimed, Running, Results
  <2>3. DOMAIN frames'[t] = 1..(n - 1)
    BY <1>3, LenProperties
  <2>. QED  BY <1>3, <2>1, <2>2, <2>3
<1>6. \A u \in Threads \ {t} : Len(frames'[u]) = Len(frames[u]) /\ Len(frames[u]) \in Nat
  BY <1>3, LenProperties DEF IInv, ProxyTypeOK
<1>. QED  BY <1>2, <1>3, <1>4, <1>5, <1>6, SMTT(40) DEF Final, Agree

\* All other steps return from no call.
LEMMA OthersAgree ==
    ASSUME IInv,
           \/ UNCHANGED frames
           \/ \E t \in Threads, p \in Proxies : frames' = [frames EXCEPT ![t] = Append(@, p)],
           \/ UNCHANGED entry_state
           \/ \E t \in Threads : /\ entry_state[Top(t)] = "Unknown"
                                 /\ entry_state' = [entry_state EXCEPT ![Top(t)] = "Loading"]
    PROVE  Final /\ Agree
<1>1. Final
  BY DEF Final, IInv, ProxyTypeOK
<1>2. \A t \in Threads : Len(frames'[t]) \in Nat /\ Len(frames[t]) \in Nat /\ Len(frames'[t]) >= Len(frames[t])
  <2>. SUFFICES ASSUME NEW t \in Threads
                PROVE  Len(frames'[t]) \in Nat /\ Len(frames[t]) \in Nat /\ Len(frames'[t]) >= Len(frames[t])
    OBVIOUS
  <2>1. frames[t] \in Seq(Proxies) /\ Len(frames[t]) \in Nat
    BY LenProperties DEF IInv, ProxyTypeOK
  <2>2. frames'[t] = frames[t] \/ \E p \in Proxies : frames'[t] = Append(frames[t], p)
    BY ZenonT(40) DEF IInv, ProxyTypeOK
  <2>. QED  BY <2>1, <2>2, AppendProperties
<1>. QED  BY <1>1, <1>2 DEF Agree

LEMMA NextAgrees == IInv /\ ProxyNext => Final /\ Agree
<1>. SUFFICES ASSUME IInv, ProxyNext PROVE Final /\ Agree
  OBVIOUS
<1>1. CASE ActivateRuntime
  BY <1>1, OthersAgree DEF ActivateRuntime
<1>2. ASSUME NEW t \in Threads, NEW p \in Proxies, LoadProxy(t, p) PROVE Final /\ Agree
  BY <1>2, OthersAgree, ZenonT(40) DEF LoadProxy
<1>3. ASSUME NEW t \in Threads, Step(t) PROVE Final /\ Agree
  <2>1. CASE FindEntry(t)
    BY <2>1, FindEntryAgrees
  <2>2. CASE AwaitEntry(t)
    BY <2>2, OthersAgree DEF AwaitEntry
  <2>3. CASE fail_locked(t) /\ frames[t] # <<>> /\ entry_state[Top(t)] \in {"Unknown", "Loading"}
    BY <2>3, SettleAgrees, ZenonT(40) DEF fail_locked
  <2>4. CASE RefuseProxy(t)
    BY <2>3, <2>4, Places DEF RefuseProxy
  <2>5. CASE Claim(t)
    <3>1. entry_state[Top(t)] = "Unknown" /\ frames[t] # <<>>
      BY <2>5, Places DEF Claim
    <3>2. fail_locked(t) \/ (entry_state' = [entry_state EXCEPT ![Top(t)] = "Loading"] /\ UNCHANGED frames)
      BY <2>5 DEF Claim, AwaitStart, BeginStart, BeginLoad, EnterLoad
    <3>. QED  BY <2>3, <3>1, <3>2, OthersAgree, SMTT(40)
  <2>6. CASE WakeStarted(t) \/ \E ok \in BOOLEAN : StartReturns(t, ok)
    <3>1. proxy_pc[t] \in Claimed
      BY <2>6 DEF WakeStarted, StartReturns, Claimed
    <3>2. frames[t] # <<>> /\ entry_state[Top(t)] = "Loading"
      BY <3>1, Places
    <3>3. fail_locked(t) \/ UNCHANGED <<entry_state, frames>>
      BY <2>6 DEF WakeStarted, StartReturns, AwaitStart, BeginLoad, EnterLoad
    <3>. QED  BY <2>3, <3>2, <3>3, OthersAgree
  <2>7. ASSUME NEW ok \in BOOLEAN, LoadReturns(t, ok) PROVE Final /\ Agree
    <3>1. frames[t] # <<>> /\ entry_state[Top(t)] = "Loading"
      BY <2>7, Places DEF LoadReturns, Inside
    <3>2. CASE ok
      BY <2>7, <3>1, <3>2, SettleAgrees DEF LoadReturns
    <3>3. CASE ~ok
      BY <2>7, <2>3, <3>1, <3>3 DEF LoadReturns
    <3>. QED  BY <3>2, <3>3
  <2>. QED  BY <1>3, <2>1, <2>2, <2>4, <2>5, <2>6, <2>7 DEF Step
<1>. QED  BY <1>1, <1>2, <1>3 DEF ProxyNext

(***************************************************************************)
(* "Outcomes are final": no interleaving of loads makes entries_ forget or *)
(* revise what became of a library.                                        *)
(***************************************************************************)
THEOREM OutcomesStayFinal == ProxySpec => OutcomesFinal
<1>1. IInv /\ [ProxyNext]_proxyVars => [Final]_proxyVars
  BY NextAgrees
<1>2. [][Final]_proxyVars => OutcomesFinal
  BY DEF OutcomesFinal, Final
<1>. QED  BY <1>1, <1>2, SpecIInv, PTL DEF ProxySpec

(***************************************************************************)
(* on_proxy_loaded returns the outcome the entry records, to the thread    *)
(* that loads and to those that waited, and reports recursion only to a    *)
(* thread inside that very load, even when JNI_OnLoads load each other in  *)
(* a circle.                                                               *)
(***************************************************************************)
THEOREM EveryoneIsToldTheOutcome == ProxySpec => AnswersAgree
<1>1. IInv /\ [ProxyNext]_proxyVars => [Agree]_proxyVars
  BY NextAgrees
<1>2. [][Agree]_proxyVars => AnswersAgree
  BY DEF AnswersAgree, Agree
<1>. QED  BY <1>1, <1>2, SpecIInv, PTL DEF ProxySpec
=============================================================================
