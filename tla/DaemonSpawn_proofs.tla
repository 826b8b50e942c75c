-------------------------- MODULE DaemonSpawn_proofs --------------------------
(***************************************************************************)
(* DaemonSpawn, proved for any number of proxies and daemon processes: the *)
(* lock is held inside Start only, and as long as every daemon was spawned *)
(* under it and served or was gone when the wait for it ended, there is    *)
(* one daemon, it can be reached, and its token is the one proxies hold.   *)
(*                                                                         *)
(* The argument: a daemon that is starting has a proxy waiting for it with  *)
(* the lock; a daemon that has bound is the one on the path.  So a proxy    *)
(* that holds the lock and finds nobody healthy on the path may conclude    *)
(* that no daemon is alive at all.                                          *)
(***************************************************************************)
EXTENDS DaemonSpawn, TLAPS

\* No two daemons are starting or serving.
OneLive == \A d, e \in Live : d = e

\* Whoever has bound the socket and is not leaving owns the path.
BoundOwnsPath ==
    \A d \in Daemons : pc[d] \in {"bound", "minting", "minted", "serving"} => path = d

\* A starting daemon is awaited by the proxy that spawned it, which has the lock.
StartingIsAwaited ==
    \A d \in Daemons : pc[d] \in Starting =>
        \E p \in Proxies : proxy[p] = "wait" /\ child[p] = d

\* Between looking and spawning there is no daemon.
SpawnIntoNothing == \A p \in Proxies : proxy[p] = "spawn" => Live = {}

\* A waiting proxy knows whom it waits for, and the daemons that serve, if any,
\* are that one.
WaitsForTheOne ==
    \A p \in Proxies : proxy[p] = "wait" =>
        /\ child[p] \in Daemons
        /\ \A d \in Live : d = child[p]

\* One token for all: on disk, in the daemons past minting, and with the proxies.
\* A daemon about to mint one has found none.
OneToken ==
    /\ \A d \in Daemons : pc[d] = "minting" => tokenFile = None
    /\ \A d \in Daemons : pc[d] \in {"minted", "serving"} =>
         tokenFile # None /\ token[d] = tokenFile
    /\ \A p \in Proxies : proxy[p] = "ready" => tokenFile # None /\ has[p] = tokenFile

\* While every daemon was spawned under the lock and none has outlasted its wait.
Orderly == /\ OneLive /\ BoundOwnsPath /\ StartingIsAwaited
           /\ SpawnIntoNothing /\ WaitsForTheOne /\ OneToken

IInv == TypeOK /\ LockDiscipline /\ (~astray => Orderly)

-----------------------------------------------------------------------------
(* Initially *)

\* The initial state, nothing started and nobody asking, satisfies the invariant.
LEMMA InitIInv == Init => IInv
BY SpawnAssumption DEF Init, IInv, TypeOK, LockDiscipline, Orderly, OneLive, Live, Starting,
      BoundOwnsPath, StartingIsAwaited, SpawnIntoNothing, WaitsForTheOne, OneToken,
      DaemonPc, ProxyPc

-----------------------------------------------------------------------------
(* Steps of a daemon *)

\* A daemon's steps leave the proxies and the lock alone.
LEMMA DaemonKeepsProxies ==
    ASSUME NEW d \in Daemons, RunByHand(d) \/ DaemonStep(d) \/ CloseUnlinks(d) \/ Dies(d)
    PROVE  UNCHANGED proxyVars /\ (~astray' => ~astray)
BY DEF RunByHand, DaemonStep, CloseUnlinks, Dies, CheckNotRunning, Listen, Probe, RemoveStale,
       ListenAgain, ReadPrivateToken, WriteToken, Serve, CloseEnds, proxyVars

\* With every spawn under the lock, a daemon's step makes no other daemon alive
\* and none that was off.
LEMMA DaemonMoves ==
    ASSUME TypeOK, NEW d \in Daemons,
           RunByHand(d) \/ DaemonStep(d) \/ CloseUnlinks(d) \/ Dies(d)
    PROVE  /\ pc' \in [Daemons -> DaemonPc]
           /\ \A e \in Daemons \ {d} : pc'[e] = pc[e]
           /\ astray' \in BOOLEAN
           /\ ~astray' => /\ pc'[d] \in Starting => pc[d] \in Starting
                          /\ pc'[d] \in Starting \cup {"serving"} => pc[d] \in Starting \cup {"serving"}
BY DEF RunByHand, DaemonStep, CloseUnlinks, Dies, CheckNotRunning, Listen, Probe, RemoveStale,
       ListenAgain, ReadPrivateToken, WriteToken, Serve, CloseEnds, Move, Starting, DaemonPc, TypeOK

\* A daemon's step keeps the order of locked spawning.
LEMMA DaemonOrderly ==
    ASSUME IInv, ~astray', NEW d \in Daemons,
           RunByHand(d) \/ DaemonStep(d) \/ CloseUnlinks(d) \/ Dies(d)
    PROVE  Orderly'
<1> USE DEF IInv
<1>1. UNCHANGED proxyVars /\ Orderly
  BY DaemonKeepsProxies
<1>2. /\ pc' \in [Daemons -> DaemonPc]
      /\ \A e \in Daemons \ {d} : pc'[e] = pc[e]
      /\ pc'[d] \in Starting => pc[d] \in Starting
      /\ pc'[d] \in Starting \cup {"serving"} => pc[d] \in Starting \cup {"serving"}
  BY DaemonMoves
<1>3. Live' \subseteq Live
  BY <1>2 DEF Live
<1>4. OneLive'
  BY <1>1, <1>3 DEF OneLive, Orderly
<1>5. BoundOwnsPath'
  <2> SUFFICES ASSUME NEW e \in Daemons, pc'[e] \in {"bound", "minting", "minted", "serving"}
               PROVE  path' = e
    BY DEF BoundOwnsPath
  <2>1. CASE e # d
    <3>1. pc[e] \in {"bound", "minting", "minted", "serving"} /\ path = e /\ e \in Live
      BY <2>1, <1>1, <1>2 DEF BoundOwnsPath, Live, Starting, Orderly
    <3>2. d \notin Live
      BY <3>1, <2>1, <1>1 DEF OneLive, Orderly
    <3>3. pc[d] \notin Starting \cup {"serving"}
      BY <3>2 DEF Live
    <3>4. path' = path
      BY <3>3 DEF RunByHand, DaemonStep, CloseUnlinks, Dies, CheckNotRunning, Listen, Probe,
           RemoveStale, ListenAgain, ReadPrivateToken, WriteToken, Serve, CloseEnds, Starting
    <3> QED BY <3>1, <3>4
  <2>2. CASE e = d
    BY <2>2, <1>1, SpawnAssumption
       DEF RunByHand, DaemonStep, CloseUnlinks, Dies, CheckNotRunning, Listen, Probe,
           RemoveStale, ListenAgain, ReadPrivateToken, WriteToken, Serve, CloseEnds, Move, TypeOK,
           DaemonPc, BoundOwnsPath, Starting, Orderly
  <2> QED BY <2>1, <2>2
<1>6. StartingIsAwaited'
  BY <1>1, <1>2 DEF StartingIsAwaited, proxyVars, Orderly
<1>7. SpawnIntoNothing'
  BY <1>1, <1>3 DEF SpawnIntoNothing, proxyVars, Orderly
<1>8. WaitsForTheOne'
  BY <1>1, <1>3 DEF WaitsForTheOne, proxyVars, Orderly
<1>9. OneToken'
  <2>1. /\ tokenFile # None => tokenFile' = tokenFile
        /\ \A e \in Daemons : e # d => token'[e] = token[e]
    BY <1>1 DEF RunByHand, DaemonStep, CloseUnlinks, Dies, CheckNotRunning, Listen, Probe,
           RemoveStale, ListenAgain, ReadPrivateToken, WriteToken, Serve, CloseEnds, TypeOK,
           Orderly, OneToken
  <2>2. /\ pc'[d] \in {"minted", "serving"} => tokenFile' # None /\ token'[d] = tokenFile'
        /\ pc'[d] = "minting" => tokenFile' = None
    BY <1>1, SpawnAssumption
       DEF RunByHand, DaemonStep, CloseUnlinks, Dies, CheckNotRunning, Listen, Probe,
           RemoveStale, ListenAgain, ReadPrivateToken, WriteToken, Serve, CloseEnds, Move,
           TypeOK, DaemonPc, Starting, Orderly, OneToken
  <2>3. ASSUME NEW e \in Daemons \ {d}, pc'[e] = "minting" PROVE tokenFile' = tokenFile
    <3>1. e \in Live /\ d \notin Live
      BY <2>3, <1>1, <1>2 DEF Live, Starting, OneLive, Orderly
    <3> QED BY <3>1
       DEF RunByHand, DaemonStep, CloseUnlinks, Dies, CheckNotRunning, Listen, Probe,
           RemoveStale, ListenAgain, ReadPrivateToken, WriteToken, Serve, CloseEnds,
           Live, Starting
  <2> QED BY <1>1, <1>2, <2>1, <2>2, <2>3 DEF OneToken, proxyVars, Orderly
<1> QED BY <1>4, <1>5, <1>6, <1>7, <1>8, <1>9 DEF Orderly

\* The invariant is kept by every step of a daemon process.
LEMMA DaemonIInv ==
    ASSUME IInv, NEW d \in Daemons,
           RunByHand(d) \/ DaemonStep(d) \/ CloseUnlinks(d) \/ Dies(d)
    PROVE  IInv'
<1>1. UNCHANGED proxyVars
  BY DaemonKeepsProxies
<1>2. pc' \in [Daemons -> DaemonPc] /\ astray' \in BOOLEAN
  BY DaemonMoves DEF IInv
<1>3. path' \in Daemons \cup {None} /\ tokenFile' \in Daemons \cup {None}
        /\ token' \in [Daemons -> Daemons \cup {None}]
  BY DEF RunByHand, DaemonStep, CloseUnlinks, Dies, CheckNotRunning, Listen, Probe,
           RemoveStale, ListenAgain, ReadPrivateToken, WriteToken, Serve, CloseEnds, TypeOK, IInv
<1>4. TypeOK'
  BY <1>1, <1>2, <1>3 DEF TypeOK, proxyVars, IInv
<1>5. LockDiscipline'
  BY <1>1 DEF LockDiscipline, proxyVars, IInv
<1>6. ~astray' => Orderly'
  BY DaemonOrderly
<1> QED BY <1>4, <1>5, <1>6 DEF IInv

-----------------------------------------------------------------------------
(* Steps of a proxy *)

\* The proxy that holds the lock is the only one between acquiring and releasing.
LEMMA OnlyHolder ==
    ASSUME TypeOK, LockDiscipline, NEW p \in Proxies, NEW q \in Proxies,
           proxy[p] \in {"check", "spawn", "wait"}, proxy[q] \in {"check", "spawn", "wait"}
    PROVE  p = q
BY DEF LockDiscipline

\* A proxy that has the lock and has spawned nothing finds no daemon starting; if
\* nobody on the path is healthy either, there is no daemon.
LEMMA UnhealthyMeansNone ==
    ASSUME IInv, ~astray, NEW p \in Proxies, proxy[p] = "check", ~Healthy
    PROVE  Live = {}
<1> SUFFICES ASSUME NEW d \in Live PROVE FALSE
  OBVIOUS
<1>1. d \in Daemons /\ pc[d] \in Starting \cup {"serving"}
  BY DEF Live
<1>2. CASE pc[d] \in Starting
  <2>1. PICK q \in Proxies : proxy[q] = "wait" /\ child[q] = d
    BY <1>1, <1>2 DEF IInv, Orderly, StartingIsAwaited
  <2>2. p = q
    BY <2>1, OnlyHolder DEF IInv
  <2> QED BY <2>1, <2>2
<1>3. CASE pc[d] = "serving"
  BY <1>1, <1>3, SpawnAssumption DEF IInv, Orderly, BoundOwnsPath, Healthy
<1> QED BY <1>1, <1>2, <1>3

\* When the wait is over, because a daemon answers or because its deadline
\* passed, no daemon is starting.
LEMMA WaitOverMeansStarted ==
    ASSUME IInv, ~astray', NEW p \in Proxies, WaitEnds(p) \/ WaitGivesUp(p),
           NEW d \in Daemons
    PROVE  pc[d] \notin Starting
<1> SUFFICES ASSUME pc[d] \in Starting PROVE FALSE
  OBVIOUS
<1>0. Orderly
  BY DEF WaitEnds, WaitGivesUp, IInv
<1>1. PICK q \in Proxies : proxy[q] = "wait" /\ child[q] = d
  BY <1>0 DEF Orderly, StartingIsAwaited
<1>2. proxy[p] = "wait"
  BY DEF WaitEnds, WaitGivesUp
<1>3. p = q
  BY <1>1, <1>2, OnlyHolder DEF IInv
<1>4. CASE WaitGivesUp(p)
  BY <1>1, <1>3, <1>4 DEF WaitGivesUp
<1>5. CASE WaitEnds(p)
  <2>1. path \in Daemons /\ pc[path] = "serving"
    BY <1>5 DEF WaitEnds, Healthy, IInv, TypeOK
  <2>2. path \in Live /\ d \in Live
    BY <2>1 DEF Live
  <2>3. path = d
    BY <2>2, <1>0 DEF Orderly, OneLive
  <2> QED BY <2>1, <2>3 DEF Starting
<1> QED BY <1>4, <1>5

\* What a proxy's step does to the proxies: its own program counter only, in
\* types.
LEMMA ProxyMoves ==
    ASSUME TypeOK, NEW p \in Proxies, Resolve(p) \/ Acquire(p) \/ AcquireFails(p) \/ ProxyStep(p)
    PROVE  /\ proxy' \in [Proxies -> ProxyPc]
           /\ \A q \in Proxies \ {p} : proxy'[q] = proxy[q] /\ child'[q] = child[q]
                                        /\ has'[q] = has[q]
           /\ lock' \in Proxies \cup {None}
           /\ child' \in [Proxies -> Daemons \cup {None}]
           /\ has' \in [Proxies -> Daemons \cup {None}]
           /\ pc' \in [Daemons -> DaemonPc]
           /\ UNCHANGED <<path, tokenFile, token>>
BY DEF Resolve, Acquire, AcquireFails, ProxyStep, ProbeFirst, CheckAgain, SpawnDaemon,
       SpawnFails, WaitEnds, WaitGivesUp, ReadToken, Go, Release, Move, daemonVars, TypeOK,
       ProxyPc, DaemonPc, Starting

\* Only a wait that gives up can leave a daemon behind, and what is astray stays so.
LEMMA ProxyAstray ==
    ASSUME TypeOK, NEW p \in Proxies, Resolve(p) \/ Acquire(p) \/ AcquireFails(p) \/ ProxyStep(p)
    PROVE  astray' \in BOOLEAN /\ (~astray' => ~astray)
<1>1. astray' = astray \/ astray' = (astray \/ pc[child[p]] \in Starting)
  BY Zenon DEF Resolve, Acquire, AcquireFails, ProxyStep, ProbeFirst, CheckAgain, SpawnDaemon,
               SpawnFails, WaitEnds, WaitGivesUp, ReadToken
<1> QED BY <1>1, Zenon DEF TypeOK

\* Each way through Start keeps the lock with whoever is inside it.
LEMMA ProxyLock ==
    ASSUME TypeOK, LockDiscipline, NEW p \in Proxies,
           Resolve(p) \/ Acquire(p) \/ AcquireFails(p) \/ ProxyStep(p)
    PROVE  LockDiscipline'
BY SpawnAssumption
   DEF Resolve, Acquire, AcquireFails, ProxyStep, ProbeFirst, CheckAgain, SpawnDaemon,
       SpawnFails, WaitEnds, WaitGivesUp, ReadToken, Go, Release, TypeOK, LockDiscipline

\* Every step of a proxy but the spawn leaves the daemons alone.
LEMMA OnlySpawnStarts ==
    ASSUME NEW p \in Proxies, Resolve(p) \/ Acquire(p) \/ AcquireFails(p) \/ ProxyStep(p),
           ~\E d \in Daemons : SpawnDaemon(p, d)
    PROVE  UNCHANGED daemonVars
BY DEF Resolve, Acquire, AcquireFails, ProxyStep, ProbeFirst, CheckAgain,
       SpawnFails, WaitEnds, WaitGivesUp, ReadToken, daemonVars

\* Spawning: there was no daemon, so the new one is the only one, and the proxy
\* that waits for it has the lock.
LEMMA SpawnOrderly ==
    ASSUME IInv, ~astray, NEW p \in Proxies, NEW d \in Daemons, SpawnDaemon(p, d)
    PROVE  Orderly'
<1> USE DEF IInv, Orderly
<1>1. ProxyStep(p)
  BY DEF ProxyStep
<1>2. proxy[p] = "spawn" /\ pc[d] = "off" /\ Live = {}
  BY DEF SpawnDaemon, SpawnIntoNothing
<1>3. /\ pc' = [pc EXCEPT ![d] = "check"]
      /\ proxy' = [proxy EXCEPT ![p] = "wait"]
      /\ child' = [child EXCEPT ![p] = d]
      /\ UNCHANGED <<path, tokenFile, token, has>>
  BY DEF SpawnDaemon, Move, Go
<1>6. \A e \in Live' : e = d
  BY <1>2, <1>3 DEF Live, TypeOK
<1>7. OneLive'
  BY <1>6 DEF OneLive
<1>8. BoundOwnsPath'
  BY <1>3 DEF BoundOwnsPath, TypeOK
<1>9. StartingIsAwaited'
  <2> SUFFICES ASSUME NEW e \in Daemons, pc'[e] \in Starting
               PROVE  \E q \in Proxies : proxy'[q] = "wait" /\ child'[q] = e
    BY DEF StartingIsAwaited
  <2>1. e = d
    BY <1>6 DEF Live
  <2> QED BY <2>1, <1>3 DEF TypeOK
<1>10. SpawnIntoNothing'
  <2> SUFFICES ASSUME NEW q \in Proxies, proxy'[q] = "spawn" PROVE FALSE
    BY DEF SpawnIntoNothing
  <2>1. q # p /\ proxy[q] = "spawn"
    BY <1>3 DEF TypeOK
  <2> QED BY <2>1, <1>2, OnlyHolder
<1>11. WaitsForTheOne'
  <2> SUFFICES ASSUME NEW q \in Proxies, proxy'[q] = "wait"
               PROVE  child'[q] = d
    BY <1>6 DEF WaitsForTheOne
  <2>1. q = p
    BY <1>2, <1>3, OnlyHolder DEF TypeOK
  <2> QED BY <2>1, <1>3 DEF TypeOK
<1>12. OneToken'
  BY <1>3 DEF OneToken, TypeOK
<1> QED BY <1>7, <1>8, <1>9, <1>10, <1>11, <1>12

\* A proxy's step keeps the order of locked spawning.
LEMMA ProxyOrderly ==
    ASSUME IInv, ~astray', NEW p \in Proxies,
           Resolve(p) \/ Acquire(p) \/ AcquireFails(p) \/ ProxyStep(p)
    PROVE  Orderly'
<1>0. ~astray /\ Orderly
  BY ProxyAstray DEF IInv
<1>1. CASE \E d \in Daemons : SpawnDaemon(p, d)
  BY <1>0, <1>1, SpawnOrderly
<1>2. CASE ~\E d \in Daemons : SpawnDaemon(p, d)
  <2> USE <1>0 DEF IInv, Orderly
  <2>1. UNCHANGED <<pc, path, tokenFile, token>> /\ Live' = Live
    BY <1>2, OnlySpawnStarts DEF daemonVars, Live
  <2>4. OneLive' /\ BoundOwnsPath'
    BY <2>1 DEF OneLive, BoundOwnsPath
  <2>5. \A q \in Proxies \ {p} : proxy'[q] = proxy[q] /\ child'[q] = child[q] /\ has'[q] = has[q]
    BY ProxyMoves
  <2>6. child' = child /\ proxy'[p] # "wait"
    BY <1>2 DEF Resolve, Acquire, AcquireFails, ProxyStep, ProbeFirst, CheckAgain,
           SpawnFails, WaitEnds, WaitGivesUp, ReadToken, Go, TypeOK
  <2>7. StartingIsAwaited'
    <3> SUFFICES ASSUME NEW d \in Daemons, pc[d] \in Starting
                 PROVE  \E q \in Proxies : proxy'[q] = "wait" /\ child'[q] = d
      BY <2>1 DEF StartingIsAwaited
    <3>1. PICK q \in Proxies : proxy[q] = "wait" /\ child[q] = d
      BY DEF StartingIsAwaited
    <3>2. ~WaitEnds(p) /\ ~WaitGivesUp(p)
      BY WaitOverMeansStarted
    <3>3. proxy[p] # "wait"
      BY <1>2, <3>2 DEF Resolve, Acquire, AcquireFails, ProxyStep, ProbeFirst, CheckAgain,
                        SpawnFails, ReadToken
    <3> QED BY <3>1, <3>3, <2>5
  <2>8. SpawnIntoNothing'
    <3> SUFFICES ASSUME NEW q \in Proxies, proxy'[q] = "spawn" PROVE Live = {}
      BY <2>1 DEF SpawnIntoNothing
    <3>1. CASE q # p
      BY <3>1, <2>5 DEF SpawnIntoNothing
    <3>2. CASE q = p
      <4>1. CheckAgain(p) /\ ~Healthy
        BY <1>2, <3>2 DEF Resolve, Acquire, AcquireFails, ProxyStep, ProbeFirst, CheckAgain,
                          SpawnFails, WaitEnds, WaitGivesUp, ReadToken, Go, TypeOK
      <4> QED BY <4>1, UnhealthyMeansNone DEF CheckAgain
    <3> QED BY <3>1, <3>2
  <2>9. WaitsForTheOne'
    BY <2>1, <2>5, <2>6 DEF WaitsForTheOne
  <2>10. OneToken'
    <3>1. proxy'[p] = "ready" => tokenFile # None /\ has'[p] = tokenFile
      BY <1>2 DEF Resolve, Acquire, AcquireFails, ProxyStep, ProbeFirst, CheckAgain,
                  SpawnFails, WaitEnds, WaitGivesUp, ReadToken, Go, TypeOK
    <3> QED BY <2>1, <2>5, <3>1 DEF OneToken
  <2> QED BY <2>4, <2>7, <2>8, <2>9, <2>10
<1> QED BY <1>1, <1>2

\* The invariant is kept by every step of a proxy.
LEMMA ProxyIInv ==
    ASSUME IInv, NEW p \in Proxies,
           Resolve(p) \/ Acquire(p) \/ AcquireFails(p) \/ ProxyStep(p)
    PROVE  IInv'
<1>1. TypeOK'
  BY ProxyMoves, ProxyAstray DEF TypeOK, IInv
<1>2. LockDiscipline'
  BY ProxyLock DEF IInv
<1>3. ~astray' => Orderly'
  BY ProxyOrderly
<1> QED BY <1>1, <1>2, <1>3 DEF IInv

-----------------------------------------------------------------------------
(* Theorems *)

\* The invariant holds in every reachable state.
THEOREM Invariance == Spec => []IInv
<1>1. IInv /\ [Next]_vars => IInv'
  <2> SUFFICES ASSUME IInv, [Next]_vars PROVE IInv'
    OBVIOUS
  <2>1. CASE UNCHANGED vars
    BY <2>1 DEF vars, daemonVars, proxyVars, IInv, TypeOK, LockDiscipline, Orderly, OneLive, Live,
                BoundOwnsPath, StartingIsAwaited, SpawnIntoNothing, WaitsForTheOne, OneToken
  <2>2. ASSUME NEW d \in Daemons, RunByHand(d) \/ DaemonStep(d) \/ CloseUnlinks(d) \/ Dies(d)
        PROVE  IInv'
    BY <2>2, DaemonIInv
  <2>3. ASSUME NEW p \in Proxies, Resolve(p) \/ Acquire(p) \/ AcquireFails(p) \/ ProxyStep(p)
        PROVE  IInv'
    BY <2>3, ProxyIInv
  <2> QED BY <2>1, <2>2, <2>3 DEF Next
<1> QED BY <1>1, InitIInv, PTL DEF Spec

\* Start's lock is held by exactly one proxy and only inside Start.
THEOREM LockIsDisciplined == Spec => []LockDiscipline
<1>1. IInv => LockDiscipline
  BY DEF IInv
<1> QED BY <1>1, Invariance, PTL

\* However many proxies call Start at once, no second daemon is started beside a
\* starting or serving one.
THEOREM LockedSpawnsMakeOneDaemon == Spec => []NoHerd
<1>1. IInv => NoHerd
  BY DEF IInv, Orderly, OneLive, NoHerd
<1> QED BY <1>1, Invariance, PTL

\* bindSocket's removal of a stale socket, and the unlink of a leaving daemon,
\* never take the path from a daemon that serves.
THEOREM ServingDaemonIsReachable == Spec => []ServingIsReachable
<1>1. IInv => ServingIsReachable
  BY DEF IInv, Orderly, BoundOwnsPath, ServingIsReachable
<1> QED BY <1>1, Invariance, PTL

\* A resolved proxy's token is the one the serving daemon checks, also after
\* daemons have died and been respawned.
THEOREM TokenSurvivesRespawn == Spec => []TokenOutlivesDaemon
<1>1. IInv => TokenOutlivesDaemon
  BY DEF IInv, Orderly, OneToken, TokenOutlivesDaemon
<1> QED BY <1>1, Invariance, PTL
=============================================================================
