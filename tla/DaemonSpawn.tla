----------------------------- MODULE DaemonSpawn -----------------------------
(***************************************************************************)
(* How proxies find or start the one shared daemon of a config directory   *)
(* (internal/daemon/daemon.go, spawnlock_unix.go, token.go,                *)
(* cmd/mini/daemon.go, daemon_socket.go, daemon_http.go, main.go).         *)
(*                                                                         *)
(* A daemon process binds a Unix socket; the socket file on the path is a  *)
(* name that can outlive its listener (after SIGKILL), be unlinked by its  *)
(* owner's clean exit, or be removed by another process that takes it for  *)
(* stale.  Each system call is one action.                                 *)
(***************************************************************************)

CONSTANTS
    Proxies,   \* processes that call ensureDaemonRunning
    Daemons,   \* bound: daemon processes that may ever be started
    None

ASSUME SpawnAssumption == None \notin Proxies \cup Daemons

VARIABLES
    pc,        \* per daemon process
    path,      \* the socket file: None, or the daemon whose bind made it
    tokenFile, \* daemon.token: None, or the daemon that minted it
    token,     \* per daemon: the token it checks requests against
    lock,      \* holder of the spawn lock
    proxy,     \* per proxy: what ensureDaemonRunning is about to do
    child,     \* per proxy: the daemon it spawned
    has,       \* per proxy: the token it read last
    astray     \* history: a daemon was started without the lock, or has outlasted the wait for it

daemonVars == <<pc, path, tokenFile, token>>
proxyVars == <<lock, proxy, child, has>>
vars == <<daemonVars, proxyVars, astray>>

Starting == {"check", "listen", "probe", "remove", "relisten", "bound", "minting", "minted"}
DaemonPc == {"off"} \cup Starting \cup {"serving", "unlinked", "gone"}
ProxyPc == {"idle", "probe", "lock", "check", "spawn", "wait", "read", "ready"}

TypeOK ==
    /\ pc \in [Daemons -> DaemonPc]
    /\ path \in Daemons \cup {None}
    /\ tokenFile \in Daemons \cup {None}
    /\ token \in [Daemons -> Daemons \cup {None}]
    /\ lock \in Proxies \cup {None}
    /\ proxy \in [Proxies -> ProxyPc]
    /\ child \in [Proxies -> Daemons \cup {None}]
    /\ has \in [Proxies -> Daemons \cup {None}]
    /\ astray \in BOOLEAN

Init ==
    /\ pc = [d \in Daemons |-> "off"] /\ path = None
    /\ tokenFile = None /\ token = [d \in Daemons |-> None]
    /\ lock = None
    /\ proxy = [p \in Proxies |-> "idle"]
    /\ child = [p \in Proxies |-> None] /\ has = [p \in Proxies |-> None]
    /\ astray = FALSE

-----------------------------------------------------------------------------
(* The kernel's view of the path *)

\* SocketHealthy: a daemon that serves answers within the 2 seconds; one that
\* has bound and does not serve yet may not.
Healthy == path # None /\ pc[path] = "serving"

-----------------------------------------------------------------------------
(* A daemon process: runDaemon *)

Move(d, to) == pc' = [pc EXCEPT ![d] = to]

\* "mini daemon", without the spawn lock.
RunByHand(d) ==
    /\ pc[d] = "off"
    /\ Move(d, "check")
    /\ astray' = TRUE
    /\ UNCHANGED <<path, tokenFile, token, proxyVars>>

\* ensureDaemonNotRunning.
CheckNotRunning(d) ==
    /\ pc[d] = "check"
    /\ Move(d, IF Healthy THEN "gone" ELSE "listen")
    /\ UNCHANGED <<path, tokenFile, token, proxyVars, astray>>

\* The first net.Listen of listenDaemonSocket fails on any file at the path.
Listen(d) ==
    /\ pc[d] = "listen"
    /\ IF path = None
       THEN Move(d, "bound") /\ path' = d
       ELSE Move(d, "probe") /\ path' = path
    /\ UNCHANGED <<tokenFile, token, proxyVars, astray>>

Probe(d) ==
    /\ pc[d] = "probe"
    /\ Move(d, IF Healthy THEN "gone" ELSE "remove")
    /\ UNCHANGED <<path, tokenFile, token, proxyVars, astray>>

RemoveStale(d) ==
    /\ pc[d] = "remove"
    /\ Move(d, "relisten")
    /\ path' = None
    /\ UNCHANGED <<tokenFile, token, proxyVars, astray>>

ListenAgain(d) ==
    /\ pc[d] = "relisten"
    /\ IF path = None
       THEN Move(d, "bound") /\ path' = d
       ELSE Move(d, "gone") /\ path' = path
    /\ UNCHANGED <<tokenFile, token, proxyVars, astray>>

\* EnsureToken: a daemon reuses the token on disk ...
ReadPrivateToken(d) ==
    /\ pc[d] = "bound"
    /\ Move(d, IF tokenFile = None THEN "minting" ELSE "minted")
    /\ token' = [token EXCEPT ![d] = tokenFile]
    /\ UNCHANGED <<path, tokenFile, proxyVars, astray>>

\* ... and mints one where it found none.
WriteToken(d) ==
    /\ pc[d] = "minting"
    /\ Move(d, "minted")
    /\ tokenFile' = d
    /\ token' = [token EXCEPT ![d] = d]
    /\ UNCHANGED <<path, proxyVars, astray>>

\* buildAndStart and Serve.
Serve(d) ==
    /\ pc[d] = "minted"
    /\ Move(d, "serving")
    /\ UNCHANGED <<path, tokenFile, token, proxyVars, astray>>

\* A clean exit (a signal, or an error after the bind) closes the listener, which
\* unlinks the path, whatever file is there, and then closes the descriptor.
CloseUnlinks(d) ==
    /\ pc[d] \in {"bound", "minting", "minted", "serving"}
    /\ Move(d, "unlinked")
    /\ path' = None
    /\ UNCHANGED <<tokenFile, token, proxyVars, astray>>

\* Fault: the path is unlinked once the descriptor is closed.
CloseEnds_Unlinks(d) ==
    /\ pc[d] = "unlinked"
    /\ Move(d, "gone")
    /\ path' = None
    /\ UNCHANGED <<tokenFile, token, proxyVars, astray>>

CloseEnds(d) ==
    /\ pc[d] = "unlinked"
    /\ Move(d, "gone")
    /\ UNCHANGED <<path, tokenFile, token, proxyVars, astray>>

\* SIGKILL, a panic, or an error before the bind: the socket file stays.
Dies(d) ==
    /\ pc[d] \notin {"off", "gone"}
    /\ Move(d, "gone")
    /\ UNCHANGED <<path, tokenFile, token, proxyVars, astray>>

-----------------------------------------------------------------------------
(* A proxy: daemonReresolver *)

Go(p, to) == proxy' = [proxy EXCEPT ![p] = to]

\* A new proxy, or one whose forwarding failed.
Resolve(p) ==
    /\ proxy[p] \in {"idle", "ready"}
    /\ Go(p, "probe")
    /\ UNCHANGED <<astray, daemonVars, lock, child, has>>

\* ensureDaemonRunning looks before it calls Start.
ProbeFirst(p) ==
    /\ proxy[p] = "probe"
    /\ Go(p, IF Healthy THEN "read" ELSE "lock")
    /\ UNCHANGED <<astray, daemonVars, lock, child, has>>

\* acquireSpawnLock.
Acquire(p) ==
    /\ proxy[p] = "lock" /\ lock = None
    /\ lock' = p
    /\ Go(p, "check")
    /\ UNCHANGED <<astray, daemonVars, child, has>>

\* The lock is released when Start returns.
Release(p) == lock' = IF lock = p THEN None ELSE lock

\* The lock file cannot be opened or locked: Start returns the error.
AcquireFails(p) ==
    /\ proxy[p] = "lock"
    /\ Go(p, "idle")
    /\ UNCHANGED <<astray, daemonVars, lock, child, has>>

\* Fault: Start does not look again once it has the lock.
CheckAgain_Skipped(p) ==
    /\ proxy[p] = "check"
    /\ Go(p, "spawn") /\ lock' = lock
    /\ UNCHANGED <<astray, daemonVars, child, has>>

CheckAgain(p) ==
    /\ proxy[p] = "check"
    /\ IF Healthy THEN Go(p, "read") /\ Release(p) ELSE Go(p, "spawn") /\ lock' = lock
    /\ UNCHANGED <<astray, daemonVars, child, has>>

SpawnDaemon(p, d) ==
    /\ proxy[p] = "spawn" /\ pc[d] = "off"
    /\ Go(p, "wait")
    /\ Move(d, "check")
    /\ child' = [child EXCEPT ![p] = d]
    /\ UNCHANGED <<astray, path, tokenFile, token, lock, has>>

SpawnFails(p) ==
    /\ proxy[p] = "spawn"
    /\ Go(p, "idle") /\ Release(p)
    /\ UNCHANGED <<astray, daemonVars, child, has>>

\* waitForDaemon polls until a daemon answers ...
WaitEnds(p) ==
    /\ proxy[p] = "wait" /\ Healthy
    /\ Go(p, "read") /\ Release(p)
    /\ UNCHANGED <<astray, daemonVars, child, has>>

\* Fault: the wait has no deadline.
WaitGivesUp_Never(p) == FALSE /\ UNCHANGED vars

\* ... or its deadline passes.
WaitGivesUp(p) ==
    /\ proxy[p] = "wait"
    /\ Go(p, "idle") /\ Release(p)
    /\ astray' = (astray \/ pc[child[p]] \in Starting)
    /\ UNCHANGED <<daemonVars, child, has>>

\* ReadToken, which fails without a token file.
ReadToken(p) ==
    /\ proxy[p] = "read"
    /\ Go(p, IF tokenFile = None THEN "idle" ELSE "ready")
    /\ has' = [has EXCEPT ![p] = tokenFile]
    /\ UNCHANGED <<astray, daemonVars, lock, child>>

-----------------------------------------------------------------------------
DaemonStep(d) ==
    \/ CheckNotRunning(d) \/ Listen(d) \/ Probe(d) \/ RemoveStale(d) \/ ListenAgain(d)
    \/ ReadPrivateToken(d) \/ WriteToken(d) \/ Serve(d) \/ CloseEnds(d)

ProxyStep(p) ==
    \/ ProbeFirst(p) \/ CheckAgain(p)
    \/ \E d \in Daemons : SpawnDaemon(p, d)
    \/ SpawnFails(p) \/ WaitEnds(p) \/ WaitGivesUp(p) \/ ReadToken(p)

Next ==
    \/ \E d \in Daemons : RunByHand(d) \/ DaemonStep(d) \/ CloseUnlinks(d) \/ Dies(d)
    \/ \E p \in Proxies : Resolve(p) \/ Acquire(p) \/ AcquireFails(p) \/ ProxyStep(p)

Spec == Init /\ [][Next]_vars

\* Processes are scheduled, a probe ends after 2 seconds and a wait after 3.
\* The kernel gives a lock that is freed again and again to every waiter in
\* turn.  Nobody promises that a daemon lives.
Fairness ==
    /\ \A d \in Daemons : WF_vars(DaemonStep(d))
    /\ \A p \in Proxies : WF_vars(ProxyStep(p)) /\ SF_vars(Acquire(p))

FairSpec == Spec /\ Fairness

-----------------------------------------------------------------------------
(* Properties *)

Live == {d \in Daemons : pc[d] \in Starting \cup {"serving"}}

\* The spawn lock is held by the proxy between acquireSpawnLock and the return of
\* Start, on every way out of it, and by nobody else.
LockDiscipline == \A p \in Proxies : lock = p <=> proxy[p] \in {"check", "spawn", "wait"}

\* The spawn lock turns a crowd of proxies into one daemon: no second daemon is
\* started while one is starting or serving, as long as every daemon is spawned
\* under the lock and serves or is gone when the wait for it ends.
NoHerd == ~astray => \A d, e \in Live : d = e

\* A serving daemon can be reached: the file on the path is its own, not one
\* another process bound after removing it, and nobody has unlinked it; again as
\* long as no daemon was started beside the lock or outlasted its wait.
ServingIsReachable == ~astray => \A d \in Daemons : pc[d] = "serving" => path = d

\* Daemons come and go, the token stays: a proxy that has resolved the daemon is
\* not refused by the one that serves now, though it may be a later one.  Two
\* daemons beside each other may both mint one.
TokenOutlivesDaemon ==
    ~astray => \A p \in Proxies, d \in Daemons :
        proxy[p] = "ready" /\ pc[d] = "serving" => has[p] = token[d]

\* ensureDaemonRunning returns to its proxy, whatever daemons do: nobody holds
\* the lock for ever.
ResolveReturns == \A p \in Proxies : proxy[p] = "probe" ~> proxy[p] \in {"idle", "ready"}
=============================================================================
