--------------------------- MODULE ProxyForwarding ---------------------------
(***************************************************************************)
(* How a proxy forwards its agent's messages to the daemon and recovers    *)
(* when the daemon died, was restarted with another token or forgot the    *)
(* session (internal/proxy: proxy.go, session.go, link.go, outcome.go,     *)
(* recover.go; the daemon's gate is internal/server/routes.go).            *)
(*                                                                         *)
(* The reader loop forwards initialize and notifications/initialized       *)
(* itself, one after the other; every request is forwarded by a goroutine  *)
(* of its own.  The k-th death ends daemon k - 1; daemon k answers while   *)
(* up holds.  A daemon that died may have been killed, which loses what it *)
(* was doing, or may still answer what it had taken.                       *)
(***************************************************************************)
EXTENDS Naturals

CONSTANTS
    Requests,      \* the agent's requests
    Life,          \* the reader loop's own forward
    None,
    MaxAttempts,   \* maxRecoveryAttempts
    MaxDeaths,     \* bound: how often a daemon dies
    MaxEvictions,  \* bound: how often a daemon drops the session as idle
    MaxLife        \* bound: lifecycle messages forwarded

Forwards == Requests \cup {Life}

ASSUME ForwardingAssumption ==
    /\ Life \notin Requests /\ None \notin Forwards
    /\ MaxAttempts \in Nat \ {0}
    /\ MaxDeaths \in Nat /\ MaxEvictions \in Nat /\ MaxLife \in Nat

VARIABLES
    gen, tok,      \* daemonLink.state
    resolveErr,
    mu,            \* holder of the link's mutex during Resolve
    fw,            \* the forwards
    initialized, clientReady,  \* of the proxySession
    up, dtok,      \* the daemon is reachable; the token it checks
    sess, ready,   \* per daemon: its session for this proxy, and its clientReady
    executed,      \* per request: how often a daemon dispatched it
    deaths, evictions, failures, resolves, lives  \* what has happened so far

link == <<gen, tok, resolveErr, mu>>
flags == <<initialized, clientReady>>
daemon == <<up, dtok, sess, ready>>
counts == <<deaths, evictions, failures, resolves, lives>>
vars == <<link, fw, flags, daemon, executed, counts>>

Outcomes == {"none", "ok", "down", "unauthorized", "notInitialized", "other"}

\* gen and tok are the linkState in use, at the daemon that took the message, and
\* since the troubles before it began.
Forward == [pc: {"idle", "send", "gate", "exec", "judge", "recover", "resolve", "handshake",
                 "handshake2", "done"},
            kind: {"initialize", "initialized", "other"}, gen: Nat, tok: Nat, attempt: Nat,
            out: Outcomes, at: Nat, since: Nat]

TypeOK ==
    /\ gen \in Nat /\ tok \in Nat /\ resolveErr \in BOOLEAN /\ mu \in Forwards \cup {None}
    /\ fw \in [Forwards -> Forward]
    /\ initialized \in BOOLEAN /\ clientReady \in BOOLEAN
    /\ up \in BOOLEAN /\ dtok \in Nat
    /\ sess \in [0 .. MaxDeaths -> {"none", "new", "initialized"}]
    /\ ready \in [0 .. MaxDeaths -> BOOLEAN]
    /\ executed \in [Requests -> Nat]
    /\ deaths \in 0 .. MaxDeaths
    /\ evictions \in Nat /\ failures \in Nat /\ resolves \in Nat /\ lives \in Nat

Idle(kind) == [pc |-> "idle", kind |-> kind, gen |-> 0, tok |-> 0, attempt |-> 0, out |-> "none",
               at |-> 0, since |-> 0]

\* The proxy was started with a daemon's token; the agent has sent nothing.
Init ==
    /\ gen = 0 /\ tok = 0 /\ resolveErr = FALSE /\ mu = None
    /\ fw = [f \in Forwards |-> Idle("other")]
    /\ initialized = FALSE /\ clientReady = FALSE
    /\ up = TRUE /\ dtok = 0
    /\ sess = [d \in 0 .. MaxDeaths |-> "none"] /\ ready = [d \in 0 .. MaxDeaths |-> FALSE]
    /\ executed = [r \in Requests |-> 0]
    /\ deaths = 0 /\ evictions = 0 /\ failures = 0 /\ resolves = 0 /\ lives = 0

\* Daemons that died, sessions they dropped and Resolve calls that failed.
Troubles == deaths + evictions + failures

Become(f, new) == fw' = [fw EXCEPT ![f] = new]
Go(f, pc) == Become(f, [fw[f] EXCEPT !.pc = pc])
Judge(f, out) == Become(f, [fw[f] EXCEPT !.pc = "judge", !.out = out])

-----------------------------------------------------------------------------
(* The daemon *)

\* Killed, or asked to stop: from here on dialling fails.
Dies ==
    /\ up /\ deaths < MaxDeaths
    /\ up' = FALSE /\ deaths' = deaths + 1
    /\ UNCHANGED <<link, fw, flags, dtok, sess, ready, executed, evictions, failures, resolves, lives>>

\* The next daemon reuses the token file, or mints a token when it is lost.
Spawned ==
    /\ up' = TRUE
    /\ dtok' \in IF up THEN {dtok} ELSE {dtok, dtok + 1}

\* Another proxy respawned the daemon.
SpawnedElsewhere ==
    /\ ~up
    /\ Spawned
    /\ UNCHANGED <<link, fw, flags, sess, ready, executed, counts>>

\* evictIdle drops a session in which no call is active.
Evict ==
    /\ up /\ evictions < MaxEvictions
    /\ sess[deaths] # "none"
    /\ \A f \in Forwards : ~(fw[f].pc \in {"gate", "exec"} /\ fw[f].at = deaths)
    /\ sess' = [sess EXCEPT ![deaths] = "none"] /\ ready' = [ready EXCEPT ![deaths] = FALSE]
    /\ evictions' = evictions + 1
    /\ UNCHANGED <<link, fw, flags, up, dtok, executed, deaths, failures, resolves, lives>>

\* Session.acquire and routeRequest for the lifecycle messages; markClientReady
\* needs a session that is initialized.
TakesInitialize ==
    sess' = [sess EXCEPT ![deaths] = "initialized"] /\ ready' = ready
TakesInitialized ==
    /\ sess' = [sess EXCEPT ![deaths] = IF @ = "none" THEN "new" ELSE @]
    /\ ready' = [ready EXCEPT ![deaths] = @ \/ sess[deaths] = "initialized"]
TakesRequest ==
    sess' = [sess EXCEPT ![deaths] = IF @ = "none" THEN "new" ELSE @] /\ ready' = ready

Accepts(f) == up /\ fw[f].tok = dtok

\* waitInitialized lets a request of an initialized session pass at once.
Passes == sess[deaths] = "initialized"

-----------------------------------------------------------------------------
(* Reading the agent's messages *)

Begin(f, kind) ==
    Become(f, [Idle(kind) EXCEPT !.pc = "send", !.gen = gen, !.tok = tok, !.since = Troubles])

\* The handshake: initialize, then initialized.  An agent sends it once; for a
\* modern agent ensureModernReady repeats it until the client is ready.
StartLifecycle ==
    /\ fw[Life].pc \in {"idle", "done"}
    /\ lives < MaxLife
    /\ fw[Life].kind = "initialize" \/ ~clientReady
    /\ Begin(Life, IF fw[Life].kind = "initialize" THEN "initialized" ELSE "initialize")
    /\ lives' = lives + 1
    /\ UNCHANGED <<link, flags, daemon, executed, deaths, evictions, failures, resolves>>

StartForward(r) ==
    /\ fw[Life].pc = "done" /\ fw[Life].kind = "initialized"
    /\ fw[r].pc = "idle"
    /\ Begin(r, "other")
    /\ UNCHANGED <<link, flags, daemon, executed, counts>>

-----------------------------------------------------------------------------
(* classifyForward *)

\* Dial error or 401: the daemon has not taken the message.
SendRefused(f) ==
    /\ fw[f].pc = "send" /\ ~Accepts(f)
    /\ Judge(f, IF up THEN "unauthorized" ELSE "down")
    /\ UNCHANGED <<link, flags, daemon, executed, counts>>

SendLifecycle(f) ==
    /\ fw[f].pc = "send" /\ Accepts(f) /\ fw[f].kind # "other"
    /\ IF fw[f].kind = "initialize" THEN TakesInitialize ELSE TakesInitialized
    /\ Become(f, [fw[f] EXCEPT !.pc = "exec", !.at = deaths])
    /\ UNCHANGED <<link, flags, up, dtok, executed, counts>>

SendRequest(f) ==
    /\ fw[f].pc = "send" /\ Accepts(f) /\ fw[f].kind = "other"
    /\ TakesRequest
    /\ Become(f, [fw[f] EXCEPT !.pc = IF Passes THEN "exec" ELSE "gate", !.at = deaths])
    /\ executed' = [executed EXCEPT ![f] = IF Passes THEN @ + 1 ELSE @]
    /\ UNCHANGED <<link, flags, up, dtok, counts>>

\* awaitInitialization: the session is initialized while the request waits ...
GateOpens(f) ==
    /\ fw[f].pc = "gate" /\ sess[fw[f].at] = "initialized"
    /\ Go(f, "exec")
    /\ executed' = [executed EXCEPT ![f] = @ + 1]
    /\ UNCHANGED <<link, flags, daemon, counts>>

\* ... or the second is over.
GateTimesOut(f) ==
    /\ fw[f].pc = "gate"
    /\ Judge(f, "notInitialized")
    /\ UNCHANGED <<link, flags, daemon, executed, counts>>

Reply(f) ==
    /\ fw[f].pc = "exec"
    /\ Judge(f, "ok")
    /\ UNCHANGED <<link, flags, daemon, executed, counts>>

\* Fault: a connection lost after sending counts as one that was never made.
LostOutcome_Down == "down"

\* Not a dial error: the request may have run.
LostOutcome == "other"

\* The connection breaks with the daemon that took the message.
Lost(f) ==
    /\ fw[f].pc \in {"gate", "exec"} /\ fw[f].at # deaths
    /\ Judge(f, LostOutcome)
    /\ UNCHANGED <<link, flags, daemon, executed, counts>>

-----------------------------------------------------------------------------
(* recoverForwarding *)

\* forward returns; observeSuccessfulLifecycle looks at what succeeded.
Finish(f) ==
    /\ fw[f].pc = "judge" /\ fw[f].out \in {"ok", "other"}
    /\ Go(f, "done")
    /\ initialized' = (initialized \/ (fw[f].kind = "initialize" /\ fw[f].out = "ok"))
    /\ clientReady' = (clientReady \/ (fw[f].kind = "initialized" /\ fw[f].out = "ok" /\ initialized))
    /\ UNCHANGED <<link, daemon, executed, counts>>

\* The session was lost: same link, new handshake.
SessionLost(f) ==
    /\ fw[f].pc = "judge" /\ fw[f].out = "notInitialized"
    /\ Go(f, "handshake")
    /\ UNCHANGED <<link, flags, daemon, executed, counts>>

LinkLost(f) ==
    /\ fw[f].pc = "judge" /\ fw[f].out \in {"down", "unauthorized"}
    /\ Go(f, "recover")
    /\ UNCHANGED <<link, flags, daemon, executed, counts>>

\* The next attempt, or the last one has been made.
Attempted(rec) ==
    IF rec.attempt + 1 = MaxAttempts THEN [rec EXCEPT !.pc = "done"]
    ELSE [rec EXCEPT !.pc = "send", !.attempt = @ + 1]

\* A recovered link: a lifecycle initialize needs no handshake before it.
Recovered(f, g, t) ==
    LET rec == [fw[f] EXCEPT !.gen = g, !.tok = t]
    IN  IF rec.kind = "initialize" THEN Attempted(rec) ELSE [rec EXCEPT !.pc = "handshake"]

\* A concurrent caller has recovered the link.
RecoveredAlready(f) == gen # fw[f].gen

TakeRecovered(f) ==
    /\ fw[f].pc = "recover" /\ mu = None
    /\ RecoveredAlready(f)
    /\ Become(f, IF resolveErr THEN [fw[f] EXCEPT !.pc = "done"] ELSE Recovered(f, gen, tok))
    /\ UNCHANGED <<link, flags, daemon, executed, counts>>

ClearError == FALSE

\* The mutex is held across Resolve.
StartResolve(f) ==
    /\ fw[f].pc = "recover" /\ mu = None
    /\ ~RecoveredAlready(f)
    /\ mu' = f /\ resolveErr' = ClearError
    /\ Go(f, "resolve")
    /\ UNCHANGED <<gen, tok, flags, daemon, executed, counts>>

\* ensureDaemonRunning found or spawned a daemon and read its token.
ResolveSucceeds(f) ==
    /\ fw[f].pc = "resolve"
    /\ Spawned
    /\ gen' = gen + 1 /\ tok' = dtok' /\ mu' = None
    /\ Become(f, Recovered(f, gen', tok'))
    /\ resolves' = resolves + 1
    /\ UNCHANGED <<resolveErr, flags, sess, ready, executed, deaths, evictions, failures, lives>>

\* Fault: the error return keeps the mutex.
Unlock_Forgotten == mu' = mu
Unlock == mu' = None

\* The generation is raised so that callers of the failed one give up too.
ResolveFails(f) ==
    /\ fw[f].pc = "resolve"
    /\ gen' = gen + 1 /\ resolveErr' = TRUE /\ Unlock
    /\ Go(f, "done")
    /\ failures' = failures + 1
    /\ UNCHANGED <<tok, flags, daemon, executed, deaths, evictions, resolves, lives>>

HandshakeInitialize(f) ==
    /\ fw[f].pc = "handshake"
    /\ IF Accepts(f) THEN TakesInitialize ELSE UNCHANGED <<sess, ready>>
    /\ Go(f, "handshake2")
    /\ UNCHANGED <<link, flags, up, dtok, executed, counts>>

\* The replies are not looked at.  restoreLifecycle, then the backoff.
HandshakeInitialized(f) ==
    /\ fw[f].pc = "handshake2"
    /\ IF Accepts(f) THEN TakesInitialized ELSE UNCHANGED <<sess, ready>>
    /\ initialized' = TRUE
    /\ Become(f, Attempted(fw[f]))
    /\ UNCHANGED <<link, clientReady, up, dtok, executed, counts>>

-----------------------------------------------------------------------------
Step(f) ==
    \/ SendRefused(f) \/ SendLifecycle(f) \/ SendRequest(f)
    \/ GateOpens(f) \/ GateTimesOut(f) \/ Reply(f) \/ Lost(f)
    \/ Finish(f) \/ SessionLost(f) \/ LinkLost(f)
    \/ ResolveSucceeds(f) \/ ResolveFails(f)
    \/ HandshakeInitialize(f) \/ HandshakeInitialized(f)

Lock(f) == TakeRecovered(f) \/ StartResolve(f)

Next ==
    \/ Dies \/ SpawnedElsewhere \/ Evict
    \/ StartLifecycle
    \/ \E r \in Requests : StartForward(r)
    \/ \E f \in Forwards : Step(f) \/ Lock(f)

Spec == Init /\ [][Next]_vars

\* Goroutines are scheduled, the daemon answers what it takes within the tool's
\* timeout, Resolve returns (DaemonSpawn), and a mutex that is freed again and
\* again goes to every waiter.
Fairness == \A f \in Forwards : WF_vars(Step(f)) /\ SF_vars(Lock(f))

FairSpec == Spec /\ Fairness

-----------------------------------------------------------------------------
(* Properties *)

\* docs/daemon.md: "We retry only when we can prove the request never ran."  However
\* often daemons die, no request is dispatched twice, and one whose last answer
\* says the daemon was not reached, refused it or had no session was not
\* dispatched at all.
RunsAtMostOnce ==
    \A r \in Requests :
        /\ executed[r] <= 1
        /\ fw[r].pc = "done" /\ fw[r].out \notin {"ok", "other"} => executed[r] = 0

\* "N requests hitting a dead daemon trigger a single respawn": however many
\* forwards fail, before, during and after a Resolve, the link is not resolved more
\* often than daemons have died.
OneResolvePerDeath == resolves <= deaths

\* "Open chats recover on their next tool call": a request fails only when, after
\* it began, a daemon died, a Resolve failed or the session was dropped.
RecoversOnNextCall ==
    \A r \in Requests :
        fw[r].pc = "done" /\ fw[r].out # "ok" => Troubles > fw[r].since

\* Once the forwards have ended, a daemon that lets this proxy's requests pass also
\* sends it tool changes: no recovery leaves the handshake half done.
SettledSessionIsReady ==
    (\A f \in Forwards : fw[f].pc \in {"idle", "done"}) /\ up /\ clientReady
        /\ sess[deaths] = "initialized" => ready[deaths]

\* Every forward returns, so the agent gets an answer and the reader loop goes on,
\* whoever holds the link's mutex.
ForwardsReturn == \A f \in Forwards : fw[f].pc = "send" ~> fw[f].pc = "done"

\* Recovery is complete: forwards return, a request fails only for trouble of its own time, and
\* what recovered is a session that is told of tool changes.
RecoveryCompletes == []RecoversOnNextCall /\ []SettledSessionIsReady /\ ForwardsReturn
=============================================================================
