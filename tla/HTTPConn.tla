------------------------------- MODULE HTTPConn -------------------------------
(***************************************************************************)
(* A connection to an upstream over HTTP (internal/transport: http*.go):   *)
(* concurrent calls share one protocol era, one session, one credential    *)
(* and one notification listener, while the upstream expires sessions, is  *)
(* redeployed with other tools or another era, limits rates and rejects    *)
(* credentials.                                                            *)
(*                                                                         *)
(* setupMu is held across the probe and the handshake.  A caller that      *)
(* waits for it does not watch its context; a request in flight does.      *)
(***************************************************************************)
EXTENDS Naturals

CONSTANTS
    Callers,
    MaxRetries,  \* maxRetries
    MaxDeploys,  \* bound: how often the upstream is redeployed
    MaxFaults    \* bound: contexts that end, credentials that expire, streams that break and
                 \* requests that fail, in the network or by a status

NoOne == "noOne"

ASSUME HTTPAssumption ==
    /\ NoOne \notin Callers /\ MaxRetries \in Nat \ {0}
    /\ {MaxDeploys, MaxFaults} \subseteq Nat

VARIABLES
    conn,   \* HTTPConnection
    call,   \* the calls
    lst,    \* the sessionListener
    srv,    \* the upstream
    told,   \* the deploy whose tools mini has listed or been told to list
    faults  \* so far

vars == <<conn, call, lst, srv, told, faults>>

Working == {"probe", "probing", "initLock", "initializing", "notifying", "relisten", "tell",
            "headers", "send", "sent", "reply", "sleep", "refresh", "reset", "resetEra"}

PCs == Working \cup {"idle", "answered", "failed"}
Outcomes == {"none", "ok", "error", "limited", "denied", "expired", "refused", "mismatch", "lost"}

Calls == [pc: PCs, modern: BOOLEAN, sid: Nat, token: Nat,
          headers: Nat, tries: 0 .. MaxRetries, again: SUBSET {"auth", "session", "headers"},
          reply: Outcomes,
          why: SUBSET {"quit", "cut"}]
Conns == [mu: Callers \cup {NoOne}, eraKnown: BOOLEAN, modern: BOOLEAN, initialized: BOOLEAN,
          before: BOOLEAN, sid: Nat, token: 0 .. MaxFaults, headers: Nat, closed: {"no", "wait", "yes"}]
Upstreams == [era: {"modern", "legacy"}, sid: Nat, ready: BOOLEAN, deploys: 0 .. MaxDeploys,
              token: 0 .. MaxFaults, ran: [Callers -> Nat]]
Listeners == [pc: {"off", "run", "open", "stopped"}, modern: BOOLEAN, cancelled: BOOLEAN]

TypeOK ==
    /\ conn \in Conns /\ call \in [Callers -> Calls]
    /\ lst \in Listeners /\ srv \in Upstreams
    /\ told \in 0 .. MaxDeploys /\ faults \in 0 .. MaxFaults

NewCall == [pc |-> "idle", modern |-> FALSE, sid |-> 0, token |-> 0, headers |-> 0, tries |-> 0, again |-> {},
            reply |-> "none", why |-> {}]

\* Session ids and the tools are counted from 1; 0 is none.  A session belongs to the
\* deploy it was made in.
Init ==
    /\ conn = [mu |-> NoOne, eraKnown |-> FALSE, modern |-> FALSE, initialized |-> FALSE, before |-> FALSE,
               sid |-> 0, token |-> 0, headers |-> 0, closed |-> "no"]
    /\ call = [c \in Callers |-> NewCall]
    /\ lst = [pc |-> "off", modern |-> FALSE, cancelled |-> FALSE]
    /\ \E era \in {"modern", "legacy"} :
         srv = [era |-> era, sid |-> 0, ready |-> FALSE, deploys |-> 0, token |-> 0, ran |-> [c \in Callers |-> 0]]
    /\ told = 0 /\ faults = 0

At(c, pc) == call[c].pc = pc
Go(c, pc) == call' = [call EXCEPT ![c].pc = pc]
Return(c, how) == call' = [call EXCEPT ![c] = [NewCall EXCEPT !.pc = how, !.why = call[c].why]]
ReturnFor(c, cause) == call' = [call EXCEPT ![c] = [NewCall EXCEPT !.pc = "failed", !.why = {cause}]]
Unlocked == [conn EXCEPT !.mu = NoOne]
Fault == faults < MaxFaults /\ faults' = faults + 1

-----------------------------------------------------------------------------
(* ensureReady *)

Begin(c) ==
    /\ At(c, "idle") /\ conn.closed = "no"
    /\ Go(c, "probe")
    /\ UNCHANGED <<conn, lst, srv, told, faults>>

\* What the era makes of the call. One that recovers its session drops the version that
\* ensureReady returns and posts its legacy request again.
AfterProbe(c, modern) ==
    LET recovers == "session" \in call[c].again IN
    call' = [call EXCEPT ![c].pc = IF ~modern THEN "initLock" ELSE IF recovers THEN "send" ELSE "headers",
                         ![c].modern = modern /\ ~recovers]

\* probeOnce up to the request: the era is settled once.
ProbeOnce(c) ==
    /\ At(c, "probe") /\ conn.mu = NoOne
    /\ IF ~conn.eraKnown
       THEN conn' = [conn EXCEPT !.mu = c] /\ Go(c, "probing")
       ELSE AfterProbe(c, conn.modern) /\ UNCHANGED conn
    /\ UNCHANGED <<lst, srv, told, faults>>

\* startListener: one listener at a time, none once Close has begun.
StartListener(modern) ==
    IF lst.pc \in {"run", "open"} \/ conn.closed # "no" THEN lst
    ELSE [pc |-> "run", modern |-> modern, cancelled |-> FALSE]

\* The probe's answer: classifyDiscover and the end of probeOnce.
ProbeAnswered(c) ==
    LET modern == srv.era = "modern" IN
    /\ At(c, "probing")
    /\ conn' = [Unlocked EXCEPT !.eraKnown = TRUE, !.modern = @ \/ modern]
    /\ \E listen \in {FALSE, modern} : lst' = IF listen THEN StartListener(TRUE) ELSE lst
    /\ AfterProbe(c, modern)
    /\ UNCHANGED <<srv, told, faults>>

SetupFails_KeepsLock(c) ==
    /\ call[c].pc \in {"probing", "initializing", "notifying"}
    /\ Fault /\ ReturnFor(c, "cut")
    /\ UNCHANGED <<conn, lst, srv, told>>

\* A request of the set-up fails: its error is the call's.
SetupFails(c) ==
    /\ call[c].pc \in {"probing", "initializing", "notifying"}
    /\ Fault \/ (call[c].pc # "probing" /\ srv.era = "modern" /\ UNCHANGED faults)
    /\ conn' = Unlocked /\ ReturnFor(c, "cut")
    /\ UNCHANGED <<lst, srv, told>>

\* initializeOnce up to the handshake.
InitializeOnce(c) ==
    /\ At(c, "initLock") /\ conn.mu = NoOne
    /\ IF conn.initialized THEN Go(c, "send") /\ UNCHANGED conn
       ELSE conn' = [conn EXCEPT !.mu = c] /\ Go(c, "initializing")
    /\ UNCHANGED <<lst, srv, told, faults>>

\* sendInitialize: the upstream makes a session, whose id is stored at once.
SendInitialize(c) ==
    /\ At(c, "initializing") /\ srv.era = "legacy"
    /\ srv' = [srv EXCEPT !.sid = conn.sid + 1, !.ready = FALSE]
    /\ conn' = [conn EXCEPT !.sid = @ + 1]
    /\ Go(c, "notifying")
    /\ UNCHANGED <<lst, told, faults>>

\* sendInitializedNotification, and restartListener up to its wait for the old listener.
SendInitialized(c) ==
    /\ At(c, "notifying")
    /\ IF srv.era = "legacy" /\ srv.sid = conn.sid
       THEN /\ srv' = [srv EXCEPT !.ready = TRUE]
            /\ lst' = [lst EXCEPT !.cancelled = TRUE]
            /\ Go(c, "relisten") /\ UNCHANGED conn
       ELSE conn' = Unlocked /\ ReturnFor(c, "cut") /\ UNCHANGED <<srv, lst>>
    /\ UNCHANGED <<told, faults>>

\* The rest of restartListener and of initializeOnce.  Whoever dials lists the tools over
\* the first session, so that one needs no notice; nor does it get one when the upstream was
\* modern before, where nobody lists, which told does not tell apart.
Relisten(c) ==
    /\ At(c, "relisten") /\ lst.pc \in {"off", "stopped"}
    /\ \E listen \in BOOLEAN : lst' = IF listen THEN StartListener(FALSE) ELSE [lst EXCEPT !.pc = "off"]
    /\ conn' = [Unlocked EXCEPT !.initialized = TRUE, !.before = TRUE]
    /\ Go(c, IF conn.before THEN "tell" ELSE "send")
    /\ told' = IF conn.before THEN told ELSE srv.deploys
    /\ UNCHANGED <<srv, faults>>

Tell_Never(c) ==
    /\ At(c, "tell") /\ Go(c, "send")
    /\ UNCHANGED <<conn, lst, srv, told, faults>>

\* NotifyToolsChanged for a renewed session: no announcement covers a restart.
Tell(c) ==
    /\ At(c, "tell")
    /\ told' = srv.deploys
    /\ Go(c, "send")
    /\ UNCHANGED <<conn, lst, srv, faults>>

-----------------------------------------------------------------------------
(* callLegacy and callModern *)

\* ensureToolHeaders and the relisting after a mismatch: the headers of the tools as
\* they are now. The nested ListTools, with its own retries, is one step.
ListHeaders(c) ==
    /\ At(c, "headers")
    /\ IF conn.headers # 0 /\ call[c].reply # "mismatch" THEN Go(c, "send") /\ UNCHANGED <<conn, faults>>
       ELSE \/ /\ srv.era = "modern" /\ UNCHANGED faults
               /\ conn' = [conn EXCEPT !.headers = srv.deploys + 1]
               /\ call' = [call EXCEPT ![c].pc = "send", ![c].reply = "none"]
            \/ /\ srv.era = "modern" => Fault
               /\ srv.era = "legacy" => UNCHANGED faults
               /\ ReturnFor(c, "cut") /\ UNCHANGED conn
    /\ UNCHANGED <<lst, srv, told>>

\* doPost: the request carries the session, credential and headers of this moment; the
\* era is the one the call began with.
DoPost(c) ==
    /\ At(c, "send")
    /\ call' = [call EXCEPT ![c].pc = "sent", ![c].sid = IF call[c].modern THEN 0 ELSE conn.sid,
                            ![c].token = conn.token, ![c].headers = conn.headers]
    /\ UNCHANGED <<conn, lst, srv, told, faults>>

\* How the upstream answers the request.
Replies(c) ==
    LET m == call[c] IN
    IF m.token # srv.token THEN {"denied"}
    ELSE IF m.modern # (srv.era = "modern") THEN {"refused"}
    ELSE IF m.modern THEN IF m.headers # srv.deploys + 1 THEN {"mismatch"} ELSE {"ok", "error"}
    ELSE IF m.sid # srv.sid THEN {"expired"} ELSE IF srv.ready THEN {"ok", "error"} ELSE {"refused"}

UpstreamAnswers(c) ==
    /\ At(c, "sent")
    /\ \/ \E reply \in Replies(c) :
            /\ call' = [call EXCEPT ![c].pc = "reply", ![c].reply = reply]
            /\ srv' = IF reply \in {"ok", "error"} THEN [srv EXCEPT !.ran[c] = @ + 1] ELSE srv
            /\ UNCHANGED faults
       \/ call' = [call EXCEPT ![c].pc = "reply", ![c].reply = "limited"] /\ UNCHANGED <<srv, faults>>
       \/ \* the connection breaks before or after the upstream has run the request
          /\ Fault
          /\ call' = [call EXCEPT ![c].pc = "reply", ![c].reply = "lost"]
          /\ \E runs \in {0} \cup (IF "ok" \in Replies(c) THEN {1} ELSE {}) : srv' = [srv EXCEPT !.ran[c] = @ + runs]
    /\ UNCHANGED <<conn, lst, told>>

Retries_Lost(c) == call[c].reply \in {"limited", "lost"} /\ call[c].tries + 1 < MaxRetries

\* post and shouldStopRetrying: only 429 and 503 are retried, MaxRetries posts in all.
Retries(c) == call[c].reply = "limited" /\ call[c].tries + 1 < MaxRetries

\* What the layers around post make of its outcome: postWithRetryDelay, withAuthRetry,
\* withSessionRecovery, callModern and modernError.
TakeReply(c) ==
    LET m == call[c] IN
    /\ At(c, "reply")
    /\ CASE m.reply = "ok" -> Return(c, "answered")
         [] m.reply = "error" -> Return(c, "failed")
         [] Retries(c) -> call' = [call EXCEPT ![c].pc = "sleep", ![c].tries = @ + 1]
         [] m.reply = "denied" /\ "auth" \notin m.again -> Go(c, "refresh")
         [] m.reply = "expired" /\ "session" \notin m.again -> Go(c, "reset")
         [] m.reply = "mismatch" /\ "headers" \notin m.again ->
              call' = [call EXCEPT ![c].pc = "headers", ![c].again = (@ \ {"auth"}) \cup {"headers"}, ![c].tries = 0]
         [] m.reply = "refused" /\ m.modern -> Go(c, "resetEra")
         [] OTHER -> ReturnFor(c, "cut")
    /\ UNCHANGED <<conn, lst, srv, told, faults>>

WakeUp(c) ==
    /\ At(c, "sleep") /\ Go(c, "send")
    /\ UNCHANGED <<conn, lst, srv, told, faults>>

\* RefreshAuthorization: only if the credential is still the one that was rejected.
Refresh(c) ==
    /\ At(c, "refresh")
    /\ \/ /\ conn' = IF conn.token = call[c].token THEN [conn EXCEPT !.token = srv.token] ELSE conn
          /\ call' = [call EXCEPT ![c].pc = "send", ![c].again = @ \cup {"auth"}, ![c].tries = 0]
          /\ UNCHANGED faults
       \/ Fault /\ ReturnFor(c, "cut") /\ UNCHANGED conn
    /\ UNCHANGED <<lst, srv, told>>

CompareAndResetSession_Always(c) ==
    /\ At(c, "reset") /\ conn.mu = NoOne
    /\ conn' = [conn EXCEPT !.initialized = FALSE]
    /\ call' = [call EXCEPT ![c].pc = "probe", ![c].again = (@ \ {"auth"}) \cup {"session"}, ![c].tries = 0]
    /\ UNCHANGED <<lst, srv, told, faults>>

\* compareAndResetSession: a session that another call has renewed meanwhile stays.
CompareAndResetSession(c) ==
    /\ At(c, "reset") /\ conn.mu = NoOne
    /\ conn' = [conn EXCEPT !.initialized = @ /\ conn.sid # call[c].sid]
    /\ call' = [call EXCEPT ![c].pc = "probe", ![c].again = (@ \ {"auth"}) \cup {"session"}, ![c].tries = 0]
    /\ UNCHANGED <<lst, srv, told, faults>>

\* resetModernEra: the next call probes again; this one fails.
ResetModernEra(c) ==
    /\ At(c, "resetEra") /\ conn.mu = NoOne
    /\ conn' = [conn EXCEPT !.eraKnown = FALSE, !.modern = FALSE]
    /\ ReturnFor(c, "cut")
    /\ UNCHANGED <<lst, srv, told, faults>>

\* The caller's context ends during a request, before or after the upstream has run it, or
\* during a retry delay.
ContextEnds(c) ==
    /\ call[c].pc \in {"probing", "initializing", "notifying", "sent", "reply", "sleep", "refresh"}
    /\ Fault
    /\ conn' = IF conn.mu = c THEN Unlocked ELSE conn
    /\ ReturnFor(c, "quit")
    /\ UNCHANGED <<lst, srv, told>>

-----------------------------------------------------------------------------
(* listenForNotifications *)

\* A cycle opens the stream.  A modern upstream acknowledges it, which counts as a change
\* of the tools; a legacy one just opens it; either may refuse it for good.
ListenerOpens ==
    /\ lst.pc = "run" /\ ~lst.cancelled
    /\ lst.modern => conn.modern
    /\ lst.modern = (srv.era = "modern")
    /\ \/ lst' = [lst EXCEPT !.pc = "open"] /\ told' = IF lst.modern THEN srv.deploys ELSE told
       \/ lst' = [lst EXCEPT !.pc = "stopped"] /\ UNCHANGED told
    /\ UNCHANGED <<conn, call, srv, faults>>

\* The stream is interrupted; the next cycle follows a delay.
ListenerInterrupted ==
    /\ lst.pc = "open" /\ Fault
    /\ lst' = [lst EXCEPT !.pc = "run"]
    /\ UNCHANGED <<conn, call, srv, told>>

\* Its context has ended.
ListenerEnds ==
    /\ lst.pc \in {"run", "open"} /\ lst.cancelled
    /\ lst' = [lst EXCEPT !.pc = "stopped"]
    /\ UNCHANGED <<conn, call, srv, told, faults>>

\* Close: no listener may start any more, and the one there is must end.
Close ==
    \/ /\ conn.closed = "no"
       /\ conn' = [conn EXCEPT !.closed = "wait"] /\ lst' = [lst EXCEPT !.cancelled = TRUE]
       /\ UNCHANGED <<call, srv, told, faults>>
    \/ /\ conn.closed = "wait" /\ lst.pc \in {"off", "stopped"}
       /\ conn' = [conn EXCEPT !.closed = "yes"]
       /\ UNCHANGED <<call, lst, srv, told, faults>>

-----------------------------------------------------------------------------
(* The upstream *)

\* A redeploy brings other tools, ends all sessions and streams, and may change the era.
Deploy ==
    /\ srv.deploys < MaxDeploys
    /\ \E era \in {"modern", "legacy"} :
         srv' = [srv EXCEPT !.era = era, !.sid = 0, !.ready = FALSE, !.deploys = @ + 1]
    /\ lst' = IF lst.pc = "open" THEN [lst EXCEPT !.pc = "run"] ELSE lst
    /\ UNCHANGED <<conn, call, told, faults>>

Rotate ==
    /\ Fault
    /\ srv' = [srv EXCEPT !.token = @ + 1]
    /\ UNCHANGED <<conn, call, lst, told>>

-----------------------------------------------------------------------------
Step(c) ==
    \/ ProbeOnce(c) \/ ProbeAnswered(c) \/ SetupFails(c) \/ InitializeOnce(c) \/ SendInitialize(c)
    \/ SendInitialized(c) \/ Relisten(c) \/ Tell(c) \/ ListHeaders(c) \/ DoPost(c)
    \/ UpstreamAnswers(c) \/ TakeReply(c) \/ WakeUp(c) \/ Refresh(c)
    \/ CompareAndResetSession(c) \/ ResetModernEra(c)

Listener == ListenerOpens \/ ListenerInterrupted \/ ListenerEnds

Next == (\E c \in Callers : Begin(c) \/ Step(c) \/ ContextEnds(c)) \/ Listener \/ Close \/ Deploy \/ Rotate

\* Requests are answered or time out (the client's timeout), sleepers wake, goroutines
\* run on.
Fairness ==
    /\ \A c \in Callers : WF_vars(Step(c))
    /\ WF_vars(ListenerEnds)

Spec == Init /\ [][Next]_vars /\ Fairness

-----------------------------------------------------------------------------
CallState(c) ==
    CASE At(c, "idle") -> "idle" [] At(c, "answered") -> "answered" [] At(c, "failed") -> "failed" [] OTHER -> "open"

Promise == INSTANCE CallPromise WITH
    call <- [c \in Callers |-> CallState(c)],
    ran <- srv.ran,
    quit <- {c \in Callers : "quit" \in call[c].why},
    cut <- {c \in Callers : "cut" \in call[c].why}

\* Calls over HTTP implement the promise of Connection.Call: however often a call is posted
\* again (429, 401, an expired session, stale headers), the upstream runs it at most once
\* and an answer is that of the call's own request.
HTTPCallsKeepPromise == Promise!Spec

\* A session the upstream still serves is never replaced: of many calls that learn of an
\* expired session one renews it and the others use what it made.
LiveSessionIsKept ==
    [][(conn'.sid # conn.sid /\ conn.before /\ srv.ready) => conn.sid # srv.sid]_vars

\* When all calls have returned over a session of the current deploy, made to replace an earlier
\* one, the handler has been told that the tools may differ.
RenewalIsTold ==
    (/\ \A c \in Callers : call[c].pc \in {"answered", "failed", "idle"}
     /\ conn.initialized /\ conn.sid > 1 /\ conn.before /\ srv.sid = conn.sid /\ srv.ready)
        => told = srv.deploys

\* Every call returns, whichever of them holds the set-up's mutex or waits under it for a
\* listener to stop.
HTTPCallsReturn == \A c \in Callers : call[c].pc \in Working ~> call[c].pc \notin Working
=============================================================================
