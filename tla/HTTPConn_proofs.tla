---------------------------- MODULE HTTPConn_proofs ----------------------------
(***************************************************************************)
(* Proofs about connections over HTTP, for any number of callers, retries, *)
(* redeployments and faults.                                               *)
(***************************************************************************)
EXTENDS HTTPConn, TLAPS

-----------------------------------------------------------------------------
(* The inductive invariant *)

\* setupMu is held by who is in the middle of a set-up.
Locked == {"probing", "initializing", "notifying", "relisten"}
LockHeld == \A c \in Callers : call[c].pc \in Locked <=> conn.mu = c

\* A session is made only while there is none, and its id is counted from 1.
SessionMade ==
    /\ conn.initialized => conn.sid > 0
    /\ srv.sid \in {0, conn.sid}
    /\ \A c \in Callers :
        /\ call[c].sid <= conn.sid
        /\ call[c].pc \in {"notifying", "relisten"} => conn.sid > 0
        /\ call[c].pc \in {"initializing", "notifying", "relisten"} => ~conn.initialized

\* Who was told that the session in use expired was told so by an upstream without sessions.
ExpiredIsGone ==
    \A c \in Callers :
        /\ call[c].pc = "reset" => call[c].reply = "expired"
        /\ call[c].pc \in {"reply", "reset"} /\ call[c].reply = "expired" /\ call[c].sid = conn.sid
             => conn.sid > 0 /\ srv.sid = 0

\* A session the upstream serves is in use, unless its handshake is about to end.
ServedIsUsed ==
    ~conn.initialized /\ srv.ready /\ srv.sid = conn.sid => \E c \in Callers : At(c, "relisten")

\* The tools of the session in use were listed or told, unless somebody is about to tell.
SessionIsTold ==
    conn.initialized /\ srv.sid = conn.sid => told = srv.deploys \/ \E c \in Callers : At(c, "tell")

\* The upstream ran a request whose answer is there, and none that is still to be answered.
RanWhenAnswered ==
    \A c \in Callers :
        /\ srv.ran[c] \in {0, 1}
        /\ call[c].reply \in {"ok", "error", "lost"} => call[c].pc = "reply"
        /\ call[c].reply \in {"ok", "error"} => srv.ran[c] = 1
        /\ call[c].pc \in {"idle"} \cup Working /\ call[c].reply \notin {"ok", "error", "lost"} => srv.ran[c] = 0

\* Only a call that failed has a cause.
CauseOfFailure == \A c \in Callers : call[c].why # {} => call[c].pc = "failed"

\* A credential is issued by a fault.
TokensCounted == conn.token <= srv.token /\ srv.token <= faults

\* Its parts that are about more than types.
Parts ==
    /\ LockHeld /\ SessionMade /\ ExpiredIsGone /\ ServedIsUsed /\ SessionIsTold
    /\ RanWhenAnswered /\ CauseOfFailure

\* The inductive invariant.
IInv == TypeOK /\ TokensCounted /\ Parts

-----------------------------------------------------------------------------
(* Types *)

\* The values the steps below use are values of their fields.
LEMMA Domains ==
    /\ Working \cup {"answered", "failed"} \subseteq PCs
    /\ {"none", "ok", "error", "limited", "denied", "expired", "refused", "mismatch", "lost"} \subseteq Outcomes
    /\ 0 \in 0 .. MaxRetries
BY HTTPAssumption DEF PCs, Outcomes

\* What the parts of the actions leave is of its type.
LEMMA GoTyped ==
    ASSUME call \in [Callers -> Calls], NEW c \in Callers, NEW pc \in Working, Go(c, pc)
    PROVE  call' \in [Callers -> Calls]
<1>1. [call[c] EXCEPT !.pc = pc] \in Calls BY Domains DEF Calls
<1> QED BY <1>1 DEF Go

LEMMA AfterProbeTyped ==
    ASSUME call \in [Callers -> Calls], NEW c \in Callers, NEW modern \in BOOLEAN, AfterProbe(c, modern)
    PROVE  call' \in [Callers -> Calls]
<1>1. {"initLock", "send", "headers"} \subseteq PCs BY Domains DEF Working
<1>2. \A pc \in {"initLock", "send", "headers"}, m \in BOOLEAN :
         [call[c] EXCEPT !.pc = pc, !.modern = m] \in Calls
  BY <1>1 DEF Calls
<1>3. (modern /\ ~("session" \in call[c].again)) \in BOOLEAN OBVIOUS
<1> QED BY <1>2, <1>3 DEF AfterProbe

LEMMA StartedAgain ==
    ASSUME NEW m \in Calls, NEW pc \in Working, NEW again \in SUBSET {"auth", "session", "headers"}
    PROVE  [m EXCEPT !.pc = pc, !.again = again, !.tries = 0] \in Calls
BY Domains DEF Calls

LEMMA NewCallTyped ==
    ASSUME NEW how \in {"answered", "failed"}, NEW why \in SUBSET {"quit", "cut"}
    PROVE  [NewCall EXCEPT !.pc = how, !.why = why] \in Calls
BY Domains DEF Calls, NewCall

LEMMA ReturnForTyped ==
    ASSUME call \in [Callers -> Calls], NEW c \in Callers, NEW cause \in {"quit", "cut"}, ReturnFor(c, cause)
    PROVE  call' \in [Callers -> Calls]
<1>1. [NewCall EXCEPT !.pc = "failed", !.why = {cause}] \in Calls BY NewCallTyped
<1> QED BY <1>1 DEF ReturnFor

LEMMA ReturnTyped ==
    ASSUME call \in [Callers -> Calls], NEW c \in Callers, NEW how \in {"answered", "failed"}, Return(c, how)
    PROVE  call' \in [Callers -> Calls]
<1>1. call[c].why \in SUBSET {"quit", "cut"} BY DEF Calls
<1>2. [NewCall EXCEPT !.pc = how, !.why = call[c].why] \in Calls BY <1>1, NewCallTyped
<1> QED BY <1>2 DEF Return

LEMMA UnlockedTyped == ASSUME conn \in Conns PROVE Unlocked \in Conns
BY DEF Conns, Unlocked

LEMMA StartListenerTyped ==
    ASSUME lst \in Listeners, NEW modern \in BOOLEAN PROVE StartListener(modern) \in Listeners
BY DEF Listeners, StartListener

\* Every step keeps the types.
LEMMA KeepsTypeOK ==
    ASSUME TypeOK, TokensCounted, [Next]_vars PROVE TypeOK'
<1> USE HTTPAssumption DEF TypeOK
<1>1. ASSUME NEW c \in Callers, Begin(c) PROVE TypeOK'
  BY <1>1, GoTyped DEF Begin, Working
<1>2. ASSUME NEW c \in Callers, ProbeOnce(c) PROVE TypeOK'
  <2>1. CASE ~conn.eraKnown
    <3>1. [conn EXCEPT !.mu = c] \in Conns BY DEF Conns
    <3> QED BY <1>2, <2>1, <3>1, GoTyped DEF ProbeOnce, Working
  <2>2. CASE conn.eraKnown
    <3>1. conn.modern \in BOOLEAN BY DEF Conns
    <3> QED BY <1>2, <2>2, <3>1, AfterProbeTyped DEF ProbeOnce
  <2> QED BY <2>1, <2>2
<1>3. ASSUME NEW c \in Callers, ProbeAnswered(c) PROVE TypeOK'
  <2> DEFINE modern == srv.era = "modern"
  <2>1. call' \in [Callers -> Calls]
    <3>1. modern \in BOOLEAN /\ AfterProbe(c, modern) BY <1>3 DEF ProbeAnswered
    <3> HIDE DEF modern
    <3> QED BY <3>1, AfterProbeTyped
  <2>2. [Unlocked EXCEPT !.eraKnown = TRUE, !.modern = @ \/ modern] \in Conns
    BY DEF Conns, Unlocked
  <2>3. lst' \in Listeners BY <1>3, StartListenerTyped DEF ProbeAnswered
  <2> QED BY <1>3, <2>1, <2>2, <2>3 DEF ProbeAnswered
<1>4. ASSUME NEW c \in Callers, SetupFails(c) PROVE TypeOK'
  BY <1>4, ReturnForTyped, UnlockedTyped DEF SetupFails, Fault
<1>5. ASSUME NEW c \in Callers, InitializeOnce(c) PROVE TypeOK'
  <2>1. [conn EXCEPT !.mu = c] \in Conns BY DEF Conns
  <2> QED BY <1>5, <2>1, GoTyped DEF InitializeOnce, Working
<1>6. ASSUME NEW c \in Callers, SendInitialize(c) PROVE TypeOK'
  <2>1. conn.sid + 1 \in Nat BY DEF Conns
  <2>3. [srv EXCEPT !.sid = conn.sid + 1, !.ready = FALSE] \in Upstreams BY <2>1 DEF Upstreams
  <2>2. [conn EXCEPT !.sid = @ + 1] \in Conns BY DEF Conns
  <2> QED BY <1>6, <2>2, <2>3, GoTyped DEF SendInitialize, Working
<1>7. ASSUME NEW c \in Callers, SendInitialized(c) PROVE TypeOK'
  <2>1. [srv EXCEPT !.ready = TRUE] \in Upstreams BY DEF Upstreams
  <2>2. [lst EXCEPT !.cancelled = TRUE] \in Listeners BY DEF Listeners
  <2> QED BY <1>7, <2>1, <2>2, GoTyped, ReturnForTyped, UnlockedTyped DEF SendInitialized, Working
<1>8. ASSUME NEW c \in Callers, Relisten(c) PROVE TypeOK'
  <2>1. lst' \in Listeners
    <3>1. [lst EXCEPT !.pc = "off"] \in Listeners BY DEF Listeners
    <3> QED BY <1>8, <3>1, StartListenerTyped DEF Relisten
  <2>2. [Unlocked EXCEPT !.initialized = TRUE, !.before = TRUE] \in Conns BY DEF Conns, Unlocked
  <2>3. srv.deploys \in 0 .. MaxDeploys BY DEF Upstreams
  <2>4. call' \in [Callers -> Calls] BY <1>8, GoTyped DEF Relisten, Working
  <2> QED BY <1>8, <2>1, <2>2, <2>3, <2>4 DEF Relisten
<1>9. ASSUME NEW c \in Callers, Tell(c) PROVE TypeOK'
  <2>1. srv.deploys \in 0 .. MaxDeploys BY DEF Upstreams
  <2> QED BY <1>9, <2>1, GoTyped DEF Tell, Working
<1>10. ASSUME NEW c \in Callers, ListHeaders(c) PROVE TypeOK'
  <2>1. [call[c] EXCEPT !.pc = "send", !.reply = "none"] \in Calls
    <3>1. "send" \in PCs /\ "none" \in Outcomes BY Domains DEF Working
    <3> QED BY <3>1 DEF Calls
  <2>2. [conn EXCEPT !.headers = srv.deploys + 1] \in Conns BY DEF Conns, Upstreams
  <2>3. CASE Go(c, "send") /\ UNCHANGED <<conn, faults>>
    BY <1>10, <2>3, GoTyped DEF ListHeaders, Working
  <2>4. CASE /\ UNCHANGED faults
             /\ conn' = [conn EXCEPT !.headers = srv.deploys + 1]
             /\ call' = [call EXCEPT ![c].pc = "send", ![c].reply = "none"]
    BY <1>10, <2>1, <2>2, <2>4 DEF ListHeaders
  <2>5. CASE (Fault \/ UNCHANGED faults) /\ ReturnFor(c, "cut") /\ UNCHANGED conn
    BY <1>10, <2>5, ReturnForTyped DEF ListHeaders, Fault
  <2>6. srv.era \in {"modern", "legacy"} BY DEF Upstreams
  <2> QED BY <1>10, <2>3, <2>4, <2>5, <2>6 DEF ListHeaders
<1>11. ASSUME NEW c \in Callers, DoPost(c) PROVE TypeOK'
  <2>1. [call[c] EXCEPT !.pc = "sent", !.sid = IF call[c].modern THEN 0 ELSE conn.sid,
                        !.token = conn.token, !.headers = conn.headers] \in Calls
    <3> DEFINE sid == IF call[c].modern THEN 0 ELSE conn.sid
    <3>1. "sent" \in PCs BY Domains DEF Working
    <3>2. sid \in Nat /\ conn.token \in Nat /\ conn.headers \in Nat BY DEF Conns
    <3> HIDE DEF sid
    <3>3. [call[c] EXCEPT !.pc = "sent", !.sid = sid, !.token = conn.token, !.headers = conn.headers] \in Calls
      BY <3>1, <3>2 DEF Calls
    <3> QED BY <3>3 DEF sid
  <2> QED BY <1>11, <2>1 DEF DoPost
<1>12. ASSUME NEW c \in Callers, UpstreamAnswers(c) PROVE TypeOK'
  <2>1. ASSUME NEW reply \in {"ok", "error", "limited", "denied", "expired", "refused", "mismatch", "lost"}
        PROVE  [call[c] EXCEPT !.pc = "reply", !.reply = reply] \in Calls
    <3>1. "reply" \in PCs /\ reply \in Outcomes BY Domains DEF Working
    <3> QED BY <3>1 DEF Calls
  <2>2. ASSUME NEW n \in Nat PROVE [srv EXCEPT !.ran[c] = @ + n] \in Upstreams BY DEF Upstreams
  <2>3. Replies(c) \subseteq {"ok", "error", "denied", "expired", "refused", "mismatch"} BY DEF Replies
  <2>4. ASSUME NEW reply \in Replies(c), call' = [call EXCEPT ![c].pc = "reply", ![c].reply = reply]
        PROVE  call' \in [Callers -> Calls]
    BY <2>1, <2>3, <2>4
  <2>5. ASSUME NEW reply \in {"limited", "lost"}, call' = [call EXCEPT ![c].pc = "reply", ![c].reply = reply]
        PROVE  call' \in [Callers -> Calls]
    BY <2>1, <2>5
  <2>6. call' \in [Callers -> Calls] BY <1>12, <2>4, <2>5 DEF UpstreamAnswers
  <2>7. srv' \in Upstreams BY <1>12, <2>2 DEF UpstreamAnswers
  <2>8. faults' \in 0 .. MaxFaults BY <1>12 DEF UpstreamAnswers, Fault
  <2> QED BY <1>12, <2>6, <2>7, <2>8 DEF UpstreamAnswers
<1>13. ASSUME NEW c \in Callers, TakeReply(c) PROVE TypeOK'
  <2>1. CASE \E how \in {"answered", "failed"} : Return(c, how) BY <1>13, <2>1, ReturnTyped DEF TakeReply
  <2>2. CASE ReturnFor(c, "cut") BY <1>13, <2>2, ReturnForTyped DEF TakeReply
  <2>3. CASE \E pc \in Working : Go(c, pc) BY <1>13, <2>3, GoTyped DEF TakeReply
  <2>4. CASE Retries(c) /\ call' = [call EXCEPT ![c].pc = "sleep", ![c].tries = @ + 1]
    <3>1. [call[c] EXCEPT !.pc = "sleep", !.tries = @ + 1] \in Calls
      <4>1. "sleep" \in PCs BY Domains DEF Working
      <4>2. call[c].tries + 1 \in 0 .. MaxRetries BY <2>4 DEF Retries, Calls
      <4> QED BY <4>1, <4>2 DEF Calls
    <3> QED BY <1>13, <2>4, <3>1 DEF TakeReply
  <2>5. CASE call' = [call EXCEPT ![c].pc = "headers", ![c].again = (@ \ {"auth"}) \cup {"headers"}, ![c].tries = 0]
    <3>1. [call[c] EXCEPT !.pc = "headers", !.again = (@ \ {"auth"}) \cup {"headers"}, !.tries = 0] \in Calls
      <4>1. (call[c].again \ {"auth"}) \cup {"headers"} \in SUBSET {"auth", "session", "headers"} BY DEF Calls
      <4> QED BY <4>1, StartedAgain DEF Working
    <3> QED BY <1>13, <2>5, <3>1 DEF TakeReply
  <2> QED BY <1>13, <2>1, <2>2, <2>3, <2>4, <2>5 DEF TakeReply, Working
<1>14. ASSUME NEW c \in Callers, WakeUp(c) PROVE TypeOK'
  BY <1>14, GoTyped DEF WakeUp, Working
<1>15. ASSUME NEW c \in Callers, Refresh(c) PROVE TypeOK'
  <2>1. [call[c] EXCEPT !.pc = "send", !.again = @ \cup {"auth"}, !.tries = 0] \in Calls
    <3>1. call[c].again \cup {"auth"} \in SUBSET {"auth", "session", "headers"} BY DEF Calls
    <3> QED BY <3>1, StartedAgain DEF Working
  <2>2. [conn EXCEPT !.token = srv.token] \in Conns BY DEF Conns, Upstreams
  <2>3. CASE Fault /\ ReturnFor(c, "cut") /\ UNCHANGED conn
    BY <1>15, <2>3, ReturnForTyped DEF Refresh, Fault
  <2> QED BY <1>15, <2>1, <2>2, <2>3 DEF Refresh
<1>16. ASSUME NEW c \in Callers, CompareAndResetSession(c) PROVE TypeOK'
  <2>1. [call[c] EXCEPT !.pc = "probe", !.again = (@ \ {"auth"}) \cup {"session"}, !.tries = 0] \in Calls
    <3>1. (call[c].again \ {"auth"}) \cup {"session"} \in SUBSET {"auth", "session", "headers"} BY DEF Calls
    <3> QED BY <3>1, StartedAgain DEF Working
  <2>2. [conn EXCEPT !.initialized = @ /\ conn.sid # call[c].sid] \in Conns BY DEF Conns
  <2> QED BY <1>16, <2>1, <2>2 DEF CompareAndResetSession
<1>17. ASSUME NEW c \in Callers, ResetModernEra(c) PROVE TypeOK'
  <2>1. [conn EXCEPT !.eraKnown = FALSE, !.modern = FALSE] \in Conns BY DEF Conns
  <2> QED BY <1>17, <2>1, ReturnForTyped DEF ResetModernEra
<1>18. ASSUME NEW c \in Callers, ContextEnds(c) PROVE TypeOK'
  BY <1>18, ReturnForTyped, UnlockedTyped DEF ContextEnds, Fault
<1>19. CASE ListenerOpens BY <1>19 DEF ListenerOpens, Listeners, Upstreams
<1>20. CASE ListenerInterrupted BY <1>20 DEF ListenerInterrupted, Fault, Listeners
<1>21. CASE ListenerEnds BY <1>21 DEF ListenerEnds, Listeners
<1>22. CASE Close
  <2>1. \A s \in {"wait", "yes"} : [conn EXCEPT !.closed = s] \in Conns BY DEF Conns
  <2>2. [lst EXCEPT !.cancelled = TRUE] \in Listeners BY DEF Listeners
  <2> QED BY <1>22, <2>1, <2>2 DEF Close
<1>23. CASE Deploy
  <2>1. ASSUME NEW era \in {"modern", "legacy"}, srv.deploys < MaxDeploys
        PROVE  [srv EXCEPT !.era = era, !.sid = 0, !.ready = FALSE, !.deploys = @ + 1] \in Upstreams
    <3>1. srv.deploys + 1 \in 0 .. MaxDeploys BY <2>1, HTTPAssumption DEF Upstreams
    <3> QED BY <3>1 DEF Upstreams
  <2>2. [lst EXCEPT !.pc = "run"] \in Listeners BY DEF Listeners
  <2> QED BY <1>23, <2>1, <2>2 DEF Deploy
<1>24. CASE Rotate
  <2>1. [srv EXCEPT !.token = @ + 1] \in Upstreams BY <1>24 DEF Rotate, Fault, TokensCounted, Upstreams
  <2> QED BY <1>24, <2>1 DEF Rotate, Fault
<1>25. CASE UNCHANGED vars BY <1>25 DEF vars
<1> QED BY <1>1, <1>2, <1>3, <1>4, <1>5, <1>6, <1>7, <1>8, <1>9, <1>10, <1>11, <1>12, <1>13, <1>14,
           <1>15, <1>16, <1>17, <1>18, <1>19, <1>20, <1>21, <1>22, <1>23, <1>24, <1>25
        DEF Next, Step, Listener

-----------------------------------------------------------------------------
(* What a step does to a call *)

\* The calls of all other callers stay as they are.
Others(c) == \A d \in Callers \ {c} : call'[d] = call[d]

\* Go moves a call and keeps what it knows.
LEMMA GoChanges ==
    ASSUME TypeOK, NEW c \in Callers, NEW pc, Go(c, pc)
    PROVE  /\ Others(c) /\ call'[c].pc = pc
           /\ call'[c].sid = call[c].sid /\ call'[c].reply = call[c].reply /\ call'[c].why = call[c].why
BY DEF TypeOK, Calls, Go, Others

LEMMA AfterProbeChanges ==
    ASSUME TypeOK, NEW c \in Callers, NEW modern, AfterProbe(c, modern)
    PROVE  /\ Others(c) /\ call'[c].pc \in {"headers", "initLock", "send"}
           /\ call'[c].sid = call[c].sid /\ call'[c].reply = call[c].reply /\ call'[c].why = call[c].why
BY DEF TypeOK, Calls, AfterProbe, Others

\* A call that ends forgets all but its causes.
LEMMA ReturnForChanges ==
    ASSUME TypeOK, NEW c \in Callers, NEW cause, ReturnFor(c, cause)
    PROVE  /\ Others(c) /\ call'[c].pc = "failed"
           /\ call'[c].sid = 0 /\ call'[c].reply = "none" /\ call'[c].why = {cause}
BY DEF TypeOK, ReturnFor, NewCall, Others

LEMMA ReturnChanges ==
    ASSUME TypeOK, NEW c \in Callers, NEW how, Return(c, how)
    PROVE  /\ Others(c) /\ call'[c].pc = how
           /\ call'[c].sid = 0 /\ call'[c].reply = "none" /\ call'[c].why = call[c].why
BY DEF TypeOK, Return, NewCall, Others

\* A call that moves outside the set-up and without an answer keeps the invariant.
LEMMA MovesOn ==
    ASSUME IInv, NEW c \in Callers, Others(c),
           call[c].pc \notin Locked \cup {"tell"},
           call'[c].pc \notin Locked \cup {"tell", "idle"},
           call'[c].sid <= conn.sid, call'[c].why \subseteq call[c].why,
           call'[c].why # {} => call'[c].pc = "failed",
           call'[c].reply \notin {"ok", "error", "lost"},
           call'[c].pc \in Working => srv.ran[c] = 0,
           call'[c].pc = "reply" => call'[c].reply # "expired",
           call'[c].pc = "reset" => call[c].pc = "reply" /\ call'[c].reply = "expired" /\ call[c].reply = "expired"
                                      /\ call'[c].sid = call[c].sid,
           conn'.mu = conn.mu, conn'.sid = conn.sid, conn'.initialized = conn.initialized, srv' = srv, told' = told
    PROVE  Parts'
<1> USE DEF IInv, Parts, Others
<1>1. LockHeld' BY DEF LockHeld
<1>2. SessionMade' BY DEF SessionMade, Locked
<1>3. ExpiredIsGone' BY DEF ExpiredIsGone
<1>4. ServedIsUsed' BY DEF ServedIsUsed, At, Locked
<1>5. SessionIsTold' BY DEF SessionIsTold, At
<1>6. RanWhenAnswered' BY DEF RanWhenAnswered
<1>7. CauseOfFailure' BY DEF CauseOfFailure
<1> QED BY <1>1, <1>2, <1>3, <1>4, <1>5, <1>6, <1>7

\* A call that begins a set-up takes setupMu.
LEMMA TakesLock ==
    ASSUME IInv, NEW c \in Callers, Others(c), conn.mu = NoOne,
           call[c].pc \in {"probe", "initLock"}, call'[c].pc \in {"probing", "initializing"},
           call'[c].pc = "initializing" => ~conn.initialized,
           call'[c].sid = call[c].sid, call'[c].reply = call[c].reply, call'[c].why = call[c].why,
           conn'.mu = c, conn'.sid = conn.sid, conn'.initialized = conn.initialized, srv' = srv, told' = told
    PROVE  Parts'
<1> USE DEF IInv, Parts, Others
<1>1. LockHeld' BY HTTPAssumption DEF LockHeld, Locked
<1>2. SessionMade' BY DEF SessionMade
<1>3. ExpiredIsGone' BY DEF ExpiredIsGone
<1>4. ServedIsUsed' BY DEF ServedIsUsed, At
<1>5. SessionIsTold' BY DEF SessionIsTold, At
<1>6. RanWhenAnswered' BY DEF RanWhenAnswered, Working
<1>7. CauseOfFailure' BY DEF CauseOfFailure
<1> QED BY <1>1, <1>2, <1>3, <1>4, <1>5, <1>6, <1>7

\* A call that gives up keeps it, and leaves setupMu to others.
LEMMA GivesUp ==
    ASSUME IInv, NEW c \in Callers, NEW cause, ReturnFor(c, cause),
           call[c].pc \notin {"relisten", "tell"},
           conn'.mu = IF conn.mu = c THEN NoOne ELSE conn.mu,
           conn'.sid = conn.sid, conn'.initialized = conn.initialized, srv' = srv, told' = told
    PROVE  Parts'
<1> USE DEF IInv, Parts, Others
<1>0. Others(c) /\ call'[c].pc = "failed" /\ call'[c].sid = 0 /\ call'[c].reply = "none"
  BY ReturnForChanges
<1>1. LockHeld' BY <1>0, HTTPAssumption DEF LockHeld, Locked
<1>2. SessionMade' BY <1>0 DEF SessionMade, TypeOK, Conns
<1>3. ExpiredIsGone' BY <1>0 DEF ExpiredIsGone
<1>4. ServedIsUsed' BY <1>0 DEF ServedIsUsed, At
<1>5. SessionIsTold' BY <1>0 DEF SessionIsTold, At
<1>6. RanWhenAnswered' BY <1>0 DEF RanWhenAnswered, Working
<1>7. CauseOfFailure' BY <1>0 DEF CauseOfFailure
<1> QED BY <1>1, <1>2, <1>3, <1>4, <1>5, <1>6, <1>7

\* The listener, the end of the connection and the credential leave the calls alone.
LEMMA Background ==
    ASSUME IInv, call' = call,
           conn'.mu = conn.mu, conn'.sid = conn.sid, conn'.initialized = conn.initialized,
           srv'.sid = srv.sid, srv'.ready = srv.ready, srv'.deploys = srv.deploys, srv'.ran = srv.ran,
           told' \in {told, srv.deploys}
    PROVE  Parts'
<1> USE DEF IInv, Parts
<1>1. LockHeld' BY DEF LockHeld
<1>2. SessionMade' BY DEF SessionMade
<1>3. ExpiredIsGone' BY DEF ExpiredIsGone
<1>4. ServedIsUsed' BY DEF ServedIsUsed, At
<1>5. SessionIsTold' BY DEF SessionIsTold, At
<1>6. RanWhenAnswered' BY DEF RanWhenAnswered
<1>7. CauseOfFailure' BY DEF CauseOfFailure
<1> QED BY <1>1, <1>2, <1>3, <1>4, <1>5, <1>6, <1>7

-----------------------------------------------------------------------------
(* Every step keeps it *)

\* Every step keeps the parts of the invariant that are about more than types.
LEMMA KeepsParts ==
    ASSUME IInv, [Next]_vars PROVE Parts'
<1> USE DEF IInv, Parts, Others
<1>t. /\ conn \in Conns /\ srv.deploys \in Nat /\ conn.sid \in Nat
      /\ conn.initialized \in BOOLEAN /\ srv.ran \in [Callers -> Nat]
  BY HTTPAssumption DEF TypeOK, Conns, Upstreams
<1>1. ASSUME NEW c \in Callers, Begin(c) PROVE Parts'
  <2>0. Others(c) /\ call'[c].pc = "probe" /\ call'[c].sid = call[c].sid /\ call'[c].reply = call[c].reply
        /\ call'[c].why = call[c].why
    BY <1>1, GoChanges DEF Begin
  <2> QED BY <1>1, <2>0, MovesOn DEF Begin, At, Locked, SessionMade, RanWhenAnswered, CauseOfFailure
<1>2. ASSUME NEW c \in Callers, ProbeOnce(c) PROVE Parts'
  <2>1. CASE ~conn.eraKnown
    <3>0. Others(c) /\ call'[c].pc = "probing" /\ call'[c].sid = call[c].sid /\ call'[c].reply = call[c].reply
          /\ call'[c].why = call[c].why
      BY <1>2, <2>1, GoChanges DEF ProbeOnce
    <3>8. conn' = [conn EXCEPT !.mu = c] /\ conn.mu = NoOne /\ At(c, "probe") BY <1>2, <2>1 DEF ProbeOnce
    <3>9. conn'.mu = c /\ conn'.sid = conn.sid /\ conn'.initialized = conn.initialized /\ srv' = srv /\ told' = told
      BY <1>2, <3>8, <1>t DEF ProbeOnce, Conns
    <3> QED BY <3>0, <3>8, <3>9, TakesLock DEF At
  <2>2. CASE conn.eraKnown
    <3>0. /\ Others(c) /\ call'[c].pc \in {"headers", "initLock", "send"} /\ call'[c].sid = call[c].sid
          /\ call'[c].reply = call[c].reply /\ call'[c].why = call[c].why
      BY <1>2, <2>2, AfterProbeChanges DEF ProbeOnce
    <3> QED BY <1>2, <2>2, <3>0, MovesOn DEF ProbeOnce, At, Locked, Working, SessionMade, RanWhenAnswered, CauseOfFailure
  <2> QED BY <2>1, <2>2
<1>3. ASSUME NEW c \in Callers, ProbeAnswered(c) PROVE Parts'
  <2>0. /\ Others(c) /\ call'[c].pc \in {"headers", "initLock", "send"} /\ call'[c].sid = call[c].sid
        /\ call'[c].reply = call[c].reply /\ call'[c].why = call[c].why
    BY <1>3, AfterProbeChanges DEF ProbeAnswered
  <2>8. /\ conn'.mu = NoOne /\ conn'.sid = conn.sid /\ conn'.initialized = conn.initialized
        /\ srv' = srv /\ told' = told /\ At(c, "probing")
    BY <1>3, <1>t DEF ProbeAnswered, Unlocked, Conns
  <2>1. LockHeld' BY HTTPAssumption, <2>0, <2>8 DEF LockHeld, Locked, At
  <2>2. SessionMade' BY <2>0, <2>8 DEF SessionMade, At
  <2>3. ExpiredIsGone' BY <2>0, <2>8 DEF ExpiredIsGone, At
  <2>4. ServedIsUsed' BY <2>0, <2>8 DEF ServedIsUsed, At
  <2>5. SessionIsTold' BY <2>0, <2>8 DEF SessionIsTold, At
  <2>6. RanWhenAnswered' BY <2>0, <2>8 DEF RanWhenAnswered, Working, At
  <2>7. CauseOfFailure' BY <2>0, <2>8 DEF CauseOfFailure, At
  <2> QED BY <2>1, <2>2, <2>3, <2>4, <2>5, <2>6, <2>7
<1>4. ASSUME NEW c \in Callers, SetupFails(c) PROVE Parts'
  <2>1. conn.mu = c BY <1>4 DEF SetupFails, LockHeld, Locked
  <2> QED BY <1>4, <1>t, <2>1, GivesUp DEF SetupFails, Unlocked, Conns
<1>5. ASSUME NEW c \in Callers, InitializeOnce(c) PROVE Parts'
  <2>1. CASE conn.initialized
    <3>0. Others(c) /\ call'[c].pc = "send" /\ call'[c].sid = call[c].sid /\ call'[c].reply = call[c].reply
          /\ call'[c].why = call[c].why
      BY <1>5, <2>1, GoChanges DEF InitializeOnce
    <3> QED BY <1>5, <2>1, <3>0, MovesOn DEF InitializeOnce, At, Locked, Working, SessionMade, RanWhenAnswered, CauseOfFailure
  <2>2. CASE ~conn.initialized
    <3>0. Others(c) /\ call'[c].pc = "initializing" /\ call'[c].sid = call[c].sid /\ call'[c].reply = call[c].reply
          /\ call'[c].why = call[c].why
      BY <1>5, <2>2, GoChanges DEF InitializeOnce
    <3>8. conn' = [conn EXCEPT !.mu = c] /\ conn.mu = NoOne /\ At(c, "initLock") BY <1>5, <2>2 DEF InitializeOnce
    <3>9. conn'.mu = c /\ conn'.sid = conn.sid /\ conn'.initialized = conn.initialized /\ srv' = srv /\ told' = told
      BY <1>5, <3>8, <1>t DEF InitializeOnce, Conns
    <3> QED BY <2>2, <3>0, <3>8, <3>9, TakesLock DEF At
  <2> QED BY <2>1, <2>2
<1>6. ASSUME NEW c \in Callers, SendInitialize(c) PROVE Parts'
  <2>0. Others(c) /\ call'[c].pc = "notifying" /\ call'[c].sid = call[c].sid /\ call'[c].reply = call[c].reply
        /\ call'[c].why = call[c].why
    BY <1>6, GoChanges DEF SendInitialize
  <2>8. /\ conn'.mu = conn.mu /\ conn'.sid = conn.sid + 1 /\ conn'.initialized = conn.initialized
        /\ srv'.sid = conn.sid + 1 /\ srv'.ready = FALSE /\ srv'.ran = srv.ran /\ srv'.deploys = srv.deploys
        /\ told' = told /\ At(c, "initializing")
    BY <1>6, <1>t DEF SendInitialize, Conns, TypeOK, Upstreams
  <2>9. \A d \in Callers : call[d].sid \in Nat BY DEF TypeOK, Calls
  <2>1. LockHeld' BY <1>t, <2>0, <2>8, <2>9 DEF LockHeld, Locked, At
  <2>2. SessionMade' BY <1>t, <2>0, <2>8, <2>9 DEF SessionMade, At
  <2>3. ExpiredIsGone' BY <1>t, <2>0, <2>8, <2>9 DEF ExpiredIsGone, SessionMade, At
  <2>4. ServedIsUsed' BY <1>t, <2>0, <2>8, <2>9 DEF ServedIsUsed, At
  <2>5. SessionIsTold' BY <1>t, <2>0, <2>8, <2>9 DEF SessionIsTold, SessionMade, At
  <2>6. RanWhenAnswered' BY <1>t, <2>0, <2>8, <2>9 DEF RanWhenAnswered, Working, At
  <2>7. CauseOfFailure' BY <1>t, <2>0, <2>8, <2>9 DEF CauseOfFailure, At
  <2> QED BY <2>1, <2>2, <2>3, <2>4, <2>5, <2>6, <2>7
<1>7. ASSUME NEW c \in Callers, SendInitialized(c) PROVE Parts'
  <2>m. conn.mu = c BY <1>7 DEF SendInitialized, At, LockHeld, Locked
  <2>1. CASE conn' = Unlocked /\ ReturnFor(c, "cut") /\ UNCHANGED <<srv, lst>>
    BY <1>7, <1>t, <2>m, <2>1, GivesUp DEF SendInitialized, Unlocked, Conns, At
  <2>2. CASE /\ srv' = [srv EXCEPT !.ready = TRUE] /\ Go(c, "relisten") /\ UNCHANGED conn
    <3>0. Others(c) /\ call'[c].pc = "relisten" /\ call'[c].sid = call[c].sid /\ call'[c].reply = call[c].reply
          /\ call'[c].why = call[c].why
      BY <2>2, GoChanges
    <3>8. /\ conn' = conn /\ srv'.sid = srv.sid /\ srv'.ran = srv.ran /\ srv'.deploys = srv.deploys
          /\ told' = told /\ At(c, "notifying")
      BY <1>7, <2>2 DEF SendInitialized, TypeOK, Upstreams
    <3>1. LockHeld' BY <3>0, <3>8 DEF LockHeld, Locked, At
    <3>2. SessionMade' BY <3>0, <3>8 DEF SessionMade, At
    <3>3. ExpiredIsGone' BY <3>0, <3>8 DEF ExpiredIsGone, At
    <3>4. ServedIsUsed' BY <3>0, <3>8 DEF ServedIsUsed, At
    <3>5. SessionIsTold' BY <3>0, <3>8 DEF SessionIsTold, At
    <3>6. RanWhenAnswered' BY <3>0, <3>8 DEF RanWhenAnswered, Working, At
    <3>7. CauseOfFailure' BY <3>0, <3>8 DEF CauseOfFailure, At
    <3> QED BY <3>1, <3>2, <3>3, <3>4, <3>5, <3>6, <3>7
  <2> QED BY <1>7, <2>1, <2>2 DEF SendInitialized
<1>8. ASSUME NEW c \in Callers, Relisten(c) PROVE Parts'
  <2>0. /\ Others(c) /\ call'[c].pc = (IF conn.before THEN "tell" ELSE "send") /\ call'[c].sid = call[c].sid
        /\ call'[c].reply = call[c].reply /\ call'[c].why = call[c].why
    BY <1>8, GoChanges DEF Relisten
  <2>8. /\ conn'.mu = NoOne /\ conn'.sid = conn.sid /\ conn'.initialized = TRUE
        /\ srv' = srv /\ told' = (IF conn.before THEN told ELSE srv.deploys) /\ At(c, "relisten")
    BY <1>8, <1>t DEF Relisten, Unlocked, Conns
  <2>1. LockHeld' BY HTTPAssumption, <2>0, <2>8 DEF LockHeld, Locked, At
  <2>2. SessionMade' BY HTTPAssumption, <2>0, <2>8 DEF SessionMade, LockHeld, Locked, At
  <2>3. ExpiredIsGone' BY <2>0, <2>8 DEF ExpiredIsGone, At
  <2>4. ServedIsUsed' BY <2>0, <2>8 DEF ServedIsUsed, At
  <2>5. SessionIsTold' BY <2>0, <2>8 DEF SessionIsTold, At
  <2>6. RanWhenAnswered' BY <2>0, <2>8 DEF RanWhenAnswered, Working, At
  <2>7. CauseOfFailure' BY <2>0, <2>8 DEF CauseOfFailure, At
  <2> QED BY <2>1, <2>2, <2>3, <2>4, <2>5, <2>6, <2>7
<1>9. ASSUME NEW c \in Callers, Tell(c) PROVE Parts'
  <2>0. Others(c) /\ call'[c].pc = "send" /\ call'[c].sid = call[c].sid /\ call'[c].reply = call[c].reply
        /\ call'[c].why = call[c].why
    BY <1>9, GoChanges DEF Tell
  <2>8. conn' = conn /\ srv' = srv /\ told' = srv.deploys /\ At(c, "tell") BY <1>9 DEF Tell
  <2>1. LockHeld' BY <2>0, <2>8 DEF LockHeld, Locked, At
  <2>2. SessionMade' BY <2>0, <2>8 DEF SessionMade, At
  <2>3. ExpiredIsGone' BY <2>0, <2>8 DEF ExpiredIsGone, At
  <2>4. ServedIsUsed' BY <2>0, <2>8 DEF ServedIsUsed, At
  <2>5. SessionIsTold' BY <2>0, <2>8 DEF SessionIsTold, At
  <2>6. RanWhenAnswered' BY <2>0, <2>8 DEF RanWhenAnswered, Working, At
  <2>7. CauseOfFailure' BY <2>0, <2>8 DEF CauseOfFailure, At
  <2> QED BY <2>1, <2>2, <2>3, <2>4, <2>5, <2>6, <2>7
<1>10. ASSUME NEW c \in Callers, ListHeaders(c) PROVE Parts'
  <2>1. CASE ReturnFor(c, "cut") /\ UNCHANGED conn
    <3>1. conn.mu # c BY <1>10 DEF ListHeaders, At, LockHeld, Locked
    <3> QED BY <1>10, <2>1, <3>1, GivesUp DEF ListHeaders, At
  <2>2. CASE ~(ReturnFor(c, "cut") /\ UNCHANGED conn)
    <3>0. /\ Others(c) /\ call'[c].pc = "send" /\ call'[c].sid = call[c].sid
          /\ call'[c].reply \in {call[c].reply, "none"} /\ call'[c].why = call[c].why
      BY <1>10, <2>2, GoChanges DEF ListHeaders, TypeOK, Calls
    <3>1. conn'.mu = conn.mu /\ conn'.sid = conn.sid /\ conn'.initialized = conn.initialized
      BY <1>10, <1>t, <2>2 DEF ListHeaders, Conns
    <3> QED BY <1>10, <3>0, <3>1, MovesOn DEF ListHeaders, At, Locked, Working, SessionMade, RanWhenAnswered, CauseOfFailure
  <2> QED BY <1>10, <2>1, <2>2 DEF ListHeaders
<1>11. ASSUME NEW c \in Callers, DoPost(c) PROVE Parts'
  <2>0. /\ Others(c) /\ call'[c].pc = "sent" /\ call'[c].sid \in {0, conn.sid}
        /\ call'[c].reply = call[c].reply /\ call'[c].why = call[c].why
    BY <1>11 DEF DoPost, TypeOK, Calls
  <2>1. call'[c].sid <= conn.sid BY <1>t, <2>0
  <2> QED BY <1>11, <2>0, <2>1, MovesOn DEF DoPost, At, Locked, Working, RanWhenAnswered, CauseOfFailure
<1>12. ASSUME NEW c \in Callers, UpstreamAnswers(c) PROVE Parts'
  <2> DEFINE reply == call'[c].reply
  <2>0. /\ Others(c) /\ call'[c].pc = "reply" /\ call'[c].sid = call[c].sid /\ call'[c].why = call[c].why
        /\ At(c, "sent") /\ conn' = conn /\ told' = told
    BY <1>12 DEF UpstreamAnswers, TypeOK, Calls
  <2>8. /\ srv'.sid = srv.sid /\ srv'.ready = srv.ready /\ srv'.deploys = srv.deploys
        /\ \A d \in Callers \ {c} : srv'.ran[d] = srv.ran[d]
    BY <1>12, <1>t DEF UpstreamAnswers, TypeOK, Upstreams
  <2>9. reply = "expired" => call[c].sid # srv.sid
    BY <1>12 DEF UpstreamAnswers, Replies, TypeOK, Calls
  <2>10. srv.ran[c] = 0 BY <2>0 DEF RanWhenAnswered, At, Working
  <2>11. /\ srv'.ran[c] \in {0, 1}
         /\ reply \in {"ok", "error"} => srv'.ran[c] = 1
         /\ reply \notin {"ok", "error", "lost"} => srv'.ran[c] = 0
    BY <1>12, <1>t, <2>10 DEF UpstreamAnswers, TypeOK, Calls, Upstreams
  <2> HIDE DEF reply
  <2>1. LockHeld' BY <2>0, <2>8 DEF LockHeld, Locked, At
  <2>2. SessionMade' BY <2>0, <2>8 DEF SessionMade, At
  <2>3. ExpiredIsGone' BY <1>t, <2>0, <2>8, <2>9 DEF ExpiredIsGone, SessionMade, At, reply
  <2>4. ServedIsUsed' BY <2>0, <2>8 DEF ServedIsUsed, At
  <2>5. SessionIsTold' BY <2>0, <2>8 DEF SessionIsTold, At
  <2>6. RanWhenAnswered' BY <2>0, <2>8, <2>11 DEF reply, RanWhenAnswered, Working, At
  <2>7. CauseOfFailure' BY <2>0, <2>8 DEF CauseOfFailure, At
  <2> QED BY <2>1, <2>2, <2>3, <2>4, <2>5, <2>6, <2>7
<1>13. ASSUME NEW c \in Callers, TakeReply(c) PROVE Parts'
  <2>m. /\ At(c, "reply") /\ conn' = conn /\ srv' = srv /\ told' = told /\ conn.mu # c
        /\ call[c].why = {} /\ call[c].sid <= conn.sid
    BY <1>13 DEF TakeReply, At, LockHeld, Locked, CauseOfFailure, SessionMade
  <2>1. CASE ReturnFor(c, "cut") BY <2>1, <2>m, GivesUp DEF At
  <2>2. CASE \E how \in {"answered", "failed"} : Return(c, how)
    <3>0. /\ Others(c) /\ call'[c].pc \in {"answered", "failed"} /\ call'[c].sid = 0
          /\ call'[c].reply = "none" /\ call'[c].why = {}
      BY <2>2, <2>m, ReturnChanges
    <3> QED BY <1>t, <2>m, <3>0, MovesOn DEF At, Locked, Working
  <2>3. CASE /\ call[c].reply \in {"limited", "denied", "expired", "mismatch", "refused"}
             /\ \E pc \in {"sleep", "refresh", "reset", "resetEra", "headers"} :
                  /\ pc = "reset" => call[c].reply = "expired"
                  /\ Others(c) /\ call'[c].pc = pc /\ call'[c].sid = call[c].sid
                  /\ call'[c].reply = call[c].reply /\ call'[c].why = call[c].why
    <3>1. srv.ran[c] = 0 BY <2>m, <2>3 DEF RanWhenAnswered, At, Working
    <3> QED BY <2>m, <2>3, <3>1, MovesOn DEF At, Locked, Working
  <2>4. ASSUME NEW pc \in {"refresh", "reset", "resetEra"}, Go(c, pc)
        PROVE  /\ Others(c) /\ call'[c].pc = pc /\ call'[c].sid = call[c].sid
               /\ call'[c].reply = call[c].reply /\ call'[c].why = call[c].why
    BY <2>4, GoChanges
  <2>5. ASSUME call' = [call EXCEPT ![c].pc = "sleep", ![c].tries = @ + 1]
        PROVE  /\ Others(c) /\ call'[c].pc = "sleep" /\ call'[c].sid = call[c].sid
               /\ call'[c].reply = call[c].reply /\ call'[c].why = call[c].why
    BY <2>5 DEF TypeOK, Calls
  <2>6. ASSUME call' = [call EXCEPT ![c].pc = "headers", ![c].again = (@ \ {"auth"}) \cup {"headers"}, ![c].tries = 0]
        PROVE  /\ Others(c) /\ call'[c].pc = "headers" /\ call'[c].sid = call[c].sid
               /\ call'[c].reply = call[c].reply /\ call'[c].why = call[c].why
    BY <2>6 DEF TypeOK, Calls
  <2> QED BY <1>13, <2>1, <2>2, <2>3, <2>4, <2>5, <2>6 DEF TakeReply, Retries
<1>14. ASSUME NEW c \in Callers, WakeUp(c) PROVE Parts'
  <2>0. Others(c) /\ call'[c].pc = "send" /\ call'[c].sid = call[c].sid /\ call'[c].reply = call[c].reply
        /\ call'[c].why = call[c].why
    BY <1>14, GoChanges DEF WakeUp
  <2> QED BY <1>14, <2>0, MovesOn DEF WakeUp, At, Locked, Working, SessionMade, RanWhenAnswered, CauseOfFailure
<1>15. ASSUME NEW c \in Callers, Refresh(c) PROVE Parts'
  <2>1. CASE ReturnFor(c, "cut") /\ UNCHANGED conn
    <3>1. conn.mu # c BY <1>15 DEF Refresh, At, LockHeld, Locked
    <3> QED BY <1>15, <2>1, <3>1, GivesUp DEF Refresh, At
  <2>2. CASE /\ conn' = IF conn.token = call[c].token THEN [conn EXCEPT !.token = srv.token] ELSE conn
             /\ call' = [call EXCEPT ![c].pc = "send", ![c].again = @ \cup {"auth"}, ![c].tries = 0]
    <3>0. /\ Others(c) /\ call'[c].pc = "send" /\ call'[c].sid = call[c].sid
          /\ call'[c].reply = call[c].reply /\ call'[c].why = call[c].why
      BY <2>2 DEF TypeOK, Calls
    <3>1. conn'.mu = conn.mu /\ conn'.sid = conn.sid /\ conn'.initialized = conn.initialized
      BY <1>t, <2>2 DEF Conns
    <3> QED BY <1>15, <3>0, <3>1, MovesOn DEF Refresh, At, Locked, Working, SessionMade, RanWhenAnswered, CauseOfFailure
  <2> QED BY <1>15, <2>1, <2>2 DEF Refresh
<1>16. ASSUME NEW c \in Callers, CompareAndResetSession(c) PROVE Parts'
  <2>0. /\ Others(c) /\ call'[c].pc = "probe" /\ call'[c].sid = call[c].sid
        /\ call'[c].reply = call[c].reply /\ call'[c].why = call[c].why
    BY <1>16 DEF CompareAndResetSession, TypeOK, Calls
  <2>8. /\ conn'.mu = NoOne /\ conn.mu = NoOne /\ conn'.sid = conn.sid
        /\ conn'.initialized = (conn.initialized /\ conn.sid # call[c].sid)
        /\ srv' = srv /\ told' = told /\ At(c, "reset")
    BY <1>16, <1>t DEF CompareAndResetSession, Conns
  <2>1. LockHeld' BY <2>0, <2>8 DEF LockHeld, Locked, At
  <2>2. SessionMade' BY <2>0, <2>8 DEF SessionMade, At
  <2>3. ExpiredIsGone' BY <2>0, <2>8 DEF ExpiredIsGone, At
  <2>4. ServedIsUsed' BY <1>t, <2>0, <2>8 DEF ServedIsUsed, ExpiredIsGone, At
  <2>5. SessionIsTold' BY <2>0, <2>8 DEF SessionIsTold, At
  <2>6. RanWhenAnswered' BY <2>0, <2>8 DEF RanWhenAnswered, Working, At
  <2>7. CauseOfFailure' BY <2>0, <2>8 DEF CauseOfFailure, At
  <2> QED BY <2>1, <2>2, <2>3, <2>4, <2>5, <2>6, <2>7
<1>17. ASSUME NEW c \in Callers, ResetModernEra(c) PROVE Parts'
  <2>1. conn.mu # c BY <1>17, HTTPAssumption DEF ResetModernEra
  <2> QED BY <1>17, <1>t, <2>1, GivesUp DEF ResetModernEra, At, Conns
<1>18. ASSUME NEW c \in Callers, ContextEnds(c) PROVE Parts'
  BY <1>18, <1>t, GivesUp DEF ContextEnds, Unlocked, Conns
<1>19. CASE ListenerOpens BY <1>19, Background DEF ListenerOpens
<1>20. CASE ListenerInterrupted BY <1>20, Background DEF ListenerInterrupted
<1>21. CASE ListenerEnds BY <1>21, Background DEF ListenerEnds
<1>22. CASE Close BY <1>22, <1>t, Background DEF Close, Conns
<1>23. CASE Deploy
  <2>8. /\ conn' = conn /\ call' = call /\ told' = told
        /\ srv'.sid = 0 /\ srv'.ready = FALSE /\ srv'.ran = srv.ran
    BY <1>23 DEF Deploy, TypeOK, Upstreams
  <2>1. LockHeld' BY <2>8 DEF LockHeld, At
  <2>2. SessionMade' BY <2>8 DEF SessionMade, At
  <2>3. ExpiredIsGone' BY <2>8 DEF ExpiredIsGone, At
  <2>4. ServedIsUsed' BY <2>8 DEF ServedIsUsed, At
  <2>5. SessionIsTold' BY <1>t, <2>8 DEF SessionIsTold, SessionMade, At
  <2>6. RanWhenAnswered' BY <2>8 DEF RanWhenAnswered, At
  <2>7. CauseOfFailure' BY <2>8 DEF CauseOfFailure, At
  <2> QED BY <2>1, <2>2, <2>3, <2>4, <2>5, <2>6, <2>7
<1>24. CASE Rotate BY <1>24, Background DEF Rotate, TypeOK, Upstreams
<1>25. CASE UNCHANGED vars BY <1>25, Background DEF vars
<1> QED BY <1>1, <1>2, <1>3, <1>4, <1>5, <1>6, <1>7, <1>8, <1>9, <1>10, <1>11, <1>12, <1>13, <1>14, <1>15, <1>16, <1>17, <1>18, <1>19, <1>20, <1>21, <1>22, <1>23, <1>24, <1>25 DEF Next, Step, Listener

\* No step issues a credential without a fault.
LEMMA KeepsTokensCounted ==
    ASSUME IInv, [Next]_vars PROVE TokensCounted'
<1> USE HTTPAssumption DEF IInv, TokensCounted
<1>t. conn \in Conns /\ srv \in Upstreams /\ faults \in 0 .. MaxFaults BY DEF TypeOK
<1>1. CASE Rotate BY <1>1, <1>t DEF Rotate, Fault, Conns, Upstreams
<1>2. ASSUME conn'.token = conn.token, srv'.token = srv.token, faults' \in {faults, faults + 1}
      PROVE  TokensCounted'
  BY <1>2, <1>t DEF Conns, Upstreams
<1>3. ASSUME NEW c \in Callers, Refresh(c) PROVE TokensCounted'
  BY <1>3, <1>t DEF Refresh, Fault, Conns, Upstreams
<1>4. ASSUME NEW c \in Callers, Begin(c) \/ DoPost(c) \/ TakeReply(c) \/ WakeUp(c) \/ Tell(c) PROVE TokensCounted'
  BY <1>2, <1>4 DEF Begin, DoPost, TakeReply, WakeUp, Tell
<1>5. ASSUME NEW c \in Callers, ProbeOnce(c) \/ ProbeAnswered(c) \/ InitializeOnce(c) PROVE TokensCounted'
  BY <1>2, <1>5, <1>t DEF ProbeOnce, ProbeAnswered, InitializeOnce, Unlocked, Conns
<1>6. ASSUME NEW c \in Callers, SetupFails(c) \/ ContextEnds(c) PROVE TokensCounted'
  BY <1>2, <1>6, <1>t DEF SetupFails, ContextEnds, Fault, Unlocked, Conns
<1>7. ASSUME NEW c \in Callers, SendInitialize(c) \/ SendInitialized(c) PROVE TokensCounted'
  BY <1>2, <1>7, <1>t DEF SendInitialize, SendInitialized, Unlocked, Conns, Upstreams
<1>8. ASSUME NEW c \in Callers, Relisten(c) \/ CompareAndResetSession(c) \/ ResetModernEra(c) PROVE TokensCounted'
  BY <1>2, <1>8, <1>t DEF Relisten, CompareAndResetSession, ResetModernEra, Unlocked, Conns
<1>9. ASSUME NEW c \in Callers, ListHeaders(c) PROVE TokensCounted'
  BY <1>2, <1>9, <1>t DEF ListHeaders, Fault, Conns, Upstreams
<1>10. ASSUME NEW c \in Callers, UpstreamAnswers(c) PROVE TokensCounted'
  BY <1>2, <1>10, <1>t DEF UpstreamAnswers, Fault, Upstreams
<1>11. CASE Listener BY <1>2, <1>11 DEF Listener, ListenerOpens, ListenerInterrupted, ListenerEnds, Fault
<1>12. CASE Close BY <1>2, <1>12, <1>t DEF Close, Conns
<1>13. CASE Deploy BY <1>2, <1>13, <1>t DEF Deploy, Upstreams
<1>14. CASE UNCHANGED vars BY <1>2, <1>14 DEF vars
<1> QED BY <1>1, <1>3, <1>4, <1>5, <1>6, <1>7, <1>8, <1>9, <1>10, <1>11, <1>12, <1>13, <1>14 DEF Next, Step

\* The initial states satisfy it.
LEMMA InitIInv == Init => IInv
<1> SUFFICES ASSUME Init PROVE IInv OBVIOUS
<1> USE HTTPAssumption DEF Init
<1>1. conn \in Conns BY DEF Conns
<1>2. call \in [Callers -> Calls]
  <2>1. "idle" \in PCs /\ "none" \in Outcomes /\ 0 \in 0 .. MaxRetries BY DEF PCs, Outcomes
  <2>2. NewCall \in Calls BY <2>1 DEF NewCall, Calls
  <2> QED BY <2>2
<1>3. lst \in Listeners BY DEF Listeners
<1>4. srv \in Upstreams BY DEF Upstreams
<1>5. \A c \in Callers : call[c].pc = "idle" /\ call[c].sid = 0 /\ call[c].reply = "none" /\ call[c].why = {}
  BY DEF NewCall
<1>6. LockHeld /\ ExpiredIsGone /\ CauseOfFailure BY <1>5 DEF LockHeld, Locked, ExpiredIsGone, CauseOfFailure
<1>7. SessionMade BY <1>5 DEF SessionMade
<1>8. ServedIsUsed /\ SessionIsTold BY DEF ServedIsUsed, SessionIsTold
<1>9. RanWhenAnswered
  <2>1. srv.ran = [c \in Callers |-> 0] OBVIOUS
  <2> QED BY <1>5, <2>1 DEF RanWhenAnswered
<1>10. TokensCounted BY DEF TokensCounted
<1> QED BY <1>1, <1>2, <1>3, <1>4, <1>6, <1>7, <1>8, <1>9, <1>10 DEF IInv, TypeOK, Parts

\* It holds for ever.
LEMMA Invariance == Spec => []IInv
<1>1. IInv /\ [Next]_vars => IInv' BY KeepsTypeOK, KeepsTokensCounted, KeepsParts DEF IInv
<1> QED BY InitIInv, <1>1, PTL DEF Spec

-----------------------------------------------------------------------------
(* What follows *)

\* http.go, http_session.go and http_call.go keep the types declared for their state.
THEOREM TypeCorrect == Spec => []TypeOK
<1>1. IInv => TypeOK BY DEF IInv
<1> QED BY <1>1, Invariance, PTL

\* When the calls have returned, a session that restartListener began in the place of an
\* earlier one has been followed by NotifyToolsChanged.
THEOREM RenewedSessionsAreTold == Spec => []RenewalIsTold
<1>1. IInv => RenewalIsTold BY DEF IInv, Parts, SessionIsTold, RenewalIsTold, At
<1> QED BY <1>1, Invariance, PTL

\* compareAndResetSession and setupMu: no caller replaces a session the upstream still serves.
THEOREM SessionsAreNotWasted == Spec => LiveSessionIsKept
<1> DEFINE Kept == conn'.sid # conn.sid /\ conn.before /\ srv.ready => conn.sid # srv.sid
<1>1. ASSUME IInv, [Next]_vars PROVE [Kept]_vars
  <2>1. conn \in Conns BY <1>1 DEF IInv, TypeOK
  <2>2. ASSUME NEW c \in Callers, SendInitialize(c) PROVE Kept
    <3>1. conn.mu = c /\ ~conn.initialized
      BY <1>1, <2>2 DEF SendInitialize, At, IInv, Parts, LockHeld, Locked, SessionMade
    <3>2. \A d \in Callers : ~At(d, "relisten")
      BY <1>1, <2>2, <3>1 DEF SendInitialize, At, IInv, Parts, LockHeld, Locked
    <3> QED BY <1>1, <3>1, <3>2 DEF IInv, Parts, ServedIsUsed
  <2>3. ASSUME NEW c \in Callers, Begin(c) \/ Step(c) \/ ContextEnds(c), ~SendInitialize(c) PROVE conn'.sid = conn.sid
    BY <2>1, <2>3
    DEF Step, Begin, ProbeOnce, ProbeAnswered, SetupFails, InitializeOnce, SendInitialized, Relisten, Tell, ListHeaders,
        DoPost, UpstreamAnswers, TakeReply, WakeUp, Refresh, CompareAndResetSession, ResetModernEra, ContextEnds,
        Unlocked, Conns
  <2>4. CASE Listener \/ Close \/ Deploy \/ Rotate
    BY <2>1, <2>4
    DEF Listener, ListenerOpens, ListenerInterrupted, ListenerEnds, Close, Deploy, Rotate, Conns
  <2> QED BY <1>1, <2>2, <2>3, <2>4 DEF Next, vars, Step
<1> QED BY <1>1, Invariance, PTL DEF Spec, LiveSessionIsKept

-----------------------------------------------------------------------------
(* Calls over HTTP implement the promise of Connection.Call *)

\* A call that is still on its way stays open for its caller.
LEMMA OpenStaysOpen ==
    ASSUME IInv, NEW c \in Callers, Others(c), call[c].pc \in Working, call'[c].pc \in Working,
           call'[c].why = call[c].why
    PROVE  UNCHANGED <<[d \in Callers |-> CallState(d)], {d \in Callers : "quit" \in call[d].why},
                       {d \in Callers : "cut" \in call[d].why}>>
<1>1. \A d \in Callers : CallState(d)' = CallState(d) BY DEF Others, CallState, At, Working
<1>2. \A d \in Callers : call'[d].why = call[d].why BY DEF Others
<1> QED BY <1>1, <1>2

\* A call that gives up is trouble of its own.
LEMMA GivingUpIsTrouble ==
    ASSUME IInv, NEW c \in Callers, NEW cause \in {"quit", "cut"}, ReturnFor(c, cause), call[c].pc \in Working,
           srv'.ran = srv.ran
    PROVE  Promise!Trouble
<1>1. Others(c) /\ call'[c].pc = "failed" /\ call'[c].why = {cause} BY ReturnForChanges DEF IInv
<1>2. call[c].why = {} BY DEF IInv, Parts, CauseOfFailure, Working
<1>3. CallState(c) = "open" /\ CallState(c)' = "failed" BY <1>1 DEF CallState, At, Working
<1>4. \A d \in Callers \ {c} : CallState(d)' = CallState(d) BY <1>1 DEF Others, CallState, At
<1> QED BY <1>1, <1>2, <1>3, <1>4 DEF Promise!Trouble, Others

\* What each step of a call comes to for its caller: it goes on, gives up, or returns what
\* the upstream answered.
GoesOn(c) ==
    /\ Others(c) /\ call[c].pc \in Working /\ call'[c].pc \in Working
    /\ call'[c].why = call[c].why

StepEnds(c) ==
    \/ GoesOn(c) /\ (srv'.ran = srv.ran \/ UpstreamAnswers(c))
    \/ /\ \E cause \in {"quit", "cut"} : ReturnFor(c, cause)
       /\ call[c].pc \in Working /\ srv' = srv
    \/ /\ call[c].pc = "reply" /\ srv' = srv
       /\ \/ call[c].reply = "ok" /\ Return(c, "answered")
          \/ call[c].reply = "error" /\ Return(c, "failed")

LEMMA StepsOfACall == ASSUME IInv, NEW c \in Callers, Step(c) PROVE StepEnds(c)
<1>t. TypeOK /\ srv \in Upstreams BY DEF IInv, TypeOK
<1>g. ASSUME NEW pc, pc \in Working, call[c].pc \in Working, Go(c, pc), srv'.ran = srv.ran PROVE StepEnds(c)
  BY <1>g, <1>t, GoChanges DEF GoesOn, StepEnds
<1>r. ASSUME call[c].pc \in Working, ReturnFor(c, "cut"), srv' = srv PROVE StepEnds(c)
  BY <1>r DEF StepEnds
<1>e. ASSUME call[c].pc \in Working, call'[c].pc \in Working, Others(c), call'[c].why = call[c].why,
             srv'.ran = srv.ran
      PROVE  StepEnds(c)
  BY <1>e DEF GoesOn, StepEnds
<1>1. CASE ProbeOnce(c)
  <2>1. CASE Go(c, "probing") BY <1>1, <1>g, <2>1 DEF ProbeOnce, At, Working
  <2>2. CASE AfterProbe(c, conn.modern)
    <3>1. Others(c) /\ call'[c].pc \in {"headers", "initLock", "send"} /\ call'[c].why = call[c].why
      BY <1>t, <2>2, AfterProbeChanges
    <3> QED BY <1>1, <1>e, <3>1 DEF ProbeOnce, At, Working
  <2> QED BY <1>1, <2>1, <2>2 DEF ProbeOnce
<1>2. CASE ProbeAnswered(c)
  <2>1. Others(c) /\ call'[c].pc \in {"headers", "initLock", "send"} /\ call'[c].why = call[c].why
    BY <1>2, <1>t, AfterProbeChanges DEF ProbeAnswered
  <2> QED BY <1>2, <1>e, <2>1 DEF ProbeAnswered, At, Working
<1>3. CASE SetupFails(c) BY <1>3, <1>r DEF SetupFails, Working
<1>4. CASE InitializeOnce(c) BY <1>4, <1>g DEF InitializeOnce, At, Working
<1>5. CASE SendInitialize(c) BY <1>5, <1>g, <1>t DEF SendInitialize, At, Working, Upstreams
<1>6. CASE SendInitialized(c)
  <2>1. CASE Go(c, "relisten") /\ srv' = [srv EXCEPT !.ready = TRUE]
    BY <1>6, <1>g, <1>t, <2>1 DEF SendInitialized, At, Working, Upstreams
  <2>2. CASE ReturnFor(c, "cut") /\ UNCHANGED srv BY <1>6, <1>r, <2>2 DEF SendInitialized, At, Working
  <2> QED BY <1>6, <2>1, <2>2 DEF SendInitialized
<1>7. CASE Relisten(c) BY <1>7, <1>g DEF Relisten, At, Working
<1>8. CASE Tell(c) BY <1>8, <1>g DEF Tell, At, Working
<1>9. CASE ListHeaders(c)
  <2>1. CASE Go(c, "send") BY <1>9, <1>g, <2>1 DEF ListHeaders, At, Working
  <2>2. CASE ReturnFor(c, "cut") BY <1>9, <1>r, <2>2 DEF ListHeaders, At, Working
  <2>3. CASE call' = [call EXCEPT ![c].pc = "send", ![c].reply = "none"]
    <3>1. Others(c) /\ call'[c].pc = "send" /\ call'[c].why = call[c].why
      BY <1>t, <2>3 DEF TypeOK, Calls, Others
    <3> QED BY <1>9, <1>e, <3>1 DEF ListHeaders, At, Working
  <2> QED BY <1>9, <2>1, <2>2, <2>3 DEF ListHeaders
<1>10. CASE DoPost(c)
  <2>1. Others(c) /\ call'[c].pc = "sent" /\ call'[c].why = call[c].why
    BY <1>10, <1>t DEF DoPost, TypeOK, Calls, Others
  <2> QED BY <1>10, <1>e, <2>1 DEF DoPost, At, Working
<1>11. CASE UpstreamAnswers(c)
  <2>1. Others(c) /\ call'[c].pc = "reply" /\ call'[c].why = call[c].why /\ call[c].pc = "sent"
    BY <1>11, <1>t DEF UpstreamAnswers, TypeOK, Calls, Others, At
  <2> QED BY <1>11, <2>1 DEF GoesOn, Working, StepEnds
<1>12. CASE TakeReply(c)
  <2>m. At(c, "reply") /\ srv' = srv BY <1>12 DEF TakeReply
  <2>1. CASE call[c].reply = "ok" /\ Return(c, "answered") BY <2>m, <2>1 DEF At, StepEnds
  <2>2. CASE call[c].reply = "error" /\ Return(c, "failed") BY <2>m, <2>2 DEF At, StepEnds
  <2>3. CASE ReturnFor(c, "cut") BY <1>r, <2>m, <2>3 DEF At, Working
  <2>4. CASE \E pc \in {"refresh", "reset", "resetEra"} : Go(c, pc) BY <1>g, <2>m, <2>4 DEF At, Working
  <2>5. CASE call' = [call EXCEPT ![c].pc = "sleep", ![c].tries = @ + 1]
    <3>1. Others(c) /\ call'[c].pc = "sleep" /\ call'[c].why = call[c].why BY <1>t, <2>5 DEF TypeOK, Calls, Others
    <3> QED BY <1>e, <2>m, <3>1 DEF At, Working
  <2>6. CASE call' = [call EXCEPT ![c].pc = "headers", ![c].again = (@ \ {"auth"}) \cup {"headers"}, ![c].tries = 0]
    <3>1. Others(c) /\ call'[c].pc = "headers" /\ call'[c].why = call[c].why BY <1>t, <2>6 DEF TypeOK, Calls, Others
    <3> QED BY <1>e, <2>m, <3>1 DEF At, Working
  <2> QED BY <1>12, <2>1, <2>2, <2>3, <2>4, <2>5, <2>6 DEF TakeReply
<1>13. CASE WakeUp(c) BY <1>13, <1>g DEF WakeUp, At, Working
<1>14. CASE Refresh(c)
  <2>1. CASE ReturnFor(c, "cut") BY <1>14, <1>r, <2>1 DEF Refresh, At, Working
  <2>2. CASE call' = [call EXCEPT ![c].pc = "send", ![c].again = @ \cup {"auth"}, ![c].tries = 0]
    <3>1. Others(c) /\ call'[c].pc = "send" /\ call'[c].why = call[c].why BY <1>t, <2>2 DEF TypeOK, Calls, Others
    <3> QED BY <1>14, <1>e, <3>1 DEF Refresh, At, Working
  <2> QED BY <1>14, <2>1, <2>2 DEF Refresh
<1>15. CASE CompareAndResetSession(c)
  <2>1. Others(c) /\ call'[c].pc = "probe" /\ call'[c].why = call[c].why
    BY <1>15, <1>t DEF CompareAndResetSession, TypeOK, Calls, Others
  <2> QED BY <1>15, <1>e, <2>1 DEF CompareAndResetSession, At, Working
<1>16. CASE ResetModernEra(c) BY <1>16, <1>r DEF ResetModernEra, At, Working
<1> QED
  BY <1>1, <1>2, <1>3, <1>4, <1>5, <1>6, <1>7, <1>8, <1>9, <1>10, <1>11, <1>12, <1>13, <1>14, <1>15, <1>16 DEF Step

\* Every step of a connection is a step of the promise, or none.
LEMMA StepIsPromised ==
    ASSUME IInv, [Next]_vars PROVE [Promise!Next]_(Promise!promise)
<1>t. TypeOK /\ srv \in Upstreams /\ call \in [Callers -> Calls] BY DEF IInv, TypeOK
<1>1. ASSUME NEW c \in Callers, Begin(c) PROVE Promise!Begin(c)
  <2>1. Others(c) /\ call'[c].pc = "probe" /\ call'[c].why = call[c].why /\ srv' = srv /\ At(c, "idle")
    BY <1>1, <1>t, GoChanges DEF Begin
  <2>2. CallState(c) = "idle" /\ CallState(c)' = "open" BY <2>1 DEF CallState, At
  <2>3. \A d \in Callers \ {c} : CallState(d)' = CallState(d) BY <2>1 DEF Others, CallState, At
  <2>4. \A d \in Callers : call'[d].why = call[d].why BY <2>1 DEF Others
  <2> QED BY <2>1, <2>2, <2>3, <2>4 DEF Promise!Begin
<1>2. ASSUME NEW c \in Callers, UpstreamAnswers(c), GoesOn(c) PROVE [Promise!Run(c)]_(Promise!promise)
  <2>1. call[c].pc = "sent" /\ srv.ran[c] = 0
    BY <1>2 DEF UpstreamAnswers, At, Working, IInv, Parts, RanWhenAnswered
  <2>2. UNCHANGED <<[d \in Callers |-> CallState(d)], {d \in Callers : "quit" \in call[d].why},
                    {d \in Callers : "cut" \in call[d].why}>>
    BY <1>2, OpenStaysOpen DEF GoesOn
  <2>3. srv'.ran = srv.ran \/ srv'.ran = [srv.ran EXCEPT ![c] = 1]
    BY <1>2, <1>t, <2>1 DEF UpstreamAnswers, Upstreams
  <2>4. CallState(c) = "open" BY <2>1 DEF CallState, At
  <2> QED BY <2>1, <2>2, <2>3, <2>4 DEF Promise!Run, Promise!promise
<1>3. ASSUME NEW c \in Callers, Step(c) PROVE [Promise!Next]_(Promise!promise)
  <2>1. CASE GoesOn(c) /\ srv'.ran = srv.ran
    <3>1. UNCHANGED <<[d \in Callers |-> CallState(d)], {d \in Callers : "quit" \in call[d].why},
                      {d \in Callers : "cut" \in call[d].why}>>
      BY <2>1, OpenStaysOpen DEF GoesOn
    <3> QED BY <2>1, <3>1 DEF Promise!promise
  <2>2. CASE GoesOn(c) /\ UpstreamAnswers(c) BY <1>2, <2>2 DEF Promise!Next
  <2>3. CASE (\E cause \in {"quit", "cut"} : ReturnFor(c, cause)) /\ call[c].pc \in Working /\ srv' = srv
    BY <2>3, GivingUpIsTrouble DEF Promise!Next
  <2>4. ASSUME NEW how \in {"answered", "failed"}, call[c].pc = "reply", srv' = srv, Return(c, how),
               call[c].reply \in {"ok", "error"}
        PROVE  /\ CallState(c) = "open" /\ srv.ran[c] = 1
               /\ UNCHANGED <<srv.ran, {d \in Callers : "quit" \in call[d].why}, {d \in Callers : "cut" \in call[d].why}>>
               /\ [d \in Callers |-> CallState(d)]' = [[d \in Callers |-> CallState(d)] EXCEPT ![c] = how]
    <3>1. Others(c) /\ call'[c].pc = how /\ call'[c].why = call[c].why BY <1>t, <2>4, ReturnChanges
    <3>2. CallState(c) = "open" /\ CallState(c)' = how BY <2>4, <3>1 DEF CallState, At
    <3>3. \A d \in Callers \ {c} : CallState(d)' = CallState(d) BY <3>1 DEF Others, CallState, At
    <3>4. \A d \in Callers : call'[d].why = call[d].why BY <3>1 DEF Others
    <3>5. srv.ran[c] = 1 BY <2>4 DEF IInv, Parts, RanWhenAnswered
    <3> QED BY <2>4, <3>2, <3>3, <3>4, <3>5
  <2>5. CASE call[c].pc = "reply" /\ srv' = srv /\ call[c].reply = "ok" /\ Return(c, "answered")
    BY <2>4, <2>5 DEF Promise!Next, Promise!Answer
  <2>6. CASE call[c].pc = "reply" /\ srv' = srv /\ call[c].reply = "error" /\ Return(c, "failed")
    BY <2>4, <2>6 DEF Promise!Next, Promise!Fail
  <2> QED BY <1>3, <2>1, <2>2, <2>3, <2>5, <2>6, StepsOfACall DEF StepEnds
<1>4. ASSUME NEW c \in Callers, ContextEnds(c) PROVE Promise!Trouble
  BY <1>4, GivingUpIsTrouble DEF ContextEnds, Working
<1>5. ASSUME call' = call, srv'.ran = srv.ran PROVE UNCHANGED Promise!promise
  BY <1>5 DEF Promise!promise, CallState, At
<1>6. CASE Listener \/ Close \/ UNCHANGED vars
  BY <1>5, <1>6 DEF Listener, ListenerOpens, ListenerInterrupted, ListenerEnds, Close, vars
<1>7. CASE Deploy \/ Rotate BY <1>5, <1>7, <1>t DEF Deploy, Rotate, Upstreams
<1> QED BY <1>1, <1>3, <1>4, <1>6, <1>7 DEF Next, Promise!Next

\* However often doPost repeats a request (429, 401, an expired session, stale headers), the
\* upstream runs it at most once, and what Call returns is the outcome of that run or a reason
\* for there being none.
THEOREM CallsOverHTTPKeepPromise == Spec => HTTPCallsKeepPromise
<1>1. Init => Promise!Init
  <2> SUFFICES ASSUME Init PROVE Promise!Init OBVIOUS
  <2>1. \A c \in Callers : CallState(c) = "idle" /\ call[c].why = {} BY DEF Init, NewCall, CallState, At
  <2>2. srv.ran = [c \in Callers |-> 0] BY DEF Init
  <2> QED BY <2>1, <2>2 DEF Promise!Init
<1> QED BY <1>1, Invariance, StepIsPromised, PTL DEF Spec, HTTPCallsKeepPromise, Promise!Spec
=============================================================================
