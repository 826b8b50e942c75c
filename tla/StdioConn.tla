------------------------------ MODULE StdioConn ------------------------------
(***************************************************************************)
(* A connection to an upstream that mini runs as a subprocess              *)
(* (internal/transport: stdio*.go, pending.go, discover.go): negotiating   *)
(* the protocol era, restarting servers that cannot bear the modern probe, *)
(* concurrent calls that share one stdin, their cancellation, the          *)
(* tool-change subscription and the end of the connection.                 *)
(*                                                                         *)
(* Every request has the name of who sends it, where the code counts       *)
(* nextID up.  The mutexes of pendingMap and listenMu are held for single  *)
(* actions; the write gate is held across a write, which blocks when the   *)
(* child does not read.                                                    *)
(***************************************************************************)
EXTENDS Naturals, Sequences

CONSTANTS
    Callers,     \* calls made once the connection is set up
    Calling,     \* bound: the callers that call an upstream of each kind
    MaxChanges   \* bound: how often the upstream changes its tools

\* What kind of program the command starts.  A legacy server may refuse the modern
\* probe, ignore it or exit on it.  A faulty one is modern, an odd one answers a set-up
\* in any way; both may exit or stop reading at any time.
Kinds == {"modern", "legacy", "silent", "exits", "faulty", "odd"}

ASSUME StdioAssumption ==
    /\ Callers \cap {"setup", "listen", "reply", "probe", "noOne"} = {}
    /\ Calling \in [Kinds -> SUBSET Callers] /\ MaxChanges \in Nat

\* The requests of a set-up follow one another, so they share a name.
Reqs == Callers \cup {"setup", "listen"}
Writers == Reqs \cup {"reply"}

VARIABLES
    kind,   \* the upstream program
    conn,   \* the StdioConnection: era, done, shutdownOnce, write gate, torn line, reader
    proc,   \* the child: alive, reading stdin, what it has read, its view of the subscription
    out,    \* its stdout
    pend,   \* pendingMap
    chan,   \* the channel of each request: the answer delivered into it
    ctx,    \* contexts that have ended
    w,      \* the write of each writer
    pc,     \* each request
    sub,    \* the stdioSubscription
    setup,  \* progress of NewStdioConnection: the step and whether this is the first child
    gen,    \* the upstream's tools, counted
    told    \* the newest count the notification handler has been told of

vars == <<kind, conn, proc, out, pend, chan, ctx, w, pc, sub, setup, gen, told>>

NoOne == "noOne"
Bodies == {"noVersions", "modern", "modernListen", "incomplete", "legacyOnly", "noneShared",
           "refused", "otherError", "tryModern", "tryLegacy", "tryNone",
           "legacyVersion", "result", "error"}
Returned == {"ok", "ctxErr", "closed", "writeErr"}
Stages == {"idle", "write", "wait", "cancel"} \cup Returned
WriteStages == {"none", "gate", "writing", "failed"}
Conns == [modern: BOOLEAN, done: BOOLEAN, shut: BOOLEAN, gate: Writers \cup {NoOne},
          torn: BOOLEAN, eof: BOOLEAN]
Processes == [up: BOOLEAN, reading: BOOLEAN, inbox: SUBSET Reqs, ran: SUBSET Callers,
              swallowed: SUBSET Callers, sub: {"none", "acked", "over"}, pinged: BOOLEAN]
Subscriptions == [state: {"none", "awaitingAck", "active", "ended"}, linked: BOOLEAN, ended: BOOLEAN]
Setups == [at: {"discover", "corrected", "initialize", "initialized", "ready", "failed"}, first: BOOLEAN]
Messages == [kind: {"response", "ack", "cancelled", "changed", "ping"}, id: Writers,
             body: Bodies \cup {"none"}, gen: 0 .. MaxChanges]

TypeOK ==
    /\ kind \in Kinds
    /\ conn \in Conns /\ proc \in Processes /\ out \in Seq(Messages)
    /\ pend \subseteq Reqs /\ chan \in [Reqs -> Bodies \cup {"none"}]
    /\ ctx \subseteq Writers \cup {"probe"}
    /\ w \in [Writers -> WriteStages] /\ pc \in [Reqs -> Stages]
    /\ sub \in Subscriptions /\ setup \in Setups
    /\ gen \in 0 .. MaxChanges /\ told \in 0 .. MaxChanges

NewConn == [modern |-> FALSE, done |-> FALSE, shut |-> FALSE, gate |-> NoOne, torn |-> FALSE, eof |-> FALSE]
NewProc == [up |-> TRUE, reading |-> TRUE, inbox |-> {}, ran |-> {}, swallowed |-> {},
            sub |-> "none", pinged |-> FALSE]

Init ==
    /\ kind \in Kinds
    /\ conn = NewConn /\ proc = NewProc /\ out = <<>>
    /\ pend = {} /\ chan = [r \in Reqs |-> "none"] /\ ctx = {}
    /\ w = [a \in Writers |-> "none"] /\ pc = [r \in Reqs |-> "idle"]
    /\ sub = [state |-> "none", linked |-> FALSE, ended |-> FALSE]
    /\ setup = [at |-> "discover", first |-> TRUE]
    /\ gen = 0 /\ told = 0

CtxDone(a) == a \in ctx \/ (a = "setup" /\ setup.at \in {"discover", "corrected"} /\ "probe" \in ctx)

\* closeDone and shutdownProcess: stdin is closed and the child killed and awaited.
Abandon ==
    /\ conn' = [conn EXCEPT !.done = TRUE, !.shut = TRUE, !.torn = FALSE]
    /\ proc' = [proc EXCEPT !.up = FALSE, !.inbox = {}, !.reading = TRUE]

-----------------------------------------------------------------------------
(* Requests and writes: rpc, writeJSONContext, abandonAfterFailedWrite *)

\* rpc up to the write: the answer is awaited before the request can be read.
Rpc(r) ==
    /\ pc[r] = "idle"
    /\ pc' = [pc EXCEPT ![r] = "write"] /\ w' = [w EXCEPT ![r] = "gate"]
    /\ pend' = pend \cup {r}

Call(c) ==
    /\ setup.at = "ready" /\ c \in Calling[kind]
    /\ Rpc(c)
    /\ UNCHANGED <<kind, conn, proc, out, chan, ctx, sub, setup, gen, told>>

\* What follows a write that never started: a request returns the context's error, a
\* notice or a reply is dropped.
NeverStarted(a) ==
    /\ w' = [w EXCEPT ![a] = "none"]
    /\ pc' = IF a \in Reqs THEN [pc EXCEPT ![a] = "ctxErr"] ELSE pc
    /\ pend' = pend \ {a}
    /\ sub' = IF a = "listen" THEN [sub EXCEPT !.linked = FALSE] ELSE sub

\* lockWrite and the check of the context that follows it.
LockWrite(a) ==
    /\ w[a] = "gate"
    /\ \/ CtxDone(a) /\ NeverStarted(a) /\ UNCHANGED conn
       \/ /\ ~CtxDone(a) /\ conn.gate = NoOne
          /\ conn' = [conn EXCEPT !.gate = a] /\ w' = [w EXCEPT ![a] = "writing"]
          /\ UNCHANGED <<pc, pend, sub>>
    /\ UNCHANGED <<kind, proc, out, chan, ctx, setup, gen, told>>

\* The child reads a whole line.  A line that follows a torn one is read as one line
\* with it, which is no message.
ChildReads(a) ==
    LET isRequest == a \in Reqs /\ pc[a] = "write" /\ ~(a = "setup" /\ setup.at = "initialized") IN
    CASE conn.torn -> [proc EXCEPT !.swallowed = IF isRequest THEN @ \cup ({a} \cap Callers) ELSE @]
      [] ~conn.torn /\ isRequest ->
           [proc EXCEPT !.inbox = @ \cup {a}, !.up = ~(kind = "exits" /\ setup.at = "discover")]
      [] OTHER -> [proc EXCEPT !.inbox = @ \ {a}, !.sub = IF a = "listen" THEN "over" ELSE @]

\* The write went through and the gate is free again.
WriteWhole(a) ==
    /\ w[a] = "writing" /\ proc.up /\ proc.reading /\ ~conn.shut
    /\ proc' = ChildReads(a)
    /\ conn' = [conn EXCEPT !.gate = NoOne, !.torn = FALSE]
    /\ w' = [w EXCEPT ![a] = "none"]
    /\ IF a = "setup" /\ setup.at = "initialized"
       THEN setup' = [setup EXCEPT !.at = "ready"] /\ pc' = [pc EXCEPT ![a] = "idle"]
       ELSE /\ pc' = IF a \notin Reqs THEN pc
                     ELSE [pc EXCEPT ![a] = IF @ = "write" THEN "wait" ELSE "ctxErr"]
            /\ UNCHANGED setup
    /\ UNCHANGED <<kind, out, pend, chan, ctx, sub, gen, told>>

\* The write fails because the child or stdin is gone, or interruptWriteOnCancel sets
\* a past deadline on a write that is blocked or under way; part of the line may be
\* out by then.  The gate is free before the connection is abandoned.
WriteFails(a) ==
    /\ w[a] = "writing"
    /\ \/ (~proc.up \/ conn.shut) /\ conn' = [conn EXCEPT !.gate = NoOne]
       \/ /\ CtxDone(a) /\ proc.up
          /\ \E torn \in {conn.torn, TRUE} : conn' = [conn EXCEPT !.gate = NoOne, !.torn = torn]
    /\ w' = [w EXCEPT ![a] = "failed"]
    /\ UNCHANGED <<kind, proc, out, pend, chan, ctx, pc, sub, setup, gen, told>>

AfterFailedWrite_GoesOn(a) ==
    /\ w[a] = "failed"
    /\ w' = [w EXCEPT ![a] = "none"]
    /\ pc' = IF a \in Reqs THEN [pc EXCEPT ![a] = "ctxErr"] ELSE pc
    /\ pend' = pend \ {a}
    /\ sub' = IF a = "listen" THEN [sub EXCEPT !.linked = FALSE] ELSE sub
    /\ UNCHANGED <<kind, conn, proc, out, chan, ctx, setup, gen, told>>

\* abandonAfterFailedWrite, for a write that had started.  The notice that ends
\* initialize leaves the connection to negotiate.
AfterFailedWrite(a) ==
    /\ w[a] = "failed"
    /\ w' = [w EXCEPT ![a] = "none"]
    /\ IF a = "setup" /\ setup.at = "initialized" THEN UNCHANGED <<conn, proc>> ELSE Abandon
    /\ pc' = IF a \in Reqs THEN [pc EXCEPT ![a] = IF @ = "write" THEN "writeErr" ELSE "ctxErr"] ELSE pc
    /\ pend' = pend \ {a}
    /\ sub' = IF a = "listen" THEN [sub EXCEPT !.linked = FALSE] ELSE sub
    /\ UNCHANGED <<kind, out, chan, ctx, setup, gen, told>>

\* awaitResponse.  Giving up tells a modern upstream, in a context of its own, unless
\* the answer has just been taken off the pending map.
AwaitCtx(r) ==
    /\ pc[r] = "wait" /\ CtxDone(r) /\ r # "listen"
    /\ pend' = pend \ {r}
    /\ IF r \in pend /\ conn.modern
       THEN /\ pc' = [pc EXCEPT ![r] = "cancel"] /\ w' = [w EXCEPT ![r] = "gate"]
            /\ ctx' = ctx \ {r}
       ELSE /\ pc' = [pc EXCEPT ![r] = "ctxErr"] /\ UNCHANGED <<w, ctx>>
    /\ UNCHANGED <<kind, conn, proc, out, chan, sub, setup, gen, told>>

Await(r) ==
    /\ pc[r] = "wait" /\ r # "listen"
    /\ \/ conn.done /\ pc' = [pc EXCEPT ![r] = "closed"]
       \/ chan[r] # "none" /\ pc' = [pc EXCEPT ![r] = "ok"]
    /\ UNCHANGED <<kind, conn, proc, out, pend, chan, ctx, w, sub, setup, gen, told>>

\* A context ends: a caller's, or the set-up's, or the bound of a probe, of a
\* cancellation notice or of a reply.
ContextEnds(x) ==
    /\ x \notin ctx
    /\ CASE x \in Callers -> pc[x] \in {"write", "wait", "cancel"}
         [] x = "setup" -> setup.at \notin {"ready", "failed"}
         [] x = "probe" -> setup.at \in {"discover", "corrected"} /\ pc["setup"] \in {"write", "wait"}
         [] x = "reply" -> w["reply"] # "none"
         [] x = "listen" -> pc["listen"] = "cancel"
    /\ ctx' = ctx \cup {x}
    /\ UNCHANGED <<kind, conn, proc, out, pend, chan, w, pc, sub, setup, gen, told>>

-----------------------------------------------------------------------------
(* negotiate *)

\* classifyDiscoverResult and classifyDiscoverRejection.
Verdict(body) ==
    CASE body \in {"modern", "modernListen"} -> "modern"
      [] body \in {"noVersions", "legacyOnly", "otherError", "tryLegacy"} -> "legacy"
      [] body = "tryModern" -> "retry"
      [] OTHER -> "explicit"

\* The next request of the set-up.
Ask(step) ==
    /\ setup' = [setup EXCEPT !.at = step]
    /\ pc' = [pc EXCEPT !["setup"] = "write"] /\ w' = [w EXCEPT !["setup"] = "gate"]
    /\ pend' = IF step = "initialized" THEN pend ELSE pend \cup {"setup"}
    /\ chan' = [chan EXCEPT !["setup"] = "none"]
    /\ ctx' = ctx \ (IF step = "corrected" THEN {} ELSE {"probe"})
    /\ UNCHANGED <<kind, conn, proc, out, sub, gen, told>>

\* negotiate gives up and closes the connection.
Fail ==
    /\ setup' = [setup EXCEPT !.at = "failed"] /\ Abandon
    /\ pc' = [pc EXCEPT !["setup"] = "idle"]
    /\ UNCHANGED <<kind, out, pend, chan, ctx, w, sub, gen, told>>

\* Close, then restartWithInitialize with a new child; the old connection's reader and
\* channels go with it.
Restart ==
    /\ setup' = [at |-> "initialize", first |-> FALSE]
    /\ conn' = NewConn /\ proc' = NewProc /\ out' = <<>>
    /\ pend' = {"setup"} /\ chan' = [chan EXCEPT !["setup"] = "none"]
    /\ pc' = [pc EXCEPT !["setup"] = "write"] /\ w' = [w EXCEPT !["setup"] = "gate"]
    /\ ctx' = {}
    /\ UNCHANGED <<kind, sub, gen, told>>

\* setUpEra ends with an error that is no verdict on the protocol: exitedBeforeSetup.
FailOrRestart == IF conn.done /\ "setup" \notin ctx /\ setup.first THEN Restart ELSE Fail

\* discover.  A deadline that has passed leaves no budget for the probe.
Probe ==
    /\ setup.at = "discover" /\ pc["setup"] = "idle"
    /\ Ask("discover") \/ ("setup" \in ctx /\ Ask("initialize"))

\* setModern, and startSubscriptionListener up to its write.
SetModern(listen) ==
    /\ setup' = [setup EXCEPT !.at = "ready"]
    /\ conn' = [conn EXCEPT !.modern = TRUE]
    /\ chan' = [chan EXCEPT !["setup"] = "none"]
    /\ pc' = [pc EXCEPT !["setup"] = "idle", !["listen"] = IF listen THEN "write" ELSE "idle"]
    /\ w' = [w EXCEPT !["listen"] = IF listen THEN "gate" ELSE "none"]
    /\ pend' = IF listen THEN {"listen"} ELSE {}
    /\ sub' = IF listen THEN [state |-> "awaitingAck", linked |-> TRUE, ended |-> FALSE] ELSE sub
    /\ ctx' = {}
    /\ UNCHANGED <<kind, proc, out, gen, told>>

ProbeFails_Gives == Fail

\* negotiate after a probe that was not answered in time, or that the child exited on.
ProbeFails == IF "setup" \in ctx THEN Fail ELSE Restart

\* setUpEra after the probe, and negotiate's reaction to its error.
ProbeReturns ==
    LET body == chan["setup"]
        verdict == Verdict(body)
    IN
    /\ setup.at = "discover" /\ pc["setup"] \in Returned
    /\ CASE pc["setup"] # "ok" -> ProbeFails
         [] pc["setup"] = "ok" /\ "setup" \in ctx -> Fail
         [] OTHER -> \/ verdict = "modern" /\ SetModern(body = "modernListen")
                     \/ verdict = "legacy" /\ Ask("initialize")
                     \/ verdict = "retry" /\ Ask("corrected")
                     \/ verdict = "explicit" /\ Fail

\* discoverCorrected: only a modern answer will do.
CorrectedReturns ==
    LET body == chan["setup"] IN
    /\ setup.at = "corrected" /\ pc["setup"] \in Returned
    /\ CASE pc["setup"] = "ok" /\ ctx \cap {"setup", "probe"} # {} -> FailOrRestart
         [] pc["setup"] = "ok" /\ ctx \cap {"setup", "probe"} = {} /\ Verdict(body) = "modern" ->
              SetModern(body = "modernListen")
         [] OTHER -> Fail

\* initialize: the answer must name a legacy version, then initialized is sent.
InitializeReturns ==
    /\ setup.at = "initialize" /\ pc["setup"] \in Returned
    /\ IF pc["setup"] = "ok" /\ chan["setup"] = "legacyVersion" THEN Ask("initialized") ELSE FailOrRestart

InitializedFails ==
    /\ setup.at = "initialized" /\ pc["setup"] \in Returned
    /\ FailOrRestart

-----------------------------------------------------------------------------
(* readLoop *)

Deliver_ToAll(r, body) ==
    /\ chan' = [x \in Reqs |-> IF x \in pend /\ pc[x] = "wait" THEN body ELSE chan[x]]
    /\ pend' = pend \ {r}

\* pending.deliver: an answer nobody waits for any more is dropped.
Deliver(r, body) ==
    /\ chan' = IF r \in pend THEN [chan EXCEPT ![r] = body] ELSE chan
    /\ pend' = pend \ {r}

NotifyToolsChanged(n) == told' = IF n > told THEN n ELSE told

\* noteSubscriptionResponse, then deliver.
TakeResponse(m) ==
    LET ends == m.id = "listen" /\ sub.linked /\ sub.state # "ended" IN
    /\ sub' = IF ends THEN [sub EXCEPT !.state = "ended"] ELSE sub
    /\ IF ends /\ sub.state = "active" /\ m.body # "error" THEN NotifyToolsChanged(m.gen) ELSE UNCHANGED told
    /\ Deliver(m.id, m.body) /\ UNCHANGED w

\* answerServerRequest: a goroutine of its own writes the reply.
AnswerServerRequest == w' = [w EXCEPT !["reply"] = "gate"] /\ UNCHANGED <<sub, told, chan, pend>>

AcknowledgeSubscription_Silent(m) ==
    /\ sub' = IF sub.linked /\ sub.state = "awaitingAck" THEN [sub EXCEPT !.state = "active"] ELSE sub
    /\ UNCHANGED <<told, w, chan, pend>>

\* The tools may have changed since they were listed, so the acknowledgement counts as
\* a change.
AcknowledgeSubscription(m) ==
    /\ IF sub.linked /\ sub.state = "awaitingAck"
       THEN sub' = [sub EXCEPT !.state = "active"] /\ NotifyToolsChanged(m.gen)
       ELSE UNCHANGED <<sub, told>>
    /\ UNCHANGED <<w, chan, pend>>

\* A modern upstream is heard only on its active subscription.
ForwardChange(m) ==
    /\ IF conn.modern => sub.linked /\ sub.state = "active" THEN NotifyToolsChanged(m.gen) ELSE UNCHANGED told
    /\ UNCHANGED <<sub, w, chan, pend>>

CancelSubscription(m) ==
    /\ IF sub.linked /\ sub.state # "ended"
       THEN /\ sub' = [sub EXCEPT !.state = "ended", !.ended = TRUE]
            /\ pend' = pend \ {"listen"}
            /\ IF sub.state = "active" THEN NotifyToolsChanged(m.gen) ELSE UNCHANGED told
       ELSE UNCHANGED <<sub, pend, told>>
    /\ UNCHANGED <<w, chan>>

\* handleMessage for the message at the head of stdout.
HandleMessage ==
    LET m == Head(out) IN
    /\ ~conn.eof /\ out # <<>>
    /\ out' = Tail(out)
    /\ \/ m.kind = "response" /\ TakeResponse(m)
       \/ m.kind = "ping" /\ AnswerServerRequest
       \/ m.kind = "ack" /\ AcknowledgeSubscription(m)
       \/ m.kind = "changed" /\ ForwardChange(m)
       \/ m.kind = "cancelled" /\ CancelSubscription(m)
    /\ UNCHANGED <<kind, conn, proc, ctx, pc, setup, gen>>

\* The end of readLoop: stdout is drained, or Wait has closed it.
ReaderEnds ==
    /\ ~conn.eof /\ ~proc.up /\ (out = <<>> \/ conn.shut)
    /\ conn' = [conn EXCEPT !.eof = TRUE, !.done = TRUE]
    /\ out' = <<>>
    /\ UNCHANGED <<kind, proc, pend, chan, ctx, w, pc, sub, setup, gen, told>>

-----------------------------------------------------------------------------
(* awaitSubscription *)

retire == sub' = [sub EXCEPT !.linked = FALSE]

SubscriptionEnds ==
    /\ pc["listen"] = "wait"
    /\ \/ chan["listen"] # "none" /\ pend' = pend       \* finishSubscription
       \/ sub.ended /\ pend' = pend                     \* clearSubscription
       \/ (conn.done \/ "listen" \in ctx) /\ pend' = pend \ {"listen"}   \* retireSubscription
    /\ retire /\ pc' = [pc EXCEPT !["listen"] = "closed"]
    /\ UNCHANGED <<kind, conn, proc, out, chan, ctx, w, setup, gen, told>>

\* withdrawUnacknowledged.
AckTimeout ==
    /\ pc["listen"] = "wait" /\ sub.state = "awaitingAck"
    /\ pend' = pend \ {"listen"} /\ retire
    /\ pc' = [pc EXCEPT !["listen"] = "cancel"] /\ w' = [w EXCEPT !["listen"] = "gate"]
    /\ UNCHANGED <<kind, conn, proc, out, chan, ctx, setup, gen, told>>

\* Close once the connection is set up; it then waits for the listener.
Close ==
    /\ setup.at = "ready" /\ ~conn.shut
    /\ Abandon /\ ctx' = ctx \cup {"listen"}
    /\ UNCHANGED <<kind, out, pend, chan, w, pc, sub, setup, gen, told>>

-----------------------------------------------------------------------------
(* The child *)

Say(m) == out' = Append(out, m)
Msg(k, r, body) == [kind |-> k, id |-> r, body |-> body, gen |-> gen]

child == <<kind, conn, pend, chan, ctx, w, pc, sub, setup, told>>

\* The answers a program of this kind gives to a request.  An error stands for a
\* result of unknown type too, which a modern connection returns as an error.
Answers(r) ==
    CASE r = "setup" /\ setup.at = "discover" ->
           CASE kind = "modern" -> {"modernListen"}
             [] kind = "faulty" -> {"modern"}
             [] kind = "legacy" -> {"otherError", "noVersions", "legacyOnly", "tryLegacy"}
             [] kind = "odd" -> Bodies \ {"legacyVersion", "result", "error"}
             [] OTHER -> {}
      [] r = "setup" /\ setup.at = "corrected" ->
           {"modern", "modernListen", "legacyOnly", "incomplete", "otherError"}
      [] r = "setup" /\ setup.at = "initialize" ->
           {"legacyVersion"} \cup (IF kind = "odd" THEN {"error"} ELSE {})
      [] OTHER -> {"result", "error"}

ChildAnswers ==
    /\ proc.up
    /\ \E r \in proc.inbox : \E body \in Answers(r) :
         /\ Say(Msg("response", r, body))
         /\ proc' = [proc EXCEPT !.inbox = @ \ {r}, !.ran = IF r \in Callers THEN @ \cup {r} ELSE @,
                                 !.sub = IF r = "listen" THEN "over" ELSE @]
    /\ UNCHANGED gen /\ UNCHANGED child

\* A modern upstream acknowledges a subscription before it announces changes on it,
\* and may end it; any upstream may ping once.
ChildNotifies ==
    /\ proc.up
    /\ \/ /\ "listen" \in proc.inbox /\ proc.sub = "none"
          /\ Say(Msg("ack", "listen", "none")) /\ proc' = [proc EXCEPT !.sub = "acked"]
          /\ UNCHANGED gen
       \/ /\ "listen" \in proc.inbox /\ proc.sub = "acked"
          /\ Say(Msg("cancelled", "listen", "none"))
          /\ proc' = [proc EXCEPT !.sub = "over", !.inbox = @ \ {"listen"}]
          /\ UNCHANGED gen
       \/ /\ setup.at = "ready" /\ gen < MaxChanges /\ gen' = gen + 1
          /\ out' = IF ~conn.modern \/ proc.sub = "acked"
                    THEN Append(out, [kind |-> "changed", id |-> "listen", body |-> "none", gen |-> gen + 1])
                    ELSE out
          /\ UNCHANGED proc
       \/ /\ ~proc.pinged /\ setup.at = "ready" /\ kind = "legacy"
          /\ Say(Msg("ping", "reply", "none"))
          /\ proc' = [proc EXCEPT !.pinged = TRUE]
          /\ UNCHANGED gen
    /\ UNCHANGED child

\* A program that misbehaves exits, or stops reading its stdin.
ChildMisbehaves ==
    /\ kind \in {"faulty", "odd"} /\ proc.up
    /\ \/ proc' = [proc EXCEPT !.up = FALSE]
       \/ proc.reading /\ proc' = [proc EXCEPT !.reading = FALSE]
    /\ UNCHANGED <<out, gen>> /\ UNCHANGED child

-----------------------------------------------------------------------------
Setup == Probe \/ ProbeReturns \/ CorrectedReturns \/ InitializeReturns \/ InitializedFails
Writes(a) == LockWrite(a) \/ WriteWhole(a) \/ WriteFails(a) \/ AfterFailedWrite(a)
Reader == HandleMessage \/ ReaderEnds
Listener == SubscriptionEnds \/ AckTimeout
Child == ChildAnswers \/ ChildNotifies \/ ChildMisbehaves

Next ==
    \/ Setup \/ Reader \/ Listener \/ Close \/ Child
    \/ \E c \in Callers : Call(c)
    \/ \E r \in Reqs : AwaitCtx(r) \/ Await(r)
    \/ \E a \in Writers : Writes(a)
    \/ \E x \in Writers \cup {"probe"} : ContextEnds(x)

\* mini's goroutines run on, and bounds of its own expire; a child that reads its
\* stdin or answers does so only if it is well behaved, and callers need not give up.
Fairness ==
    /\ WF_vars(Setup) /\ WF_vars(HandleMessage) /\ WF_vars(ReaderEnds) /\ WF_vars(SubscriptionEnds)
    /\ \A a \in Writers : WF_vars(LockWrite(a)) /\ WF_vars(WriteWhole(a)) /\ WF_vars(WriteFails(a))
                          /\ WF_vars(AfterFailedWrite(a))
    /\ \A r \in Reqs : WF_vars(AwaitCtx(r)) /\ WF_vars(Await(r))
    /\ WF_vars(ContextEnds("probe")) /\ WF_vars(ContextEnds("reply")) /\ WF_vars(ContextEnds("listen"))
    /\ \A c \in Callers : WF_vars(pc[c] = "cancel" /\ ContextEnds(c))
    /\ WF_vars(kind \notin {"faulty", "odd"} /\ ChildAnswers)

Spec == Init /\ [][Next]_vars /\ Fairness

-----------------------------------------------------------------------------
(* What the connection promises *)

\* connection.go's promise of Call: stdio calls that share a write gate, a pending map and
\* a child keep it, whoever is cancelled in the middle of a write and however the
\* connection ends.
CallState(c) ==
    CASE pc[c] = "idle" -> "idle"
      [] pc[c] \in {"write", "wait", "cancel"} -> "open"
      [] pc[c] = "ok" /\ chan[c] = "result" -> "answered"
      [] OTHER -> "failed"

Promise == INSTANCE CallPromise WITH
    call <- [c \in Callers |-> CallState(c)],
    ran <- [c \in Callers |-> IF c \in proc.ran THEN 1 ELSE 0],
    quit <- {c \in Callers : c \in ctx \/ pc[c] = "cancel" \/ pc[c] = "ctxErr"},
    cut <- IF conn.done THEN Callers ELSE {}

\* Calls of a stdio connection implement the promise of Connection.Call.
CallsKeepPromise == Promise!Spec

\* No call is left hanging: it returns when its context ends, also while it waits for the
\* write gate behind a write the child does not read, when the connection closes, and
\* when its request was swallowed by the torn line of a call that was cancelled mid-write.
NoCallHangs ==
    \A c \in Callers :
        (pc[c] \in {"write", "wait", "cancel"} /\ (c \in ctx \/ conn.done \/ c \in proc.swallowed))
            ~> pc[c] \in Returned

\* While the connection is open, the subscription active and all the upstream said read,
\* the handler has been told of the newest tools, those changed before the upstream's
\* acknowledgement included.
SubscribedIsTold ==
    (~conn.done /\ sub.linked /\ sub.state = "active" /\ out = <<>>) => told = gen

\* A legacy server is connected to, whether it refuses the modern probe, ignores it or
\* exits on it, unless the caller's time runs out.
LegacyServed == kind \in {"legacy", "silent", "exits"} ~> (setup.at = "ready" \/ "setup" \in ctx)
=============================================================================
