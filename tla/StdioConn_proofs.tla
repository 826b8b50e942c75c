--------------------------- MODULE StdioConn_proofs ---------------------------
(***************************************************************************)
(* Proofs about connections to a subprocess, for any number of callers and *)
(* of changes of the tools.                                                *)
(***************************************************************************)
EXTENDS StdioConn, TLAPS

-----------------------------------------------------------------------------
(* The inductive invariant *)

\* Nobody calls before NewStdioConnection has returned the connection.
Unused(c) ==
    /\ pc[c] = "idle" /\ w[c] = "none" /\ chan[c] = "none" /\ c \notin ctx /\ c \notin pend
    /\ c \notin proc.inbox /\ c \notin proc.ran
NoneCallsEarly == setup.at # "ready" => \A c \in Callers : Unused(c)

\* A request is read once, after it was written; its answer is taken off the pending map
\* with the delivery and is that of the run.
CallsInOrder ==
    \A c \in Callers :
        /\ pc[c] \in {"idle", "write"} => c \notin proc.inbox /\ c \notin proc.ran
        /\ c \in proc.inbox => c \notin proc.ran
        /\ w[c] # "none" => pc[c] \in {"write", "cancel"}
        /\ chan[c] # "none" => c \in proc.ran /\ c \notin pend /\ chan[c] \in {"result", "error"}
        /\ pc[c] = "ok" => chan[c] # "none"

\* The child answers requests it ran.
IsAnswer(m) == m.kind = "response" /\ m.id \in Callers => m.id \in proc.ran /\ m.body \in {"result", "error"}
AnswersFollowRuns == \A i \in 1 .. Len(out) : IsAnswer(out[i])

\* What the upstream may still have to say of the subscription: its end, or the newest tools.
Ends(m) == m.kind = "cancelled" \/ (m.kind = "response" /\ m.id = "listen")
Settles(m) == Ends(m) \/ (m.kind = "changed" /\ m.gen = gen)

\* The subscription listener owns the link, and lets go of it when it stops waiting.
ListenerLinks ==
    /\ sub.linked => pc["listen"] \in {"write", "wait"}
    /\ w["listen"] # "none" => pc["listen"] \in {"write", "cancel"}
    /\ setup.at # "ready" =>
         /\ ~sub.linked /\ pc["listen"] = "idle" /\ w["listen"] = "none"
         /\ proc.sub = "none" /\ "listen" \notin proc.inbox

\* A subscription is acknowledged before it is active, and one that the upstream has ended ends
\* for mini with a message that is still to be read.
EndIsSaid ==
    /\ proc.sub = "none" => \A i \in 1 .. Len(out) : out[i].kind # "ack"
    /\ sub.linked /\ sub.state = "active" => proc.sub # "none"
    /\ sub.linked /\ sub.state # "ended" /\ ~conn.done /\ proc.sub = "over"
         => \E j \in 1 .. Len(out) :
              Ends(out[j]) /\ \A i \in 1 .. Len(out) : out[i].kind = "ack" => i < j

\* Whatever changed since the upstream's acknowledgement is told, or will be read.
ChangeIsSaid ==
    sub.linked /\ ~conn.done =>
        /\ sub.state = "active" => told = gen \/ \E j \in 1 .. Len(out) : Settles(out[j])
        /\ sub.state = "awaitingAck" =>
             \A i \in 1 .. Len(out) : out[i].kind = "ack" =>
                 out[i].gen = gen \/ \E j \in i .. Len(out) : Settles(out[j])

\* Nothing is told or said of tools that are not there yet.
NothingAhead == told <= gen /\ \A i \in 1 .. Len(out) : out[i].gen <= gen

IInv ==
    /\ TypeOK /\ NoneCallsEarly /\ CallsInOrder /\ AnswersFollowRuns
    /\ ListenerLinks /\ EndIsSaid /\ ChangeIsSaid /\ NothingAhead

-----------------------------------------------------------------------------
(* Types *)

\* The names and values the steps use are in their sets.
LEMMA Domains ==
    /\ Callers \subseteq Reqs /\ {"setup", "listen"} \subseteq Reqs /\ Reqs \subseteq Writers /\ "reply" \in Writers
    /\ {"idle", "write", "wait", "cancel", "ok", "ctxErr", "closed", "writeErr"} \subseteq Stages
    /\ {"none", "gate", "writing", "failed"} \subseteq WriteStages
    /\ {"setup", "listen", "reply", "probe"} \cap Callers = {} /\ "reply" \notin Reqs /\ "probe" \notin Writers
BY StdioAssumption DEF Reqs, Writers, Stages, Returned, WriteStages

\* Whatever a step of the set-up decides, it asks on, gives up, begins anew or is done.
LEMMA SetupSteps ==
    ASSUME Setup
    PROVE  /\ setup.at # "ready"
           /\ \/ Fail \/ Restart \/ \E listen \in BOOLEAN : SetModern(listen)
              \/ \E step \in {"discover", "corrected", "initialize", "initialized"} : Ask(step)
<1>1. CASE Probe BY <1>1 DEF Probe
<1>2. CASE ProbeReturns BY <1>2 DEF ProbeReturns, ProbeFails
<1>3. CASE CorrectedReturns BY <1>3 DEF CorrectedReturns, FailOrRestart
<1>4. CASE InitializeReturns BY <1>4 DEF InitializeReturns, FailOrRestart
<1>5. CASE InitializedFails BY <1>5 DEF InitializedFails, FailOrRestart
<1> QED BY <1>1, <1>2, <1>3, <1>4, <1>5 DEF Setup

\* The records a connection ends or begins with are of their types.
LEMMA AbandonTyped == ASSUME TypeOK, Abandon PROVE conn' \in Conns /\ proc' \in Processes
BY DEF TypeOK, Abandon, Conns, Processes

LEMMA FreshTyped == NewConn \in Conns /\ NewProc \in Processes
BY DEF NewConn, NewProc, Conns, Processes

\* What the child says is a message.
LEMMA SaidTyped ==
    ASSUME TypeOK, NEW k \in {"response", "ack", "cancelled", "changed", "ping"}, NEW r \in Writers,
           NEW body \in Bodies \cup {"none"}, Say(Msg(k, r, body))
    PROVE  out' \in Seq(Messages)
<1>1. Msg(k, r, body) \in Messages BY DEF Msg, Messages, TypeOK
<1> QED BY <1>1 DEF Say, TypeOK

\* Every step keeps the types.
LEMMA KeepsTypeOK ==
    ASSUME TypeOK, [Next]_vars PROVE TypeOK'
<1> USE DEF TypeOK
<1>d. /\ \A r \in Reqs : r \in Writers
      /\ "setup" \in Reqs /\ "listen" \in Reqs /\ "reply" \in Writers /\ Callers \subseteq Reqs
      /\ {"idle", "write", "wait", "cancel", "ok", "ctxErr", "closed", "writeErr"} \subseteq Stages
      /\ {"none", "gate", "writing", "failed"} \subseteq WriteStages /\ "none" \in Bodies \cup {"none"}
  BY Domains
<1>1. CASE Setup
  <2>1. CASE Fail
    <3>1. [setup EXCEPT !.at = "failed"] \in Setups BY DEF Setups
    <3> QED BY <1>d, <2>1, <3>1, AbandonTyped DEF Fail
  <2>2. CASE Restart
    <3>1. [at |-> "initialize", first |-> FALSE] \in Setups BY DEF Setups
    <3> QED BY <1>d, <2>2, <3>1, FreshTyped DEF Restart
  <2>3. ASSUME NEW listen \in BOOLEAN, SetModern(listen) PROVE TypeOK'
    <3>1. [setup EXCEPT !.at = "ready"] \in Setups BY DEF Setups
    <3>2. [conn EXCEPT !.modern = TRUE] \in Conns BY DEF Conns
    <3>3. sub' \in Subscriptions BY <2>3 DEF SetModern, Subscriptions
    <3>4. pc' \in [Reqs -> Stages] /\ w' \in [Writers -> WriteStages] BY <1>d, <2>3 DEF SetModern
    <3> QED BY <1>d, <2>3, <3>1, <3>2, <3>3, <3>4 DEF SetModern
  <2>4. ASSUME NEW step \in {"discover", "corrected", "initialize", "initialized"}, Ask(step) PROVE TypeOK'
    <3>1. [setup EXCEPT !.at = step] \in Setups BY DEF Setups
    <3>2. ctx' \subseteq Writers \cup {"probe"} BY <2>4 DEF Ask
    <3> QED BY <1>d, <2>4, <3>1, <3>2 DEF Ask
  <2> QED BY <1>1, <2>1, <2>2, <2>3, <2>4, SetupSteps
<1>2. CASE HandleMessage
  <2>1. Head(out) \in Messages /\ Tail(out) \in Seq(Messages) BY <1>2 DEF HandleMessage
  <2>2. Head(out).gen \in 0 .. MaxChanges /\ Head(out).body \in Bodies \cup {"none"} BY <2>1 DEF Messages
  <2>3. told' \in 0 .. MaxChanges
    BY <1>2, <2>2
    DEF HandleMessage, TakeResponse, AnswerServerRequest, AcknowledgeSubscription, ForwardChange, CancelSubscription,
        NotifyToolsChanged
  <2>4. chan' \in [Reqs -> Bodies \cup {"none"}] /\ pend' \subseteq Reqs
    BY <1>2, <2>2
    DEF HandleMessage, TakeResponse, AnswerServerRequest, AcknowledgeSubscription, ForwardChange, CancelSubscription,
        Deliver
  <2>5. sub' \in Subscriptions
    <3>1. /\ [sub EXCEPT !.state = "ended"] \in Subscriptions /\ [sub EXCEPT !.state = "active"] \in Subscriptions
          /\ [sub EXCEPT !.state = "ended", !.ended = TRUE] \in Subscriptions
      BY DEF Subscriptions
    <3> QED BY <1>2, <3>1
        DEF HandleMessage, TakeResponse, AnswerServerRequest, AcknowledgeSubscription, ForwardChange, CancelSubscription
  <2>6. w' \in [Writers -> WriteStages]
    BY <1>d, <1>2
    DEF HandleMessage, TakeResponse, AnswerServerRequest, AcknowledgeSubscription, ForwardChange, CancelSubscription
  <2> QED BY <1>2, <2>1, <2>3, <2>4, <2>5, <2>6 DEF HandleMessage
<1>3. CASE ReaderEnds
  <2>1. [conn EXCEPT !.eof = TRUE, !.done = TRUE] \in Conns BY DEF Conns
  <2> QED BY <1>3, <2>1 DEF ReaderEnds
<1>4. CASE SubscriptionEnds
  <2>1. [sub EXCEPT !.linked = FALSE] \in Subscriptions BY DEF Subscriptions
  <2> QED BY <1>d, <1>4, <2>1 DEF SubscriptionEnds, retire
<1>5. CASE AckTimeout
  <2>1. [sub EXCEPT !.linked = FALSE] \in Subscriptions BY DEF Subscriptions
  <2> QED BY <1>d, <1>5, <2>1 DEF AckTimeout, retire
<1>6. CASE Close BY <1>d, <1>6, AbandonTyped DEF Close
<1>7. CASE ChildAnswers
  <2>0. PICK r \in proc.inbox : \E body \in Answers(r) :
          /\ Say(Msg("response", r, body))
          /\ proc' = [proc EXCEPT !.inbox = @ \ {r}, !.ran = IF r \in Callers THEN @ \cup {r} ELSE @,
                                  !.sub = IF r = "listen" THEN "over" ELSE @]
    BY <1>7 DEF ChildAnswers
  <2>1. PICK body \in Answers(r) :
          /\ Say(Msg("response", r, body))
          /\ proc' = [proc EXCEPT !.inbox = @ \ {r}, !.ran = IF r \in Callers THEN @ \cup {r} ELSE @,
                                  !.sub = IF r = "listen" THEN "over" ELSE @]
    BY <2>0
  <2>2. r \in Reqs BY DEF Processes
  <2>3. body \in Bodies BY DEF Answers, Bodies
  <2>4. out' \in Seq(Messages) BY <1>d, <2>1, <2>2, <2>3, SaidTyped
  <2>5. proc' \in Processes
    <3> DEFINE ran == IF r \in Callers THEN proc.ran \cup {r} ELSE proc.ran
               over == IF r = "listen" THEN "over" ELSE proc.sub
    <3>1. ran \in SUBSET Callers /\ over \in {"none", "acked", "over"} /\ proc.inbox \ {r} \in SUBSET Reqs
      BY DEF Processes
    <3>2. proc' = [proc EXCEPT !.inbox = proc.inbox \ {r}, !.ran = ran, !.sub = over] BY <2>1 DEF Processes
    <3> HIDE DEF ran, over
    <3> QED BY <3>1, <3>2 DEF Processes
  <2> QED BY <1>7, <2>4, <2>5 DEF ChildAnswers, child
<1>8. CASE ChildNotifies
  <2>1. proc' \in Processes
    <3>1. /\ [proc EXCEPT !.sub = "acked"] \in Processes /\ [proc EXCEPT !.pinged = TRUE] \in Processes
          /\ [proc EXCEPT !.sub = "over", !.inbox = @ \ {"listen"}] \in Processes
      BY DEF Processes
    <3> QED BY <1>8, <3>1 DEF ChildNotifies
  <2>2. gen' \in 0 .. MaxChanges
    <3>1. MaxChanges \in Nat BY StdioAssumption
    <3>2. gen' = gen \/ (gen < MaxChanges /\ gen' = gen + 1) BY <1>8 DEF ChildNotifies
    <3> QED BY <3>1, <3>2
  <2>3. out' \in Seq(Messages)
    <3>1. ASSUME gen < MaxChanges
          PROVE  [kind |-> "changed", id |-> "listen", body |-> "none", gen |-> gen + 1] \in Messages
      BY <1>d, <3>1, StdioAssumption DEF Messages
    <3>2. \A m \in Messages : Append(out, m) \in Seq(Messages) OBVIOUS
    <3> QED BY <1>d, <1>8, <3>1, <3>2, SaidTyped DEF ChildNotifies
  <2> QED BY <1>8, <2>1, <2>2, <2>3 DEF ChildNotifies, child
<1>9. CASE ChildMisbehaves
  <2>1. [proc EXCEPT !.up = FALSE] \in Processes /\ [proc EXCEPT !.reading = FALSE] \in Processes BY DEF Processes
  <2> QED BY <1>9, <2>1 DEF ChildMisbehaves, child
<1>10. ASSUME NEW c \in Callers, Call(c) PROVE TypeOK'
  BY <1>d, <1>10 DEF Call, Rpc
<1>11. ASSUME NEW r \in Reqs, AwaitCtx(r) PROVE TypeOK'
  BY <1>d, <1>11 DEF AwaitCtx
<1>12. ASSUME NEW r \in Reqs, Await(r) PROVE TypeOK'
  BY <1>d, <1>12 DEF Await
<1>13. ASSUME NEW a \in Writers, LockWrite(a) PROVE TypeOK'
  <2>1. [conn EXCEPT !.gate = a] \in Conns BY DEF Conns
  <2>2. [sub EXCEPT !.linked = FALSE] \in Subscriptions BY DEF Subscriptions
  <2>3. CASE NeverStarted(a) /\ UNCHANGED conn
    <3>1. pc' \in [Reqs -> Stages] /\ w' \in [Writers -> WriteStages] BY <1>d, <2>3 DEF NeverStarted
    <3>2. pend' \subseteq Reqs /\ sub' \in Subscriptions BY <2>2, <2>3 DEF NeverStarted
    <3> QED BY <1>13, <2>3, <3>1, <3>2 DEF LockWrite
  <2>4. CASE ~(NeverStarted(a) /\ UNCHANGED conn) BY <1>d, <1>13, <2>1, <2>4 DEF LockWrite
  <2> QED BY <2>3, <2>4
<1>14. ASSUME NEW a \in Writers, WriteWhole(a) PROVE TypeOK'
  <2>1. [conn EXCEPT !.gate = NoOne, !.torn = FALSE] \in Conns BY DEF Conns
  <2>2. [setup EXCEPT !.at = "ready"] \in Setups BY DEF Setups
  <2>3. ChildReads(a) \in Processes
    <3> DEFINE isRequest == a \in Reqs /\ pc[a] = "write" /\ ~(a = "setup" /\ setup.at = "initialized")
               swallowed == IF isRequest THEN proc.swallowed \cup ({a} \cap Callers) ELSE proc.swallowed
               up == ~(kind = "exits" /\ setup.at = "discover")
               over == IF a = "listen" THEN "over" ELSE proc.sub
    <3>1. /\ swallowed \in SUBSET Callers /\ over \in {"none", "acked", "over"} /\ up \in BOOLEAN
          /\ isRequest => proc.inbox \cup {a} \in SUBSET Reqs
          /\ proc.inbox \ {a} \in SUBSET Reqs
      BY DEF Processes
    <3>2. CASE conn.torn
      <4>1. ChildReads(a) = [proc EXCEPT !.swallowed = swallowed] BY <3>2 DEF ChildReads
      <4> HIDE DEF isRequest, swallowed
      <4> QED BY <3>1, <4>1 DEF Processes
    <3>3. CASE ~conn.torn /\ isRequest
      <4>1. ChildReads(a) = [proc EXCEPT !.inbox = @ \cup {a}, !.up = up] BY <3>3 DEF ChildReads
      <4>2. proc.inbox \cup {a} \in SUBSET Reqs BY <3>1, <3>3
      <4> HIDE DEF isRequest, up
      <4> QED BY <3>1, <4>1, <4>2 DEF Processes
    <3>4. CASE ~conn.torn /\ ~isRequest
      <4>1. ChildReads(a) = [proc EXCEPT !.inbox = @ \ {a}, !.sub = over] BY <3>4 DEF ChildReads, Processes
      <4> HIDE DEF isRequest, over
      <4> QED BY <3>1, <4>1 DEF Processes
    <3> QED BY <3>2, <3>3, <3>4
  <2> QED BY <1>d, <1>14, <2>1, <2>2, <2>3 DEF WriteWhole
<1>15. ASSUME NEW a \in Writers, WriteFails(a) PROVE TypeOK'
  <2>1. \A torn \in BOOLEAN : [conn EXCEPT !.gate = NoOne, !.torn = torn] \in Conns BY DEF Conns
  <2>2. [conn EXCEPT !.gate = NoOne] \in Conns /\ {conn.torn, TRUE} \subseteq BOOLEAN BY DEF Conns
  <2> QED BY <1>d, <1>15, <2>1, <2>2 DEF WriteFails
<1>16. ASSUME NEW a \in Writers, AfterFailedWrite(a) PROVE TypeOK'
  <2>1. [sub EXCEPT !.linked = FALSE] \in Subscriptions BY DEF Subscriptions
  <2>2. conn' \in Conns /\ proc' \in Processes BY <1>16, AbandonTyped DEF AfterFailedWrite
  <2> QED BY <1>d, <1>16, <2>1, <2>2 DEF AfterFailedWrite
<1>17. ASSUME NEW x \in Writers \cup {"probe"}, ContextEnds(x) PROVE TypeOK'
  BY <1>17 DEF ContextEnds
<1>18. CASE UNCHANGED vars BY <1>18 DEF vars
<1> QED BY <1>1, <1>2, <1>3, <1>4, <1>5, <1>6, <1>7, <1>8, <1>9, <1>10, <1>11, <1>12, <1>13, <1>14, <1>15,
           <1>16, <1>17, <1>18
        DEF Next, Reader, Listener, Child, Writes

-----------------------------------------------------------------------------
(* What a step does to the calls *)

\* The step leaves the calls of all callers in S as they are.
Untouched(S) ==
    \A c \in S :
        /\ pc'[c] = pc[c] /\ w'[c] = w[c] /\ chan'[c] = chan[c]
        /\ c \in ctx' <=> c \in ctx
        /\ c \in pend' => c \in pend
        /\ c \in proc'.inbox => c \in proc.inbox
        /\ c \in proc'.ran <=> c \in proc.ran

\* The steps that are about the call of one caller.
Delivers(c) == HandleMessage /\ Head(out).kind = "response" /\ Head(out).id = c
Answered(c) ==
    /\ c \in proc.inbox /\ UNCHANGED <<gen, child>>
    /\ \E body \in {"result", "error"} : Say(Msg("response", c, body))
    /\ proc' = [proc EXCEPT !.inbox = @ \ {c}, !.ran = @ \cup {c}]
OfCaller(c) ==
    Call(c) \/ AwaitCtx(c) \/ Await(c) \/ Writes(c) \/ ContextEnds(c) \/ Delivers(c) \/ Answered(c)

\* All other steps leave the calls alone, and none but Restart lets the child forget what it ran.
LEMMA OtherSteps ==
    ASSUME TypeOK, NoneCallsEarly, [Next]_vars, \A c \in Callers : ~OfCaller(c)
    PROVE  Untouched(Callers) /\ (setup'.at # "ready" => setup.at # "ready")
<1> DEFINE Alone == Untouched(Callers) /\ (setup'.at # "ready" => setup.at # "ready")
<1> USE DEF TypeOK, Untouched
<1>d. /\ \A c \in Callers : c \in Reqs /\ c \in Writers /\ c \notin {"setup", "listen", "reply", "probe"}
      /\ "setup" \in Reqs /\ "listen" \in Reqs /\ "reply" \in Writers
  BY Domains
<1>a. ASSUME Abandon PROVE proc'.ran = proc.ran /\ proc'.inbox = {} BY <1>a DEF Abandon, Processes
<1>1. CASE Setup
  <2>1. setup.at # "ready" /\ \A c \in Callers : Unused(c) BY <1>1, SetupSteps DEF NoneCallsEarly
  <2>2. CASE Fail BY <1>a, <1>d, <2>1, <2>2 DEF Fail
  <2>3. CASE Restart
    <3>1. proc'.ran = {} /\ proc'.inbox = {} BY <2>3 DEF Restart, NewProc
    <3> QED BY <1>d, <2>1, <2>3, <3>1 DEF Restart, Unused
  <2>4. ASSUME NEW listen \in BOOLEAN, SetModern(listen) PROVE Alone
    BY <1>d, <2>1, <2>4 DEF SetModern, Unused
  <2>5. ASSUME NEW step \in {"discover", "corrected", "initialize", "initialized"}, Ask(step) PROVE Alone
    BY <1>d, <2>1, <2>5 DEF Ask
  <2> QED BY <1>1, <2>2, <2>3, <2>4, <2>5, SetupSteps
<1>2. CASE HandleMessage
  <2>1. Head(out).kind = "response" => Head(out).id \notin Callers BY <1>2 DEF OfCaller, Delivers
  <2>2. \A c \in Callers : chan'[c] = chan[c] /\ (c \in pend' => c \in pend) /\ w'[c] = w[c]
    BY <1>d, <1>2, <2>1
    DEF HandleMessage, TakeResponse, AnswerServerRequest, AcknowledgeSubscription, ForwardChange, CancelSubscription,
        Deliver
  <2> QED BY <1>2, <2>2 DEF HandleMessage
<1>3. CASE ReaderEnds BY <1>3 DEF ReaderEnds
<1>4. CASE SubscriptionEnds BY <1>d, <1>4 DEF SubscriptionEnds
<1>5. CASE AckTimeout BY <1>d, <1>5 DEF AckTimeout
<1>6. CASE Close BY <1>a, <1>d, <1>6 DEF Close
<1>7. CASE ChildAnswers
  <2>0. PICK r \in proc.inbox : \E body \in Answers(r) :
          /\ Say(Msg("response", r, body))
          /\ proc' = [proc EXCEPT !.inbox = @ \ {r}, !.ran = IF r \in Callers THEN @ \cup {r} ELSE @,
                                  !.sub = IF r = "listen" THEN "over" ELSE @]
    BY <1>7 DEF ChildAnswers
  <2>1. r \notin Callers
    <3> SUFFICES ASSUME r \in Callers PROVE Answered(r) BY DEF OfCaller
    <3>1. Answers(r) = {"result", "error"} BY <1>d DEF Answers
    <3>2. proc' = [proc EXCEPT !.inbox = @ \ {r}, !.ran = @ \cup {r}] BY <1>d, <2>0 DEF Processes
    <3> QED BY <1>7, <2>0, <3>1, <3>2 DEF Answered, ChildAnswers
  <2>2. proc'.ran = proc.ran /\ proc'.inbox \subseteq proc.inbox BY <2>0, <2>1 DEF Processes
  <2> QED BY <1>7, <2>2 DEF ChildAnswers, child
<1>8. CASE ChildNotifies
  <2>1. proc'.ran = proc.ran /\ proc'.inbox \subseteq proc.inbox BY <1>8 DEF ChildNotifies, Processes
  <2> QED BY <1>8, <2>1 DEF ChildNotifies, child
<1>9. CASE ChildMisbehaves
  <2>1. proc'.ran = proc.ran /\ proc'.inbox = proc.inbox BY <1>9 DEF ChildMisbehaves, Processes
  <2> QED BY <1>9, <2>1 DEF ChildMisbehaves, child
<1>10. ASSUME NEW c \in Callers, Call(c) PROVE FALSE BY <1>10 DEF OfCaller
<1>11. ASSUME NEW r \in Reqs, AwaitCtx(r) PROVE Alone
  <2>1. r \notin Callers BY <1>11 DEF OfCaller
  <2> QED BY <1>d, <1>11, <2>1 DEF AwaitCtx
<1>12. ASSUME NEW r \in Reqs, Await(r) PROVE Alone
  <2>1. r \notin Callers BY <1>12 DEF OfCaller
  <2> QED BY <1>d, <1>12, <2>1 DEF Await
<1>13. ASSUME NEW a \in Writers, Writes(a) PROVE Alone
  <2>1. a \notin Callers BY <1>13 DEF OfCaller
  <2>2. CASE LockWrite(a) BY <1>d, <2>1, <2>2 DEF LockWrite, NeverStarted
  <2>3. CASE WriteWhole(a)
    <3>1. \A c \in Callers : (c \in ChildReads(a).inbox => c \in proc.inbox) /\ ChildReads(a).ran = proc.ran
      BY <2>1 DEF ChildReads, Processes
    <3>2. setup'.at # "ready" => setup.at # "ready" BY <2>3 DEF WriteWhole
    <3>3. \A c \in Callers : pc'[c] = pc[c] /\ w'[c] = w[c] BY <1>d, <2>1, <2>3 DEF WriteWhole
    <3> QED BY <2>3, <3>1, <3>2, <3>3 DEF WriteWhole
  <2>4. CASE WriteFails(a) BY <1>d, <2>1, <2>4 DEF WriteFails
  <2>5. CASE AfterFailedWrite(a) BY <1>a, <1>d, <2>1, <2>5 DEF AfterFailedWrite
  <2> QED BY <1>13, <2>2, <2>3, <2>4, <2>5 DEF Writes
<1>14. ASSUME NEW x \in Writers \cup {"probe"}, ContextEnds(x) PROVE Alone
  <2>1. x \notin Callers BY <1>14 DEF OfCaller
  <2> QED BY <1>14, <2>1 DEF ContextEnds
<1>15. CASE UNCHANGED vars BY <1>15 DEF vars
<1> QED BY <1>1, <1>2, <1>3, <1>4, <1>5, <1>6, <1>7, <1>8, <1>9, <1>10, <1>11, <1>12, <1>13, <1>14, <1>15
        DEF Next, Reader, Listener, Child

\* A step that leaves the calls alone keeps their order.
LEMMA UntouchedKeep ==
    ASSUME NoneCallsEarly, CallsInOrder, Untouched(Callers), setup'.at # "ready" => setup.at # "ready"
    PROVE  NoneCallsEarly' /\ CallsInOrder'
<1>1. NoneCallsEarly' BY DEF NoneCallsEarly, Unused, Untouched
<1>2. CallsInOrder' BY DEF CallsInOrder, Untouched
<1> QED BY <1>1, <1>2

\* A step of one caller keeps it.
LEMMA CallerKeeps ==
    ASSUME TypeOK, NoneCallsEarly, CallsInOrder, AnswersFollowRuns, NEW c \in Callers, OfCaller(c)
    PROVE  NoneCallsEarly' /\ CallsInOrder'
<1> USE DEF TypeOK
<1>d. c \in Reqs /\ c \in Writers /\ c \notin {"setup", "listen", "reply", "probe"} /\ Callers \subseteq Reqs /\ Callers \subseteq Writers
  BY Domains
<1>s. setup.at = "ready" /\ setup' = setup => NoneCallsEarly' BY DEF NoneCallsEarly
<1>u. setup.at # "ready" => Unused(c) BY DEF NoneCallsEarly
<1>1. CASE Call(c)
  <2>1. CallsInOrder' BY <1>1, <1>d DEF CallsInOrder, Call, Rpc
  <2> QED BY <1>1, <1>s, <2>1 DEF Call
<1>2. CASE AwaitCtx(c)
  <2>1. CallsInOrder' BY <1>2, <1>d DEF CallsInOrder, AwaitCtx
  <2> QED BY <1>2, <1>s, <1>u, <2>1 DEF AwaitCtx, Unused
<1>3. CASE Await(c)
  <2>1. CallsInOrder' BY <1>3, <1>d DEF CallsInOrder, Await
  <2> QED BY <1>3, <1>s, <1>u, <2>1 DEF Await, Unused
<1>4. CASE LockWrite(c)
  <2>1. CallsInOrder' BY <1>4, <1>d DEF CallsInOrder, LockWrite, NeverStarted
  <2> QED BY <1>4, <1>s, <1>u, <2>1 DEF LockWrite, Unused
<1>5. CASE WriteWhole(c)
  <2>1. /\ proc'.ran = proc.ran /\ proc'.inbox \subseteq proc.inbox \cup {c}
        /\ pc[c] # "write" /\ c \in proc'.inbox => c \in proc.inbox
    BY <1>5, <1>d DEF WriteWhole, ChildReads, Processes
  <2>2. pc' = [pc EXCEPT ![c] = IF @ = "write" THEN "wait" ELSE "ctxErr"] /\ UNCHANGED setup
    BY <1>5, <1>d DEF WriteWhole
  <2>3. CallsInOrder' BY <1>5, <1>d, <2>1, <2>2 DEF CallsInOrder, WriteWhole
  <2> QED BY <1>5, <1>s, <1>u, <2>2, <2>3 DEF WriteWhole, Unused
<1>6. CASE WriteFails(c)
  <2>1. CallsInOrder' BY <1>6, <1>d DEF CallsInOrder, WriteFails
  <2> QED BY <1>6, <1>s, <1>u, <2>1 DEF WriteFails, Unused
<1>7. CASE AfterFailedWrite(c)
  <2>1. proc'.ran = proc.ran /\ proc'.inbox = {} BY <1>7, <1>d DEF AfterFailedWrite, Abandon, Processes
  <2>2. CallsInOrder' BY <1>7, <1>d, <2>1 DEF CallsInOrder, AfterFailedWrite
  <2> QED BY <1>7, <1>s, <1>u, <2>2 DEF AfterFailedWrite, Unused
<1>8. CASE ContextEnds(c)
  <2>1. CallsInOrder' BY <1>8 DEF CallsInOrder, ContextEnds
  <2> QED BY <1>8, <1>s, <1>u, <1>d, <2>1 DEF ContextEnds, Unused
<1>9. CASE Delivers(c)
  <2>1. Head(out) = out[1] /\ 1 \in 1 .. Len(out) BY <1>9 DEF Delivers, HandleMessage
  <2>2. c \in proc.ran /\ Head(out).body \in {"result", "error"} BY <1>9, <2>1 DEF Delivers, AnswersFollowRuns, IsAnswer
  <2>3. /\ chan' = IF c \in pend THEN [chan EXCEPT ![c] = Head(out).body] ELSE chan
        /\ pend' = pend \ {c} /\ w' = w
    BY <1>9 DEF Delivers, HandleMessage, TakeResponse, Deliver
  <2>4. UNCHANGED <<pc, proc, setup>> BY <1>9 DEF Delivers, HandleMessage
  <2>5. CallsInOrder' BY <1>d, <2>2, <2>3, <2>4 DEF CallsInOrder
  <2> QED BY <1>s, <1>u, <2>2, <2>4, <2>5 DEF Unused
<1>10. CASE Answered(c)
  <2>1. proc'.ran = proc.ran \cup {c} /\ proc'.inbox = proc.inbox \ {c} BY <1>10 DEF Answered, Processes
  <2>2. CallsInOrder' BY <1>10, <2>1 DEF CallsInOrder, Answered, child
  <2> QED BY <1>10, <1>s, <1>u, <2>2 DEF Answered, Unused, child
<1> QED BY <1>1, <1>2, <1>3, <1>4, <1>5, <1>6, <1>7, <1>8, <1>9, <1>10 DEF OfCaller, Writes

-----------------------------------------------------------------------------
(* What a step does to stdout and to the subscription *)

\* Positions in what is left of stdout, and in what is added to it.
LEMMA TailAt ==
    ASSUME TypeOK, out # <<>>
    PROVE  /\ Tail(out) \in Seq(Messages) /\ Len(Tail(out)) = Len(out) - 1 /\ Len(out) \in Nat
           /\ Head(out) = out[1] /\ 1 \in 1 .. Len(out) /\ out[1] \in Messages
           /\ \A i \in 1 .. Len(Tail(out)) : i + 1 \in 1 .. Len(out) /\ Tail(out)[i] = out[i + 1]
           /\ \A i \in 1 .. Len(out) : i = 1 \/ (i - 1 \in 1 .. Len(Tail(out)) /\ Tail(out)[i - 1] = out[i])
BY DEF TypeOK

LEMMA AppendAt ==
    ASSUME TypeOK, NEW m
    PROVE  /\ Len(Append(out, m)) = Len(out) + 1 /\ Len(out) \in Nat
           /\ \A i \in 1 .. Len(out) : Append(out, m)[i] = out[i]
           /\ Append(out, m)[Len(out) + 1] = m
BY DEF TypeOK

\* What the child says is an answer to what it ran.
LEMMA KeepsAnswers ==
    ASSUME TypeOK, AnswersFollowRuns, [Next]_vars
    PROVE  AnswersFollowRuns'
<1>r. ASSUME out' = out, proc.ran \subseteq proc'.ran PROVE AnswersFollowRuns'
  BY <1>r DEF AnswersFollowRuns, IsAnswer
<1>n. ASSUME out' = <<>> PROVE AnswersFollowRuns' BY <1>n DEF AnswersFollowRuns
<1>p. ASSUME NEW m, out' = Append(out, m), proc.ran \subseteq proc'.ran,
             m.kind = "response" /\ m.id \in Callers => m.id \in proc'.ran /\ m.body \in {"result", "error"}
      PROVE  AnswersFollowRuns'
  <2> SUFFICES ASSUME NEW i \in 1 .. Len(out') PROVE IsAnswer(out[i])' BY DEF AnswersFollowRuns
  <2>1. CASE i \in 1 .. Len(out) BY <1>p, <2>1, AppendAt DEF AnswersFollowRuns, IsAnswer
  <2>2. CASE i = Len(out) + 1 BY <1>p, <2>2, AppendAt DEF IsAnswer
  <2> QED BY <1>p, <2>1, <2>2, AppendAt
<1>a. ASSUME Abandon PROVE proc'.ran = proc.ran BY <1>a DEF Abandon, TypeOK, Processes
<1>1. CASE Setup
  <2>1. CASE Fail BY <1>a, <1>r, <2>1 DEF Fail
  <2>2. CASE Restart BY <1>n, <2>2 DEF Restart
  <2>3. ASSUME NEW listen \in BOOLEAN, SetModern(listen) PROVE AnswersFollowRuns' BY <1>r, <2>3 DEF SetModern
  <2>4. ASSUME NEW step, Ask(step) PROVE AnswersFollowRuns' BY <1>r, <2>4 DEF Ask
  <2> QED BY <1>1, <2>1, <2>2, <2>3, <2>4, SetupSteps
<1>2. CASE HandleMessage
  <2>1. out' = Tail(out) /\ out # <<>> /\ proc' = proc BY <1>2 DEF HandleMessage
  <2> QED BY <2>1, TailAt DEF AnswersFollowRuns, IsAnswer
<1>3. CASE ReaderEnds BY <1>n, <1>3 DEF ReaderEnds
<1>4. CASE SubscriptionEnds BY <1>r, <1>4 DEF SubscriptionEnds
<1>5. CASE AckTimeout BY <1>r, <1>5 DEF AckTimeout
<1>6. CASE Close BY <1>a, <1>r, <1>6 DEF Close
<1>7. CASE ChildAnswers
  <2>0. PICK r \in proc.inbox : \E body \in Answers(r) :
          /\ Say(Msg("response", r, body))
          /\ proc' = [proc EXCEPT !.inbox = @ \ {r}, !.ran = IF r \in Callers THEN @ \cup {r} ELSE @,
                                  !.sub = IF r = "listen" THEN "over" ELSE @]
    BY <1>7 DEF ChildAnswers
  <2>1. PICK body \in Answers(r) : Say(Msg("response", r, body)) BY <2>0
  <2>2. r \in Callers => body \in {"result", "error"} BY Domains DEF Answers
  <2>3. proc'.ran = (IF r \in Callers THEN proc.ran \cup {r} ELSE proc.ran) BY <2>0 DEF TypeOK, Processes
  <2>4. out' = Append(out, Msg("response", r, body)) BY <2>1 DEF Say
  <2>5. Msg("response", r, body).id = r /\ Msg("response", r, body).body = body BY DEF Msg
  <2> QED BY <1>p, <2>2, <2>3, <2>4, <2>5
<1>8. CASE ChildNotifies
  <2>1. proc'.ran = proc.ran BY <1>8 DEF ChildNotifies, TypeOK, Processes
  <2>2. out' = out \/ \E m : out' = Append(out, m) /\ m.kind # "response" BY <1>8 DEF ChildNotifies, Say, Msg
  <2> QED BY <1>p, <1>r, <2>1, <2>2
<1>9. CASE ChildMisbehaves
  <2>1. proc'.ran = proc.ran BY <1>9 DEF ChildMisbehaves, TypeOK, Processes
  <2> QED BY <1>r, <1>9, <2>1 DEF ChildMisbehaves
<1>10. ASSUME NEW c \in Callers, Call(c) PROVE AnswersFollowRuns' BY <1>r, <1>10 DEF Call
<1>11. ASSUME NEW r \in Reqs, AwaitCtx(r) \/ Await(r) PROVE AnswersFollowRuns' BY <1>r, <1>11 DEF AwaitCtx, Await
<1>12. ASSUME NEW a \in Writers, Writes(a) PROVE AnswersFollowRuns'
  <2>1. ChildReads(a).ran = proc.ran BY DEF ChildReads, TypeOK, Processes
  <2> QED BY <1>a, <1>r, <1>12, <2>1 DEF Writes, LockWrite, WriteWhole, WriteFails, AfterFailedWrite
<1>13. ASSUME NEW x, ContextEnds(x) PROVE AnswersFollowRuns' BY <1>r, <1>13 DEF ContextEnds
<1>14. CASE UNCHANGED vars BY <1>r, <1>14 DEF vars
<1> QED BY <1>1, <1>2, <1>3, <1>4, <1>5, <1>6, <1>7, <1>8, <1>9, <1>10, <1>11, <1>12, <1>13, <1>14
        DEF Next, Reader, Listener, Child

\* Every step leaves the link to the listener.
LEMMA KeepsListenerLinks ==
    ASSUME TypeOK, ListenerLinks, [Next]_vars
    PROVE  ListenerLinks'
<1> USE DEF TypeOK, ListenerLinks
<1>d. "setup" \in Reqs /\ "listen" \in Reqs /\ "reply" \in Writers /\ Reqs \subseteq Writers /\ Callers \subseteq Reqs
      /\ "listen" \notin Callers
  BY Domains
<1>a. ASSUME Abandon PROVE proc'.sub = proc.sub /\ proc'.inbox = {} BY <1>a DEF Abandon, Processes
<1>1. CASE Setup
  <2>1. setup.at # "ready" BY <1>1, SetupSteps
  <2>2. CASE Fail BY <1>a, <1>d, <2>1, <2>2 DEF Fail
  <2>3. CASE Restart
    <3>1. proc'.sub = "none" /\ proc'.inbox = {} BY <2>3 DEF Restart, NewProc
    <3> QED BY <1>d, <2>1, <2>3, <3>1 DEF Restart
  <2>4. ASSUME NEW listen \in BOOLEAN, SetModern(listen) PROVE ListenerLinks'
    <3>1. setup'.at = "ready" BY <2>4 DEF SetModern, Setups
    <3>2. sub'.linked => listen BY <2>1, <2>4 DEF SetModern
    <3>3. pc'["listen"] = (IF listen THEN "write" ELSE "idle") /\ w'["listen"] = (IF listen THEN "gate" ELSE "none")
      BY <1>d, <2>4 DEF SetModern
    <3> QED BY <3>1, <3>2, <3>3
  <2>5. ASSUME NEW step, Ask(step) PROVE ListenerLinks' BY <1>d, <2>1, <2>5 DEF Ask
  <2> QED BY <1>1, <2>2, <2>3, <2>4, <2>5, SetupSteps
<1>2. CASE HandleMessage
  <2>1. sub'.linked = sub.linked /\ w'["listen"] = w["listen"]
    BY <1>2, <1>d
    DEF HandleMessage, TakeResponse, AnswerServerRequest, AcknowledgeSubscription, ForwardChange, CancelSubscription,
        Subscriptions
  <2> QED BY <1>2, <2>1 DEF HandleMessage
<1>3. CASE ReaderEnds BY <1>3 DEF ReaderEnds
<1>4. CASE SubscriptionEnds
  <2>1. sub'.linked = FALSE BY <1>4 DEF SubscriptionEnds, retire, Subscriptions
  <2> QED BY <1>d, <1>4, <2>1 DEF SubscriptionEnds
<1>5. CASE AckTimeout
  <2>1. sub'.linked = FALSE BY <1>5 DEF AckTimeout, retire, Subscriptions
  <2> QED BY <1>d, <1>5, <2>1 DEF AckTimeout
<1>6. CASE Close BY <1>a, <1>6 DEF Close
<1>7. CASE ChildAnswers
  <2>1. PICK r \in proc.inbox :
          proc' = [proc EXCEPT !.inbox = @ \ {r}, !.ran = IF r \in Callers THEN @ \cup {r} ELSE @,
                               !.sub = IF r = "listen" THEN "over" ELSE @]
    BY <1>7 DEF ChildAnswers
  <2>2. proc'.inbox = proc.inbox \ {r} /\ (r # "listen" => proc'.sub = proc.sub) BY <2>1 DEF Processes
  <2> QED BY <1>7, <2>2 DEF ChildAnswers, child
<1>8. CASE ChildNotifies
  <2>1. setup.at # "ready" => proc'.sub = proc.sub /\ proc'.inbox = proc.inbox BY <1>8 DEF ChildNotifies
  <2> QED BY <1>8, <2>1 DEF ChildNotifies, child
<1>9. CASE ChildMisbehaves
  <2>1. proc'.sub = proc.sub /\ proc'.inbox = proc.inbox BY <1>9 DEF ChildMisbehaves, Processes
  <2> QED BY <1>9, <2>1 DEF ChildMisbehaves, child
<1>10. ASSUME NEW c \in Callers, Call(c) PROVE ListenerLinks' BY <1>10, <1>d DEF Call, Rpc
<1>11. ASSUME NEW r \in Reqs, AwaitCtx(r) \/ Await(r) PROVE ListenerLinks' BY <1>11, <1>d DEF AwaitCtx, Await
<1>12. ASSUME NEW a \in Writers, LockWrite(a) PROVE ListenerLinks'
  <2>1. sub'.linked => sub.linked /\ (w["listen"] = "gate" /\ a = "listen" => w'["listen"] = "writing")
    BY <1>12, <1>d DEF LockWrite, NeverStarted, Subscriptions
  <2> QED BY <1>12, <1>d, <2>1 DEF LockWrite, NeverStarted
<1>13. ASSUME NEW a \in Writers, WriteWhole(a) PROVE ListenerLinks'
  <2>1. a # "listen" => proc'.sub = proc.sub /\ ("listen" \in proc'.inbox => "listen" \in proc.inbox)
    BY <1>13 DEF WriteWhole, ChildReads, Processes
  <2>2. setup'.at # "ready" => setup.at # "ready" BY <1>13 DEF WriteWhole, Setups
  <2>3. CASE a = "listen" BY <1>13, <1>d, <2>2, <2>3 DEF WriteWhole
  <2>4. CASE a # "listen" BY <1>13, <1>d, <2>1, <2>2, <2>4 DEF WriteWhole
  <2> QED BY <2>3, <2>4
<1>14. ASSUME NEW a \in Writers, WriteFails(a) PROVE ListenerLinks' BY <1>14, <1>d DEF WriteFails
<1>15. ASSUME NEW a \in Writers, AfterFailedWrite(a) PROVE ListenerLinks'
  <2>1. proc'.sub = proc.sub /\ ("listen" \in proc'.inbox => "listen" \in proc.inbox)
    BY <1>15, <1>a DEF AfterFailedWrite
  <2>2. sub'.linked => sub.linked /\ a # "listen" BY <1>15 DEF AfterFailedWrite, Subscriptions
  <2>3. CASE a = "listen" BY <1>15, <1>d, <2>1, <2>2, <2>3 DEF AfterFailedWrite
  <2>4. CASE a # "listen" BY <1>15, <1>d, <2>1, <2>2, <2>4 DEF AfterFailedWrite
  <2> QED BY <2>3, <2>4
<1>16. ASSUME NEW x, ContextEnds(x) PROVE ListenerLinks' BY <1>16 DEF ContextEnds
<1>17. CASE UNCHANGED vars BY <1>17 DEF vars
<1> QED BY <1>1, <1>2, <1>3, <1>4, <1>5, <1>6, <1>7, <1>8, <1>9, <1>10, <1>11, <1>12, <1>13, <1>14, <1>15,
           <1>16, <1>17
        DEF Next, Reader, Listener, Child, Writes

-----------------------------------------------------------------------------
(* The subscription is told *)

\* What the theorem about the subscription needs.
Told == EndIsSaid /\ ChangeIsSaid /\ NothingAhead

\* A step that neither speaks nor listens keeps it.
LEMMA AsideKeeps ==
    ASSUME EndIsSaid, ChangeIsSaid, NothingAhead,
           proc'.sub = "none" => proc.sub = "none",
           sub'.linked => sub.linked /\ sub'.state = sub.state /\ proc'.sub = proc.sub,
           conn.done => conn'.done, out' = out, gen' = gen, told' = told
    PROVE  Told'
<1>1. EndIsSaid' BY DEF EndIsSaid, Ends
<1>2. ChangeIsSaid' BY DEF ChangeIsSaid, Settles, Ends
<1>3. NothingAhead' BY DEF NothingAhead
<1> QED BY <1>1, <1>2, <1>3 DEF Told

\* What the child says besides keeps it.
LEMMA SayingKeeps ==
    ASSUME TypeOK, EndIsSaid, ChangeIsSaid, NothingAhead, NEW m, out' = Append(out, m), m.kind # "ack",
           m.gen <= gen, UNCHANGED <<conn, sub, gen, told>>, proc'.sub = proc.sub
    PROVE  Told'
<1>1. EndIsSaid' BY AppendAt DEF EndIsSaid, Ends
<1>2. ChangeIsSaid' BY AppendAt DEF ChangeIsSaid, Settles, Ends
<1>3. NothingAhead' BY AppendAt DEF NothingAhead
<1> QED BY <1>1, <1>2, <1>3 DEF Told

\* The reader takes the head of stdout.
LEMMA HandlingKeeps ==
    ASSUME TypeOK, EndIsSaid, ChangeIsSaid, NothingAhead, HandleMessage
    PROVE  Told'
<1> DEFINE m == Head(out)
<1>1. out # <<>> /\ out' = Tail(out) /\ UNCHANGED <<proc, conn, gen>> BY DEF HandleMessage
<1>2. m = out[1] /\ m.gen <= gen /\ m.gen \in Nat /\ m \in Messages BY <1>1, TailAt DEF NothingAhead, Messages
<1>t. told \in Nat /\ gen \in Nat /\ sub \in Subscriptions BY DEF TypeOK
<1>3. told' <= gen /\ (told = gen => told' = gen)
  BY <1>2, <1>t
  DEF HandleMessage, TakeResponse, AnswerServerRequest, AcknowledgeSubscription, ForwardChange, CancelSubscription,
      NotifyToolsChanged, NothingAhead
<1>4. /\ sub'.linked = sub.linked
      /\ sub'.state # "ended" => sub.state # "ended" /\ (sub.linked => ~Ends(m))
      /\ sub'.state = "awaitingAck" => sub.state = "awaitingAck"
      /\ sub'.state = "active" => sub.state = "active" \/ (m.kind = "ack" /\ sub.state = "awaitingAck" /\ told' >= m.gen)
  <2>1. CASE m.kind = "response" /\ TakeResponse(m) BY <1>t, <2>1 DEF TakeResponse, Subscriptions, Ends
  <2>2. CASE m.kind = "ping" /\ AnswerServerRequest BY <2>2 DEF AnswerServerRequest, Ends
  <2>3. CASE m.kind = "ack" /\ AcknowledgeSubscription(m)
    BY <1>2, <1>t, <2>3 DEF AcknowledgeSubscription, NotifyToolsChanged, Subscriptions, Ends
  <2>4. CASE m.kind = "changed" /\ ForwardChange(m) BY <2>4 DEF ForwardChange, Ends
  <2>5. CASE m.kind = "cancelled" /\ CancelSubscription(m) BY <1>t, <2>5 DEF CancelSubscription, Subscriptions, Ends
  <2> QED BY <2>1, <2>2, <2>3, <2>4, <2>5 DEF HandleMessage
<1>5. sub.linked /\ sub.state = "active" /\ m.kind = "changed" => told' >= m.gen
  BY <1>2, <1>t DEF HandleMessage, ForwardChange, NotifyToolsChanged
<1>6. told' \in Nat
  BY <1>2, <1>t
  DEF HandleMessage, TakeResponse, AnswerServerRequest, AcknowledgeSubscription, ForwardChange, CancelSubscription,
      NotifyToolsChanged
<1> HIDE DEF m
<1>7. EndIsSaid'
  <2>1. proc'.sub = "none" => \A i \in 1 .. Len(out') : out'[i].kind # "ack" BY <1>1, TailAt DEF EndIsSaid
  <2>2. sub'.linked /\ sub'.state = "active" => proc'.sub # "none" BY <1>1, <1>2, <1>4, TailAt DEF EndIsSaid
  <2>3. ASSUME sub'.linked, sub'.state # "ended", ~conn'.done, proc'.sub = "over"
        PROVE  \E j \in 1 .. Len(out') :
                 Ends(out'[j]) /\ \A i \in 1 .. Len(out') : out'[i].kind = "ack" => i < j
    <3>1. PICK j \in 1 .. Len(out) : Ends(out[j]) /\ \A i \in 1 .. Len(out) : out[i].kind = "ack" => i < j
      BY <1>1, <1>4, <2>3 DEF EndIsSaid
    <3>2. j # 1 BY <1>2, <1>4, <2>3, <3>1
    <3>3. j - 1 \in 1 .. Len(out') /\ out'[j - 1] = out[j] BY <1>1, <3>2, TailAt
    <3>4. \A i \in 1 .. Len(out') : out'[i].kind = "ack" => i < j - 1 BY <1>1, <3>1, TailAt
    <3> QED BY <3>1, <3>3, <3>4
  <2> QED BY <2>1, <2>2, <2>3 DEF EndIsSaid, Ends
<1>8. ChangeIsSaid'
  <2> SUFFICES ASSUME sub'.linked, ~conn'.done
               PROVE  /\ sub'.state = "active" => told' = gen' \/ \E j \in 1 .. Len(out') : Settles(out[j])'
                      /\ sub'.state = "awaitingAck" =>
                           \A i \in 1 .. Len(out') : out'[i].kind = "ack" =>
                             out'[i].gen = gen' \/ \E j \in i .. Len(out') : Settles(out[j])'
    BY DEF ChangeIsSaid
  <2>1. \A j \in 1 .. Len(out) : j # 1 /\ Settles(out[j]) => j - 1 \in 1 .. Len(out') /\ Settles(out[j - 1])'
    BY <1>1, TailAt DEF Settles, Ends
  <2>2. CASE sub'.state = "active" /\ sub.state = "active"
    <3>1. CASE told = gen BY <1>1, <1>3, <2>2, <3>1
    <3>2. ASSUME NEW j \in 1 .. Len(out), Settles(out[j])
          PROVE  told' = gen' \/ \E k \in 1 .. Len(out') : Settles(out[k])'
      <4>1. CASE j = 1
        <5>1. m.kind = "changed" /\ m.gen = gen BY <1>2, <1>4, <2>2, <3>2, <4>1 DEF Settles
        <5> QED BY <1>1, <1>3, <1>4, <1>5, <1>6, <1>t, <2>2, <5>1
      <4>2. CASE j # 1 BY <2>1, <3>2, <4>2
      <4> QED BY <4>1, <4>2
    <3> QED BY <1>1, <1>4, <2>2, <3>1, <3>2 DEF ChangeIsSaid
  <2>3. CASE sub'.state = "active" /\ sub.state # "active"
    <3>1. m.kind = "ack" /\ sub.state = "awaitingAck" /\ told' >= m.gen BY <1>4, <2>3
    <3>2. out[1].gen = gen \/ \E j \in 1 .. Len(out) : Settles(out[j])
      BY <1>1, <1>2, <1>4, <3>1, TailAt DEF ChangeIsSaid
    <3>3. ~Settles(out[1]) BY <1>2, <3>1 DEF Settles, Ends
    <3>4. out[1].gen = gen => told' = gen' BY <1>1, <1>2, <1>3, <1>6, <1>t, <3>1
    <3>5. (\E j \in 1 .. Len(out) : Settles(out[j])) => \E j \in 1 .. Len(out') : Settles(out[j])' BY <2>1, <3>3
    <3> QED BY <2>3, <3>2, <3>4, <3>5
  <2>4. ASSUME sub'.state = "awaitingAck", NEW i \in 1 .. Len(out'), out'[i].kind = "ack"
        PROVE  out'[i].gen = gen' \/ \E j \in i .. Len(out') : Settles(out[j])'
    <3>1. i + 1 \in 1 .. Len(out) /\ out'[i] = out[i + 1] /\ Len(out) \in Nat /\ Len(out') = Len(out) - 1
      BY <1>1, TailAt
    <3>2. out[i + 1].gen = gen \/ \E j \in (i + 1) .. Len(out) : Settles(out[j])
      BY <1>1, <1>4, <2>4, <3>1 DEF ChangeIsSaid
    <3>3. ASSUME NEW j \in (i + 1) .. Len(out), Settles(out[j]) PROVE j - 1 \in i .. Len(out') /\ Settles(out[j - 1])'
      BY <2>1, <3>1, <3>3
    <3> QED BY <1>1, <3>1, <3>2, <3>3
  <2> QED BY <2>2, <2>3, <2>4
<1>9. NothingAhead' BY <1>1, <1>3, TailAt DEF NothingAhead
<1> QED BY <1>7, <1>8, <1>9 DEF Told

\* The child acknowledges, ends or uses the subscription.
LEMMA NotifyingKeeps ==
    ASSUME TypeOK, EndIsSaid, ChangeIsSaid, NothingAhead, ChildNotifies
    PROVE  Told'
<1>t. told \in Nat /\ gen \in Nat /\ proc \in Processes BY DEF TypeOK
<1>m. \A i \in 1 .. Len(out) : out[i].gen \in Nat
  <2>1. \A i \in 1 .. Len(out) : out[i] \in Messages BY DEF TypeOK
  <2> QED BY <2>1 DEF Messages
<1>u. UNCHANGED <<conn, sub, told>> BY DEF ChildNotifies, child
<1>1. CASE Say(Msg("ack", "listen", "none")) /\ proc.sub = "none" /\ proc' = [proc EXCEPT !.sub = "acked"] /\ gen' = gen
  <2> DEFINE m == Msg("ack", "listen", "none")
  <2>1. out' = Append(out, m) /\ m.kind = "ack" /\ m.gen = gen BY <1>1 DEF Say, Msg
  <2>2. proc'.sub = "acked" BY <1>1, <1>t DEF Processes
  <2> HIDE DEF m
  <2>3. EndIsSaid' BY <1>u, <2>2 DEF EndIsSaid
  <2>4. ChangeIsSaid' BY <1>1, <1>u, <2>1, AppendAt DEF ChangeIsSaid, Settles, Ends
  <2>5. NothingAhead' BY <1>1, <1>t, <1>u, <2>1, AppendAt DEF NothingAhead
  <2> QED BY <2>3, <2>4, <2>5 DEF Told
<1>2. CASE Say(Msg("cancelled", "listen", "none")) /\ proc.sub = "acked" /\ gen' = gen /\ proc'.sub = "over"
  <2> DEFINE m == Msg("cancelled", "listen", "none")
  <2>1. out' = Append(out, m) /\ m.kind = "cancelled" /\ m.gen = gen BY <1>2 DEF Say, Msg
  <2> HIDE DEF m
  <2>2. EndIsSaid' BY <1>2, <1>u, <2>1, AppendAt DEF EndIsSaid, Ends
  <2>3. ChangeIsSaid' BY <1>2, <1>u, <2>1, AppendAt DEF ChangeIsSaid, Settles, Ends
  <2>4. NothingAhead' BY <1>2, <1>t, <1>u, <2>1, AppendAt DEF NothingAhead
  <2> QED BY <2>2, <2>3, <2>4 DEF Told
<1>3. CASE /\ gen' = gen + 1 /\ proc' = proc
           /\ out' = IF ~conn.modern \/ proc.sub = "acked"
                     THEN Append(out, [kind |-> "changed", id |-> "listen", body |-> "none", gen |-> gen + 1])
                     ELSE out
  <2> DEFINE m == [kind |-> "changed", id |-> "listen", body |-> "none", gen |-> gen + 1]
  <2>1. CASE out' = Append(out, m)
    <3>1. m.kind = "changed" /\ m.gen = gen' BY <1>3
    <3> HIDE DEF m
    <3>2. EndIsSaid' BY <1>3, <1>u, <2>1, <3>1, AppendAt DEF EndIsSaid, Ends
    <3>3. ChangeIsSaid'
      <4>1. Len(out') \in 1 .. Len(out') /\ Settles(out[Len(out)])' /\ Len(out') \in Nat
        BY <2>1, <3>1, AppendAt DEF Settles
      <4> QED BY <4>1 DEF ChangeIsSaid
    <3>4. NothingAhead' BY <1>3, <1>m, <1>t, <1>u, <2>1, <3>1, AppendAt DEF NothingAhead
    <3> QED BY <3>2, <3>3, <3>4 DEF Told
  <2>2. CASE out' = out /\ proc.sub # "acked"
    <3>1. EndIsSaid' BY <1>3, <1>u, <2>2 DEF EndIsSaid, Ends
    <3>2. ChangeIsSaid'
      <4> SUFFICES ASSUME sub.linked, ~conn.done, sub.state \in {"active", "awaitingAck"}
                   PROVE  /\ sub.state = "active" => \E j \in 1 .. Len(out) : Ends(out[j])
                          /\ \A i \in 1 .. Len(out) : out[i].kind = "ack" =>
                               \E j \in i .. Len(out) : Ends(out[j])
        BY <1>u, <2>2 DEF ChangeIsSaid, Settles, Ends
      <4>1. proc.sub \in {"none", "over"} BY <1>t, <2>2 DEF Processes
      <4> QED BY <4>1, AppendAt DEF EndIsSaid
    <3>3. NothingAhead' BY <1>3, <1>t, <1>u, <1>m, <2>2 DEF NothingAhead
    <3> QED BY <3>1, <3>2, <3>3 DEF Told
  <2> QED BY <1>3, <2>1, <2>2
<1>4. CASE Say(Msg("ping", "reply", "none")) /\ proc'.sub = proc.sub /\ gen' = gen
  BY <1>4, <1>t, <1>u, SayingKeeps DEF Say, Msg
<1> QED BY <1>1, <1>2, <1>3, <1>4, <1>t DEF ChildNotifies, Processes

\* An answer of the child is one more thing said; an answer to the subscription ends it.
LEMMA AnsweringKeeps ==
    ASSUME TypeOK, EndIsSaid, ChangeIsSaid, NothingAhead, ChildAnswers
    PROVE  Told'
<1>0. PICK r \in proc.inbox : \E body \in Answers(r) :
        /\ Say(Msg("response", r, body))
        /\ proc' = [proc EXCEPT !.inbox = @ \ {r}, !.ran = IF r \in Callers THEN @ \cup {r} ELSE @,
                                !.sub = IF r = "listen" THEN "over" ELSE @]
  BY DEF ChildAnswers
<1>1. PICK body \in Answers(r) : Say(Msg("response", r, body)) BY <1>0
<1> DEFINE m == Msg("response", r, body)
<1>2. out' = Append(out, m) /\ m.kind = "response" /\ m.id = r /\ m.gen = gen BY <1>1 DEF Say, Msg
<1>3. UNCHANGED <<conn, sub, gen, told>> BY DEF ChildAnswers, child
<1>4. proc'.sub = IF r = "listen" THEN "over" ELSE proc.sub BY <1>0 DEF TypeOK, Processes
<1>t. gen \in Nat /\ told \in Nat BY DEF TypeOK
<1> HIDE DEF m
<1>5. CASE r # "listen" BY <1>2, <1>3, <1>4, <1>5, <1>t, SayingKeeps
<1>6. CASE r = "listen"
  <2>1. Ends(m) BY <1>2, <1>6 DEF Ends
  <2>2. EndIsSaid' BY <1>2, <1>3, <1>4, <1>6, AppendAt DEF EndIsSaid, Ends
  <2>3. ChangeIsSaid' BY <1>2, <1>3, <2>1, AppendAt DEF ChangeIsSaid, Settles, Ends
  <2>4. NothingAhead' BY <1>2, <1>3, <1>t, AppendAt DEF NothingAhead
  <2> QED BY <2>2, <2>3, <2>4 DEF Told
<1> QED BY <1>5, <1>6

\* No step leaves a change untold that nothing in stdout speaks of.
LEMMA KeepsTold ==
    ASSUME TypeOK, ListenerLinks, EndIsSaid, ChangeIsSaid, NothingAhead, [Next]_vars
    PROVE  Told'
<1>t. /\ conn \in Conns /\ proc \in Processes /\ sub \in Subscriptions /\ setup \in Setups
      /\ pc \in [Reqs -> Stages] /\ w \in [Writers -> WriteStages]
  BY DEF TypeOK
<1>d. "setup" \in Reqs /\ "listen" \in Reqs /\ "listen" \in Writers BY Domains
<1>a. ASSUME Abandon PROVE proc'.sub = proc.sub /\ conn'.done = TRUE BY <1>a, <1>t DEF Abandon, Processes, Conns
<1>1. CASE Setup
  <2>1. setup.at # "ready" /\ ~sub.linked /\ proc.sub = "none" BY <1>1, SetupSteps DEF ListenerLinks
  <2>2. CASE Fail BY <1>a, <2>2, AsideKeeps DEF Fail
  <2>3. CASE Restart
    <3>1. sub' = sub /\ gen' = gen /\ told' = told /\ out' = <<>> BY <2>3 DEF Restart
    <3>2. EndIsSaid' BY <2>1, <3>1 DEF EndIsSaid
    <3>3. ChangeIsSaid' BY <2>1, <3>1 DEF ChangeIsSaid
    <3>4. NothingAhead' BY <3>1 DEF NothingAhead
    <3> QED BY <3>2, <3>3, <3>4 DEF Told
  <2>4. ASSUME NEW listen \in BOOLEAN, SetModern(listen) PROVE Told'
    <3>1. UNCHANGED <<out, gen, told, proc>> BY <2>4 DEF SetModern
    <3>2. sub'.linked => sub'.state = "awaitingAck" BY <2>1, <2>4 DEF SetModern
    <3>3. EndIsSaid' BY <2>1, <3>1, <3>2 DEF EndIsSaid
    <3>4. \A i \in 1 .. Len(out) : out[i].kind # "ack" BY <2>1 DEF EndIsSaid
    <3>5. ChangeIsSaid' BY <3>1, <3>2, <3>4 DEF ChangeIsSaid
    <3>6. NothingAhead' BY <3>1 DEF NothingAhead
    <3> QED BY <3>3, <3>5, <3>6 DEF Told
  <2>5. ASSUME NEW step, Ask(step) PROVE Told' BY <2>5, AsideKeeps DEF Ask
  <2> QED BY <1>1, <2>2, <2>3, <2>4, <2>5, SetupSteps
<1>2. CASE HandleMessage BY <1>2, HandlingKeeps
<1>3. CASE ReaderEnds
  <2>1. conn'.done = TRUE /\ out' = <<>> /\ UNCHANGED <<proc, sub, gen, told>> BY <1>3, <1>t DEF ReaderEnds, Conns
  <2>2. EndIsSaid' BY <2>1 DEF EndIsSaid
  <2>3. ChangeIsSaid' BY <2>1 DEF ChangeIsSaid
  <2>4. NothingAhead' BY <2>1 DEF NothingAhead
  <2> QED BY <2>2, <2>3, <2>4 DEF Told
<1>4. CASE SubscriptionEnds \/ AckTimeout
  <2>1. sub'.linked = FALSE BY <1>4, <1>t DEF SubscriptionEnds, AckTimeout, retire, Subscriptions
  <2> QED BY <1>4, <2>1, AsideKeeps DEF SubscriptionEnds, AckTimeout
<1>5. CASE Close BY <1>5, <1>a, AsideKeeps DEF Close
<1>6. CASE ChildAnswers BY <1>6, AnsweringKeeps
<1>7. CASE ChildNotifies BY <1>7, NotifyingKeeps
<1>8. CASE ChildMisbehaves
  <2>1. proc'.sub = proc.sub BY <1>8, <1>t DEF ChildMisbehaves, Processes
  <2> QED BY <1>8, <2>1, AsideKeeps DEF ChildMisbehaves, child
<1>9. ASSUME NEW c, Call(c) \/ AwaitCtx(c) \/ Await(c) \/ ContextEnds(c) PROVE Told'
  BY <1>9, AsideKeeps DEF Call, AwaitCtx, Await, ContextEnds
<1>10. ASSUME NEW a \in Writers, LockWrite(a) PROVE Told'
  <2>1. conn'.done = conn.done BY <1>10, <1>t DEF LockWrite, Conns
  <2>2. sub' = sub \/ sub'.linked = FALSE BY <1>10, <1>t DEF LockWrite, NeverStarted, Subscriptions
  <2> QED BY <1>10, <2>1, <2>2, AsideKeeps DEF LockWrite
<1>11. ASSUME NEW a \in Writers, WriteWhole(a) PROVE Told'
  <2>1. conn'.done = conn.done BY <1>11, <1>t DEF WriteWhole, Conns
  <2>2. CASE proc'.sub = proc.sub BY <1>11, <2>1, <2>2, AsideKeeps DEF WriteWhole
  <2>3. CASE proc'.sub # proc.sub
    <3>1. a = "listen" /\ pc[a] # "write" /\ proc'.sub = "over" BY <1>11, <1>d, <1>t, <2>3 DEF WriteWhole, ChildReads, Processes
    <3>2. ~sub.linked BY <1>11, <3>1 DEF WriteWhole, ListenerLinks
    <3> QED BY <1>11, <2>1, <3>1, <3>2, AsideKeeps DEF WriteWhole
  <2> QED BY <2>2, <2>3
<1>12. ASSUME NEW a \in Writers, WriteFails(a) PROVE Told'
  <2>1. conn'.done = conn.done BY <1>12, <1>t DEF WriteFails, Conns
  <2> QED BY <1>12, <2>1, AsideKeeps DEF WriteFails
<1>13. ASSUME NEW a \in Writers, AfterFailedWrite(a) PROVE Told'
  <2>1. proc'.sub = proc.sub /\ (conn.done => conn'.done) BY <1>13, <1>a DEF AfterFailedWrite
  <2>2. sub' = sub \/ sub'.linked = FALSE BY <1>13, <1>t DEF AfterFailedWrite, Subscriptions
  <2> QED BY <1>13, <2>1, <2>2, AsideKeeps DEF AfterFailedWrite
<1>14. CASE UNCHANGED vars BY <1>14, AsideKeeps DEF vars
<1> QED BY <1>1, <1>2, <1>3, <1>4, <1>5, <1>6, <1>7, <1>8, <1>9, <1>10, <1>11, <1>12, <1>13, <1>14
        DEF Next, Reader, Listener, Child, Writes

-----------------------------------------------------------------------------
(* The invariant holds for ever *)

\* The initial states satisfy it.
LEMMA InitIInv == Init => IInv
<1> SUFFICES ASSUME Init PROVE IInv OBVIOUS
<1> USE DEF Init
<1>1. TypeOK
  <2>1. "idle" \in Stages /\ "none" \in WriteStages BY Domains
  <2>2. sub \in Subscriptions /\ setup \in Setups BY DEF Subscriptions, Setups
  <2>3. 0 \in 0 .. MaxChanges BY StdioAssumption
  <2> QED BY <2>1, <2>2, <2>3, FreshTyped DEF TypeOK
<1>2. NoneCallsEarly /\ CallsInOrder
  <2>1. \A c \in Callers : Unused(c) BY Domains DEF Unused, NewProc
  <2> QED BY <2>1 DEF NoneCallsEarly, CallsInOrder, Unused
<1>3. AnswersFollowRuns BY DEF AnswersFollowRuns
<1>4. ListenerLinks BY Domains DEF ListenerLinks, NewProc
<1>5. EndIsSaid /\ ChangeIsSaid BY DEF EndIsSaid, ChangeIsSaid
<1>6. NothingAhead BY DEF NothingAhead
<1> QED BY <1>1, <1>2, <1>3, <1>4, <1>5, <1>6 DEF IInv

\* Every step keeps it.
LEMMA NextIInv == ASSUME IInv, [Next]_vars PROVE IInv'
<1> USE DEF IInv
<1>1. TypeOK' BY KeepsTypeOK
<1>2. NoneCallsEarly' /\ CallsInOrder'
  <2>1. CASE \E c \in Callers : OfCaller(c) BY <2>1, CallerKeeps
  <2>2. CASE \A c \in Callers : ~OfCaller(c) BY <2>2, OtherSteps, UntouchedKeep
  <2> QED BY <2>1, <2>2
<1>3. AnswersFollowRuns' BY KeepsAnswers
<1>4. ListenerLinks' BY KeepsListenerLinks
<1>5. Told' BY KeepsTold
<1> QED BY <1>1, <1>2, <1>3, <1>4, <1>5 DEF Told

\* It holds for ever.
LEMMA Invariance == Spec => []IInv
BY InitIInv, NextIInv, PTL DEF Spec

\* stdio.go and pending.go keep the types declared for their state, the messages in stdout among it.
THEOREM TypeCorrect == Spec => []TypeOK
<1>1. IInv => TypeOK BY DEF IInv
<1> QED BY <1>1, Invariance, PTL

\* noteSubscriptionResponse, acknowledgeSubscription and their like leave no change of the tools
\* untold while the subscription is active and stdout read.
THEOREM SubscribersAreTold == Spec => []SubscribedIsTold
<1>1. IInv => SubscribedIsTold BY DEF IInv, ChangeIsSaid, SubscribedIsTold
<1> QED BY <1>1, Invariance, PTL

-----------------------------------------------------------------------------
(* Calls of a stdio connection implement the promise of Connection.Call *)

\* A step that leaves the calls alone is none of the promise, but may end the connection.
LEMMA UntouchedIsTrouble == ASSUME Untouched(Callers) PROVE Promise!Trouble
<1>1. \A c \in Callers : CallState(c)' = CallState(c) BY DEF Untouched, CallState
<1> QED BY <1>1 DEF Untouched, Promise!Trouble

\* Every step of one caller's call is promised.
LEMMA CallerIsPromised ==
    ASSUME IInv, NEW c \in Callers, OfCaller(c)
    PROVE  Promise!Next
<1> USE DEF IInv, TypeOK
<1>d. c \in Reqs /\ c \in Writers /\ c \notin {"setup", "listen", "reply", "probe"} /\ Callers \subseteq Reqs BY Domains
<1>f. ASSUME pc[c] \in {"write", "wait", "cancel"}, pc' = [pc EXCEPT ![c] = "ctxErr"], c \in ctx \/ pc[c] = "cancel",
             UNCHANGED <<chan, ctx>>, proc'.ran = proc.ran
      PROVE  Promise!Trouble
  <2>1. CallState(c) = "open" /\ CallState(c)' = "failed" BY <1>d, <1>f DEF CallState
  <2>2. \A d \in Callers \ {c} : CallState(d)' = CallState(d) BY <1>d, <1>f DEF CallState
  <2> QED BY <1>d, <1>f, <2>1, <2>2 DEF Promise!Trouble
<1>k. ASSUME pc[c] \in {"write", "wait", "cancel"}, pc'[c] \in {"write", "wait", "cancel"},
             \A d \in Callers \ {c} : pc'[d] = pc[d],
             UNCHANGED chan, proc'.ran = proc.ran,
             \A d \in Callers : d \in ctx => d \in ctx' \/ (d = c /\ pc'[c] = "cancel"),
             pc[c] = "cancel" => pc'[c] = "cancel"
      PROVE  Promise!Trouble
  <2>1. \A d \in Callers : CallState(d)' = CallState(d) BY <1>d, <1>k DEF CallState
  <2> QED BY <1>d, <1>k, <2>1 DEF Promise!Trouble
<1>1. CASE Call(c)
  <2>0. pc[c] = "idle" /\ pc' = [pc EXCEPT ![c] = "write"] /\ UNCHANGED <<chan, ctx, conn, proc>>
    BY <1>1 DEF Call, Rpc
  <2>1. CallState(c) = "idle" /\ CallState(c)' = "open" BY <1>d, <2>0 DEF CallState
  <2>2. \A d \in Callers \ {c} : CallState(d)' = CallState(d) BY <1>d, <2>0 DEF CallState
  <2>3. \A d \in Callers : pc'[d] \in {"cancel", "ctxErr"} <=> pc[d] \in {"cancel", "ctxErr"} BY <1>d, <2>0
  <2>4. Promise!Begin(c) BY <2>0, <2>1, <2>2, <2>3 DEF Promise!Begin
  <2> QED BY <2>4 DEF Promise!Next
<1>2. CASE AwaitCtx(c)
  <2>0. pc[c] = "wait" /\ c \in ctx /\ UNCHANGED <<chan, proc>> BY <1>2, <1>d DEF AwaitCtx, CtxDone
  <2>1. CASE pc' = [pc EXCEPT ![c] = "cancel"] /\ ctx' = ctx \ {c} BY <1>d, <1>k, <2>0, <2>1 DEF Promise!Next
  <2>2. CASE pc' = [pc EXCEPT ![c] = "ctxErr"] /\ ctx' = ctx BY <1>d, <1>f, <2>0, <2>2 DEF Promise!Next
  <2> QED BY <1>2, <2>1, <2>2 DEF AwaitCtx
<1>3. CASE Await(c)
  <2>0. pc[c] = "wait" /\ UNCHANGED <<chan, ctx, conn, proc>> BY <1>3 DEF Await
  <2>1. CallState(c) = "open" BY <2>0 DEF CallState
  <2>2. CASE conn.done /\ pc' = [pc EXCEPT ![c] = "closed"]
    <3>1. CallState(c)' = "failed" BY <1>d, <2>2 DEF CallState
    <3>2. \A d \in Callers \ {c} : CallState(d)' = CallState(d) BY <1>d, <2>0, <2>2 DEF CallState
    <3> QED BY <1>d, <2>0, <2>1, <2>2, <3>1, <3>2 DEF Promise!Trouble, Promise!Next
  <2>3. CASE chan[c] # "none" /\ pc' = [pc EXCEPT ![c] = "ok"]
    <3>1. c \in proc.ran /\ chan[c] \in {"result", "error"} BY <2>3 DEF CallsInOrder
    <3>2. \A d \in Callers \ {c} : CallState(d)' = CallState(d) BY <1>d, <2>0, <2>3 DEF CallState
    <3>3. \A d \in Callers : pc'[d] \in {"cancel", "ctxErr"} <=> pc[d] \in {"cancel", "ctxErr"} BY <1>d, <2>0, <2>3
    <3>4. CASE chan[c] = "result"
      <4>1. CallState(c)' = "answered" BY <1>d, <2>0, <2>3, <3>4 DEF CallState
      <4>2. Promise!Answer(c) BY <2>0, <2>1, <3>1, <3>2, <3>3, <4>1 DEF Promise!Answer
      <4> QED BY <4>2 DEF Promise!Next
    <3>5. CASE chan[c] = "error"
      <4>1. CallState(c)' = "failed" BY <1>d, <2>0, <2>3, <3>5 DEF CallState
      <4>2. Promise!Fail(c) BY <2>0, <2>1, <3>1, <3>2, <3>3, <4>1 DEF Promise!Fail
      <4> QED BY <4>2 DEF Promise!Next
    <3> QED BY <3>1, <3>4, <3>5
  <2> QED BY <1>3, <2>2, <2>3 DEF Await
<1>4. CASE LockWrite(c)
  <2>0. pc[c] \in {"write", "cancel"} /\ UNCHANGED <<chan, ctx, proc>> BY <1>4 DEF LockWrite, CallsInOrder
  <2>1. CASE c \in ctx /\ NeverStarted(c) BY <1>d, <1>f, <2>0, <2>1 DEF NeverStarted, Promise!Next
  <2>2. CASE pc' = pc BY <1>d, <1>k, <2>0, <2>2 DEF Promise!Next
  <2> QED BY <1>4, <1>d, <2>1, <2>2 DEF LockWrite, CtxDone
<1>5. CASE WriteWhole(c)
  <2>0. /\ pc[c] \in {"write", "cancel"} /\ UNCHANGED <<chan, ctx>>
        /\ pc' = [pc EXCEPT ![c] = IF @ = "write" THEN "wait" ELSE "ctxErr"]
    BY <1>5, <1>d DEF WriteWhole, CallsInOrder
  <2>1. proc'.ran = proc.ran BY <1>5 DEF WriteWhole, ChildReads, Processes
  <2>2. CASE pc[c] = "write" BY <1>d, <1>k, <2>0, <2>1, <2>2 DEF Promise!Next
  <2>3. CASE pc[c] = "cancel" BY <1>d, <1>f, <2>0, <2>1, <2>3 DEF Promise!Next
  <2> QED BY <2>0, <2>2, <2>3
<1>6. CASE WriteFails(c)
  <2>0. pc[c] \in {"write", "cancel"} /\ UNCHANGED <<chan, ctx, proc, pc>> BY <1>6 DEF WriteFails, CallsInOrder
  <2> QED BY <1>d, <1>k, <2>0 DEF Promise!Next
<1>7. CASE AfterFailedWrite(c)
  <2>0. /\ pc[c] \in {"write", "cancel"} /\ UNCHANGED <<chan, ctx>>
        /\ pc' = [pc EXCEPT ![c] = IF @ = "write" THEN "writeErr" ELSE "ctxErr"] /\ Abandon
    BY <1>7, <1>d DEF AfterFailedWrite, CallsInOrder
  <2>1. conn'.done = TRUE /\ proc'.ran = proc.ran BY <2>0 DEF Abandon, Conns, Processes
  <2>2. CallState(c) = "open" /\ CallState(c)' = "failed" BY <1>d, <2>0 DEF CallState
  <2>3. \A d \in Callers \ {c} : CallState(d)' = CallState(d) BY <1>d, <2>0 DEF CallState
  <2> QED BY <1>d, <2>0, <2>1, <2>2, <2>3 DEF Promise!Trouble, Promise!Next
<1>8. CASE ContextEnds(c)
  <2>1. \A d \in Callers : CallState(d)' = CallState(d) BY <1>8 DEF ContextEnds, CallState
  <2> QED BY <1>8, <2>1 DEF ContextEnds, Promise!Trouble, Promise!Next
<1>9. CASE Delivers(c)
  <2>0. /\ UNCHANGED <<pc, ctx, proc, conn>>
        /\ chan' = IF c \in pend THEN [chan EXCEPT ![c] = Head(out).body] ELSE chan
    BY <1>9 DEF Delivers, HandleMessage, TakeResponse, Deliver
  <2>1. c \in pend => pc[c] # "ok" BY DEF CallsInOrder
  <2>2. \A d \in Callers : CallState(d)' = CallState(d) BY <1>d, <2>0, <2>1 DEF CallState
  <2> QED BY <2>0, <2>2 DEF Promise!Trouble, Promise!Next
<1>10. CASE Answered(c)
  <2>0. /\ UNCHANGED <<pc, ctx, conn, chan>> /\ c \notin proc.ran /\ proc'.ran = proc.ran \cup {c} /\ pc[c] # "idle"
    BY <1>10 DEF Answered, child, CallsInOrder, Processes
  <2>1. \A d \in Callers : CallState(d)' = CallState(d) BY <2>0 DEF CallState
  <2>2. CallState(c) # "idle" BY <2>0 DEF CallState
  <2>3. [d \in Callers |-> IF d \in proc'.ran THEN 1 ELSE 0]
          = [[d \in Callers |-> IF d \in proc.ran THEN 1 ELSE 0] EXCEPT ![c] = 1]
    BY <2>0
  <2>4. Promise!Run(c) BY <2>0, <2>1, <2>2, <2>3 DEF Promise!Run
  <2> QED BY <2>4 DEF Promise!Next
<1> QED BY <1>1, <1>2, <1>3, <1>4, <1>5, <1>6, <1>7, <1>8, <1>9, <1>10 DEF OfCaller, Writes

\* Calls that share one stdin, pending map and child are each answered with the outcome of their
\* own run, which happens at most once, or fail for a reason the caller has.
THEOREM StdioCallsKeepPromise == Spec => CallsKeepPromise
<1>1. Init => Promise!Init
  <2> SUFFICES ASSUME Init PROVE Promise!Init OBVIOUS
  <2>1. \A c \in Callers : pc[c] = "idle" /\ c \in Reqs BY Domains DEF Init
  <2>2. \A c \in Callers : CallState(c) = "idle" BY <2>1 DEF CallState
  <2>3. proc.ran = {} /\ conn.done = FALSE /\ ctx = {} BY DEF Init, NewProc, NewConn
  <2> QED BY <2>1, <2>2, <2>3 DEF Promise!Init
<1>2. ASSUME IInv, [Next]_vars PROVE [Promise!Next]_(Promise!promise)
  <2>1. CASE \E c \in Callers : OfCaller(c) BY <1>2, <2>1, CallerIsPromised
  <2>2. CASE \A c \in Callers : ~OfCaller(c)
    BY <1>2, <2>2, OtherSteps, UntouchedIsTrouble DEF IInv, Promise!Next
  <2> QED BY <2>1, <2>2
<1> QED BY <1>1, <1>2, Invariance, PTL DEF Spec, CallsKeepPromise, Promise!Spec
=============================================================================
