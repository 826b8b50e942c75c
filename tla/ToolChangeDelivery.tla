-------------------------- MODULE ToolChangeDelivery --------------------------
(***************************************************************************)
(* How a change of the tool list travels from the daemon to the agent:     *)
(* the daemon publishes it into the session's outbox (internal/server:     *)
(* tools_changed.go, http_serve.go, session_store.go), a GET handler       *)
(* writes it to the proxy's notification stream, and the proxy writes it   *)
(* to its agent (internal/proxy: notification_stream.go, subscriptions.go, *)
(* line_writer.go).                                                        *)
(*                                                                         *)
(* A legacy agent gets the notification as it is; a modern one gets a copy *)
(* for each listen it holds.  Notices carry nothing that tells them apart, *)
(* so a queue of them is its length.                                       *)
(***************************************************************************)
EXTENDS Naturals, FiniteSets

CONSTANTS
    Listens,      \* the ids of a modern agent's subscriptions/listen requests
    Agent,        \* the one ear of a legacy agent
    Binders,      \* bound: forwards that end in bindNotifications, 1 .. n
    Conns,        \* bound: connections of notification streams that exist at once
    Cap,          \* capacity of a stream's channel (16 in the code)
    MaxGen,       \* bound: generations of the link to the daemon
    MaxSessions,  \* bound: Session objects the daemon creates for this proxy
    Scenarios     \* bound: how often each of the Events may happen; one is chosen

Events == {"change", "relink", "restart", "evict", "listen", "cancel", "close", "gone"}

ASSUME DeliveryAssumption ==
    /\ Agent \notin Listens
    /\ Conns \subseteq Nat \ {0} /\ Binders \subseteq Nat
    /\ Cap \in Nat \ {0}
    /\ MaxGen \in Nat \ {0} /\ MaxSessions \in Nat
    /\ Scenarios \subseteq [Events -> Nat]

VARIABLES
    link, binder,           \* the link's generation; the forwards that bind it
    desired, wake,          \* notificationStream.desired (0: not bound) and its wake channel
    run, active, closing,   \* the run goroutine, its active stream, ctx
    modern, ids, lock, todo, \* subscriptions, the holder of its mu and forEach's rest
    broken,                 \* lineWriter.err: the agent is gone
    conn,                   \* both ends of each stream's connection
    valid,                  \* the generations whose token the daemon accepts
    cur, box,               \* sessionStore: the proxy's session (0: none); each Session
    evict, pub,             \* the eviction loop; the session notifyAllSessions holds
    acked, owed, lost,      \* what the agent is entitled to (see Held)
    left                    \* what may still happen of the scenario

proxy == <<link, binder, desired, wake>>
runner == <<run, active, closing>>
subs == <<modern, ids, lock, todo, broken>>
store == <<valid, cur, box, evict>>
ghost == <<acked, owed, lost>>
vars == <<proxy, runner, subs, conn, store, pub, ghost, left>>

Sessions == 1 .. MaxSessions
Gens == 1 .. MaxGen
Ears == Listens \cup {Agent}

\* client is the consume goroutine, srv the GET handler, cut says that the request's
\* context ended; wire counts what the handler wrote and the client has not read.
Conn == [client: {"none", "dial", "read", "forward", "walk", "over"},
         srv: {"none", "req", "looked", "open"},
         gen: 0 .. MaxGen, sess: 0 .. MaxSessions, queue: 0 .. Cap, wire: Nat, cut: BOOLEAN]

Box == [made: BOOLEAN, ready: BOOLEAN, pending: BOOLEAN, closed: BOOLEAN]

TypeOK ==
    /\ link \in Gens
    /\ binder \in [Binders -> [pc: {"idle", "shaken", "stored", "done"}, gen: 0 .. MaxGen]]
    /\ desired \in 0 .. MaxGen /\ wake \in BOOLEAN
    /\ run \in {"next", "bind", "wait", "stop", "quit", "retry", "done"}
    /\ active \in Conns \cup {0} /\ closing \in BOOLEAN
    /\ modern \in BOOLEAN /\ broken \in BOOLEAN
    /\ ids \subseteq Listens /\ todo \subseteq Listens /\ lock \in {"free", "reader", "stream"}
    /\ conn \in [Conns -> Conn]
    /\ valid \subseteq Gens /\ cur \in 0 .. MaxSessions /\ pub \in 0 .. MaxSessions
    /\ box \in [Sessions -> Box]
    /\ evict \in {"idle", "checked", "deleted"} \X (0 .. MaxSessions)
    /\ acked \subseteq Listens /\ owed \subseteq Ears /\ lost \in BOOLEAN
    /\ left \in [Events -> Nat]

NoConn == [client |-> "none", srv |-> "none", gen |-> 0, sess |-> 0, queue |-> 0, wire |-> 0,
           cut |-> FALSE]
NoEviction == <<"idle", 0>>

Init ==
    /\ link = 1 /\ valid = {1}
    /\ binder = [b \in Binders |-> [pc |-> "idle", gen |-> 0]]
    /\ desired = 0 /\ wake = FALSE
    /\ run = "next" /\ active = 0 /\ closing = FALSE
    /\ ids = {} /\ lock = "free" /\ todo = {} /\ broken = FALSE
    /\ conn = [c \in Conns |-> NoConn]
    /\ cur = 0 /\ evict = NoEviction /\ pub = 0
    /\ box = [s \in Sessions |-> [made |-> FALSE, ready |-> FALSE, pending |-> FALSE, closed |-> FALSE]]
    /\ acked = {} /\ owed = {} /\ lost = FALSE
    /\ left \in Scenarios
    /\ modern = (left["listen"] > 0)

\* A connection both ends of which are gone is forgotten.
Update(c, new) ==
    conn' = [conn EXCEPT ![c] = IF new.client = "none" /\ new.srv = "none" THEN NoConn ELSE new]

Happens(e) == left[e] > 0 /\ left' = [left EXCEPT ![e] = @ - 1]

\* What the connection still carries towards a client that reads it.
Carries(k) == k.queue + k.wire > 0

-----------------------------------------------------------------------------
(* The proxy's forwards *)

\* A forward found the daemon unreachable or its token stale: link.recover.
Relink ==
    /\ link < MaxGen
    /\ Happens("relink")
    /\ link' = link + 1 /\ valid' = valid \cup {link + 1}
    /\ UNCHANGED <<binder, desired, wake, runner, subs, conn, cur, box, evict, pub, ghost>>

\* acquire: the eviction loop holds the store's mutex from its check to the deletion.
Acquire(ready) ==
    /\ evict[1] # "checked"
    /\ \E s \in Sessions :
          /\ IF cur # 0 THEN s = cur ELSE ~box[s].made /\ \A t \in Sessions : t < s => box[t].made
          /\ cur' = s
          /\ box' = [box EXCEPT ![s].made = TRUE, ![s].ready = @ \/ ready]

\* A request that finds its session gone is answered by a new one that is not
\* initialized; the forward then replays the handshake.
RequestForgotten(b) ==
    /\ binder[b].pc = "idle" /\ desired # 0 /\ cur = 0 /\ link \in valid
    /\ Acquire(FALSE)
    /\ UNCHANGED <<proxy, runner, subs, conn, valid, evict, pub, ghost, left>>

\* The lifecycle messages of a forward (or of its Handshake) under generation g:
\* the daemon takes them if it accepts the token; failures are ignored.
Handshake(b, g) ==
    /\ binder[b].pc = "idle" /\ g \in 1 .. link
    /\ \A a \in Binders : a < b => binder[a].pc # "idle"
    /\ binder' = [binder EXCEPT ![b] = [pc |-> "shaken", gen |-> g]]
    /\ \/ g \in valid /\ Acquire(TRUE)
       \/ g \notin valid /\ UNCHANGED <<cur, box>>
    /\ UNCHANGED <<link, desired, wake, runner, subs, conn, valid, evict, pub, ghost, left>>

\* Bind under mu: a forward that was slow must not undo a later one.
IsOlder(g) == desired # 0 /\ g < desired

BindStore(b) ==
    /\ binder[b].pc = "shaken"
    /\ IF IsOlder(binder[b].gen)
       THEN /\ binder' = [binder EXCEPT ![b].pc = "done"]
            /\ UNCHANGED desired
       ELSE /\ binder' = [binder EXCEPT ![b].pc = "stored"]
            /\ desired' = binder[b].gen
    /\ UNCHANGED <<link, wake, runner, subs, conn, store, pub, ghost, left>>

Signal(b) ==
    /\ binder[b].pc = "stored"
    /\ binder' = [binder EXCEPT ![b].pc = "done"]
    /\ wake' = TRUE
    /\ UNCHANGED <<link, desired, runner, subs, conn, store, pub, ghost, left>>

-----------------------------------------------------------------------------
(* notificationStream.run *)

\* start: consume sends the GET.
Start(c) ==
    /\ run = "next" /\ desired # 0
    /\ conn[c] = NoConn /\ \A d \in Conns : d < c => conn[d] # NoConn
    /\ Update(c, [NoConn EXCEPT !.client = "dial", !.srv = "req", !.gen = desired])
    /\ run' = "wait" /\ active' = c
    /\ UNCHANGED <<closing, proxy, subs, store, pub, ghost, left>>

NotBound ==
    /\ run = "next" /\ desired = 0
    /\ run' = "bind"
    /\ UNCHANGED <<active, closing, proxy, subs, conn, store, pub, ghost, left>>

\* waitForBind and retryDelay: a signal, the end of ctx, and for the latter the timer.
Woken ==
    /\ run \in {"bind", "retry"} /\ wake
    /\ wake' = FALSE /\ run' = "next"
    /\ UNCHANGED <<active, closing, link, binder, desired, subs, conn, store, pub, ghost, left>>

\* The timer is set when the select begins: what is ready by then comes first.
DelayEnds ==
    /\ run = "retry" /\ ~wake /\ ~closing
    /\ run' = "next"
    /\ UNCHANGED <<active, closing, proxy, subs, conn, store, pub, ghost, left>>

Quits ==
    /\ run \in {"bind", "retry"} /\ closing
    /\ run' = "done"
    /\ UNCHANGED <<active, closing, proxy, subs, conn, store, pub, ghost, left>>

\* The first half of active.stop(): cancel.
Cancel(c, pc) ==
    /\ Update(c, [conn[c] EXCEPT !.cut = TRUE])
    /\ run' = pc
    /\ UNCHANGED <<active, closing>>

\* wait: a signal, possibly of a bind that changed nothing.
Rebind ==
    /\ run = "wait" /\ wake
    /\ wake' = FALSE
    /\ IF desired # conn[active].gen
       THEN Cancel(active, "stop")
       ELSE UNCHANGED <<runner, conn>>
    /\ UNCHANGED <<link, binder, desired, subs, store, pub, ghost, left>>

WaitCancelled ==
    /\ run = "wait" /\ closing
    /\ Cancel(active, "quit")
    /\ UNCHANGED <<proxy, subs, store, pub, ghost, left>>

AfterDone_Ends(pc) == IF pc = "stop" THEN "next" ELSE "done"

\* <-active.done, at the end of stop() or because the stream ended by itself.
AfterDone(pc) ==
    CASE pc = "stop" -> "next"
      [] pc = "quit" -> "done"
      [] pc = "wait" -> IF broken THEN "done" ELSE "retry"

StreamDone ==
    /\ run \in {"wait", "stop", "quit"} /\ conn[active].client = "over"
    /\ Update(active, [conn[active] EXCEPT !.client = "none", !.wire = 0, !.cut = TRUE])
    /\ run' = AfterDone(run)
    /\ active' = 0
    /\ UNCHANGED <<closing, proxy, subs, store, pub, ghost, left>>

\* The agent closed its end; close() cancels ctx and waits for done.
Close ==
    /\ ~closing
    /\ Happens("close")
    /\ closing' = TRUE
    /\ UNCHANGED <<run, active, proxy, subs, conn, store, pub, ghost>>

-----------------------------------------------------------------------------
(* notificationStream.consume *)

\* The goroutine ends; what the connection carried is gone with it.
Over(c) ==
    /\ Update(c, [conn[c] EXCEPT !.client = "over"])
    /\ lost' = (lost \/ conn[c].client \in {"forward", "walk"} \/ Carries(conn[c]))

\* A status line: 200, or with the handler gone an error, an empty body or no answer.
Answered(c) ==
    /\ conn[c].client = "dial"
    /\ \/ /\ conn[c].srv = "open" \/ conn[c].wire > 0
          /\ Update(c, [conn[c] EXCEPT !.client = "read"])
          /\ UNCHANGED lost
       \/ /\ conn[c].srv = "none" /\ conn[c].wire = 0
          /\ Over(c)
    /\ UNCHANGED <<proxy, runner, subs, store, pub, acked, owed, left>>

ReadNotice(c) ==
    /\ conn[c].client = "read" /\ conn[c].wire > 0
    /\ Update(c, [conn[c] EXCEPT !.client = "forward", !.wire = @ - 1])
    /\ UNCHANGED <<proxy, runner, subs, store, pub, ghost, left>>

\* The body ended, or the context of the request did.
StreamEnds(c) ==
    /\ \/ conn[c].client = "read" /\ conn[c].srv = "none" /\ conn[c].wire = 0
       \/ conn[c].client \in {"dial", "read"} /\ (conn[c].cut \/ closing)
    /\ Over(c)
    /\ UNCHANGED <<proxy, runner, subs, store, pub, acked, owed, left>>

\* forward to a legacy agent.
ForwardRaw(c) ==
    /\ conn[c].client = "forward" /\ ~modern
    /\ IF broken
       THEN Over(c) /\ UNCHANGED owed
       ELSE /\ Update(c, [conn[c] EXCEPT !.client = "read"])
            /\ owed' = {}
            /\ UNCHANGED lost
    /\ UNCHANGED <<proxy, runner, subs, store, pub, acked, left>>

\* forward to a modern agent: forEach under the lock of the subscriptions.
ForEachBegins(c) ==
    /\ conn[c].client = "forward" /\ modern /\ lock = "free"
    /\ lock' = "stream" /\ todo' = ids
    /\ Update(c, [conn[c] EXCEPT !.client = "walk"])
    /\ UNCHANGED <<proxy, runner, modern, ids, broken, store, pub, ghost, left>>

ForEachWrites(c, l) ==
    /\ conn[c].client = "walk" /\ l \in todo
    /\ IF broken
       THEN /\ Over(c)
            /\ lock' = "free" /\ todo' = {}
            /\ UNCHANGED owed
       ELSE /\ todo' = todo \ {l}
            /\ owed' = owed \ {l}
            /\ UNCHANGED <<lock, conn, lost>>
    /\ UNCHANGED <<proxy, runner, modern, ids, broken, store, pub, acked, left>>

ForEachEnds(c) ==
    /\ conn[c].client = "walk" /\ todo = {}
    /\ lock' = "free"
    /\ Update(c, [conn[c] EXCEPT !.client = "read"])
    /\ UNCHANGED <<proxy, runner, modern, ids, todo, broken, store, pub, ghost, left>>

-----------------------------------------------------------------------------
(* The reader loop's listens *)

ClientReady == \E b \in Binders : binder[b].pc # "idle"

AckHeld_Released == "free"

\* acknowledge writes the ack and records the listen without letting go of the lock.
AckHeld == "reader"

WriteAck(l) ==
    /\ modern /\ ClientReady /\ ~closing /\ l \notin acked /\ lock = "free"
    /\ ~broken
    /\ Happens("listen")
    /\ lock' = AckHeld
    /\ acked' = acked \cup {l}
    /\ UNCHANGED <<proxy, runner, modern, ids, todo, broken, conn, store, pub, owed, lost>>

Register(l) ==
    /\ l \in acked \ ids /\ lock # "stream"
    /\ ids' = ids \cup {l}
    /\ lock' = "free"
    /\ UNCHANGED <<proxy, runner, modern, todo, broken, conn, store, pub, ghost, left>>

\* notifications/cancelled for a listen: the agent no longer expects its notices.
CancelListen(l) ==
    /\ l \in ids /\ lock = "free" /\ ~closing
    /\ Happens("cancel")
    /\ ids' = ids \ {l}
    /\ acked' = acked \ {l} /\ owed' = owed \ {l}
    /\ UNCHANGED <<proxy, runner, modern, lock, todo, broken, conn, store, pub, lost>>

\* A write to the agent fails, and so does every later one.
AgentGone ==
    /\ ~broken
    /\ Happens("gone")
    /\ broken' = TRUE
    /\ UNCHANGED <<proxy, runner, modern, ids, lock, todo, conn, store, pub, ghost>>

-----------------------------------------------------------------------------
(* The daemon's GET handler *)

\* authorizeDaemon and streamSession.
LookUp(c) ==
    /\ conn[c].srv = "req" /\ evict[1] # "checked"
    /\ Update(c, IF conn[c].gen \in valid /\ cur # 0
                 THEN [conn[c] EXCEPT !.srv = "looked", !.sess = cur]
                 ELSE [conn[c] EXCEPT !.srv = "none"])
    /\ UNCHANGED <<proxy, runner, subs, store, pub, ghost, left>>

\* openStream hands over a notice that found no stream.
FirstNotice(s) == IF box[s].pending THEN 1 ELSE 0

OpenStream(c) ==
    /\ conn[c].srv = "looked"
    /\ LET s == conn[c].sess
       IN IF box[s].closed
          THEN /\ Update(c, [conn[c] EXCEPT !.srv = "none"])
               /\ UNCHANGED box
          ELSE /\ Update(c, [conn[c] EXCEPT !.srv = "open", !.queue = FirstNotice(s)])
               /\ box' = [box EXCEPT ![s].pending = FALSE]
    /\ UNCHANGED <<proxy, runner, subs, valid, cur, evict, pub, ghost, left>>

\* A client that is gone: the bytes go nowhere.
ClientGone(k) == k.client \in {"none", "over"}

WriteNotice(c) ==
    /\ conn[c].srv = "open" /\ conn[c].queue > 0
    /\ Update(c, [conn[c] EXCEPT !.queue = @ - 1, !.wire = IF ClientGone(conn[c]) THEN 0 ELSE @ + 1])
    /\ lost' = (lost \/ ClientGone(conn[c]))
    /\ UNCHANGED <<proxy, runner, subs, store, pub, acked, owed, left>>

\* The request's context ended: closeStream drops what the channel still held.
HandlerCancelled(c) ==
    /\ conn[c].srv = "open" /\ (conn[c].cut \/ ClientGone(conn[c]))
    /\ Update(c, [conn[c] EXCEPT !.srv = "none", !.queue = 0])
    /\ lost' = (lost \/ conn[c].queue > 0)
    /\ UNCHANGED <<proxy, runner, subs, store, pub, acked, owed, left>>

\* The outbox closed the channel, whose buffer was read to its end first.
HandlerEnds(c) ==
    /\ conn[c].srv = "open" /\ box[conn[c].sess].closed /\ conn[c].queue = 0
    /\ Update(c, [conn[c] EXCEPT !.srv = "none"])
    /\ UNCHANGED <<proxy, runner, subs, store, pub, ghost, left>>

-----------------------------------------------------------------------------
(* Publishing a change *)

\* notifyAllSessions takes a snapshot of the sessions ...
Snapshot ==
    /\ pub = 0 /\ cur # 0 /\ evict[1] # "checked"
    /\ Happens("change")
    /\ pub' = cur
    /\ UNCHANGED <<proxy, runner, subs, conn, store, ghost>>

StreamsOf(s) == {c \in Conns : conn[c].srv = "open" /\ conn[c].sess = s}

HasRoom(c) == conn[c].queue < Cap

\* No stream had room.
Pending(s) == box' = [box EXCEPT ![s].pending = TRUE]

\* ... and then publishes to each one that is ready: to any one stream with room.
Publish ==
    /\ pub # 0
    /\ pub' = 0
    /\ LET s == pub
           room == {c \in StreamsOf(s) : HasRoom(c)}
       IN \/ /\ ~box[s].ready \/ box[s].closed
             /\ UNCHANGED <<conn, box, ghost>>
          \/ /\ box[s].ready /\ ~box[s].closed
             /\ \/ /\ room = {} /\ Pending(s)
                   /\ UNCHANGED conn
                \/ /\ \E c \in room : Update(c, [conn[c] EXCEPT !.queue = @ + 1])
                   /\ UNCHANGED box
             /\ owed' = (IF modern THEN acked ELSE {Agent})
             /\ lost' = FALSE
             /\ UNCHANGED acked
    /\ UNCHANGED <<proxy, runner, subs, valid, cur, evict, left>>

-----------------------------------------------------------------------------
(* Eviction and restart *)

\* collectIdleSessions under the store's mutex: hasOpenStream takes and releases the
\* outbox's own mutex, so a handler that has the session may still open a stream.
EvictCheck ==
    /\ evict = NoEviction /\ cur # 0 /\ StreamsOf(cur) = {}
    /\ Happens("evict")
    /\ evict' = <<"checked", cur>>
    /\ UNCHANGED <<proxy, runner, subs, conn, valid, cur, box, pub, ghost>>

EvictDelete ==
    /\ evict[1] = "checked"
    /\ evict' = <<"deleted", cur>> /\ cur' = 0
    /\ UNCHANGED <<proxy, runner, subs, conn, valid, box, pub, ghost, left>>

\* Session.Close of the evicted session.
EvictClose ==
    /\ evict[1] = "deleted"
    /\ evict' = NoEviction
    /\ box' = [box EXCEPT ![evict[2]].closed = TRUE, ![evict[2]].pending = FALSE]
    /\ lost' = (lost \/ box[evict[2]].pending)
    /\ UNCHANGED <<proxy, runner, subs, conn, valid, cur, pub, acked, owed, left>>

\* The daemon dies and another takes its place, with the same token or a new one.
\* What it had written stays readable.
Restart ==
    /\ Happens("restart")
    /\ valid' \in {valid, {}}
    /\ cur' = 0 /\ evict' = NoEviction /\ pub' = 0
    /\ box' = [s \in Sessions |-> [box[s] EXCEPT !.closed = box[s].made, !.pending = FALSE]]
    /\ conn' = [c \in Conns |-> IF conn[c].client = "none" THEN NoConn
                                 ELSE [conn[c] EXCEPT !.srv = "none", !.queue = 0]]
    /\ lost' = TRUE
    /\ UNCHANGED <<proxy, runner, subs, acked, owed>>

-----------------------------------------------------------------------------
Proxy ==
    \/ Relink
    \/ \E b \in Binders, g \in Gens : Handshake(b, g)
    \/ \E b \in Binders : RequestForgotten(b) \/ BindStore(b) \/ Signal(b)
    \/ \E c \in Conns : Start(c)
    \/ NotBound \/ Woken \/ DelayEnds \/ Quits \/ Rebind \/ WaitCancelled \/ StreamDone
    \/ Close

Consume(c) ==
    \/ Answered(c) \/ ReadNotice(c) \/ StreamEnds(c) \/ ForwardRaw(c)
    \/ ForEachBegins(c) \/ (\E l \in Listens : ForEachWrites(c, l)) \/ ForEachEnds(c)

Reader ==
    \/ \E l \in Listens : WriteAck(l) \/ Register(l) \/ CancelListen(l)
    \/ AgentGone

Handler(c) ==
    LookUp(c) \/ OpenStream(c) \/ WriteNotice(c) \/ HandlerCancelled(c) \/ HandlerEnds(c)

Daemon ==
    Snapshot \/ Publish \/ EvictCheck \/ EvictDelete \/ EvictClose \/ Restart

Next == Proxy \/ Reader \/ Daemon \/ \E c \in Conns : Consume(c) \/ Handler(c)

Spec == Init /\ [][Next]_vars

\* Every goroutine that can move does.  Nobody owes a relink, a forward, a listen,
\* a change, an eviction, a restart or the end of the agent.
Runner == (\E c \in Conns : Start(c)) \/ NotBound \/ Woken \/ DelayEnds \/ Quits
          \/ Rebind \/ WaitCancelled \/ StreamDone

FairSpec ==
    /\ Spec
    /\ WF_vars(Runner)
    /\ \A b \in Binders : WF_vars(BindStore(b) \/ Signal(b))
    /\ \A c \in Conns : WF_vars(Consume(c)) /\ WF_vars(Handler(c))
    /\ WF_vars(\E l \in Listens : Register(l))
    /\ WF_vars(Publish \/ EvictDelete \/ EvictClose)
    \* a goroutine that waits for the subscriptions' lock gets it
    /\ \A c \in Conns : SF_vars(ForEachBegins(c))

-----------------------------------------------------------------------------
Reading == {c \in Conns : conn[c].client \in {"dial", "read", "forward", "walk"}}

(* stop() waits for the goroutine it cancels: the proxy never has two streams
   writing to the agent at once, and none is left once Close has returned
   (notification_stream.go, stop and run). *)
OneStream ==
    /\ Cardinality(Reading) <= 1
    /\ run = "done" => Reading = {}

\* A notice the agent's ears are owed is still on its way.
Held ==
    \/ \E s \in Sessions : box[s].pending /\ ~box[s].closed
    \/ \E c \in Conns :
          \/ conn[c].srv = "open" /\ conn[c].queue > 0
          \/ ~ClientGone(conn[c]) /\ conn[c].wire > 0
          \/ conn[c].client = "forward"
          \/ conn[c].client = "walk" /\ owed \subseteq todo

Excused == lost \/ closing \/ broken

(* A change published to a ready session is not forgotten: until every ear the
   agent had then (itself, or each listen acknowledged before the change and not
   cancelled since) has been written a notice after the change, one is pending in
   the outbox, queued, on the wire or being written; unless a stream was ended
   with a notice in it, the session was dropped or the agent left.
   (tools_changed.go, publishToolsChanged and openStream; subscriptions.go,
   acknowledge: "orders each acknowledgement before any notification".) *)
OwedIsHeld == owed # {} => Held \/ Excused

(* And such a notice arrives. *)
NoticeArrives == (owed # {}) ~> (owed = {} \/ Excused)

Streaming == \E c \in Reading : conn[c].gen = desired /\ conn[c].srv = "open"

(* The proxy ends up reading a stream of the newest link it was bound to, however
   binds, signals, retries and restarts interleave; unless the proxy or the agent
   ended, or the daemon knows neither the token nor the session, which only the
   agent's next request repairs (notification_stream.go, Bind, wait, retryDelay). *)
FollowsNewestLink ==
    <>[](desired = 0 \/ closing \/ broken \/ desired \notin valid \/ cur = 0
         \/ (Streaming /\ \A b \in Binders : binder[b].pc = "done" => binder[b].gen <= desired))

(* Close returns: the run goroutine ends, whatever the stream is doing. *)
StreamCloses == closing ~> run = "done"

(* What the agent waits for happens: notices arrive, the stream comes to follow the newest link
   and only one stream writes, and Close returns. *)
StreamKeepsUp == NoticeArrives /\ FollowsNewestLink /\ StreamCloses /\ []OneStream

=============================================================================
