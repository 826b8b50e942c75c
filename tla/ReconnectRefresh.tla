--------------------------- MODULE ReconnectRefresh ---------------------------
(***************************************************************************)
(* The tool list of one upstream when its connection is also replaced: the *)
(* refresher of ToolListRefresher composed with the reconnect loop of      *)
(* internal/server/upstream_reconnect.go.                                  *)
(*                                                                         *)
(* The reconnect loop dials a new connection, lists its tools, swaps it    *)
(* in, attaches the notification handler, closes the old connection and    *)
(* only then publishes the list it fetched.  The base module's wire,       *)
(* handlerSet and held are those of the connection in use; newWire and     *)
(* newHeld are those of the one being opened.                              *)
(***************************************************************************)
EXTENDS ToolListRefresher

CONSTANT MaxReconnects  \* bound: how often the connection breaks

VARIABLES
    conn,      \* number of the connection in use
    passConn,  \* the connection the running pass took; 0 before it took one
    loop,      \* what the reconnect loop is about to do, "idle" without one
    fetched,   \* the list it fetched
    newWire,   \* notices on their way over the new connection
    newHeld,   \* newest version announced over it before the swap
    from       \* the connection the published list was fetched over

link == <<conn, passConn, loop, fetched, newWire, newHeld, from>>
allVars == <<vars, link>>

InitR ==
    /\ Init
    /\ conn = 1 /\ passConn = 0 /\ loop = "idle" /\ fetched = 0
    /\ newWire = {} /\ newHeld = 0 /\ from = 1

-----------------------------------------------------------------------------
(* The refresher's steps, seen from here *)

\* Both connections announce a change; a broken one may lose what is on its way.
Changes ==
    /\ UpstreamChanges
    /\ newWire' = IF loop \in {"list", "swap"} THEN newWire \cup {version'} ELSE newWire
    /\ UNCHANGED <<conn, passConn, loop, fetched, newHeld, from>>

\* next() of the worker; the pass has not looked at the connection yet.
TakePass ==
    /\ \E w \in workers : Next_(w)
    /\ passConn' = 0
    /\ UNCHANGED <<conn, loop, fetched, newWire, newHeld, from>>

\* currentUpstreamConn at the start of refreshTools.
TakeConn ==
    /\ \E w \in workers : w.pc = "list"
    /\ passConn = 0 /\ ~ctxDone
    /\ passConn' = conn
    /\ UNCHANGED <<vars, conn, loop, fetched, newWire, newHeld, from>>

ListPass ==
    /\ passConn # 0
    /\ \E w \in workers : ListAnswered(w)
    /\ UNCHANGED link

ListPassFails ==
    /\ \E w \in workers : ListingFails(w)
    /\ UNCHANGED link

\* isCurrentUpstreamConn for the connection the pass took.
PassIsCurrent == passConn = conn

\* publishRefreshedTools gives up a list of a connection that is not current.
PublishPass ==
    /\ \E w \in workers :
         IF PassIsCurrent
         THEN Publish(w)
         ELSE /\ w.pc = "publish"
              /\ Becomes(w, [w EXCEPT !.pc = "next"])
              /\ missed' = TRUE
              /\ UNCHANGED <<version, wire, handlerSet, held, stopped, running, pending,
                             freshness, runs, published, ctxDone, reader, heard>>
    /\ from' = IF PassIsCurrent /\ ~ctxDone THEN passConn ELSE from
    /\ UNCHANGED <<conn, passConn, loop, fetched, newWire, newHeld>>

Notices ==
    /\ \/ \E v \in wire : DeliverNotice(v)
       \/ SetHandler /\ loop = "idle"
    /\ UNCHANGED link

Others ==
    /\ \/ LifetimeEnds \/ Stop \/ Cancel
       \/ \E r \in Readers : StartRead(r) \/ ReadAwaited(r) \/ ReadGivesUp(r)
    /\ UNCHANGED link

-----------------------------------------------------------------------------
(* The reconnect loop *)

\* The connection is found broken.  The loop sleeps a second before it dials, by
\* when the install has attached its handler.
MaybeReconnect ==
    /\ loop = "idle" /\ ~ctxDone /\ handlerSet
    /\ conn <= MaxReconnects
    /\ loop' = "dial"
    /\ UNCHANGED <<vars, conn, passConn, fetched, newWire, newHeld, from>>

\* dialForReconnect; a failed dial goes round again.
ReconnectDial ==
    /\ loop = "dial" /\ ~ctxDone
    /\ loop' = "list"
    /\ UNCHANGED <<vars, conn, passConn, fetched, newWire, newHeld, from>>

ReconnectLists ==
    /\ loop = "list" /\ ~ctxDone
    /\ loop' = "swap" /\ fetched' = version
    /\ UNCHANGED <<vars, conn, passConn, newWire, newHeld, from>>

\* listToolsForReconnect failed: its connection is closed.
ReconnectListFails ==
    /\ loop = "list"
    /\ loop' = "dial" /\ newWire' = {} /\ newHeld' = 0
    /\ UNCHANGED <<vars, conn, passConn, fetched, from>>

\* The context is done, or the upstream wants a login.
ReconnectEnds ==
    /\ loop = "dial"
    /\ loop' = "idle"
    /\ UNCHANGED <<vars, conn, passConn, fetched, newWire, newHeld, from>>

\* A notice over the new connection before its handler is attached is held.
DeliverNew(v) ==
    /\ loop \in {"list", "swap"} /\ v \in newWire
    /\ newWire' = newWire \ {v}
    /\ newHeld' = Newer(newHeld, v)
    /\ UNCHANGED <<vars, conn, passConn, loop, fetched, from>>

\* Fault: what was announced before the swap is forgotten.
Inherited_Nothing == 0

\* The notice the new connection's notifier holds for its handler.
Inherited == newHeld

\* swapReconnectConn: from here notices of the old connection are dropped.
SwapConn ==
    /\ loop = "swap"
    /\ newWire' = {} /\ newHeld' = 0
    /\ IF ctxDone
       THEN loop' = "idle" /\ UNCHANGED <<conn, wire, handlerSet, held>>
       ELSE /\ loop' = "attach"
            /\ conn' = conn + 1
            /\ wire' = newWire /\ handlerSet' = FALSE /\ held' = Inherited
    /\ UNCHANGED <<version, stopped, running, pending, freshness, runs, workers, published,
                   ctxDone, reader, heard, missed, passConn, fetched, from>>

AttachNotificationHandler ==
    /\ loop = "attach"
    /\ SetHandler
    /\ loop' = "publish"
    /\ UNCHANGED <<conn, passConn, fetched, newWire, newHeld, from>>

\* isCurrentUpstreamConn for the connection the loop installed; only this loop
\* replaces it.
IsCurrentUpstreamConn == ~ctxDone

\* publishReconnectedTools, after the old connection has been closed.
PublishReconnectedTools ==
    /\ loop = "publish"
    /\ loop' = "idle"
    /\ IF IsCurrentUpstreamConn
       THEN /\ published' = fetched /\ from' = conn
            /\ \E f \in ListedFreshness : freshness' = publishedFreshness(f)
       ELSE UNCHANGED <<published, freshness, from>>
    /\ UNCHANGED <<version, wire, handlerSet, held, stopped, running, pending, runs, workers,
                   ctxDone, reader, heard, missed, conn, passConn, fetched, newWire, newHeld>>

-----------------------------------------------------------------------------
RefresherStep == Changes \/ Notices \/ TakePass \/ TakeConn \/ ListPass \/ ListPassFails
                     \/ PublishPass \/ Others

ReconnectStep ==
    \/ ReconnectDial \/ ReconnectLists \/ ReconnectListFails \/ ReconnectEnds
    \/ SwapConn \/ AttachNotificationHandler \/ PublishReconnectedTools
    \/ \E v \in newWire : DeliverNew(v)

NextR == RefresherStep \/ MaybeReconnect \/ ReconnectStep

SpecR == InitR /\ [][NextR]_allVars

-----------------------------------------------------------------------------
(* Properties *)

\* No reconnect is under way and every notice has arrived.
Quiet == loop = "idle" /\ handlerSet /\ wire = {}

\* The registry lists tools of the connection in use: a pass that listed the old
\* connection publishes nothing once the new one is in place.  Between the swap
\* and publishing the reconnect's own list the old tools stay; an upstream shut down
\* in between publishes nothing more.
ListIsOfThisConnection == ctxDone \/ from = conn \/ loop \in {"attach", "publish"}

\* A change the upstream makes while the connection is being replaced is not
\* lost with the old connection: it is in the list fetched over the new one or
\* has been announced over it, over the old connection or over the new one before its
\* handler is attached; and the list published is one of the connection in use.
ChangesSurviveReconnect ==
    /\ ListIsOfThisConnection
    /\ Quiet /\ ~ctxDone => Newer(heard, published) = version

\* A removed or replaced upstream no longer changes the registry, whatever pass
\* or reconnect it still has under way.
CancelledPublishesNothing == [][ctxDone => published' = published]_allVars

\* published(): a list that a notification overtook "stays stale until the
\* follow-up pass succeeds".  Once everything has settled, a list that counts as
\* fresh has every announced change.
SettledListIsCurrent ==
    Quiet /\ ~running /\ ~stopped /\ freshness = "fresh" => published >= heard
=============================================================================
