-------------------------- MODULE ToolListRefresher --------------------------
(***************************************************************************)
(* How one upstream's tool list is kept current                            *)
(* (internal/server/tool_list_refresher.go, upstream_refresh.go and the    *)
(* notifier in internal/transport/tools_changed_notifier.go).              *)
(*                                                                         *)
(* The upstream numbers its tool lists 0, 1, 2, ...; each change sends one *)
(* list_changed notice, which arrives when it likes.  A notice asks the    *)
(* refresher for a pass; one worker goroutine runs passes until none is    *)
(* pending.  A discovery read (an agent's tools/list) joins the running    *)
(* worker or starts one when the list's lifetime is over.                  *)
(*                                                                         *)
(* Every critical section of the refresher's mutex is one action.  A pass  *)
(* is four: next() takes the request, the upstream answers, the list is    *)
(* published under serverOpMu, and the worker asks for more work.          *)
(***************************************************************************)
EXTENDS Naturals

CONSTANTS
    Readers,      \* discovery reads that may be in progress together
    MaxVersion,   \* bound: how often the upstream changes its list
    MaxRuns,      \* bound: no read begins once this many workers have been started
    Managed       \* TRUE when the upstream gives its lists a lifetime (ttlMs)

ASSUME ConstantsAssumption ==
    /\ MaxVersion \in Nat
    /\ MaxRuns \in Nat
    /\ Managed \in BOOLEAN

VARIABLES
    version,    \* the upstream's current list
    wire,       \* notices sent and not yet delivered, by the version they announce
    handlerSet, \* the connection's notifier has a handler
    held,       \* newest version announced before the handler was set; the
                \* notifier's pending flag is held # 0
    stopped, running, pending,
    freshness,  \* "unmanaged", "fresh" or "expired"
    runs,       \* workers started; also names the current done channel
    workers,    \* live worker goroutines
    published,  \* the version in lastDefs and the registry
    ctxDone,    \* the upstream's context is cancelled
    reader,     \* per discovery read
    heard,      \* newest version announced to this proxy
    missed      \* the last pass to end failed

vars == <<version, wire, handlerSet, held, stopped, running, pending, freshness,
          runs, workers, published, ctxDone, reader, heard, missed>>

Versions == 0 .. MaxVersion
\* The lifetimes a listing can come back with: a page cap, a repeated cursor or
\* an error after the first page leaves the list incomplete and so expired.
ListedFreshness == IF Managed THEN {"fresh", "expired"} ELSE {"unmanaged"}

\* What a goroutine inside runToolRefreshes is about to do.
Worker == [run: Nat, pc: {"next", "list", "publish"}, got: Versions]

\* done is the run whose channel the read waits on; need is what had been
\* announced when it began and saw what it was served.
Reader == [pc: {"idle", "waiting", "served"}, done: Nat, need: Versions,
           saw: Versions, excused: BOOLEAN]

IdleReader == [pc |-> "idle", done |-> 0, need |-> 0, saw |-> 0, excused |-> FALSE]

TypeOK ==
    /\ version \in Versions
    /\ wire \subseteq Versions
    /\ handlerSet \in BOOLEAN /\ held \in Versions
    /\ stopped \in BOOLEAN /\ running \in BOOLEAN /\ pending \in BOOLEAN
    /\ freshness \in ListedFreshness
    /\ runs \in Nat
    /\ workers \subseteq Worker
    /\ published \in Versions
    /\ ctxDone \in BOOLEAN
    /\ reader \in [Readers -> Reader]
    /\ heard \in Versions
    /\ missed \in BOOLEAN

\* Freshness.Expire: a managed list becomes stale, an unmanaged one stays.
Expire(f) == IF f = "unmanaged" THEN f ELSE "expired"

Newer(a, b) == IF a > b THEN a ELSE b

\* Just installed: the list of version 0 is adopted and in the registry, the
\* notification handler is about to be attached.
Init ==
    /\ version = 0 /\ wire = {}
    /\ handlerSet = FALSE /\ held = 0
    /\ stopped = FALSE /\ running = FALSE /\ pending = FALSE
    /\ freshness \in ListedFreshness
    /\ runs = 0 /\ workers = {}
    /\ published = 0 /\ ctxDone = FALSE
    /\ reader = [r \in Readers |-> IdleReader]
    /\ heard = 0 /\ missed = FALSE

-----------------------------------------------------------------------------
(* The upstream and the lifetime of its list *)

UpstreamChanges ==
    /\ version < MaxVersion
    /\ version' = version + 1
    /\ wire' = wire \cup {version'}
    /\ UNCHANGED <<handlerSet, held, stopped, running, pending, freshness, runs,
                   workers, published, ctxDone, reader, heard, missed>>

LifetimeEnds ==
    /\ freshness = "fresh"
    /\ freshness' = "expired"
    /\ UNCHANGED <<version, wire, handlerSet, held, stopped, running, pending,
                   runs, workers, published, ctxDone, reader, heard, missed>>

-----------------------------------------------------------------------------
(* toolListRefresher: each operation is one critical section *)

NewWorker == [run |-> runs + 1, pc |-> "next", got |-> 0]

startLocked ==
    IF running
    THEN UNCHANGED <<running, runs, workers>>
    ELSE /\ running' = TRUE
         /\ runs' = runs + 1
         /\ workers' = workers \cup {NewWorker}

\* Fault: a request that finds a worker at work is dropped.
request_WhenIdle ==
    IF stopped \/ running
    THEN UNCHANGED <<freshness, pending, running, runs, workers>>
    ELSE /\ freshness' = Expire(freshness)
         /\ pending' = TRUE
         /\ startLocked

request ==
    IF stopped
    THEN UNCHANGED <<freshness, pending, running, runs, workers>>
    ELSE /\ freshness' = Expire(freshness)
         /\ pending' = TRUE
         /\ startLocked

\* Stale(now), the lifetime being over or expired by a notice.
Stale == freshness = "expired"

\* Fault: every pass makes the list fresh.
publishedFreshness_Always(f) == f

\* A pass that a notice overtook leaves the list stale.
publishedFreshness(f) == IF pending THEN freshness ELSE f

-----------------------------------------------------------------------------
(* Notices *)

\* requestToolRefresh drops a notice of a connection that is no longer current.
requestToolRefresh ==
    IF ctxDone THEN UNCHANGED <<freshness, pending, running, runs, workers>> ELSE request

\* NotifyToolsChanged, before and after SetHandler.
DeliverNotice(v) ==
    /\ v \in wire
    /\ wire' = wire \ {v}
    /\ IF handlerSet
       THEN /\ requestToolRefresh
            /\ heard' = Newer(heard, v)
            /\ held' = held
       ELSE /\ held' = Newer(held, v)
            /\ UNCHANGED <<freshness, pending, running, runs, workers, heard>>
    /\ UNCHANGED <<version, handlerSet, stopped, published, ctxDone, reader, missed>>

\* attachNotificationHandler, the last step of an install; a held notice is
\* handed over at once.
SetHandler ==
    /\ ~handlerSet
    /\ handlerSet' = TRUE
    /\ held' = 0
    /\ IF held # 0
       THEN requestToolRefresh /\ heard' = Newer(heard, held)
       ELSE UNCHANGED <<freshness, pending, running, runs, workers, heard>>
    /\ UNCHANGED <<version, wire, stopped, published, ctxDone, reader, missed>>

-----------------------------------------------------------------------------
(* The worker: runToolRefreshes *)

Becomes(w, to) == workers' = (workers \ {w}) \cup {to}

\* Fault: the request is not taken, so the run never ends.
Next_KeepsPending(w) ==
    /\ w \in workers /\ w.pc = "next"
    /\ IF ~pending \/ stopped
       THEN running' = FALSE /\ workers' = workers \ {w}
       ELSE Becomes(w, [w EXCEPT !.pc = "list"]) /\ running' = running
    /\ UNCHANGED <<version, wire, handlerSet, held, stopped, pending, freshness,
                   runs, published, ctxDone, reader, heard, missed>>

\* next() ends the run, closing its done channel, or takes the request.
Next_(w) ==
    /\ w \in workers /\ w.pc = "next"
    /\ IF ~pending \/ stopped
       THEN /\ running' = FALSE
            /\ workers' = workers \ {w}
            /\ pending' = pending
       ELSE /\ pending' = FALSE
            /\ Becomes(w, [w EXCEPT !.pc = "list"])
            /\ running' = running
    /\ UNCHANGED <<version, wire, handlerSet, held, stopped, freshness, runs,
                   published, ctxDone, reader, heard, missed>>

ListAnswered(w) ==
    /\ w \in workers /\ w.pc = "list" /\ ~ctxDone
    /\ Becomes(w, [w EXCEPT !.pc = "publish", !.got = version])
    /\ UNCHANGED <<version, wire, handlerSet, held, stopped, running, pending,
                   freshness, runs, published, ctxDone, reader, heard, missed>>

\* No current connection, an error, or the 60 second limit.
ListingFails(w) ==
    /\ w \in workers /\ w.pc = "list"
    /\ Becomes(w, [w EXCEPT !.pc = "next"])
    /\ missed' = TRUE
    /\ UNCHANGED <<version, wire, handlerSet, held, stopped, running, pending,
                   freshness, runs, published, ctxDone, reader, heard>>

\* publishRefreshedTools; a cancelled upstream's list is dropped.
Publish(w) ==
    /\ w \in workers /\ w.pc = "publish"
    /\ Becomes(w, [w EXCEPT !.pc = "next"])
    /\ IF ctxDone
       THEN missed' = TRUE /\ UNCHANGED <<published, freshness>>
       ELSE /\ published' = w.got
            /\ \E f \in ListedFreshness : freshness' = publishedFreshness(f)
            /\ missed' = FALSE
    /\ UNCHANGED <<version, wire, handlerSet, held, stopped, running, pending, runs,
                   ctxDone, reader, heard>>

-----------------------------------------------------------------------------
(* Discovery reads: awaitFreshToolLists *)

\* A done channel is open exactly while its run goes on.
Closed(run) == ~(running /\ run = runs)

\* refreshIfStale; waiting on a closed channel stands for noRefreshToAwait.
StartRead(r) ==
    /\ reader[r].pc # "waiting"
    /\ runs < MaxRuns
    /\ IF ~stopped /\ ~running /\ Stale
       THEN pending' = TRUE /\ startLocked
       ELSE UNCHANGED <<pending, running, runs, workers>>
    /\ reader' = [reader EXCEPT ![r] =
          [pc |-> "waiting", done |-> IF stopped THEN 0 ELSE runs',
           need |-> heard, saw |-> 0, excused |-> FALSE]]
    /\ UNCHANGED <<version, wire, handlerSet, held, stopped, freshness, published,
                   ctxDone, heard, missed>>

Serve(r, excuse) ==
    /\ reader[r].pc = "waiting"
    /\ reader' = [reader EXCEPT ![r].pc = "served", ![r].saw = published,
                                ![r].excused = excuse]
    /\ UNCHANGED <<version, wire, handlerSet, held, stopped, running, pending,
                   freshness, runs, workers, published, ctxDone, heard, missed>>

\* The done channel is closed.  A failed pass, or a stopped refresher, excuses
\* serving the list there is.
ReadAwaited(r) == Closed(reader[r].done) /\ Serve(r, missed \/ stopped)

\* The 25 second discovery wait is over, or the proxy stops waiting.
ReadGivesUp(r) == Serve(r, TRUE)

-----------------------------------------------------------------------------
(* shutdown: stop the refresher, then cancel the context *)

Stop ==
    /\ ~stopped
    /\ stopped' = TRUE
    /\ UNCHANGED <<version, wire, handlerSet, held, running, pending, freshness,
                   runs, workers, published, ctxDone, reader, heard, missed>>

Cancel ==
    /\ stopped /\ ~ctxDone
    /\ ctxDone' = TRUE
    /\ UNCHANGED <<version, wire, handlerSet, held, stopped, running, pending,
                   freshness, runs, workers, published, reader, heard, missed>>

-----------------------------------------------------------------------------
WorkerStep(w) == Next_(w) \/ ListAnswered(w) \/ ListingFails(w) \/ Publish(w)

Next ==
    \/ UpstreamChanges
    \/ LifetimeEnds
    \/ \E v \in wire : DeliverNotice(v)
    \/ SetHandler
    \/ \E w \in workers : WorkerStep(w)
    \/ \E r \in Readers : StartRead(r) \/ ReadAwaited(r) \/ ReadGivesUp(r)
    \/ Stop
    \/ Cancel

Spec == Init /\ [][Next]_vars

\* The worker goroutine is scheduled, its list call ends within 60 seconds, and
\* the install that created the upstream goes on to attach the handler.  The
\* upstream, the wire, the agents and shutdown promise nothing.
Fairness ==
    /\ WF_vars(\E w \in workers : WorkerStep(w))
    /\ WF_vars(SetHandler)

FairSpec == Spec /\ Fairness

-----------------------------------------------------------------------------
(* Properties *)

\* The running flag of toolListRefresher tells the truth: a worker goroutine is
\* alive exactly while it is set, there is never a second one, and it belongs
\* to the run whose done channel new reads wait on.
OneWorker ==
    /\ ~running => workers = {}
    /\ running => \E w \in workers : workers = {w} /\ w.run = runs

\* A list whose lifetime still runs contains every change the upstream has
\* announced: published() never marks fresh a list that a notice overtook.
\* (A stopped refresher takes no requests and reads no longer ask it.)
FreshListIsCurrent == ~stopped /\ freshness = "fresh" => published >= heard

\* awaitFreshToolLists: a read that waited for its refresh serves every change
\* announced before it began, though the worker it joined may have asked the
\* upstream before the change, unless the last pass failed or the upstream is
\* being shut down.
AwaitedReadIsCurrent ==
    \A r \in Readers :
        reader[r].pc = "served" /\ ~reader[r].excused => reader[r].saw >= reader[r].need

\* Passes never publish an older list over a newer one.
ListNeverGoesBack == [][published' >= published]_vars

\* Every run ends, so its done channel is closed and reads are released, and
\* shutdown's wait for the workers returns.
RunsEnd == []<>(~running)

\* A change announced to the proxy, even before the handler was attached, gets
\* into the registry, unless the last pass failed or the upstream is stopped.
NoticeIsFollowed ==
    \A v \in 1 .. MaxVersion :
        (held >= v \/ heard >= v) ~> (published >= v \/ missed \/ stopped)

\* What was asked for happens: every run ends, so that reads and Close return (finish closes the
\* done channel), and every notice is followed.
RequestsAreMet == RunsEnd /\ NoticeIsFollowed
=============================================================================
