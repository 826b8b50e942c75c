---------------------------- MODULE SessionConns ----------------------------
(***************************************************************************)
(* Per-session connections to one server (session_mode per_session):       *)
(* tool calls of one session share a connection that the first of them     *)
(* dials, while the server is removed and added again, connections break   *)
(* and the session is evicted (internal/server: dispatch.go, session.go,   *)
(* session_store.go; the removal is closeDetached of upstream_install.go). *)
(*                                                                         *)
(* Connections of different servers and sessions never meet, so one of     *)
(* each is modelled.  Session.mu, dialMu and stateMu are held for single   *)
(* actions; a dialOnce's mutex is held across the dial.  A call dials at   *)
(* most once and makes at most one dialOnce, so a connection and a         *)
(* dialOnce have the name of the call that made them.                      *)
(***************************************************************************)
EXTENDS Naturals

CONSTANTS
    Calls,       \* tool calls of the session
    None,
    MaxRemovals, \* bound: how often the server is removed
    MaxBreaks    \* bound: how often a connection breaks or cannot be dialled

ASSUME ConnsAssumption ==
    /\ None \notin Calls
    /\ MaxRemovals \in Nat /\ MaxBreaks \in Nat

Conns == Calls
Onces == Calls

VARIABLES
    registered,  \* upstreams has the server
    stored,      \* Session.conns[name]
    entry,       \* Session.dialMap[name]
    once,        \* the dialOnce objects: who holds the mutex, its result
    open,        \* open connections
    broken,      \* connections whose other end is gone
    call,        \* the calls
    removal,     \* progress of closeDetached
    removals, breaks

vars == <<registered, stored, entry, once, open, broken, call, removal, removals, breaks>>

Call == [pc: {"idle", "find", "once", "lock", "look", "dial", "list", "check", "remove",
              "close", "call", "evict", "closeBroken", "done"},
         once: Onces \cup {None}, conn: Conns \cup {None}, dialled: BOOLEAN,
         result: {"none", "ok", "failed", "noDial", "removed"}]

\* dialOnce: the holder of its mutex, whether it is done, and the connection it has
\* then (None is an error).
Once == [holder: Calls \cup {None}, conn: Conns \cup {None}, state: {"new", "done"}]

TypeOK ==
    /\ registered \in BOOLEAN
    /\ stored \in Conns \cup {None} /\ entry \in Onces \cup {None}
    /\ once \in [Onces -> Once]
    /\ open \subseteq Conns /\ broken \subseteq Conns
    /\ call \in [Calls -> Call]
    /\ removal \in [pc: {"idle", "take", "close", "forget"}, conn: Conns \cup {None}]
    /\ removals \in 0 .. MaxRemovals /\ breaks \in 0 .. MaxBreaks

NoCall == [pc |-> "idle", once |-> None, conn |-> None, dialled |-> FALSE, result |-> "none"]
NoRemoval == [pc |-> "idle", conn |-> None]

Init ==
    /\ registered = TRUE
    /\ stored = None /\ entry = None
    /\ once = [d \in Onces |-> [holder |-> None, conn |-> None, state |-> "new"]]
    /\ open = {} /\ broken = {}
    /\ call = [p \in Calls |-> NoCall]
    /\ removal = NoRemoval /\ removals = 0 /\ breaks = 0

Go(p, pc) == call' = [call EXCEPT ![p].pc = pc]
GoWith(p, pc, c) ==
    call' = [call EXCEPT ![p] = [pc |-> pc, once |-> call[p].once, conn |-> c,
                                 dialled |-> call[p].dialled, result |-> "none"]]
Return(p, result) ==
    call' = [call EXCEPT ![p] = [NoCall EXCEPT !.pc = "done", !.dialled = call[p].dialled, !.result = result]]

Closed(c) == open' = open \ {c}

server == <<registered, removal, removals>>

-----------------------------------------------------------------------------
(* getOrDialSessionConn *)

\* getUpstream: the call keeps the upstream it found.
Begin(p) ==
    /\ call[p].pc = "idle" /\ registered
    /\ Go(p, "find")
    /\ UNCHANGED <<server, stored, entry, once, open, broken, breaks>>

Find(p) ==
    /\ call[p].pc = "find"
    /\ IF stored # None THEN GoWith(p, "call", stored) ELSE Go(p, "once")
    /\ UNCHANGED <<server, stored, entry, once, open, broken, breaks>>

GetDialOnce(p) ==
    /\ call[p].pc = "once"
    /\ entry' = IF entry = None THEN p ELSE entry
    /\ call' = [call EXCEPT ![p] = [pc |-> "lock", once |-> entry', conn |-> None,
                                    dialled |-> FALSE, result |-> "none"]]
    /\ UNCHANGED <<server, stored, once, open, broken, breaks>>

\* dialOnceFor: a result is shared, an error is not.
LockOnce(p) ==
    LET d == call[p].once
    IN /\ call[p].pc = "lock" /\ once[d].holder = None
       /\ IF once[d].state = "done"
          THEN /\ IF once[d].conn = None THEN Return(p, "noDial") ELSE GoWith(p, "check", once[d].conn)
               /\ UNCHANGED once
          ELSE /\ Go(p, "look")
               /\ once' = [once EXCEPT ![d].holder = p]
       /\ UNCHANGED <<server, stored, entry, open, broken, breaks>>

\* The dial of this call ended with connection c, or with an error.
UnlockedOnce(p, c) ==
    once' = [once EXCEPT ![call[p].once] = [holder |-> None, conn |-> c,
                                           state |-> IF c = None THEN "new" ELSE "done"]]

\* dialPerSessionConn
Look(p) ==
    /\ call[p].pc = "look"
    /\ IF stored # None
       THEN GoWith(p, "check", stored) /\ UnlockedOnce(p, stored)
       ELSE Go(p, "dial") /\ UNCHANGED once
    /\ UNCHANGED <<server, stored, entry, open, broken, breaks>>

Dial(p) ==
    /\ call[p].pc = "dial"
    /\ call' = [call EXCEPT ![p] = [pc |-> "list", once |-> call[p].once, conn |-> p, dialled |-> TRUE,
                                   result |-> "none"]]
    /\ open' = open \cup {p}
    /\ UNCHANGED <<server, stored, entry, once, broken, breaks>>

Fails == breaks < MaxBreaks /\ breaks' = breaks + 1

\* The server cannot be reached or the call's own context ends.
DialFails(p) ==
    /\ call[p].pc = "dial" /\ Fails
    /\ call' = [call EXCEPT ![p] = [NoCall EXCEPT !.pc = "done", !.dialled = TRUE, !.result = "noDial"]]
    /\ UnlockedOnce(p, None)
    /\ UNCHANGED <<server, stored, entry, open, broken>>

ListFails_KeepsLock(p) ==
    /\ call[p].pc = "list" /\ Fails
    /\ Closed(call[p].conn)
    /\ Return(p, "noDial")
    /\ UNCHANGED <<server, once, stored, entry, broken>>

ListFails(p) ==
    /\ call[p].pc = "list" /\ Fails
    /\ Closed(call[p].conn)
    /\ Return(p, "noDial")
    /\ UnlockedOnce(p, None)
    /\ UNCHANGED <<server, stored, entry, broken>>

GetOrSetConn_Overwrites(p) ==
    /\ call[p].pc = "list"
    /\ stored' = call[p].conn
    /\ Go(p, "check")
    /\ UnlockedOnce(p, call[p].conn)
    /\ UNCHANGED <<server, entry, open, broken, breaks>>

\* ListTools succeeded.  A connection stored in the meantime wins; dialOnce is unlocked with it.
GetOrSetConn(p) ==
    /\ call[p].pc = "list"
    /\ IF stored # None
       THEN /\ Closed(call[p].conn)
            /\ GoWith(p, "check", stored) /\ UnlockedOnce(p, stored)
            /\ UNCHANGED stored
       ELSE /\ stored' = call[p].conn
            /\ Go(p, "check") /\ UnlockedOnce(p, call[p].conn)
            /\ UNCHANGED open
    /\ UNCHANGED <<server, entry, broken, breaks>>

\* checkDialedConn: isUpstreamRegistered.
StillThere == registered

CheckDialedConn(p) ==
    /\ call[p].pc = "check"
    /\ Go(p, IF StillThere THEN "call" ELSE "remove")
    /\ UNCHANGED <<server, stored, entry, once, open, broken, breaks>>

\* Its RemoveConn: takes what is stored and closes it, then forgets the dialOnce.
RemoveConn(p) ==
    /\ call[p].pc = "remove"
    /\ open' = open \ {stored}
    /\ stored' = None
    /\ Go(p, "close")
    /\ UNCHANGED <<server, entry, once, broken, breaks>>

CloseDialed(p) ==
    /\ call[p].pc = "close"
    /\ entry' = None
    /\ Closed(call[p].conn)
    /\ Return(p, "removed")
    /\ UNCHANGED <<server, stored, once, broken, breaks>>

-----------------------------------------------------------------------------
(* callPerSession *)

\* An answer, an error from the tool, a timeout or a cancellation.
CallEnds(p) ==
    /\ call[p].pc = "call" /\ call[p].conn \in open
    /\ Return(p, "ok")
    /\ UNCHANGED <<server, stored, entry, once, open, broken, breaks>>

\* handleSessionConnErr
CallBreaks(p) ==
    /\ call[p].pc = "call" /\ call[p].conn \in broken \cup (Conns \ open)
    /\ Go(p, "evict")
    /\ UNCHANGED <<server, stored, entry, once, open, broken, breaks>>

\* EvictConn compares: another call may have stored a new connection.
EvictConn(p) ==
    /\ call[p].pc = "evict"
    /\ stored' = IF stored = call[p].conn THEN None ELSE stored
    /\ Go(p, "closeBroken")
    /\ UNCHANGED <<server, entry, once, open, broken, breaks>>

\* Its second half forgets the dialOnce, whosever it is.
CloseBroken(p) ==
    /\ call[p].pc = "closeBroken"
    /\ entry' = None
    /\ Closed(call[p].conn)
    /\ Return(p, "failed")
    /\ UNCHANGED <<server, stored, once, broken, breaks>>

Breaks(c) ==
    /\ c \in open \ broken /\ Fails
    /\ broken' = broken \cup {c}
    /\ UNCHANGED <<server, stored, entry, once, open, call>>

-----------------------------------------------------------------------------
(* Removal, addition and eviction *)

\* detachUpstream, then closeServerConnections: RemoveConn of the session.
Detach ==
    /\ registered /\ removal.pc = "idle" /\ removals < MaxRemovals
    /\ registered' = FALSE /\ removals' = removals + 1
    /\ removal' = [pc |-> "take", conn |-> None]
    /\ UNCHANGED <<stored, entry, once, open, broken, call, breaks>>

TakeConn ==
    /\ removal.pc = "take"
    /\ removal' = [pc |-> "close", conn |-> stored]
    /\ stored' = None
    /\ UNCHANGED <<registered, entry, once, open, broken, call, removals, breaks>>

CloseTaken ==
    /\ removal.pc = "close"
    /\ Closed(removal.conn)
    /\ removal' = [removal EXCEPT !.pc = "forget"]
    /\ UNCHANGED <<registered, stored, entry, once, broken, call, removals, breaks>>

ForgetTaken ==
    /\ removal.pc = "forget"
    /\ entry' = None
    /\ removal' = NoRemoval
    /\ UNCHANGED <<registered, stored, once, open, broken, call, removals, breaks>>

\* Installed again, after the removal: both hold serverOpMu.
Install ==
    /\ ~registered /\ removal.pc = "idle"
    /\ registered' = TRUE
    /\ UNCHANGED <<stored, entry, once, open, broken, call, removal, removals, breaks>>

Active(p) == call[p].pc \notin {"idle", "done"}

\* evictIdle closes a session without active calls; the next one starts empty.
EvictSession ==
    /\ stored # None /\ \A p \in Calls : ~Active(p)
    /\ Closed(stored)
    /\ stored' = None /\ entry' = None
    /\ UNCHANGED <<server, once, broken, call, breaks>>

-----------------------------------------------------------------------------
Step(p) ==
    \/ Find(p) \/ GetDialOnce(p) \/ LockOnce(p) \/ Look(p) \/ Dial(p) \/ DialFails(p)
    \/ ListFails(p) \/ GetOrSetConn(p) \/ CheckDialedConn(p) \/ RemoveConn(p) \/ CloseDialed(p)
    \/ CallEnds(p) \/ CallBreaks(p) \/ EvictConn(p) \/ CloseBroken(p)

Removing == TakeConn \/ CloseTaken \/ ForgetTaken

Next ==
    \/ \E p \in Calls : Begin(p) \/ Step(p)
    \/ \E c \in Conns : Breaks(c)
    \/ Detach \/ Removing \/ Install \/ EvictSession

Spec == Init /\ [][Next]_vars

\* Goroutines run.  A dial, a list and a call end because their context has a
\* deadline; nobody owes a call, a removal, an installation or an eviction.
Fairness ==
    /\ \A p \in Calls : WF_vars(Step(p))
    /\ WF_vars(Removing)

FairSpec == Spec /\ Fairness

-----------------------------------------------------------------------------
(* Properties *)

\* A call is still responsible for its connection: it has not stored it yet, or is
\* about to close it.
Holds(p, c) ==
    call[p].conn = c /\ call[p].pc \in {"list", "close", "closeBroken"}

(* Every open connection is stored in the session, or in the hands of a call or a
   removal that will store or close it: however dials, breaks, removals and
   evictions of the session interleave, none is left open without an owner
   (dispatch.go, checkDialedConn and handleSessionConnErr; session.go,
   GetOrSetConn). *)
NoLeakedSessionConn ==
    \A c \in open :
        c = stored \/ (removal.pc = "close" /\ removal.conn = c) \/ \E p \in Calls : Holds(p, c)

(* Once a server is removed and the calls that knew it have ended, the session
   has no connection to it (session_store.go, closeServerConnections: "so
   per-session connections don't linger until session eviction"). *)
RemovedLeavesNoConn ==
    ~registered /\ removal.pc = "idle" /\ (\A p \in Calls : ~Active(p)) => open = {}

(* A call that shares another call's dial does not fail with that call's error,
   which may be its cancellation: it dials for itself (session.go, dialOnceFor). *)
OwnDialErrors == \A p \in Calls : call[p].result = "noDial" => call[p].dialled

(* Calls return, also those that wait for another call's dial or run while the
   server is removed: of finitely many, none is active for ever (session.go,
   dialOnceFor holds the dialOnce's mutex across the dial). *)
CallsReturn == <>[](\A p \in Calls : ~Active(p))

(* Every connection has an owner: the session, the call that dialled it or the
   removal that closes it; and when the server is removed and its calls have
   ended there is none. *)
ConnsAreOwned == NoLeakedSessionConn /\ RemovedLeavesNoConn

(* Every call gets an answer, and it is its own: calls return, and none fails
   with the error of another call's dial. *)
CallsAreAnswered == CallsReturn /\ []OwnDialErrors

=============================================================================
