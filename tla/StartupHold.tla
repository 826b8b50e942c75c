----------------------------- MODULE StartupHold -----------------------------
(***************************************************************************)
(* What an agent is told of servers that are still starting                *)
(* (internal/server: startup_state, startup_wait, startup_errors, and the  *)
(* parts of upstream_install and config_files that feed them).             *)
(*                                                                         *)
(* A tool list is held until no server is connecting, for at most one      *)
(* hold; a call on a server that is not ready is answered with why.  The   *)
(* poller records, opens and detaches servers, connecting goroutines       *)
(* install them step by step, and listings and lookups take stateMu only   *)
(* to read.  A broadcast wakes every listing that took the channel before  *)
(* it.                                                                     *)
(***************************************************************************)
EXTENDS Naturals, FiniteSets

CONSTANTS Servers,
          Hold,                 \* startupHold
          MaxTime, MaxDetaches  \* bounds

ASSUME HoldAssumption == Hold \in Nat \ {0}

VARIABLES clock,
          progress,   \* where each server is between its file and its tools
          recorded,   \* configServers
          opened,     \* startup.startedAt, 0 if there is none
          toolsReady, \* startup.toolsReady
          failing,    \* startup.failures: the servers with one, its kind not told apart
          offered,    \* the servers whose tools the registry holds
          listing,    \* a tools/list
          lookup,     \* a lookupTool
          detaches

serverVars == <<progress, recorded, opened, toolsReady, failing, offered, detaches>>
startupVars == <<clock, progress, recorded, opened, toolsReady, failing, offered, listing, lookup, detaches>>

NoList == [at |-> "none"]
NoCall == [at |-> "none"]

StartupInit ==
    /\ clock = 1
    /\ progress = [s \in Servers |-> "off"] /\ recorded = {}
    /\ opened = [s \in Servers |-> 0] /\ toolsReady = {} /\ failing = {}
    /\ offered = {} /\ listing = NoList /\ lookup = NoCall /\ detaches = 0

-----------------------------------------------------------------------------
(* The tracker *)

WindowEnd(s) == IF opened[s] = 0 THEN 0 ELSE opened[s] + Hold

\* startupTracker.state and phase.
State(s) ==
    CASE s \in toolsReady -> "connected"
      [] s \in failing \ toolsReady -> "failed"
      [] s \notin failing \cup toolsReady -> IF clock < WindowEnd(s) THEN "connecting" ELSE "delayed"

Connecting == {s \in recorded : State(s) = "connecting"}

\* broadcastChange, with what a listing is owed: the servers it began to wait for, less those
\* that failed, went or took longer than their window.
Broadcast(gone) ==
    CASE listing.at = "asleep" -> [listing EXCEPT !.woken = TRUE, !.owed = @ \ gone]
      [] listing.at \in {"loop", "build"} -> [listing EXCEPT !.owed = @ \ gone]
      [] listing.at \notin {"asleep", "loop", "build"} -> listing

-----------------------------------------------------------------------------
(* Connecting: ConnectUpstreams, addUpstream, detachUpstream *)

\* recordConfigServers: known before its window is open.
RecordConfigServer(s) ==
    /\ progress[s] = "off"
    /\ progress' = [progress EXCEPT ![s] = "recorded"] /\ recorded' = recorded \cup {s}
    /\ UNCHANGED <<clock, opened, toolsReady, failing, offered, listing, lookup, detaches>>

OpenConnectWindow(s) ==
    /\ progress[s] = "recorded"
    /\ progress' = [progress EXCEPT ![s] = "connecting"] /\ opened' = [opened EXCEPT ![s] = clock]
    /\ listing' = Broadcast({})
    /\ UNCHANGED <<clock, recorded, toolsReady, failing, offered, lookup, detaches>>

\* installUpstreamLocked, under serverOpMu: the tools first, then ready.
RegisterTools(s) ==
    /\ progress[s] = "connecting"
    /\ progress' = [progress EXCEPT ![s] = "registered"] /\ offered' = offered \cup {s}
    /\ UNCHANGED <<clock, recorded, opened, toolsReady, failing, listing, lookup, detaches>>

MarkToolsReady(s) ==
    /\ progress[s] = "registered"
    /\ progress' = [progress EXCEPT ![s] = "on"] /\ toolsReady' = toolsReady \cup {s}
    /\ listing' = Broadcast({})
    /\ UNCHANGED <<clock, recorded, opened, failing, offered, lookup, detaches>>

\* retryStartupAfter: a failure that retrying cannot mend. Any other is tried again.
RecordFailure(s) ==
    /\ progress[s] = "connecting"
    /\ progress' = [progress EXCEPT ![s] = "failed"] /\ failing' = failing \cup {s}
    /\ listing' = Broadcast({s})
    /\ UNCHANGED <<clock, recorded, opened, toolsReady, offered, lookup, detaches>>

\* detachUpstreamLocked and forget, for a file that went or changed; a connection in flight is
\* refused when it ends.
DetachServer(s) ==
    /\ progress[s] \in {"connecting", "on", "failed"} /\ detaches < MaxDetaches
    /\ progress' = [progress EXCEPT ![s] = "closing"] /\ recorded' = recorded \ {s}
    /\ opened' = [opened EXCEPT ![s] = 0] /\ toolsReady' = toolsReady \ {s}
    /\ failing' = failing \ {s}
    /\ listing' = Broadcast({s})
    /\ lookup' = IF lookup.at # "none" /\ lookup.server = s THEN [lookup EXCEPT !.steady = FALSE] ELSE lookup
    /\ detaches' = detaches + 1
    /\ UNCHANGED <<clock, offered>>

\* closeDetached; a changed file is recorded and opened again after it.
CloseDetached(s) ==
    /\ progress[s] = "closing"
    /\ progress' = [progress EXCEPT ![s] = "off"] /\ offered' = offered \ {s}
    /\ UNCHANGED <<clock, recorded, opened, toolsReady, failing, listing, lookup, detaches>>

\* Time passes, and windows end.
TimePasses ==
    /\ clock < MaxTime
    /\ clock' = clock + 1
    /\ listing' = IF listing.at \in {"asleep", "loop", "build"}
               THEN [listing EXCEPT !.owed = @ \ {s \in Servers : s \notin toolsReady /\ WindowEnd(s) <= clock'}] ELSE listing
    /\ UNCHANGED <<serverVars, lookup>>

-----------------------------------------------------------------------------
(* tools/list: waitForStartup *)

ListBegins ==
    /\ listing = NoList
    /\ listing' = IF Connecting = {} THEN [at |-> "build", owed |-> {}]
               ELSE [at |-> "loop", deadline |-> clock + Hold, owed |-> Connecting]
    /\ UNCHANGED <<clock, serverVars, lookup>>

\* startupWaitTarget: the channel and the window are read under one lock.
ListChecks ==
    /\ listing.at = "loop"
    /\ \/ /\ Connecting = {}
          /\ listing' = [at |-> "build", owed |-> listing.owed]
       \/ \E s \in Connecting :
            listing' = [at |-> "asleep", deadline |-> listing.deadline, owed |-> listing.owed,
                     until |-> WindowEnd(s), woken |-> FALSE]
    /\ UNCHANGED <<clock, serverVars, lookup>>

ListWakes_Settled ==
    /\ listing.at = "asleep" /\ (listing.woken \/ clock >= listing.until)
    /\ listing' = [at |-> "build", owed |-> listing.owed]
    /\ UNCHANGED <<clock, serverVars, lookup>>

\* awaitStartupChange: a change or the end of a window; every server is looked at again.
ListWakes ==
    /\ listing.at = "asleep" /\ (listing.woken \/ clock >= listing.until)
    /\ listing' = [at |-> "loop", deadline |-> listing.deadline, owed |-> listing.owed]
    /\ UNCHANGED <<clock, serverVars, lookup>>

\* The hold ran out: the list is built with what there is.
HoldEnds ==
    /\ listing.at = "asleep" /\ clock >= listing.deadline
    /\ listing' = [at |-> "build", owed |-> {}]
    /\ UNCHANGED <<clock, serverVars, lookup>>

\* The client gave up, or ReleaseStartupHolds ended the wait: an error.
ListFails ==
    /\ listing.at = "asleep"
    /\ listing' = NoList
    /\ UNCHANGED <<clock, serverVars, lookup>>

\* handleToolsList: the answer, from the registry.
ListBuilds ==
    /\ listing.at = "build"
    /\ listing' = [at |-> "done", owed |-> listing.owed, listed |-> offered]
    /\ UNCHANGED <<clock, serverVars, lookup>>

ListReturns ==
    /\ listing.at = "done"
    /\ listing' = NoList
    /\ UNCHANGED <<clock, serverVars, lookup>>

-----------------------------------------------------------------------------
(* A call: lookupTool *)

\* errorCode, retryable and action.
Retryable(state) == state \in {"connecting", "delayed"}

\* serverNotReadyError, before the registry is asked.
CallChecks(s) ==
    /\ lookup = NoCall
    /\ lookup' = IF s \in recorded /\ State(s) # "connected"
               THEN [at |-> "done", server |-> s, steady |-> TRUE, answer |-> State(s)]
               ELSE [at |-> "lookup", server |-> s, steady |-> s \in recorded]
    /\ UNCHANGED <<clock, serverVars, listing>>

CallLooksUp ==
    /\ lookup.at = "lookup"
    /\ lookup' = [at |-> "done", server |-> lookup.server, steady |-> lookup.steady,
                answer |-> IF lookup.server \in offered THEN "found" ELSE "not found"]
    /\ UNCHANGED <<clock, serverVars, listing>>

CallReturns ==
    /\ lookup.at = "done"
    /\ lookup' = NoCall
    /\ UNCHANGED <<clock, serverVars, listing>>

StartupNext ==
    \/ \E s \in Servers :
        \/ RecordConfigServer(s) \/ OpenConnectWindow(s) \/ RegisterTools(s) \/ MarkToolsReady(s)
        \/ RecordFailure(s) \/ DetachServer(s) \/ CloseDetached(s) \/ CallChecks(s)
    \/ TimePasses
    \/ ListBegins \/ ListChecks \/ ListWakes \/ HoldEnds \/ ListFails \/ ListBuilds \/ ListReturns
    \/ CallLooksUp \/ CallReturns

StartupSpec == StartupInit /\ [][StartupNext]_startupVars

-----------------------------------------------------------------------------
\* What agents are told of servers that start is true. A list built before its hold ran out has
\* every server that was connecting when it was asked for and has neither failed, gone nor taken
\* longer than its window; a listing that sleeps has a server to wait for, a window about to end
\* or a wake-up pending, so no change is missed; a call on a server that stays configured is never
\* told there is no such tool; and who is told to try again is so while the server is being tried.
StartupIsTold ==
    /\ listing.at = "done" => listing.owed \subseteq listing.listed
    /\ listing.at = "asleep" => listing.woken \/ clock >= listing.until \/ Connecting # {}
    /\ lookup.at = "done" /\ lookup.answer = "not found" => ~lookup.steady
    /\ \A s \in recorded : Retryable(State(s)) => progress[s] \in {"recorded", "connecting", "registered"}
=============================================================================
