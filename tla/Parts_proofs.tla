------------------------------ MODULE Parts_proofs ------------------------------
(***************************************************************************)
(* Proofs about parts of mini that share no state: what agents are told    *)
(* while servers start, for any servers and any hold; the saved login of a *)
(* server, for any requests, tokens, providers and events; the rules the   *)
(* daemon applies, for any tools, rules and edits of a server's file; and  *)
(* how a tool change reaches an agent, for any listens, binds, streams and *)
(* sessions.                                                               *)
(***************************************************************************)
EXTENDS StartupHold, TokenProvider, ProjectionRules, ToolChangeDelivery, FiniteSetTheorems, TLAPS

-----------------------------------------------------------------------------
(* Start-up: the inductive invariant *)

Stages == {"off", "recorded", "connecting", "registered", "on", "failed", "closing"}
Waiting == {"loop", "asleep", "build"}
Listings ==
    {NoList} \cup [at : {"build"}, owed : SUBSET Servers]
    \cup [at : {"loop"}, deadline : Nat, owed : SUBSET Servers]
    \cup [at : {"asleep"}, deadline : Nat, owed : SUBSET Servers, until : Nat, woken : BOOLEAN]
    \cup [at : {"done"}, owed : SUBSET Servers, listed : SUBSET Servers]
Answers == {"connecting", "delayed", "failed", "connected", "found", "not found"}
Lookups ==
    {NoCall} \cup [at : {"lookup"}, server : Servers, steady : BOOLEAN]
    \cup [at : {"done"}, server : Servers, steady : BOOLEAN, answer : Answers]

StartupTypeOK ==
    /\ clock \in Nat \ {0} /\ detaches \in Nat
    /\ progress \in [Servers -> Stages] /\ opened \in [Servers -> Nat]
    /\ {recorded, toolsReady, failing, offered} \subseteq SUBSET Servers
    /\ listing \in Listings /\ lookup \in Lookups

\* What the tracker and the registry hold of a server says where it is.
TrackerFollows ==
    \A s \in Servers :
        /\ s \in recorded <=> progress[s] \notin {"off", "closing"}
        /\ s \in toolsReady <=> progress[s] = "on"
        /\ s \in failing <=> progress[s] = "failed"
        /\ progress[s] \in {"registered", "on"} => s \in offered

\* A server that is still tried within its window.
Tried(s) == s \in recorded /\ s \notin toolsReady /\ s \notin failing

\* A listing that sleeps undisturbed watches a server that is tried until its window ends.
SleepIsWatched ==
    listing.at = "asleep" =>
        listing.woken \/ clock >= listing.until \/ \E s \in Servers : Tried(s) /\ WindowEnd(s) = listing.until

\* A server a listing owes is ready, or still tried within its window, and no longer so when the
\* list is about to be built.
OwedIsComing ==
    /\ listing.at \in Waiting =>
         \A s \in listing.owed : s \in toolsReady \/ (listing.at # "build" /\ Tried(s) /\ clock < WindowEnd(s))
    /\ listing.at = "done" => listing.owed \subseteq listing.listed

\* A call's server that is still configured was so when the call began, and ready if its tool is
\* looked up.
CallIsSteady ==
    /\ lookup.at # "none" /\ lookup.steady => lookup.server \in recorded
    /\ lookup.at = "lookup" /\ lookup.steady => lookup.server \in toolsReady
    /\ lookup.at = "done" /\ lookup.answer = "not found" => ~lookup.steady

StartupIInv == StartupTypeOK /\ TrackerFollows /\ SleepIsWatched /\ OwedIsComing /\ CallIsSteady

-----------------------------------------------------------------------------
(* Start-up: lemmas *)

\* startupTracker.state, without its cases.
LEMMA StateOf ==
    ASSUME NEW s
    PROVE  /\ State(s) = "connected" <=> s \in toolsReady
           /\ State(s) = "connecting" <=> s \notin toolsReady /\ s \notin failing /\ clock < WindowEnd(s)
           /\ Retryable(State(s)) <=> s \notin toolsReady /\ s \notin failing
           /\ State(s) \in Answers
<1>1. CASE s \in toolsReady
  <2>1. State(s) = "connected" BY <1>1 DEF State
  <2> QED BY <1>1, <2>1 DEF Retryable, Answers
<1>2. CASE s \notin toolsReady /\ s \in failing
  <2>1. State(s) = "failed" BY <1>2 DEF State
  <2> QED BY <1>2, <2>1 DEF Retryable, Answers
<1>3. CASE s \notin toolsReady /\ s \notin failing /\ clock < WindowEnd(s)
  <2>1. State(s) = "connecting" BY <1>3 DEF State
  <2> QED BY <1>3, <2>1 DEF Retryable, Answers
<1>4. CASE s \notin toolsReady /\ s \notin failing /\ ~(clock < WindowEnd(s))
  <2>1. State(s) = "delayed" BY <1>4 DEF State
  <2> QED BY <1>4, <2>1 DEF Retryable, Answers
<1> QED BY <1>1, <1>2, <1>3, <1>4

\* The servers a list waits for: those tried within their window.
LEMMA ConnectingAre ==
    \A s : s \in Connecting <=> Tried(s) /\ clock < WindowEnd(s)
BY StateOf DEF Connecting, Tried

\* The fields of a listing.
LEMMA ListingFields ==
    ASSUME listing \in Listings
    PROVE  /\ listing.at \in {"none", "done"} \cup Waiting
           /\ listing.at \in Waiting => listing.owed \in SUBSET Servers
           /\ listing.at = "done" => listing.owed \in SUBSET Servers /\ listing.listed \in SUBSET Servers
           /\ listing.at \in {"loop", "asleep"} => listing.deadline \in Nat
           /\ listing.at = "asleep" => listing.until \in Nat /\ listing.woken \in BOOLEAN
BY DEF Listings, NoList, Waiting

\* The records a tools/list is told by are listings.
LEMMA ListingsAre ==
    ASSUME NEW due \in SUBSET Servers, NEW d \in Nat, NEW u \in Nat, NEW w \in BOOLEAN, NEW got \in SUBSET Servers
    PROVE  /\ NoList \in Listings /\ [at |-> "build", owed |-> due] \in Listings
           /\ [at |-> "loop", deadline |-> d, owed |-> due] \in Listings
           /\ [at |-> "asleep", deadline |-> d, owed |-> due, until |-> u, woken |-> w] \in Listings
           /\ [at |-> "done", owed |-> due, listed |-> got] \in Listings
BY DEF Listings

\* What broadcastChange, or the end of a window, does to a listing: it may wake it and owe less.
Reaches(l, gone) ==
    /\ l \in Listings /\ l.at = listing.at
    /\ listing.at \in Waiting => l.owed = listing.owed \ gone
    /\ listing.at = "asleep" => l.until = listing.until /\ l.woken \in {TRUE, listing.woken}
    /\ listing.at = "done" => l = listing

\* A listing that waits may come to owe less.
LEMMA OwesLess ==
    ASSUME listing \in Listings, listing.at \in Waiting, NEW gone
    PROVE  Reaches([listing EXCEPT !.owed = @ \ gone], gone)
<1>1. PICK l \in Listings : l = listing OBVIOUS
<1> QED BY <1>1 DEF Listings, NoList, Waiting, Reaches

\* broadcastChange wakes the listing that sleeps, and frees it of the servers that are gone.
LEMMA BroadcastReaches ==
    ASSUME listing \in Listings, NEW gone
    PROVE  Reaches(Broadcast(gone), gone) /\ (listing.at = "asleep" => Broadcast(gone).woken)
<1>1. CASE listing.at = "asleep"
  <2>1. Broadcast(gone) = [listing EXCEPT !.woken = TRUE, !.owed = @ \ gone] BY <1>1 DEF Broadcast
  <2>2. listing \in [at : {"asleep"}, deadline : Nat, owed : SUBSET Servers, until : Nat, woken : BOOLEAN]
    BY <1>1 DEF Listings, NoList
  <2> QED BY <1>1, <2>1, <2>2 DEF Reaches, Listings
<1>2. CASE listing.at \in {"loop", "build"}
  <2>1. Broadcast(gone) = [listing EXCEPT !.owed = @ \ gone] BY <1>2 DEF Broadcast
  <2> QED BY <1>2, <2>1, OwesLess DEF Waiting
<1>3. CASE listing.at \notin Waiting
  <2>1. Broadcast(gone) = listing BY <1>3 DEF Broadcast, Waiting
  <2> QED BY <1>3, <2>1 DEF Reaches, Waiting
<1> QED BY <1>1, <1>2, <1>3 DEF Waiting

\* A step that keeps what a listing watches and owes, or no longer owes it.
LEMMA OwedStays ==
    ASSUME OwedIsComing, listing \in Listings, NEW gone, Reaches(listing', gone),
           \A s \in Servers \ gone : s \in toolsReady => s \in toolsReady',
           \A s \in Servers \ gone : Tried(s) /\ clock < WindowEnd(s)
                                    => s \in toolsReady' \/ (Tried(s) /\ clock < WindowEnd(s))'
    PROVE  OwedIsComing'
BY ListingFields DEF OwedIsComing, Reaches, Waiting

\* A step after which a listing that sleeps is woken, or what it watches is as it was.
LEMMA SleepStays ==
    ASSUME SleepIsWatched, listing \in Listings, NEW gone, Reaches(listing', gone),
           clock \in Nat, clock' \in Nat, clock' >= clock,
           \/ listing.at = "asleep" => listing'.woken
           \/ \A s \in Servers : Tried(s) => Tried(s)' /\ WindowEnd(s)' = WindowEnd(s)
    PROVE  SleepIsWatched'
<1> SUFFICES ASSUME listing'.at = "asleep", ~listing'.woken
             PROVE  (clock >= listing.until \/ \E s \in Servers : Tried(s) /\ WindowEnd(s) = listing.until)'
  BY DEF SleepIsWatched
<1>1. listing.at = "asleep" /\ listing'.until = listing.until /\ listing.until \in Nat /\ ~listing.woken
  BY ListingFields DEF Reaches
<1>2. CASE clock >= listing.until BY <1>1, <1>2
<1>3. CASE \E s \in Servers : Tried(s) /\ WindowEnd(s) = listing.until
  <2>1. PICK s \in Servers : Tried(s) /\ WindowEnd(s) = listing.until BY <1>3
  <2>2. Tried(s)' /\ WindowEnd(s)' = WindowEnd(s) BY <1>1, <2>1
  <2> QED BY <1>1, <2>1, <2>2
<1> QED BY <1>1, <1>2, <1>3 DEF SleepIsWatched

\* A listing that nothing reaches.
LEMMA Stays == listing \in Listings => Reaches(listing, {})
BY DEF Reaches

\* A call that stands still while servers only come.
LEMMA CallStays ==
    ASSUME CallIsSteady, lookup' = lookup, recorded \subseteq recorded', toolsReady \subseteq toolsReady'
    PROVE  CallIsSteady'
BY DEF CallIsSteady

-----------------------------------------------------------------------------
(* Start-up: the steps *)

\* Recording, opening, installing, failing, detaching and closing a server.
LEMMA ServerSteps ==
    ASSUME StartupIInv, NEW s \in Servers,
           \/ RecordConfigServer(s) \/ OpenConnectWindow(s) \/ RegisterTools(s) \/ MarkToolsReady(s)
           \/ RecordFailure(s) \/ DetachServer(s) \/ CloseDetached(s)
    PROVE  StartupIInv'
<1> USE DEF StartupIInv
<1>t. /\ listing \in Listings /\ clock \in Nat \ {0} /\ recorded \in SUBSET Servers /\ lookup \in Lookups
      /\ opened \in [Servers -> Nat] /\ progress \in [Servers -> Stages] /\ Hold \in Nat \ {0}
  BY HoldAssumption DEF StartupTypeOK
<1>1. CASE RecordConfigServer(s)
  <2>1. StartupTypeOK' BY <1>1 DEF RecordConfigServer, StartupTypeOK, Stages
  <2>2. TrackerFollows' BY <1>1, <1>t DEF RecordConfigServer, TrackerFollows
  <2>3. \A q \in Servers : Tried(q) => Tried(q)' BY <1>1 DEF RecordConfigServer, Tried
  <2>4. \A q \in Servers : WindowEnd(q)' = WindowEnd(q) BY <1>1 DEF RecordConfigServer, WindowEnd
  <2>5. Reaches(listing', {}) /\ clock' = clock /\ toolsReady' = toolsReady
    BY <1>1, <1>t, Stays DEF RecordConfigServer
  <2>6. OwedIsComing' BY <1>t, <2>3, <2>4, <2>5, OwedStays
  <2>7. SleepIsWatched' BY <1>t, <2>3, <2>4, <2>5, SleepStays
  <2>8. CallIsSteady' BY <1>1, CallStays DEF RecordConfigServer
  <2> QED BY <2>1, <2>2, <2>6, <2>7, <2>8
<1>2. CASE OpenConnectWindow(s)
  <2>5. /\ Reaches(listing', {}) /\ (listing.at = "asleep" => listing'.woken)
        /\ clock' = clock /\ toolsReady' = toolsReady
    BY <1>2, <1>t, BroadcastReaches DEF OpenConnectWindow
  <2>1. StartupTypeOK' BY <1>2, <2>5 DEF OpenConnectWindow, StartupTypeOK, Stages, Reaches
  <2>2. TrackerFollows' BY <1>2, <1>t DEF OpenConnectWindow, TrackerFollows
  <2>3. \A q \in Servers : Tried(q) => Tried(q)' BY <1>2 DEF OpenConnectWindow, Tried
  <2>4. \A q \in Servers : WindowEnd(q)' = WindowEnd(q) \/ clock < WindowEnd(q)'
    BY <1>2, <1>t DEF OpenConnectWindow, WindowEnd
  <2>6. OwedIsComing' BY <1>t, <2>3, <2>4, <2>5, OwedStays
  <2>7. SleepIsWatched' BY <1>t, <2>5, SleepStays
  <2>8. CallIsSteady' BY <1>2, CallStays DEF OpenConnectWindow
  <2> QED BY <2>1, <2>2, <2>6, <2>7, <2>8
<1>3. CASE RegisterTools(s)
  <2>1. StartupTypeOK' BY <1>3 DEF RegisterTools, StartupTypeOK, Stages
  <2>2. TrackerFollows' BY <1>3, <1>t DEF RegisterTools, TrackerFollows
  <2>3. \A q \in Servers : Tried(q)' = Tried(q) BY <1>3 DEF RegisterTools, Tried
  <2>4. \A q \in Servers : WindowEnd(q)' = WindowEnd(q) BY <1>3 DEF RegisterTools, WindowEnd
  <2>5. Reaches(listing', {}) /\ clock' = clock /\ toolsReady' = toolsReady
    BY <1>3, <1>t, Stays DEF RegisterTools
  <2>6. OwedIsComing' BY <1>t, <2>3, <2>4, <2>5, OwedStays
  <2>7. SleepIsWatched' BY <1>t, <2>3, <2>4, <2>5, SleepStays
  <2>8. CallIsSteady' BY <1>3, CallStays DEF RegisterTools
  <2> QED BY <2>1, <2>2, <2>6, <2>7, <2>8
<1>4. CASE MarkToolsReady(s)
  <2>5. /\ Reaches(listing', {}) /\ (listing.at = "asleep" => listing'.woken)
        /\ clock' = clock /\ toolsReady' = toolsReady \cup {s}
    BY <1>4, <1>t, BroadcastReaches DEF MarkToolsReady
  <2>1. StartupTypeOK' BY <1>4, <2>5 DEF MarkToolsReady, StartupTypeOK, Stages, Reaches
  <2>2. TrackerFollows' BY <1>4, <1>t DEF MarkToolsReady, TrackerFollows
  <2>3. \A q \in Servers : Tried(q) => q = s \/ Tried(q)' BY <1>4 DEF MarkToolsReady, Tried
  <2>4. \A q \in Servers : WindowEnd(q)' = WindowEnd(q) BY <1>4 DEF MarkToolsReady, WindowEnd
  <2>6. OwedIsComing' BY <1>t, <2>3, <2>4, <2>5, OwedStays
  <2>7. SleepIsWatched' BY <1>t, <2>5, SleepStays
  <2>8. CallIsSteady' BY <1>4, CallStays DEF MarkToolsReady
  <2> QED BY <2>1, <2>2, <2>6, <2>7, <2>8
<1>5. CASE RecordFailure(s)
  <2>5. /\ Reaches(listing', {s}) /\ (listing.at = "asleep" => listing'.woken)
        /\ clock' = clock /\ toolsReady' = toolsReady
    BY <1>5, <1>t, BroadcastReaches DEF RecordFailure
  <2>1. StartupTypeOK' BY <1>5, <2>5 DEF RecordFailure, StartupTypeOK, Stages, Reaches
  <2>2. TrackerFollows' BY <1>5, <1>t DEF RecordFailure, TrackerFollows
  <2>3. \A q \in Servers \ {s} : Tried(q) => Tried(q)' BY <1>5 DEF RecordFailure, Tried
  <2>4. \A q \in Servers : WindowEnd(q)' = WindowEnd(q) BY <1>5 DEF RecordFailure, WindowEnd
  <2>6. OwedIsComing' BY <1>t, <2>3, <2>4, <2>5, OwedStays
  <2>7. SleepIsWatched' BY <1>t, <2>5, SleepStays
  <2>8. CallIsSteady' BY <1>5, CallStays DEF RecordFailure
  <2> QED BY <2>1, <2>2, <2>6, <2>7, <2>8
<1>6. CASE DetachServer(s)
  <2>5. /\ Reaches(listing', {s}) /\ (listing.at = "asleep" => listing'.woken)
        /\ clock' = clock /\ toolsReady' = toolsReady \ {s}
    BY <1>6, <1>t, BroadcastReaches DEF DetachServer
  <2>9. lookup' \in Lookups
    BY <1>6, <1>t DEF DetachServer, Lookups, NoCall
  <2>1. StartupTypeOK' BY <1>6, <2>5, <2>9 DEF DetachServer, StartupTypeOK, Stages, Reaches
  <2>2. TrackerFollows' BY <1>6, <1>t DEF DetachServer, TrackerFollows
  <2>3. \A q \in Servers \ {s} : Tried(q) => Tried(q)' BY <1>6 DEF DetachServer, Tried
  <2>4. \A q \in Servers \ {s} : WindowEnd(q)' = WindowEnd(q) BY <1>6, <1>t DEF DetachServer, WindowEnd
  <2>6. OwedIsComing' BY <1>t, <2>3, <2>4, <2>5, OwedStays
  <2>7. SleepIsWatched' BY <1>t, <2>5, SleepStays
  <2>8. CallIsSteady'
    <3>1. CASE lookup.at # "none" /\ lookup.server = s
      <4>1. lookup' = [lookup EXCEPT !.steady = FALSE] BY <1>6, <3>1 DEF DetachServer
      <4>2. ~lookup'.steady BY <1>t, <3>1, <4>1 DEF Lookups, NoCall
      <4> QED BY <4>2 DEF CallIsSteady
    <3>2. CASE ~(lookup.at # "none" /\ lookup.server = s)
      BY <1>6, <1>t, <3>2 DEF DetachServer, CallIsSteady
    <3> QED BY <3>1, <3>2
  <2> QED BY <2>1, <2>2, <2>6, <2>7, <2>8
<1>7. CASE CloseDetached(s)
  <2>1. StartupTypeOK' BY <1>7 DEF CloseDetached, StartupTypeOK, Stages
  <2>2. TrackerFollows' BY <1>7, <1>t DEF CloseDetached, TrackerFollows
  <2>3. \A q \in Servers : Tried(q)' = Tried(q) BY <1>7 DEF CloseDetached, Tried
  <2>4. \A q \in Servers : WindowEnd(q)' = WindowEnd(q) BY <1>7 DEF CloseDetached, WindowEnd
  <2>5. Reaches(listing', {}) /\ clock' = clock /\ toolsReady' = toolsReady
    BY <1>7, <1>t, Stays DEF CloseDetached
  <2>6. OwedIsComing' BY <1>t, <2>3, <2>4, <2>5, OwedStays
  <2>7. SleepIsWatched' BY <1>t, <2>3, <2>4, <2>5, SleepStays
  <2>8. CallIsSteady' BY <1>7, CallStays DEF CloseDetached
  <2> QED BY <2>1, <2>2, <2>6, <2>7, <2>8
<1> QED BY <1>1, <1>2, <1>3, <1>4, <1>5, <1>6, <1>7

\* Windows end as time passes.
LEMMA TimeStep ==
    ASSUME StartupIInv, TimePasses
    PROVE  StartupIInv'
<1> USE DEF StartupIInv
<1>t. /\ listing \in Listings /\ clock \in Nat \ {0} /\ opened \in [Servers -> Nat] /\ Hold \in Nat \ {0}
  BY HoldAssumption DEF StartupTypeOK
<1> DEFINE Late == {s \in Servers : s \notin toolsReady /\ WindowEnd(s) <= clock'}
<1>1. /\ clock' = clock + 1 /\ UNCHANGED <<progress, recorded, opened, toolsReady, failing, offered, detaches, lookup>>
  BY DEF TimePasses, serverVars
<1>2. \A s \in Servers : Tried(s)' = Tried(s) /\ WindowEnd(s)' = WindowEnd(s) /\ WindowEnd(s) \in Nat
  BY <1>1, <1>t DEF Tried, WindowEnd
<1>3. Reaches(listing', Late)
  <2>1. CASE listing.at \in Waiting
    <3>1. listing' = [listing EXCEPT !.owed = @ \ Late] BY <2>1 DEF TimePasses, Waiting
    <3> HIDE DEF Late
    <3> QED BY <1>t, <2>1, <3>1, OwesLess
  <2>2. CASE listing.at \notin Waiting
    <3>1. listing' = listing BY <2>2 DEF TimePasses, Waiting
    <3> QED BY <1>t, <2>2, <3>1 DEF Reaches, Waiting
  <2> QED BY <2>1, <2>2
<1>4. StartupTypeOK' BY <1>1, <1>3 DEF StartupTypeOK, Reaches
<1>5. TrackerFollows' BY <1>1 DEF TrackerFollows
<1>6. \A s \in Servers \ Late : s \in toolsReady \/ clock' < WindowEnd(s)'
  BY <1>1, <1>2, <1>t
<1>7. OwedIsComing'
  <2> HIDE DEF Late
  <2> QED BY <1>1, <1>2, <1>3, <1>6, <1>t, OwedStays
<1>8. SleepIsWatched'
  <2> HIDE DEF Late
  <2> QED BY <1>1, <1>2, <1>3, <1>t, SleepStays
<1>9. CallIsSteady' BY <1>1, CallStays
<1> QED BY <1>4, <1>5, <1>7, <1>8, <1>9

\* A tools/list or a call moves on: the servers stand still.
LEMMA ServersStand ==
    ASSUME StartupTypeOK, TrackerFollows, UNCHANGED <<clock, serverVars>>
    PROVE  /\ TrackerFollows' /\ (listing' \in Listings /\ lookup' \in Lookups => StartupTypeOK')
           /\ \A s \in Servers : Tried(s)' = Tried(s) /\ WindowEnd(s)' = WindowEnd(s)
BY DEF StartupTypeOK, TrackerFollows, Tried, WindowEnd, serverVars

\* waitForStartup and the answer.
LEMMA ListSteps ==
    ASSUME StartupIInv,
           \/ ListBegins \/ ListChecks \/ ListWakes \/ HoldEnds \/ ListFails \/ ListBuilds \/ ListReturns
    PROVE  StartupIInv'
<1> USE DEF StartupIInv
<1>t. /\ listing \in Listings /\ clock \in Nat \ {0} /\ opened \in [Servers -> Nat] /\ Hold \in Nat \ {0}
      /\ lookup \in Lookups /\ offered \in SUBSET Servers /\ recorded \in SUBSET Servers
  BY HoldAssumption DEF StartupTypeOK
<1>s. UNCHANGED <<clock, serverVars>> /\ lookup' = lookup
  BY DEF ListBegins, ListChecks, ListWakes, HoldEnds, ListFails, ListBuilds, ListReturns
<1>r. UNCHANGED <<clock, toolsReady, recorded>> BY <1>s DEF serverVars
<1>c. CallIsSteady' BY <1>s, <1>r, CallStays
<1>w. /\ TrackerFollows' /\ (listing' \in Listings => StartupTypeOK')
      /\ \A s \in Servers : Tried(s)' = Tried(s) /\ WindowEnd(s)' = WindowEnd(s)
  BY <1>s, <1>t, ServersStand
<1>e. Connecting = {} => \A s \in Servers : ~(Tried(s) /\ clock < WindowEnd(s)) BY ConnectingAre
<1>d. Connecting \in SUBSET Servers BY <1>t DEF Connecting
<1> SUFFICES listing' \in Listings /\ OwedIsComing' /\ SleepIsWatched' BY <1>c, <1>w
<1>1. CASE ListBegins
  <2>1. CASE Connecting = {}
    <3>1. listing' = [at |-> "build", owed |-> {}] BY <1>1, <2>1 DEF ListBegins
    <3> QED BY <3>1 DEF Listings, OwedIsComing, SleepIsWatched
  <2>2. CASE Connecting # {}
    <3>1. listing' = [at |-> "loop", deadline |-> clock + Hold, owed |-> Connecting]
      BY <1>1, <2>2 DEF ListBegins
    <3>2. clock + Hold \in Nat BY <1>t
    <3>3. listing' \in Listings BY <1>d, <3>1, <3>2, ListingsAre
    <3>4. OwedIsComing' BY <1>d, <1>r, <1>w, <3>1, ConnectingAre DEF OwedIsComing
    <3> QED BY <3>1, <3>3, <3>4 DEF SleepIsWatched
  <2> QED BY <2>1, <2>2
<1>2. CASE ListChecks
  <2>o. listing.at = "loop" /\ listing.owed \in SUBSET Servers /\ listing.deadline \in Nat
    BY <1>2, <1>t, ListingFields DEF ListChecks, Waiting
  <2>i. \A s \in listing.owed : s \in toolsReady \/ (Tried(s) /\ clock < WindowEnd(s))
    BY <2>o DEF OwedIsComing, Waiting
  <2>1. CASE Connecting = {} /\ listing' = [at |-> "build", owed |-> listing.owed]
    <3>1. listing' \in Listings BY <2>1, <2>o DEF Listings
    <3>2. OwedIsComing' BY <1>e, <1>r, <2>1, <2>i, <2>o DEF OwedIsComing
    <3> QED BY <2>1, <3>1, <3>2 DEF SleepIsWatched
  <2>2. ASSUME NEW s \in Connecting,
               listing' = [at |-> "asleep", deadline |-> listing.deadline, owed |-> listing.owed,
                           until |-> WindowEnd(s), woken |-> FALSE]
        PROVE  listing' \in Listings /\ OwedIsComing' /\ SleepIsWatched'
    <3>0. s \in Servers /\ Tried(s) BY <1>d, ConnectingAre
    <3>1. WindowEnd(s) \in Nat BY <1>t, <3>0 DEF WindowEnd
    <3>2. listing' \in Listings BY <2>2, <2>o, <3>1 DEF Listings
    <3>3. OwedIsComing' BY <1>r, <1>w, <2>2, <2>i, <2>o DEF OwedIsComing
    <3>4. SleepIsWatched' BY <1>w, <2>2, <3>0 DEF SleepIsWatched
    <3> QED BY <3>2, <3>3, <3>4
  <2> QED BY <1>2, <2>1, <2>2 DEF ListChecks
<1>3. CASE ListWakes
  <2>o. listing.at = "asleep" /\ listing.owed \in SUBSET Servers /\ listing.deadline \in Nat
    BY <1>3, <1>t, ListingFields DEF ListWakes, Waiting
  <2>i. \A s \in listing.owed : s \in toolsReady \/ (Tried(s) /\ clock < WindowEnd(s))
    BY <2>o DEF OwedIsComing, Waiting
  <2>1. listing' = [at |-> "loop", deadline |-> listing.deadline, owed |-> listing.owed] BY <1>3 DEF ListWakes
  <2>2. listing' \in Listings BY <2>o, <2>1 DEF Listings
  <2>3. OwedIsComing' BY <1>r, <1>w, <2>1, <2>i, <2>o DEF OwedIsComing
  <2> QED BY <2>1, <2>2, <2>3 DEF SleepIsWatched
<1>4. CASE HoldEnds
  <2>1. listing' = [at |-> "build", owed |-> {}] BY <1>4 DEF HoldEnds
  <2> QED BY <2>1 DEF Listings, OwedIsComing, SleepIsWatched
<1>5. CASE ListFails \/ ListReturns
  <2>1. listing' = NoList BY <1>5 DEF ListFails, ListReturns
  <2> QED BY <2>1 DEF Listings, NoList, OwedIsComing, SleepIsWatched, Waiting
<1>6. CASE ListBuilds
  <2>1. listing' = [at |-> "done", owed |-> listing.owed, listed |-> offered] BY <1>6 DEF ListBuilds
  <2>2. listing.at = "build" /\ listing.owed \in SUBSET Servers
    BY <1>6, <1>t, ListingFields DEF ListBuilds, Waiting
  <2>3. listing.owed \subseteq toolsReady BY <2>2 DEF OwedIsComing, Waiting
  <2>4. toolsReady \cap Servers \subseteq offered BY DEF TrackerFollows
  <2>5. listing' \in Listings BY <1>t, <2>1, <2>2 DEF Listings
  <2> QED BY <2>1, <2>2, <2>3, <2>4, <2>5 DEF OwedIsComing, SleepIsWatched, Waiting
<1> QED BY <1>1, <1>2, <1>3, <1>4, <1>5, <1>6

\* lookupTool.
LEMMA CallSteps ==
    ASSUME StartupIInv, (\E s \in Servers : CallChecks(s)) \/ CallLooksUp \/ CallReturns
    PROVE  StartupIInv'
<1> USE DEF StartupIInv
<1>t. /\ listing \in Listings /\ clock \in Nat \ {0} /\ lookup \in Lookups /\ toolsReady \in SUBSET Servers
  BY DEF StartupTypeOK
<1>s. UNCHANGED <<clock, serverVars>> /\ listing' = listing
  BY DEF CallChecks, CallLooksUp, CallReturns
<1>r. UNCHANGED <<clock, toolsReady, recorded>> BY <1>s DEF serverVars
<1>w. /\ TrackerFollows' /\ (lookup' \in Lookups => StartupTypeOK')
      /\ \A s \in Servers : Tried(s)' = Tried(s) /\ WindowEnd(s)' = WindowEnd(s)
  BY <1>s, <1>t, ServersStand
<1>o. OwedIsComing' BY <1>s, <1>r, <1>t, <1>w, OwedStays, Stays
<1>e. SleepIsWatched' BY <1>s, <1>r, <1>t, <1>w, SleepStays, Stays
<1> SUFFICES lookup' \in Lookups /\ CallIsSteady' BY <1>w, <1>o, <1>e
<1>1. ASSUME NEW s \in Servers, CallChecks(s)
      PROVE  lookup' \in Lookups /\ CallIsSteady'
  <2>1. CASE s \in recorded /\ State(s) # "connected"
    <3>1. lookup' = [at |-> "done", server |-> s, steady |-> TRUE, answer |-> State(s)]
      BY <1>1, <2>1 DEF CallChecks
    <3>2. State(s) \in Answers /\ State(s) # "not found" BY <2>1 DEF State, Answers
    <3>3. lookup' \in Lookups BY <3>1, <3>2 DEF Lookups
    <3> QED BY <1>r, <2>1, <3>1, <3>2, <3>3 DEF CallIsSteady
  <2>2. CASE ~(s \in recorded /\ State(s) # "connected")
    <3>1. lookup' = [at |-> "lookup", server |-> s, steady |-> s \in recorded]
      BY <1>1, <2>2 DEF CallChecks
    <3>2. s \in recorded => s \in toolsReady BY <2>2, StateOf
    <3>3. lookup' \in Lookups BY <3>1 DEF Lookups
    <3> QED BY <1>r, <3>1, <3>2, <3>3 DEF CallIsSteady
  <2> QED BY <2>1, <2>2
<1>2. CASE CallLooksUp
  <2>1. lookup.server \in Servers /\ lookup.steady \in BOOLEAN /\ lookup.at = "lookup"
    <3>1. lookup.at = "lookup" BY <1>2 DEF CallLooksUp
    <3>2. lookup \in [at : {"lookup"}, server : Servers, steady : BOOLEAN] BY <1>t, <3>1 DEF Lookups, NoCall
    <3> QED BY <3>1, <3>2
  <2>2. lookup.steady => lookup.server \in recorded /\ lookup.server \in offered
    BY <2>1 DEF CallIsSteady, TrackerFollows
  <2> DEFINE found == IF lookup.server \in offered THEN "found" ELSE "not found"
  <2>3. lookup' = [at |-> "done", server |-> lookup.server, steady |-> lookup.steady, answer |-> found]
    BY <1>2 DEF CallLooksUp
  <2>4. found \in Answers /\ (lookup.steady => found # "not found") BY <2>2 DEF Answers
  <2> HIDE DEF found
  <2>5. lookup' \in Lookups BY <2>1, <2>3, <2>4 DEF Lookups
  <2> QED BY <1>r, <2>2, <2>3, <2>4, <2>5 DEF CallIsSteady
<1>3. CASE CallReturns
  <2>1. lookup' = NoCall BY <1>3 DEF CallReturns
  <2> QED BY <2>1 DEF Lookups, NoCall, CallIsSteady
<1> QED BY <1>1, <1>2, <1>3

\* The tracker, the registry, tools/list and lookupTool agree at every moment (startup_state.go,
\* startup_wait.go, upstream_install.go).
THEOREM StartupInvariant == StartupSpec => []StartupIInv
<1>1. StartupInit => StartupIInv
  BY DEF StartupInit, StartupIInv, StartupTypeOK, Stages, Listings, Lookups, NoList, NoCall, TrackerFollows,
         SleepIsWatched, OwedIsComing, CallIsSteady, Waiting
<1>2. StartupIInv /\ [StartupNext]_startupVars => StartupIInv'
  <2> SUFFICES ASSUME StartupIInv, [StartupNext]_startupVars PROVE StartupIInv'
    OBVIOUS
  <2>1. CASE StartupNext
    BY <2>1, ServerSteps, TimeStep, ListSteps, CallSteps DEF StartupNext
  <2>2. CASE UNCHANGED startupVars
    BY <2>2 DEF startupVars, StartupIInv, StartupTypeOK, TrackerFollows, SleepIsWatched, OwedIsComing,
                CallIsSteady, Tried, WindowEnd
  <2> QED BY <2>1, <2>2
<1> QED BY <1>1, <1>2, PTL DEF StartupSpec

\* What an agent is told of servers that start is true: the list it gets has all it waited for
\* (waitForStartup), no change is missed in its sleep (broadcastChange), and lookupTool never denies a
\* tool of a server that stays configured.
THEOREM AgentsAreToldOfStartup == StartupSpec => []StartupIsTold
<1>1. StartupIInv => StartupIsTold
  <2> SUFFICES ASSUME StartupIInv PROVE StartupIsTold
    OBVIOUS
  <2>t. recorded \in SUBSET Servers /\ progress \in [Servers -> Stages] BY DEF StartupIInv, StartupTypeOK
  <2>1. listing.at = "asleep" => listing.woken \/ clock >= listing.until \/ Connecting # {}
    <3> SUFFICES ASSUME listing.at = "asleep", ~listing.woken, ~(clock >= listing.until)
                 PROVE  Connecting # {}
      OBVIOUS
    <3>1. PICK s \in Servers : Tried(s) /\ WindowEnd(s) = listing.until BY DEF StartupIInv, SleepIsWatched
    <3>2. clock \in Nat /\ listing.until \in Nat BY ListingFields DEF StartupIInv, StartupTypeOK
    <3>3. s \in Connecting BY <3>1, <3>2, ConnectingAre
    <3> QED BY <3>3
  <2>2. \A s \in recorded : Retryable(State(s)) => progress[s] \in {"recorded", "connecting", "registered"}
    BY <2>t, StateOf DEF StartupIInv, TrackerFollows, Stages
  <2>3. listing.at = "done" => listing.owed \subseteq listing.listed BY DEF StartupIInv, OwedIsComing
  <2>4. lookup.at = "done" /\ lookup.answer = "not found" => ~lookup.steady BY DEF StartupIInv, CallIsSteady
  <2> QED BY <2>1, <2>2, <2>3, <2>4 DEF StartupIsTold
<1> QED BY <1>1, StartupInvariant, PTL

-----------------------------------------------------------------------------
(* The saved login: the inductive invariant *)

LoginSet == [a : Nat, r : Nat, conf : Nat]
Providers ==
    [made : BOOLEAN, conf : Nat, login : LoginSet, persisted : LoginSet, dead : Nat, backoff : BOOLEAN,
     mu : Callers \cup Logins \cup {NoOne}, cancelled : BOOLEAN, retired : BOOLEAN]
Refreshes == {"sync", "exchange", "answer", "persist"}
Returns == {"got", "retired", "logIn", "transient"}
CallPCs == {"idle", "lock"} \cup Refreshes \cup Returns
CallRecs == [pc : CallPCs, op : {"auth", "renew"}, p : {0} \cup Provs, token : Nat, answer : LoginSet]
LoginPCs == {"idle", "browser", "commit", "lock", "clear", "remove", "done"}
LoginRecs == [pc : LoginPCs, conf : Nat, chal : Nat, gen : Nat, p : {0} \cup Provs, token : LoginSet]
RemovalPCs == {"idle", "forget", "forgetAgain", "delete", "again", "done"}
Ages == {"fresh", "expiring", "expired"}
OpOwners == Logins \cup {NoOne, "remover"}

\* The refresh tokens the authorization server accepts were issued.
ServerIsSound(server) ==
    /\ server \in [issued : Nat, valid : SUBSET Nat]
    /\ \A r \in server.valid : 0 < r /\ r <= server.issued

SavedTypeOK ==
    /\ stored \in LoginSet /\ chal \in Nat /\ conf \in [file : Nat, daemon : Nat] /\ latest \in {0} \cup Provs
    /\ op \in [mu : OpOwners, gen : Nat]
    /\ cli \in [pc : {"idle", "exchange", "save", "done"}, login : LoginSet]
    /\ login \in [Logins -> LoginRecs]
    /\ rem \in [pc : RemovalPCs, p : {0} \cup Provs, deletes : BOOLEAN]
    /\ age \in [1 .. MaxTokens -> Ages] /\ events \in Nat
    /\ ServerIsSound(authServer)

TokenTypeOK ==
    SavedTypeOK /\ prov \in [Provs -> Providers] /\ call \in [Callers -> CallRecs] /\ doubt \in SUBSET Callers

\* A refresh token that is saved or about to be was issued, and a login commits to a provider.
TokensAreIssued ==
    /\ stored.r <= authServer.issued /\ cli.login.r <= authServer.issued
    /\ \A l \in Logins : login[l].token.r <= authServer.issued
CommitsHaveProvider == \A l \in Logins : login[l].pc = "lock" => login[l].p # 0
LatestIsMade == latest # 0 => prov[latest].made

\* A login commits to a provider that was made, and holds its mutex from its save until it is done.
LoginsHold ==
    \A l \in Logins : login[l].pc \in {"lock", "clear", "remove"} /\ login[l].p # 0 =>
        prov[login[l].p].made /\ (login[l].pc # "lock" => prov[login[l].p].mu = l)

\* The challenge that a login is about to remove is its own, unless another process replaced it.
RemovesItsOwn == \A l \in Logins : login[l].pc = "remove" => chal \in {0, login[l].chal} \/ l \in overtaken

\* A provider that is retired has no login and nobody in its mutex; another's refresh token is the
\* one it last saved or adopted, unless that one was used up; and the token it knows to be dead is.
ProviderIsSound(P, server) ==
    /\ P.login.r <= server.issued /\ P.persisted.r <= server.issued /\ P.dead <= server.issued
    /\ P.dead \notin server.valid
    /\ P.retired => P.mu = NoOne /\ P.login = NoLogin
    /\ ~P.retired => P.login.r = P.persisted.r \/ P.persisted.r \notin server.valid

\* A request refreshes under the mutex of its provider. While it does and nothing put its login in
\* doubt, it refreshes the saved login, whose refresh token is valid; an answer that says the token
\* is dead is believed only then.
CallIsSound(c) ==
    /\ call[c].pc # "idle" => call[c].p # 0 /\ P_(c).made
    /\ call[c].pc \in Refreshes => P_(c).mu = c
    /\ call[c].answer.r <= authServer.issued
    /\ call[c].pc \notin {"answer", "persist"} => call[c].answer = NoLogin
    /\ call[c].pc # "idle" /\ c \notin doubt => stored.r \in authServer.valid
    /\ call[c].pc = "exchange" /\ c \notin doubt => stored.r = P_(c).login.r
    /\ call[c].pc = "answer" /\ call[c].answer = Refused => c \in doubt /\ P_(c).login.r \notin authServer.valid
    /\ call[c].pc = "answer" /\ call[c].answer \notin {NoLogin, Refused}
         => call[c].answer.r = P_(c).login.r \/ P_(c).login.r \notin authServer.valid
    /\ call[c].pc = "logIn" => c \in doubt

TokenIInv ==
    /\ TokenTypeOK /\ TokensAreIssued /\ CommitsHaveProvider /\ LatestIsMade /\ LoginsHold
    /\ \A p \in Provs : ProviderIsSound(prov[p], authServer)
    /\ \A c \in Callers : CallIsSound(c)

-----------------------------------------------------------------------------
(* The saved login: lemmas *)

\* The values the steps below use are values of their fields.
LEMMA TokenDomains ==
    /\ Provs \subseteq Nat \ {0} /\ NoOne \notin Callers \cup Logins /\ Callers \cap Logins = {}
    /\ NoLogin \in LoginSet /\ Refused \in LoginSet /\ NoLogin.r = 0 /\ Refused.r = 0
    /\ Refreshes \cup Returns \cup {"idle", "lock"} \subseteq CallPCs
    /\ "idle" \notin Refreshes \cup Returns /\ Refreshes \cap Returns = {}
    /\ {"sync", "exchange", "answer", "persist"} \subseteq Refreshes
    /\ {"got", "retired", "logIn", "transient"} \subseteq Returns
    /\ "lock" \notin Refreshes \cup Returns
BY ProviderAssumption DEF Provs, NoOne, NoLogin, Refused, LoginSet, CallPCs, Refreshes, Returns

\* The authorization server forgets tokens and issues new ones.
GrowsTo(server, next) ==
    /\ ServerIsSound(server) /\ ServerIsSound(next) /\ server.issued <= next.issued
    /\ \A r \in next.valid : r \in server.valid \/ r > server.issued

\* An authorization server that does nothing.
LEMMA ServerStands == \A server : ServerIsSound(server) => GrowsTo(server, server)
BY DEF ServerIsSound, GrowsTo

\* A provider stays sound when the authorization server moves on: what is used up stays so.
LEMMA ProviderKept ==
    ASSUME NEW s, NEW t, GrowsTo(s, t), NEW P \in Providers, ProviderIsSound(P, s)
    PROVE  ProviderIsSound(P, t)
<1>1. P.login.r \in Nat /\ P.persisted.r \in Nat /\ P.dead \in Nat BY DEF Providers, LoginSet
<1>2. s.issued \in Nat /\ t.issued \in Nat /\ s.issued <= t.issued /\ (\A r \in t.valid : r \in Nat)
  BY DEF GrowsTo, ServerIsSound
<1>3. \A r \in Nat : r <= s.issued => r <= t.issued /\ (r \in t.valid => r \in s.valid)
  BY <1>2 DEF GrowsTo
<1> QED BY <1>1, <1>3 DEF ProviderIsSound

\* A provider that lets go of its mutex, waits before it tries again, or learns that the token it
\* holds is dead.
LEMMA ProviderLetsGo ==
    ASSUME NEW s, NEW P \in Providers, ProviderIsSound(P, s), NEW b \in BOOLEAN,
           NEW m \in Callers \cup Logins \cup {NoOne}, P.retired => m = NoOne
    PROVE  /\ [P EXCEPT !.mu = m] \in Providers /\ ProviderIsSound([P EXCEPT !.mu = m], s)
           /\ [P EXCEPT !.backoff = b] \in Providers /\ ProviderIsSound([P EXCEPT !.backoff = b], s)
           /\ [P EXCEPT !.cancelled = b] \in Providers /\ ProviderIsSound([P EXCEPT !.cancelled = b], s)
BY DEF Providers, ProviderIsSound

\* adoptLoginLocked.
LEMMA ProviderAdopts ==
    ASSUME NEW s, ServerIsSound(s), NEW P \in Providers, ~P.retired, NEW l \in LoginSet, l.r <= s.issued
    PROVE  /\ Adopted(P, l) \in Providers /\ ProviderIsSound(Adopted(P, l), s)
           /\ Adopted(P, l).login = l /\ Adopted(P, l).persisted = l
           /\ Adopted(P, l).made = P.made /\ Adopted(P, l).mu = P.mu /\ Adopted(P, l).conf = P.conf
           /\ Adopted(P, l).retired = P.retired /\ Adopted(P, l).dead = 0
<1>1. /\ Adopted(P, l) \in Providers
      /\ Adopted(P, l).login = l /\ Adopted(P, l).persisted = l
      /\ Adopted(P, l).made = P.made /\ Adopted(P, l).mu = P.mu /\ Adopted(P, l).conf = P.conf
      /\ Adopted(P, l).retired = P.retired /\ Adopted(P, l).dead = 0
  BY DEF Adopted, Providers
<1>2. 0 \notin s.valid /\ 0 <= s.issued BY DEF ServerIsSound
<1> QED BY <1>1, <1>2 DEF ProviderIsSound

\* No login moves, and a mutex that a login holds stays held.
LEMMA HoldsKept ==
    ASSUME TokenIInv, login' = login,
           \A p \in Provs : prov[p].made =>
               prov'[p].made /\ (prov[p].mu \in Logins => prov'[p].mu = prov[p].mu)
    PROVE  LoginsHold'
<1> SUFFICES ASSUME NEW l \in Logins, login[l].pc \in {"lock", "clear", "remove"}, login[l].p # 0
             PROVE  prov'[login[l].p].made /\ (login[l].pc # "lock" => prov'[login[l].p].mu = l)
  BY DEF LoginsHold
<1>1. login[l].p \in Provs BY DEF TokenIInv, TokenTypeOK, SavedTypeOK, LoginRecs
<1>2. prov[login[l].p].made /\ (login[l].pc # "lock" => prov[login[l].p].mu = l) BY DEF TokenIInv, LoginsHold
<1> QED BY <1>1, <1>2

\* What a request learns about its login as it goes on.
LEMMA UnlessDoubted ==
    ASSUME TokenIInv, Remember, NEW c \in Callers, call'[c].pc # "idle", c \notin doubt'
    PROVE  /\ c \notin doubt /\ ~GaveWay(c)
           /\ call[c].p # 0 => Loads(P_(c).conf) /\ stored.r \in authServer.valid
           /\ call'[c].p # 0 => stored'.r \in authServer'.valid
BY DEF Remember, Good

\* A request that stands still while others act.
LEMMA CallKept ==
    ASSUME TokenIInv, Remember, GrowsTo(authServer, authServer'), NEW d \in Callers, call'[d] = call[d],
           call[d].pc # "idle" => (P_(d).made)',
           call[d].pc \in Refreshes => (P_(d).mu)' = d /\ (P_(d).login)' = P_(d).login
    PROVE  CallIsSound(d)'
<1>1. CallIsSound(d) /\ call[d] \in CallRecs BY DEF TokenIInv, TokenTypeOK
<1>2. \A r \in Nat : r <= authServer.issued => r <= authServer'.issued /\ (r \in authServer'.valid => r \in authServer.valid)
  BY DEF GrowsTo, ServerIsSound
<1>3. call[d].answer.r <= authServer'.issued
  BY <1>1, <1>2 DEF CallIsSound, CallRecs, LoginSet
<1>4. call[d].pc # "idle" /\ d \in doubt => d \in doubt' BY DEF Remember
<1>5. CASE call[d].pc = "idle"
  BY <1>1, <1>3, <1>5, TokenDomains DEF CallIsSound
<1>6. CASE call[d].pc # "idle"
  <2>1. call[d].p # 0 /\ call[d].p \in Provs BY <1>1, <1>6 DEF CallIsSound, CallRecs
  <2>2. d \notin doubt' => d \notin doubt /\ ~GaveWay(d) /\ stored'.r \in authServer'.valid
    BY <1>6, <2>1, UnlessDoubted
  <2>3. call[d].pc \notin Refreshes
         => CallIsSound(d)'
    BY <1>1, <1>3, <1>4, <1>6, <2>1, <2>2, TokenDomains DEF CallIsSound
  <2>4. CASE call[d].pc \in Refreshes
    <3>1. (P_(d).login)' = P_(d).login /\ (P_(d).mu)' = d BY <2>4
    <3>2. P_(d).login.r \in Nat /\ P_(d).login.r <= authServer.issued
      <4>1. P_(d) \in Providers /\ ProviderIsSound(P_(d), authServer) BY <2>1 DEF TokenIInv, TokenTypeOK, P_
      <4> QED BY <4>1 DEF Providers, LoginSet, ProviderIsSound
    <3>3. P_(d).login.r \notin authServer.valid => P_(d).login.r \notin authServer'.valid BY <1>2, <3>2
    <3>4. call[d].pc = "exchange" /\ d \notin doubt' => stored' = stored BY <2>2 DEF GaveWay
    <3>a. call'[d].pc # "idle" => call'[d].p # 0 /\ (P_(d).made)' BY <1>6, <2>1
    <3>b. call'[d].pc # "idle" /\ d \notin doubt' => stored'.r \in authServer'.valid BY <2>2
    <3>c. call'[d].pc = "exchange" /\ d \notin doubt' => stored'.r = (P_(d).login.r)'
      BY <1>1, <2>2, <3>1, <3>4 DEF CallIsSound
    <3>d. call'[d].pc = "answer" /\ call'[d].answer = Refused
            => d \in doubt' /\ (P_(d).login.r)' \notin authServer'.valid
      BY <1>1, <1>4, <1>6, <3>1, <3>3 DEF CallIsSound
    <3>e. call'[d].pc = "answer" /\ call'[d].answer \notin {NoLogin, Refused}
            => call'[d].answer.r = (P_(d).login.r)' \/ (P_(d).login.r)' \notin authServer'.valid
      BY <1>1, <3>1, <3>3 DEF CallIsSound
    <3>f. call[d].pc # "logIn" BY <2>4, TokenDomains
    <3>g. call'[d].pc \notin {"answer", "persist"} => call'[d].answer = NoLogin BY <1>1 DEF CallIsSound
    <3> QED BY <1>3, <3>1, <3>a, <3>b, <3>c, <3>d, <3>e, <3>f, <3>g DEF CallIsSound, Refused, NoLogin
  <2> QED BY <2>3, <2>4
<1> QED BY <1>5, <1>6

\* One request acts, on its provider alone.
LEMMA CallActs ==
    ASSUME TokenIInv, Remember, GrowsTo(authServer, authServer'),
           SavedTypeOK', TokensAreIssued', CommitsHaveProvider', latest' = latest, login' = login,
           NEW c \in Callers, call[c].p \in Provs, P_(c).mu \in {c, NoOne},
           NEW Q \in Providers, prov' = [prov EXCEPT ![call[c].p] = Q], Q.made,
           ProviderIsSound(Q, authServer'),
           NEW k \in CallRecs, call' = [call EXCEPT ![c] = k], CallIsSound(c)'
    PROVE  TokenIInv'
<1>t. prov \in [Provs -> Providers] /\ call \in [Callers -> CallRecs] BY DEF TokenIInv, TokenTypeOK
<1>1. TokenTypeOK' BY <1>t DEF TokenTypeOK, Remember
<1>2. \A p \in Provs : prov'[p] = IF p = call[c].p THEN Q ELSE prov[p] BY <1>t
<1>3. LatestIsMade' BY <1>2 DEF TokenIInv, LatestIsMade, TokenTypeOK, SavedTypeOK
<1>4. ASSUME NEW p \in Provs PROVE ProviderIsSound(prov'[p], authServer')
  <2>1. CASE p = call[c].p BY <1>2, <2>1
  <2>2. CASE p # call[c].p
    <3>1. prov'[p] = prov[p] /\ prov[p] \in Providers /\ ProviderIsSound(prov[p], authServer)
      BY <1>2, <1>t, <2>2 DEF TokenIInv
    <3> QED BY <3>1, ProviderKept
  <2> QED BY <2>1, <2>2
<1>5. ASSUME NEW d \in Callers \ {c} PROVE CallIsSound(d)'
  <2>1. call'[d] = call[d] /\ call[d] \in CallRecs /\ CallIsSound(d) BY <1>t DEF TokenIInv
  <2>2. call[d].pc # "idle" => call[d].p \in Provs /\ P_(d).made BY <2>1 DEF CallIsSound, CallRecs
  <2>3. call[d].pc # "idle" => (P_(d).made)' BY <1>2, <2>1, <2>2 DEF P_
  <2>4. call[d].pc \in Refreshes => call[d].pc # "idle" /\ P_(d).mu = d /\ d \notin {c, NoOne}
    BY <2>1, TokenDomains DEF CallIsSound
  <2>5. call[d].pc \in Refreshes => (P_(d).mu)' = d /\ (P_(d).login)' = P_(d).login
    BY <1>2, <2>1, <2>2, <2>4 DEF P_
  <2> QED BY <2>1, <2>3, <2>5, CallKept
<1>6. LoginsHold' BY <1>2, HoldsKept, TokenDomains DEF P_
<1> QED BY <1>1, <1>3, <1>4, <1>5, <1>6 DEF TokenIInv

\* Nobody's request acts: what others do leaves a provider whose mutex a request holds as it is.
LEMMA CallsStand ==
    ASSUME TokenIInv, Remember, GrowsTo(authServer, authServer'),
           SavedTypeOK', TokensAreIssued', CommitsHaveProvider', LoginsHold', latest' \in {0, latest}, call' = call,
           prov' \in [Provs -> Providers],
           \A p \in Provs :
               /\ ProviderIsSound(prov'[p], authServer) /\ (prov[p].made => prov'[p].made)
               /\ prov[p].mu \in Callers => prov'[p].mu = prov[p].mu /\ prov'[p].login = prov[p].login
    PROVE  TokenIInv'
<1>t. prov \in [Provs -> Providers] /\ call \in [Callers -> CallRecs] BY DEF TokenIInv, TokenTypeOK
<1>1. TokenTypeOK' BY <1>t DEF TokenTypeOK, Remember
<1>2. LatestIsMade' BY DEF TokenIInv, LatestIsMade, TokenTypeOK, SavedTypeOK
<1>3. \A p \in Provs : ProviderIsSound(prov'[p], authServer') BY ProviderKept
<1>4. ASSUME NEW d \in Callers PROVE CallIsSound(d)'
  <2>1. call'[d] = call[d] /\ call[d] \in CallRecs /\ CallIsSound(d) BY <1>t DEF TokenIInv
  <2>2. call[d].pc # "idle" => call[d].p \in Provs /\ P_(d).made BY <2>1 DEF CallIsSound, CallRecs
  <2>3. call[d].pc # "idle" => (P_(d).made)' BY <2>1, <2>2 DEF P_
  <2>4. call[d].pc \in Refreshes => call[d].pc # "idle" /\ P_(d).mu = d
    BY <2>1, TokenDomains DEF CallIsSound
  <2>5. call[d].pc \in Refreshes => (P_(d).mu)' = d /\ (P_(d).login)' = P_(d).login
    BY <2>1, <2>2, <2>4 DEF P_
  <2> QED BY <2>1, <2>3, <2>5, CallKept
<1> QED BY <1>1, <1>2, <1>3, <1>4 DEF TokenIInv

\* A request that takes a step knows its provider.
LEMMA CallHasProvider ==
    ASSUME TokenIInv, NEW c \in Callers, call[c].pc # "idle"
    PROVE  /\ call[c] \in CallRecs /\ call[c].p \in Provs /\ call[c].p # 0 /\ P_(c) = prov[call[c].p]
           /\ P_(c) \in Providers /\ P_(c).made /\ ProviderIsSound(P_(c), authServer)
           /\ ServerIsSound(authServer) /\ stored \in LoginSet /\ stored.r <= authServer.issued
           /\ call[c].pc \in Refreshes => P_(c).mu = c /\ ~P_(c).retired
<1>1. call[c] \in CallRecs /\ CallIsSound(c) BY DEF TokenIInv, TokenTypeOK
<1>2. call[c].p \in Provs /\ call[c].p # 0 /\ P_(c).made BY <1>1 DEF CallIsSound, CallRecs
<1>3. P_(c) \in Providers /\ ProviderIsSound(P_(c), authServer) BY <1>2 DEF TokenIInv, TokenTypeOK, P_
<1>4. ServerIsSound(authServer) /\ stored \in LoginSet /\ stored.r <= authServer.issued
  BY DEF TokenIInv, TokenTypeOK, SavedTypeOK, TokensAreIssued
<1>5. call[c].pc \in Refreshes => P_(c).mu = c /\ ~P_(c).retired
  BY <1>1, <1>3, TokenDomains DEF CallIsSound, ProviderIsSound
<1> QED BY <1>1, <1>2, <1>3, <1>4, <1>5 DEF P_

\* The saved state stays sound when a step moves none of it.
LEMMA SavedStays ==
    ASSUME TokenIInv, UNCHANGED unmoved
    PROVE  /\ SavedTypeOK' /\ TokensAreIssued' /\ CommitsHaveProvider' /\ latest' = latest /\ login' = login
           /\ GrowsTo(authServer, authServer') /\ authServer' = authServer /\ stored' = stored
<1>1. ServerIsSound(authServer) BY DEF TokenIInv, TokenTypeOK, SavedTypeOK
<1>2. UNCHANGED <<stored, chal, conf, latest, op, cli, login, rem, authServer, age, events>> BY DEF unmoved
<1> QED BY <1>1, <1>2, ServerStands DEF TokenIInv, TokenTypeOK, SavedTypeOK, TokensAreIssued, CommitsHaveProvider

\* Authorization or RefreshAuthorization returns.
LEMMA ReturnStep ==
    ASSUME TokenIInv, Remember, GrowsTo(authServer, authServer'),
           SavedTypeOK', TokensAreIssued', CommitsHaveProvider', latest' = latest, login' = login,
           NEW c \in Callers, call[c].pc # "idle", P_(c).mu \in {c, NoOne},
           NEW P \in Providers, P.made, ProviderIsSound(P, authServer'),
           NEW how \in Returns, how = "logIn" => c \in doubt', Return(c, how, P)
    PROVE  TokenIInv'
<1>0. call[c] \in CallRecs /\ call[c].p \in Provs /\ call[c].p # 0 BY CallHasProvider
<1> DEFINE Q == [P EXCEPT !.mu = NoOne]
<1> DEFINE k == [call[c] EXCEPT !.pc = how, !.token = P.login.a, !.answer = NoLogin]
<1>1. Q \in Providers /\ Q.made /\ ProviderIsSound(Q, authServer')
  BY ProviderLetsGo DEF Providers
<1>2. /\ k \in CallRecs /\ k.pc = how /\ k.p = call[c].p /\ k.answer = NoLogin
  BY <1>0, TokenDomains DEF CallRecs, Providers, LoginSet
<1>3. prov' = [prov EXCEPT ![call[c].p] = Q] /\ call' = [call EXCEPT ![c] = k] BY DEF Return
<1>4. call'[c] = k /\ prov'[call[c].p] = Q BY <1>0, <1>3 DEF TokenIInv, TokenTypeOK
<1> HIDE DEF Q, k
<1>5. how # "idle" /\ how \notin Refreshes /\ how \notin {"exchange", "answer"} BY TokenDomains
<1>6. c \notin doubt' => stored'.r \in authServer'.valid BY <1>0, <1>2, <1>4, <1>5, UnlessDoubted
<1>7. call'[c].answer.r <= authServer'.issued
  BY <1>2, <1>4, TokenDomains DEF GrowsTo, ServerIsSound
<1>8. CallIsSound(c)'
  BY <1>0, <1>1, <1>2, <1>4, <1>5, <1>6, <1>7 DEF CallIsSound, P_
<1> QED BY <1>0, <1>1, <1>2, <1>3, <1>8, CallActs

\* refreshFailureLocked, and the token served when a refresh that nobody needed yet fails.
LEMMA RefreshFailsStep ==
    ASSUME TokenIInv, Remember, GrowsTo(authServer, authServer'),
           SavedTypeOK', TokensAreIssued', CommitsHaveProvider', latest' = latest, login' = login,
           NEW c \in Callers, call[c].pc # "idle", P_(c).mu \in {c, NoOne},
           NEW P \in Providers, P.made, ProviderIsSound(P, authServer'),
           NEW how \in Returns, how = "logIn" => c \in doubt', RefreshFails(c, P, how)
    PROVE  TokenIInv'
<1>1. CASE Return(c, "got", [P EXCEPT !.backoff = TRUE])
  <2> DEFINE R == [P EXCEPT !.backoff = TRUE]
  <2>1. R \in Providers /\ R.made /\ ProviderIsSound(R, authServer')
    <3>1. NoOne \in Callers \cup Logins \cup {NoOne} OBVIOUS
    <3>2. R \in Providers /\ ProviderIsSound(R, authServer') BY <3>1, ProviderLetsGo
    <3> QED BY <3>2 DEF Providers
  <2>2. Return(c, "got", R) BY <1>1
  <2> HIDE DEF R
  <2> QED BY <2>1, <2>2, ReturnStep, TokenDomains
<1>2. CASE Return(c, how, P)
  BY <1>2, ReturnStep
<1> QED BY <1>1, <1>2 DEF RefreshFails

\* The saved state stays sound when time passes, something happens or tokens are issued.
LEMMA SavedGrows ==
    ASSUME TokenIInv, UNCHANGED <<stored, conf, latest, op, cli, login, rem>>, chal' \in Nat,
           age' \in [1 .. MaxTokens -> Ages], events' \in Nat, GrowsTo(authServer, authServer')
    PROVE  SavedTypeOK' /\ TokensAreIssued' /\ CommitsHaveProvider' /\ latest' = latest /\ login' = login
<1>1. \A r \in Nat : r <= authServer.issued => r <= authServer'.issued BY DEF GrowsTo, ServerIsSound
<1>2. stored.r \in Nat /\ cli.login.r \in Nat /\ \A l \in Logins : login[l].token.r \in Nat
  BY DEF TokenIInv, TokenTypeOK, SavedTypeOK, LoginRecs, LoginSet
<1>3. TokensAreIssued' BY <1>1, <1>2 DEF TokenIInv, TokensAreIssued
<1>4. ServerIsSound(authServer') BY DEF GrowsTo
<1> QED BY <1>3, <1>4 DEF TokenIInv, TokenTypeOK, SavedTypeOK, CommitsHaveProvider

\* What the model counts stays counted.
LEMMA EventsCounted == TokenIInv => /\ chal \in Nat /\ age \in [1 .. MaxTokens -> Ages] /\ events \in Nat
                                    /\ (Event => events' \in Nat) /\ GrowsTo(authServer, authServer)
BY ServerStands DEF TokenIInv, TokenTypeOK, SavedTypeOK, Event

\* A refresh gives a login whose refresh token is the old one, or a new one that uses it up.
LEMMA IssuedTokens ==
    ASSUME ServerIsSound(authServer), NEW old \in LoginSet, old.r \in authServer.valid, NEW new \in Issued(old)
    PROVE  /\ new.login \in LoginSet /\ new.login.r <= new.server.issued /\ new.login.r # 0
           /\ new.login.r = old.r \/ old.r \notin new.server.valid
           /\ GrowsTo(authServer, new.server)
<1>0. /\ authServer \in [issued : Nat, valid : SUBSET Nat]
      /\ \A r \in authServer.valid : 0 < r /\ r <= authServer.issued
  BY DEF ServerIsSound
<1> DEFINE n == authServer.issued + 1
<1>n. n \in Nat /\ n > authServer.issued /\ n > 0 /\ authServer.issued \in Nat BY <1>0
<1>1. CASE new = [login |-> [old EXCEPT !.a = n, !.r = n],
                  server |-> [issued |-> n, valid |-> (authServer.valid \ {old.r}) \cup {n}]]
  <2>1. new.login \in LoginSet /\ new.login.r = n /\ new.server.issued = n
        /\ new.server.valid = (authServer.valid \ {old.r}) \cup {n}
        /\ new.server \in [issued : Nat, valid : SUBSET Nat]
    BY <1>0, <1>n, <1>1 DEF LoginSet
  <2>2. old.r # n BY <1>0, <1>n
  <2> HIDE DEF n
  <2> QED BY <1>0, <1>n, <2>1, <2>2 DEF GrowsTo, ServerIsSound
<1>2. CASE new = [login |-> [old EXCEPT !.a = n], server |-> [authServer EXCEPT !.issued = @ + 1]]
  <2>1. new.login \in LoginSet /\ new.login.r = old.r /\ new.server.issued = n
        /\ new.server.valid = authServer.valid
        /\ new.server \in [issued : Nat, valid : SUBSET Nat]
    BY <1>0, <1>n, <1>2 DEF LoginSet
  <2>2. old.r # 0 /\ old.r <= n BY <1>0, <1>n
  <2> HIDE DEF n
  <2> QED BY <1>0, <1>n, <2>1, <2>2 DEF GrowsTo, ServerIsSound
<1> QED BY <1>1, <1>2 DEF Issued

-----------------------------------------------------------------------------
(* The saved login: the steps of a request *)

\* Authorization and RefreshAuthorization up to the check whether a refresh is needed.
LEMMA LockStep ==
    ASSUME TokenIInv, Remember, NEW c \in Callers, Lock(c)
    PROVE  TokenIInv'
<1> DEFINE adopts == P_(c).login = NoLogin /\ ~P_(c).retired /\ Loads(P_(c).conf)
<1> DEFINE P == IF adopts THEN Adopted(P_(c), stored) ELSE P_(c)
<1>0. call[c].pc = "lock" /\ P.mu = NoOne BY DEF Lock, At
<1>1. /\ call[c] \in CallRecs /\ call[c].p \in Provs /\ call[c].p # 0 /\ P_(c) = prov[call[c].p]
      /\ P_(c) \in Providers /\ P_(c).made /\ ProviderIsSound(P_(c), authServer)
      /\ ServerIsSound(authServer) /\ stored \in LoginSet /\ stored.r <= authServer.issued
  BY <1>0, CallHasProvider
<1>2. /\ P \in Providers /\ P.made /\ ProviderIsSound(P, authServer) /\ P.mu = P_(c).mu
      /\ P.retired = P_(c).retired /\ (adopts => P.login = stored)
  BY <1>1, ProviderAdopts
<1>3. UNCHANGED unmoved BY DEF Lock
<1>4. /\ SavedTypeOK' /\ TokensAreIssued' /\ CommitsHaveProvider' /\ latest' = latest /\ login' = login
      /\ GrowsTo(authServer, authServer') /\ authServer' = authServer /\ stored' = stored
  BY <1>3, SavedStays
<1>5. CASE P.retired /\ Return(c, "retired", P)
  <2> HIDE DEF P
  <2> QED BY <1>0, <1>2, <1>4, <1>5, ReturnStep, TokenDomains
<1>6. CASE ~P.retired /\ P.login = NoLogin /\ Return(c, "logIn", P)
  <2>1. call'[c].pc = "logIn" BY <1>1, <1>6 DEF Return, TokenIInv, TokenTypeOK, CallRecs
  <2>2. c \in doubt'
    <3> SUFFICES ASSUME c \notin doubt' PROVE FALSE
      OBVIOUS
    <3>1. Loads(P_(c).conf) BY <1>1, <2>1, UnlessDoubted
    <3>2. adopts BY <1>2, <1>6, <3>1
    <3> QED BY <1>2, <1>6, <3>1, <3>2 DEF Loads
  <2> HIDE DEF P
  <2> QED BY <1>0, <1>2, <1>4, <1>6, <2>2, ReturnStep, TokenDomains
<1>7. CASE Return(c, "got", P)
  <2> HIDE DEF P
  <2> QED BY <1>0, <1>2, <1>4, <1>7, ReturnStep, TokenDomains
<1>8. CASE /\ ~P.retired
           /\ prov' = [prov EXCEPT ![call[c].p] = [P EXCEPT !.mu = c]] /\ call' = [call EXCEPT ![c].pc = "sync"]
  <2> DEFINE Q == [P EXCEPT !.mu = c]
  <2> DEFINE k == [call[c] EXCEPT !.pc = "sync"]
  <2> HIDE DEF P
  <2>1. Q \in Providers /\ ProviderIsSound(Q, authServer')
    BY <1>2, <1>4, <1>8, ProviderLetsGo
  <2>2. Q.made /\ Q.mu = c BY <1>2 DEF Providers
  <2>3. k \in CallRecs /\ k.pc = "sync" /\ k.p = call[c].p /\ k.answer = call[c].answer
    BY <1>1, TokenDomains DEF CallRecs
  <2>4. prov' = [prov EXCEPT ![call[c].p] = Q] /\ call' = [call EXCEPT ![c] = k] BY <1>8
  <2>5. prov'[call[c].p] = Q /\ call'[c] = k BY <1>1, <2>4 DEF TokenIInv, TokenTypeOK
  <2> HIDE DEF Q, k
  <2>6. c \notin doubt' => stored'.r \in authServer'.valid BY <1>1, <2>3, <2>5, UnlessDoubted
  <2>7. call[c].answer.r <= authServer.issued /\ call[c].answer = NoLogin
    BY <1>0 DEF TokenIInv, CallIsSound
  <2>8. CallIsSound(c)' BY <1>1, <1>4, <2>2, <2>3, <2>5, <2>6, <2>7 DEF CallIsSound, P_
  <2> QED BY <1>0, <1>1, <1>2, <1>4, <2>1, <2>2, <2>3, <2>4, <2>8, CallActs
<1> QED BY <1>5, <1>6, <1>7, <1>8 DEF Lock

\* refreshLocked up to its request.
LEMMA RefreshLockedStep ==
    ASSUME TokenIInv, Remember, NEW c \in Callers, RefreshLocked(c)
    PROVE  TokenIInv'
<1> DEFINE P == SyncWithSavedLogin(P_(c))
<1>0. call[c].pc = "sync" BY DEF RefreshLocked, At
<1>1. /\ call[c] \in CallRecs /\ call[c].p \in Provs /\ call[c].p # 0 /\ P_(c) = prov[call[c].p]
      /\ P_(c) \in Providers /\ P_(c).made /\ ProviderIsSound(P_(c), authServer)
      /\ ServerIsSound(authServer) /\ stored \in LoginSet /\ stored.r <= authServer.issued
      /\ P_(c).mu = c /\ ~P_(c).retired
  BY <1>0, CallHasProvider, TokenDomains
<1>2. /\ P \in Providers /\ P.made /\ ProviderIsSound(P, authServer) /\ P.mu = c /\ ~P.retired
      /\ P.persisted = stored
  <2>1. CASE stored # P_(c).persisted
    <3>1. P = Adopted(P_(c), stored) BY <2>1 DEF SyncWithSavedLogin
    <3> QED BY <1>1, <3>1, ProviderAdopts
  <2>2. CASE stored = P_(c).persisted BY <1>1, <2>2 DEF SyncWithSavedLogin
  <2> QED BY <2>1, <2>2
<1> HIDE DEF P
<1>3. UNCHANGED unmoved BY DEF RefreshLocked
<1>4. /\ SavedTypeOK' /\ TokensAreIssued' /\ CommitsHaveProvider' /\ latest' = latest /\ login' = login
      /\ GrowsTo(authServer, authServer') /\ authServer' = authServer /\ stored' = stored
  BY <1>3, SavedStays
<1>s. P.login.r = stored.r \/ stored.r \notin authServer.valid BY <1>2 DEF ProviderIsSound
<1>5. CASE ~Loads(P_(c).conf) /\ RefreshFails(c, P_(c), "logIn")
  <2>1. call'[c].pc \in Returns
    BY <1>1, <1>5, TokenDomains DEF RefreshFails, Return, TokenIInv, TokenTypeOK, CallRecs
  <2>2. c \in doubt' BY <1>1, <1>5, <2>1, UnlessDoubted, TokenDomains
  <2> QED BY <1>0, <1>1, <1>4, <1>5, <2>2, RefreshFailsStep, TokenDomains
<1>6. CASE Return(c, "got", P)
  BY <1>0, <1>1, <1>2, <1>4, <1>6, ReturnStep, TokenDomains
<1>7. CASE P.login.r \in {0, P.dead} /\ RefreshFails(c, P, "logIn")
  <2>1. call'[c].pc \in Returns
    BY <1>1, <1>7, TokenDomains DEF RefreshFails, Return, TokenIInv, TokenTypeOK, CallRecs
  <2>2. c \notin doubt' => stored.r \in authServer.valid BY <1>1, <2>1, UnlessDoubted, TokenDomains
  <2>3. 0 \notin authServer.valid /\ P.dead \notin authServer.valid
    BY <1>1, <1>2 DEF ServerIsSound, ProviderIsSound
  <2>4. c \in doubt' BY <1>7, <1>s, <2>2, <2>3
  <2> QED BY <1>0, <1>1, <1>2, <1>4, <1>7, <2>4, RefreshFailsStep, TokenDomains
<1>8. CASE prov' = [prov EXCEPT ![call[c].p] = P] /\ call' = [call EXCEPT ![c].pc = "exchange"]
  <2> DEFINE k == [call[c] EXCEPT !.pc = "exchange"]
  <2>1. k \in CallRecs /\ k.pc = "exchange" /\ k.p = call[c].p /\ k.answer = call[c].answer
    BY <1>1, TokenDomains DEF CallRecs
  <2>2. call' = [call EXCEPT ![c] = k] BY <1>8
  <2>3. prov'[call[c].p] = P /\ call'[c] = k BY <1>1, <1>8, <2>2 DEF TokenIInv, TokenTypeOK
  <2> HIDE DEF k
  <2>4. c \notin doubt' => stored'.r \in authServer'.valid BY <1>1, <2>1, <2>3, UnlessDoubted
  <2>5. call[c].answer.r <= authServer.issued /\ call[c].answer = NoLogin
    BY <1>0 DEF TokenIInv, CallIsSound
  <2>6. CallIsSound(c)' BY <1>1, <1>2, <1>4, <1>s, <2>1, <2>3, <2>4, <2>5 DEF CallIsSound, P_
  <2> QED BY <1>1, <1>2, <1>4, <1>8, <2>1, <2>2, <2>6, CallActs
<1> QED BY <1>5, <1>6, <1>7, <1>8 DEF RefreshLocked, P

\* The request to the authorization server, answered, lost or failed.
LEMMA ExchangeStep ==
    ASSUME TokenIInv, Remember, NEW c \in Callers, Exchange(c) \/ ExchangeFails(c)
    PROVE  TokenIInv'
<1>0. call[c].pc = "exchange" BY DEF Exchange, ExchangeFails, At
<1>1. /\ call[c] \in CallRecs /\ call[c].p \in Provs /\ call[c].p # 0 /\ P_(c) = prov[call[c].p]
      /\ P_(c) \in Providers /\ P_(c).made /\ ProviderIsSound(P_(c), authServer)
      /\ ServerIsSound(authServer) /\ P_(c).mu = c
  BY <1>0, CallHasProvider, TokenDomains
<1>2. prov' = prov /\ UNCHANGED <<stored, chal, conf, latest, op, cli, login, rem, age>>
  BY DEF Exchange, ExchangeFails
<1>3. prov' = [prov EXCEPT ![call[c].p] = P_(c)] /\ prov'[call[c].p] = P_(c)
  BY <1>1, <1>2 DEF TokenIInv, TokenTypeOK
<1>4. /\ call[c].answer = NoLogin
      /\ c \notin doubt => stored.r = P_(c).login.r /\ stored.r \in authServer.valid
  BY <1>0 DEF TokenIInv, CallIsSound
<1>5. P_(c).login \in LoginSet BY <1>1 DEF Providers
\* The answer that the request is left with.
<1>6. ASSUME NEW ans \in LoginSet, GrowsTo(authServer, authServer'), events' \in Nat,
             ans.r <= authServer'.issued,
             call' = [call EXCEPT ![c].pc = "answer", ![c].answer = ans],
             ans = Refused => P_(c).login.r \notin authServer'.valid /\ P_(c).login.r \notin authServer.valid,
             ans \notin {NoLogin, Refused} => ans.r = P_(c).login.r \/ P_(c).login.r \notin authServer'.valid
      PROVE  TokenIInv'
  <2> DEFINE k == [call[c] EXCEPT !.pc = "answer", !.answer = ans]
  <2>1. k \in CallRecs /\ k.pc = "answer" /\ k.p = call[c].p /\ k.answer = ans
    BY <1>1, TokenDomains DEF CallRecs
  <2>2. call' = [call EXCEPT ![c] = k] BY <1>6
  <2>3. call'[c] = k BY <2>2 DEF TokenIInv, TokenTypeOK
  <2> HIDE DEF k
  <2>4. SavedTypeOK' /\ TokensAreIssued' /\ CommitsHaveProvider' /\ latest' = latest /\ login' = login
    BY <1>2, <1>6, SavedGrows, EventsCounted
  <2>5. c \notin doubt' => c \notin doubt /\ stored'.r \in authServer'.valid BY <1>1, <2>1, <2>3, UnlessDoubted
  <2>6. ans = Refused => c \in doubt' BY <1>4, <1>6, <2>5
  <2>7. CallIsSound(c)' BY <1>1, <1>3, <1>6, <2>1, <2>3, <2>5, <2>6 DEF CallIsSound, P_
  <2>8. ProviderIsSound(P_(c), authServer') BY <1>1, <1>6, ProviderKept
  <2> QED BY <1>1, <1>3, <1>6, <2>1, <2>2, <2>4, <2>7, <2>8, CallActs
\* A lost answer leaves none.
<1>7. ASSUME GrowsTo(authServer, authServer'), events' \in Nat, call' = [call EXCEPT ![c].pc = "answer"]
      PROVE  TokenIInv'
  <2>1. call' = [call EXCEPT ![c].pc = "answer", ![c].answer = NoLogin]
    BY <1>1, <1>4, <1>7 DEF TokenIInv, TokenTypeOK, CallRecs
  <2>2. NoLogin.r <= authServer'.issued BY <1>7, TokenDomains DEF GrowsTo, ServerIsSound
  <2>3. NoLogin # Refused BY DEF NoLogin, Refused
  <2> QED BY <1>6, <1>7, <2>1, <2>2, <2>3, TokenDomains
<1>8. CASE ExchangeFails(c)
  <2>1. authServer' = authServer /\ events' \in Nat /\ call' = [call EXCEPT ![c].pc = "answer"]
    BY <1>8, EventsCounted DEF ExchangeFails
  <2> QED BY <1>7, <2>1, EventsCounted
<1>9. CASE Exchange(c) /\ P_(c).login.r \notin authServer.valid
  <2>1. authServer' = authServer /\ events' = events
        /\ call' = [call EXCEPT ![c].pc = "answer", ![c].answer = Refused]
    BY <1>9 DEF Exchange
  <2>2. Refused.r <= authServer.issued BY <1>1, TokenDomains DEF ServerIsSound
  <2> QED BY <1>6, <1>9, <2>1, <2>2, EventsCounted, TokenDomains
<1>10. CASE Exchange(c) /\ P_(c).login.r \in authServer.valid
  <2>1. PICK new \in Issued(P_(c).login) :
          /\ authServer' = new.server
          /\ \/ call' = [call EXCEPT ![c].pc = "answer", ![c].answer = new.login] /\ UNCHANGED events
             \/ Event /\ call' = [call EXCEPT ![c].pc = "answer"]
    BY <1>10 DEF Exchange
  <2>2. /\ new.login \in LoginSet /\ new.login.r <= new.server.issued /\ new.login.r # 0
        /\ new.login.r = P_(c).login.r \/ P_(c).login.r \notin new.server.valid
        /\ GrowsTo(authServer, new.server)
    BY <1>1, <1>5, <1>10, IssuedTokens
  <2>3. new.login # Refused BY <2>2, TokenDomains
  <2>4. CASE call' = [call EXCEPT ![c].pc = "answer", ![c].answer = new.login] /\ UNCHANGED events
    BY <1>6, <2>1, <2>2, <2>3, <2>4, EventsCounted
  <2>5. CASE Event /\ call' = [call EXCEPT ![c].pc = "answer"]
    BY <1>7, <2>1, <2>2, <2>5, EventsCounted
  <2> QED BY <2>1, <2>4, <2>5
<1> QED BY <1>8, <1>9, <1>10

\* The end of refreshLocked.
LEMMA TakeAnswerStep ==
    ASSUME TokenIInv, Remember, NEW c \in Callers, TakeAnswer(c)
    PROVE  TokenIInv'
<1> DEFINE P == P_(c)
<1> DEFINE ans == call[c].answer
<1>0. call[c].pc = "answer" BY DEF TakeAnswer, At
<1>1. /\ call[c] \in CallRecs /\ call[c].p \in Provs /\ call[c].p # 0 /\ P = prov[call[c].p]
      /\ P \in Providers /\ P.made /\ ProviderIsSound(P, authServer)
      /\ ServerIsSound(authServer) /\ P.mu = c /\ ~P.retired
  BY <1>0, CallHasProvider, TokenDomains
<1>2. /\ ans \in LoginSet /\ ans.r <= authServer.issued
      /\ ans = Refused => c \in doubt /\ P.login.r \notin authServer.valid
      /\ ans \notin {NoLogin, Refused} => ans.r = P.login.r \/ P.login.r \notin authServer.valid
  BY <1>0, <1>1 DEF TokenIInv, CallIsSound, CallRecs
<1>3. UNCHANGED unmoved BY DEF TakeAnswer
<1>4. /\ SavedTypeOK' /\ TokensAreIssued' /\ CommitsHaveProvider' /\ latest' = latest /\ login' = login
      /\ GrowsTo(authServer, authServer') /\ authServer' = authServer /\ stored' = stored
  BY <1>3, SavedStays
<1>5. CASE ans = Refused /\ RefreshFails(c, [P EXCEPT !.dead = P.login.r], "logIn")
  <2> DEFINE D == [P EXCEPT !.dead = P.login.r]
  <2>1. D \in Providers /\ D.made /\ ProviderIsSound(D, authServer)
    BY <1>1, <1>2, <1>5 DEF Providers, LoginSet, ProviderIsSound
  <2>2. RefreshFails(c, D, "logIn") BY <1>5
  <2> HIDE DEF D
  <2>3. call'[c].pc \in Returns
    BY <1>1, <2>2, TokenDomains DEF RefreshFails, Return, TokenIInv, TokenTypeOK, CallRecs
  <2>4. c \in doubt' BY <1>2, <1>5, <2>3, TokenDomains DEF Remember
  <2> QED BY <1>0, <1>1, <1>4, <2>1, <2>2, <2>4, RefreshFailsStep, TokenDomains
<1>6. CASE RefreshFails(c, P, "transient")
  BY <1>0, <1>1, <1>4, <1>6, RefreshFailsStep, TokenDomains
<1>7. CASE /\ ans \notin {NoLogin, Refused}
           /\ prov' = [prov EXCEPT ![call[c].p] = [P EXCEPT !.login = ans, !.dead = 0, !.backoff = FALSE]]
           /\ call' = [call EXCEPT ![c].pc = "persist"]
  <2> DEFINE Q == [P EXCEPT !.login = ans, !.dead = 0, !.backoff = FALSE]
  <2> DEFINE k == [call[c] EXCEPT !.pc = "persist"]
  <2>1. /\ Q \in Providers /\ Q.made /\ Q.mu = c /\ Q.login = ans /\ Q.dead = 0 /\ Q.persisted = P.persisted
        /\ ~Q.retired
    BY <1>1, <1>2 DEF Providers
  <2>2. ProviderIsSound(Q, authServer)
    <3> HIDE DEF Q
    <3>1. 0 \notin authServer.valid /\ 0 <= authServer.issued BY <1>1 DEF ServerIsSound
    <3> QED BY <1>1, <1>2, <1>7, <2>1, <3>1 DEF ProviderIsSound
  <2>3. k \in CallRecs /\ k.pc = "persist" /\ k.p = call[c].p /\ k.answer = ans
    BY <1>1, TokenDomains DEF CallRecs
  <2>4. call' = [call EXCEPT ![c] = k] /\ prov' = [prov EXCEPT ![call[c].p] = Q] BY <1>7
  <2>5. prov'[call[c].p] = Q /\ call'[c] = k BY <1>1, <2>4 DEF TokenIInv, TokenTypeOK
  <2> HIDE DEF k, Q
  <2>6. c \notin doubt' => stored'.r \in authServer'.valid BY <1>1, <2>3, <2>5, UnlessDoubted
  <2>7. CallIsSound(c)' BY <1>1, <1>2, <1>4, <2>1, <2>3, <2>5, <2>6 DEF CallIsSound, P_
  <2> QED BY <1>1, <1>4, <2>1, <2>2, <2>3, <2>4, <2>7, CallActs
<1> QED BY <1>5, <1>6, <1>7 DEF TakeAnswer

\* persistRefreshedLogin.
LEMMA PersistStep ==
    ASSUME TokenIInv, Remember, NEW c \in Callers, Persist(c)
    PROVE  TokenIInv'
<1> DEFINE P == P_(c)
<1>0. call[c].pc = "persist" BY DEF Persist, At
<1>1. /\ call[c].p \in Provs /\ P \in Providers /\ P.made /\ ProviderIsSound(P, authServer) /\ P.mu = c /\ ~P.retired
  BY <1>0, CallHasProvider, TokenDomains
<1>2. UNCHANGED <<chal, conf, latest, op, cli, login, rem, authServer, age>> BY DEF Persist
<1>3. CommitsHaveProvider' /\ latest' = latest /\ GrowsTo(authServer, authServer')
  BY <1>2, EventsCounted DEF TokenIInv, CommitsHaveProvider
<1>4. CASE /\ stored' = P.login /\ UNCHANGED events
           /\ Return(c, "got", [P EXCEPT !.persisted = P.login])
  <2> DEFINE Q == [P EXCEPT !.persisted = P.login]
  <2>1. Q \in Providers /\ Q.made /\ ProviderIsSound(Q, authServer')
    BY <1>1, <1>2 DEF Providers, ProviderIsSound
  <2>2. stored' \in LoginSet /\ stored'.r <= authServer.issued
    BY <1>1, <1>4 DEF Providers, ProviderIsSound
  <2>3. SavedTypeOK' /\ TokensAreIssued'
    BY <1>2, <1>4, <2>2 DEF TokenIInv, TokenTypeOK, SavedTypeOK, TokensAreIssued
  <2>4. Return(c, "got", Q) BY <1>4
  <2> HIDE DEF Q
  <2> QED BY <1>0, <1>1, <1>2, <1>3, <2>1, <2>3, <2>4, ReturnStep, TokenDomains
<1>5. CASE Event /\ Return(c, "got", P) /\ UNCHANGED stored
  <2>1. SavedTypeOK' /\ TokensAreIssued' BY <1>2, <1>3, <1>5, SavedGrows, EventsCounted
  <2> QED BY <1>0, <1>1, <1>2, <1>3, <1>5, <2>1, ReturnStep, TokenDomains
<1> QED BY <1>4, <1>5 DEF Persist

\* A 401 of the upstream.
LEMMA RejectedStep ==
    ASSUME TokenIInv, Remember, NEW c \in Callers, Rejected(c)
    PROVE  TokenIInv'
<1>0. call[c].pc = "got" BY DEF Rejected, At
<1>1. /\ call[c] \in CallRecs /\ call[c].p \in Provs /\ call[c].p # 0 /\ P_(c) = prov[call[c].p]
      /\ P_(c) \in Providers /\ P_(c).made /\ ProviderIsSound(P_(c), authServer)
  BY <1>0, CallHasProvider
<1>2. /\ UNCHANGED <<stored, conf, latest, prov, op, cli, login, rem, authServer, age>>
      /\ P_(c).mu = NoOne /\ Event /\ chal' \in {chal, events + 2}
  BY DEF Rejected
<1> DEFINE k == [call[c] EXCEPT !.pc = "lock", !.op = "renew"]
<1>3. k \in CallRecs /\ k.pc = "lock" /\ k.p = call[c].p /\ k.answer = call[c].answer
  BY <1>1, TokenDomains DEF CallRecs
<1>4. call' = [call EXCEPT ![c] = k] BY DEF Rejected
<1>5. call'[c] = k BY <1>4 DEF TokenIInv, TokenTypeOK
<1> HIDE DEF k
<1>6. prov' = [prov EXCEPT ![call[c].p] = P_(c)] /\ prov'[call[c].p] = P_(c)
  BY <1>1, <1>2 DEF TokenIInv, TokenTypeOK
<1>7. chal' \in Nat BY <1>2, EventsCounted
<1>8. SavedTypeOK' /\ TokensAreIssued' /\ CommitsHaveProvider' /\ latest' = latest /\ login' = login /\ GrowsTo(authServer, authServer')
  BY <1>2, <1>7, SavedGrows, EventsCounted
<1>9. c \notin doubt' => stored'.r \in authServer'.valid BY <1>1, <1>3, <1>5, UnlessDoubted
<1>10. call[c].answer.r <= authServer.issued /\ call[c].answer = NoLogin
  BY <1>0 DEF TokenIInv, CallIsSound
<1>11. CallIsSound(c)' BY <1>1, <1>2, <1>3, <1>5, <1>6, <1>9, <1>10, TokenDomains DEF CallIsSound, P_
<1>12. ProviderIsSound(P_(c), authServer') BY <1>1, <1>2
<1> QED BY <1>1, <1>2, <1>3, <1>4, <1>6, <1>8, <1>11, <1>12, CallActs

\* The registry gives a request its provider.
LEMMA GetOrCreateStep ==
    ASSUME TokenIInv, Remember, NEW c \in Callers, GetOrCreate(c)
    PROVE  TokenIInv'
<1>t. /\ prov \in [Provs -> Providers] /\ call \in [Callers -> CallRecs] /\ latest \in {0} \cup Provs
      /\ conf.daemon \in Nat /\ ServerIsSound(authServer)
  BY DEF TokenIInv, TokenTypeOK, SavedTypeOK
<1>0. /\ call[c].pc = "idle" /\ CallIsSound(c)
      /\ UNCHANGED <<stored, chal, conf, op, cli, login, rem, authServer, age, events>>
  BY DEF GetOrCreate, At, TokenIInv
<1>g. GrowsTo(authServer, authServer') BY <1>0, EventsCounted
\* The provider that the request joins.
<1>1. PICK p \in Provs :
        /\ call' = [call EXCEPT ![c].pc = "lock", ![c].p = p] /\ latest' = p
        /\ \/ prov[p].made /\ prov' = prov
           \/ ~prov[p].made /\ prov' = [prov EXCEPT ![p] = NewProv(conf.daemon)]
  <2>1. CASE latest # 0
    BY <1>t, <2>1 DEF GetOrCreate, TokenIInv, LatestIsMade
  <2>2. CASE latest = 0
    BY <2>2 DEF GetOrCreate
  <2> QED BY <2>1, <2>2
<1> DEFINE k == [call[c] EXCEPT !.pc = "lock", !.p = p]
<1>2. k \in CallRecs /\ k.pc = "lock" /\ k.p = p /\ k.answer = call[c].answer
  BY <1>t, TokenDomains DEF CallRecs
<1>3. call' = [call EXCEPT ![c] = k] BY <1>1
<1>4. call' \in [Callers -> CallRecs] /\ call'[c] = k /\ \A d \in Callers \ {c} : call'[d] = call[d]
  BY <1>t, <1>2, <1>3
<1> HIDE DEF k
<1> DEFINE N == NewProv(conf.daemon)
<1>5. N \in Providers /\ N.made /\ ProviderIsSound(N, authServer)
  <2>1. N \in Providers /\ N.made /\ N.login = NoLogin /\ N.persisted = NoLogin /\ N.dead = 0 /\ ~N.retired
    BY <1>t, TokenDomains DEF NewProv, Providers
  <2>2. 0 \notin authServer.valid /\ 0 <= authServer.issued BY <1>t DEF ServerIsSound
  <2> QED BY <2>1, <2>2, TokenDomains DEF ProviderIsSound
<1> HIDE DEF N
<1>6. /\ prov' \in [Provs -> Providers] /\ prov'[p].made
      /\ \A q \in Provs : ProviderIsSound(prov'[q], authServer) /\ (prov[q].made => prov'[q] = prov[q])
  <2>1. CASE prov[p].made /\ prov' = prov BY <1>t, <2>1 DEF TokenIInv
  <2>2. CASE ~prov[p].made /\ prov' = [prov EXCEPT ![p] = N]
    BY <1>t, <1>5, <2>2 DEF TokenIInv
  <2> QED BY <1>1, <2>1, <2>2 DEF N
<1>7. SavedTypeOK' /\ TokensAreIssued' /\ CommitsHaveProvider' /\ LatestIsMade'
  BY <1>0, <1>1, <1>6 DEF TokenIInv, TokenTypeOK, SavedTypeOK, TokensAreIssued, CommitsHaveProvider, LatestIsMade
<1>8. TokenTypeOK' BY <1>4, <1>6, <1>7 DEF TokenTypeOK, Remember
<1>9. CallIsSound(c)'
  <2>1. p # 0 BY TokenDomains
  <2>2. c \notin doubt' => stored'.r \in authServer'.valid BY <1>2, <1>4, <2>1, UnlessDoubted
  <2> QED BY <1>0, <1>2, <1>4, <1>6, <2>1, <2>2, TokenDomains DEF CallIsSound, P_
<1>10. ASSUME NEW d \in Callers \ {c} PROVE CallIsSound(d)'
  <2>1. call'[d] = call[d] /\ call[d] \in CallRecs /\ CallIsSound(d) BY <1>t, <1>4 DEF TokenIInv
  <2>2. call[d].pc # "idle" => call[d].p \in Provs /\ P_(d).made BY <2>1 DEF CallIsSound, CallRecs
  <2>3. call[d].pc # "idle" => (P_(d))' = P_(d) BY <1>6, <2>1, <2>2 DEF P_
  <2>4. call[d].pc \in Refreshes => call[d].pc # "idle" /\ P_(d).mu = d BY <2>1, TokenDomains DEF CallIsSound
  <2> QED BY <1>g, <2>1, <2>2, <2>3, <2>4, CallKept
<1>11. LoginsHold' BY <1>0, <1>6, HoldsKept
<1> QED BY <1>0, <1>6, <1>7, <1>8, <1>9, <1>10, <1>11 DEF TokenIInv

-----------------------------------------------------------------------------
(* The saved login: the steps of others *)

\* What a step leaves when it touches no provider.
LEMMA OnlySavedMoves ==
    ASSUME TokenIInv, Remember, GrowsTo(authServer, authServer'),
           SavedTypeOK', TokensAreIssued', CommitsHaveProvider', UNCHANGED <<latest, prov, call, login>>
    PROVE  TokenIInv'
<1>1. LoginsHold' BY HoldsKept
<1> QED BY <1>1, CallsStand DEF TokenIInv, TokenTypeOK

\* What a step leaves when it moves a login on and touches no provider.
LEMMA OnlyLoginMoves ==
    ASSUME TokenIInv, Remember, GrowsTo(authServer, authServer'),
           SavedTypeOK', TokensAreIssued', CommitsHaveProvider', LoginsHold', UNCHANGED <<latest, prov, call>>
    PROVE  TokenIInv'
BY CallsStand DEF TokenIInv, TokenTypeOK

\* injectToken.
LEMMA CliSteps ==
    ASSUME TokenIInv, Remember, CliRecords \/ CliLoads \/ CliRefreshes \/ CliSaves
    PROVE  TokenIInv'
<1>t. /\ stored \in LoginSet /\ cli \in [pc : {"idle", "exchange", "save", "done"}, login : LoginSet]
      /\ ServerIsSound(authServer) /\ SavedTypeOK /\ TokensAreIssued /\ CommitsHaveProvider
      /\ stored.r <= authServer.issued /\ cli.login.r <= authServer.issued
  BY DEF TokenIInv, TokenTypeOK, SavedTypeOK, TokensAreIssued
<1>g. GrowsTo(authServer, authServer) BY EventsCounted
<1>n. NoLogin \in LoginSet /\ NoLogin.r <= authServer.issued BY <1>t, TokenDomains DEF ServerIsSound
<1>1. CASE CliLoads
  <2>1. UNCHANGED <<stored, chal, conf, latest, prov, op, call, login, rem, authServer, age>> /\ Event
    BY <1>1 DEF CliLoads
  <2>2. cli' = [pc |-> "exchange", login |-> stored] \/ cli' = [pc |-> "done", login |-> NoLogin]
    BY <1>1 DEF CliLoads
  <2>3. cli' \in [pc : {"idle", "exchange", "save", "done"}, login : LoginSet] /\ cli'.login.r <= authServer.issued
    BY <1>t, <1>n, <2>2
  <2>4. SavedTypeOK' /\ TokensAreIssued' /\ CommitsHaveProvider'
    BY <1>t, <2>1, <2>3, EventsCounted DEF SavedTypeOK, TokensAreIssued, CommitsHaveProvider
  <2> QED BY <1>g, <2>1, <2>4, OnlySavedMoves
<1>2. CASE CliRefreshes
  <2>1. UNCHANGED <<stored, chal, conf, latest, prov, op, call, login, rem, age, events>>
    BY <1>2 DEF CliRefreshes
  <2>2. CASE cli' = [pc |-> "done", login |-> NoLogin] /\ UNCHANGED authServer
    <3>1. cli' \in [pc : {"idle", "exchange", "save", "done"}, login : LoginSet] /\ cli'.login.r <= authServer.issued
      BY <1>n, <2>2
    <3>2. SavedTypeOK' /\ TokensAreIssued' /\ CommitsHaveProvider'
      BY <1>t, <2>1, <2>2, <3>1 DEF SavedTypeOK, TokensAreIssued, CommitsHaveProvider
    <3> QED BY <1>g, <2>1, <2>2, <3>2, OnlySavedMoves
  <2>3. CASE cli.login.r \in authServer.valid
             /\ \E new \in Issued(cli.login) : cli' = [pc |-> "save", login |-> new.login] /\ authServer' = new.server
    <3>1. PICK new \in Issued(cli.login) : cli' = [pc |-> "save", login |-> new.login] /\ authServer' = new.server
      BY <2>3
    <3>2. new.login \in LoginSet /\ new.login.r <= new.server.issued /\ GrowsTo(authServer, new.server)
      BY <1>t, <2>3, IssuedTokens
    <3>3. cli' \in [pc : {"idle", "exchange", "save", "done"}, login : LoginSet] /\ cli'.login.r <= authServer'.issued
      BY <3>1, <3>2
    <3>4. \A r \in Nat : r <= authServer.issued => r <= authServer'.issued
      BY <3>1, <3>2 DEF GrowsTo, ServerIsSound
    <3>5. stored.r \in Nat /\ \A l \in Logins : login[l].token.r \in Nat
      BY <1>t DEF SavedTypeOK, LoginRecs, LoginSet
    <3>6. TokensAreIssued' BY <1>t, <2>1, <3>3, <3>4, <3>5 DEF TokensAreIssued
    <3>7. SavedTypeOK' /\ CommitsHaveProvider'
      BY <1>t, <2>1, <3>1, <3>2, <3>3 DEF SavedTypeOK, CommitsHaveProvider, GrowsTo
    <3> QED BY <2>1, <3>1, <3>2, <3>6, <3>7, OnlySavedMoves
  <2> QED BY <1>2, <2>2, <2>3 DEF CliRefreshes
<1>3. CASE CliSaves
  <2>1. /\ UNCHANGED <<chal, conf, latest, prov, op, call, login, rem, authServer, age, events>>
        /\ stored' = cli.login /\ cli' = [pc |-> "done", login |-> NoLogin]
    BY <1>3 DEF CliSaves
  <2>2. /\ cli' \in [pc : {"idle", "exchange", "save", "done"}, login : LoginSet] /\ cli'.login.r <= authServer.issued
        /\ stored' \in LoginSet /\ stored'.r <= authServer.issued
    BY <1>t, <1>n, <2>1
  <2>3. SavedTypeOK' /\ TokensAreIssued' /\ CommitsHaveProvider'
    BY <1>t, <2>1, <2>2 DEF SavedTypeOK, TokensAreIssued, CommitsHaveProvider
  <2> QED BY <1>g, <2>1, <2>3, OnlySavedMoves
<1>4. CASE CliRecords
  <2>1. /\ UNCHANGED <<stored, conf, latest, prov, op, call, cli, login, rem, authServer, age>> /\ Event
        /\ chal' = events + 2
    BY <1>4 DEF CliRecords
  <2>2. chal' \in Nat BY <2>1, EventsCounted
  <2>3. SavedTypeOK' /\ TokensAreIssued' /\ CommitsHaveProvider' BY <1>g, <2>1, <2>2, EventsCounted, SavedGrows
  <2> QED BY <1>g, <2>1, <2>3, OnlySavedMoves
<1> QED BY <1>1, <1>2, <1>3, <1>4

\* A login that is saved leaves the saved state sound.
LEMMA SavedByLogin ==
    ASSUME TokenIInv, NEW l \in Logins, SaveLogin(l)
    PROVE  stored' \in LoginSet /\ stored'.r <= authServer.issued
BY DEF SaveLogin, TokenIInv, TokenTypeOK, SavedTypeOK, TokensAreIssued, LoginRecs

\* A login's record moves on, and the mutexes that the other logins hold stay held.
LEMMA LoginMovesOn ==
    ASSUME TokenIInv, NEW l \in Logins, NEW k \in LoginRecs, login' = [login EXCEPT ![l] = k],
           NEW n \in Nat, n >= authServer.issued, k.token.r <= n, k.pc = "lock" => k.p # 0,
           k.pc \in {"lock", "clear", "remove"} /\ k.p # 0 =>
               prov'[k.p].made /\ (k.pc # "lock" => prov'[k.p].mu = l),
           \A p \in Provs : prov[p].made =>
               prov'[p].made /\ (prov[p].mu \in Logins \ {l} => prov'[p].mu = prov[p].mu)
    PROVE  /\ login' \in [Logins -> LoginRecs] /\ (\A m \in Logins : login'[m].token.r <= n)
           /\ CommitsHaveProvider' /\ LoginsHold'
<1>t. /\ login \in [Logins -> LoginRecs] /\ CommitsHaveProvider /\ TokensAreIssued /\ LoginsHold
      /\ authServer.issued \in Nat
  BY DEF TokenIInv, TokenTypeOK, SavedTypeOK, ServerIsSound
<1>1. \A m \in Logins : login'[m] = IF m = l THEN k ELSE login[m] BY <1>t
<1>2. \A m \in Logins : login[m].token.r \in Nat /\ login[m].token.r <= authServer.issued
  BY <1>t DEF LoginRecs, LoginSet, TokensAreIssued
<1>3. \A m \in Logins : login'[m].token.r <= n BY <1>1, <1>2, <1>t
<1>4. CommitsHaveProvider' BY <1>t, <1>1 DEF CommitsHaveProvider
<1>5. LoginsHold'
  <2> SUFFICES ASSUME NEW m \in Logins, login'[m].pc \in {"lock", "clear", "remove"}, login'[m].p # 0
               PROVE  prov'[login'[m].p].made /\ (login'[m].pc # "lock" => prov'[login'[m].p].mu = m)
    BY DEF LoginsHold
  <2>1. CASE m = l BY <1>1, <2>1
  <2>2. CASE m # l
    <3>1. login'[m] = login[m] /\ login[m].p \in Provs BY <1>1, <1>t, <2>2 DEF LoginRecs
    <3>2. prov[login[m].p].made /\ (login[m].pc # "lock" => prov[login[m].p].mu = m)
      BY <1>t, <3>1 DEF LoginsHold
    <3> QED BY <2>2, <3>1, <3>2
  <2> QED BY <2>1, <2>2
<1> QED BY <1>t, <1>3, <1>4, <1>5

\* A browser login up to the mutex of the provider.
LEMMA LoginSteps ==
    ASSUME TokenIInv, Remember, NEW l \in Logins, LoginBegins(l) \/ LoginReturns(l) \/ CommitBegins(l)
    PROVE  TokenIInv'
<1>t. /\ ServerIsSound(authServer) /\ SavedTypeOK /\ TokensAreIssued /\ LatestIsMade
      /\ login \in [Logins -> LoginRecs] /\ login[l] \in LoginRecs /\ login[l].token.r <= authServer.issued
      /\ latest \in {0} \cup Provs /\ op.gen \in Nat /\ conf.file \in Nat /\ chal \in Nat
      /\ op \in [mu : OpOwners, gen : Nat]
  BY DEF TokenIInv, TokenTypeOK, SavedTypeOK, TokensAreIssued
<1>g. GrowsTo(authServer, authServer) BY EventsCounted
<1>d. {"idle", "browser", "commit", "lock", "clear", "done"} \subseteq LoginPCs BY DEF LoginPCs
<1>i. authServer.issued \in Nat /\ authServer.issued >= authServer.issued BY <1>t DEF ServerIsSound
<1>p. prov' = prov BY DEF LoginBegins, LoginReturns, CommitBegins
<1>1. CASE LoginBegins(l)
  <2> DEFINE k == [login[l] EXCEPT !.pc = "browser", !.conf = conf.file, !.chal = chal, !.gen = op.gen]
  <2>1. /\ UNCHANGED <<stored, chal, conf, latest, prov, op, call, cli, rem, authServer, age>> /\ Event
        /\ login' = [login EXCEPT ![l] = k]
    BY <1>1 DEF LoginBegins
  <2>2. k \in LoginRecs /\ k.token = login[l].token /\ k.pc = "browser"
    BY <1>t, <1>d DEF LoginRecs
  <2> HIDE DEF k
  <2>3. /\ login' \in [Logins -> LoginRecs] /\ (\A m \in Logins : login'[m].token.r <= authServer.issued)
        /\ CommitsHaveProvider' /\ LoginsHold'
    BY <1>t, <1>i, <1>p, LoginMovesOn, <2>1, <2>2
  <2>4. SavedTypeOK' /\ TokensAreIssued' BY <1>t, <2>1, <2>3, EventsCounted DEF SavedTypeOK, TokensAreIssued
  <2> QED BY <1>g, <2>1, <2>3, <2>4, OnlyLoginMoves
<1>2. CASE LoginReturns(l)
  <2> DEFINE n == authServer.issued + 1
  <2>1. UNCHANGED <<stored, chal, conf, latest, prov, op, call, cli, rem, age, events>>
    BY <1>2 DEF LoginReturns
  <2>2. ASSUME NEW r \in {0, n},
               login' = [login EXCEPT ![l].pc = "commit", ![l].token = [a |-> n, r |-> r, conf |-> login[l].conf]],
               authServer' = [issued |-> n, valid |-> authServer.valid \cup ({r} \ {0})]
        PROVE  TokenIInv'
    <3> DEFINE k == [login[l] EXCEPT !.pc = "commit", !.token = [a |-> n, r |-> r, conf |-> login[l].conf]]
    <3>1. n \in Nat /\ n > authServer.issued /\ n >= authServer.issued /\ r \in Nat /\ r <= n /\ n > 0
      BY <1>i, <2>2
    <3> HIDE DEF n
    <3>2. [a |-> n, r |-> r, conf |-> login[l].conf] \in LoginSet BY <1>t, <3>1 DEF LoginRecs, LoginSet
    <3>3. k \in LoginRecs /\ k.token.r = r /\ k.pc = "commit" BY <1>t, <1>d, <3>2 DEF LoginRecs
    <3>4. login' = [login EXCEPT ![l] = k] BY <2>2
    <3> HIDE DEF k
    <3>5. /\ login' \in [Logins -> LoginRecs] /\ (\A m \in Logins : login'[m].token.r <= n)
          /\ CommitsHaveProvider' /\ LoginsHold'
      BY <1>p, LoginMovesOn, <3>1, <3>3, <3>4
    <3>6. ServerIsSound(authServer')
      BY <1>i, <1>t, <2>2, <3>1 DEF ServerIsSound
    <3>7. GrowsTo(authServer, authServer') BY <1>t, <2>2, <3>1, <3>6 DEF GrowsTo
    <3>8. stored.r <= n /\ cli.login.r <= n
      <4>1. stored.r \in Nat /\ cli.login.r \in Nat BY <1>t DEF SavedTypeOK, LoginSet
      <4> QED BY <1>i, <1>t, <3>1, <4>1 DEF TokensAreIssued
    <3>9. SavedTypeOK' /\ TokensAreIssued'
      BY <1>t, <2>1, <2>2, <3>5, <3>6, <3>8 DEF SavedTypeOK, TokensAreIssued
    <3> QED BY <2>1, <3>5, <3>7, <3>9, OnlyLoginMoves
  <2>3. CASE login' = [login EXCEPT ![l].pc = "done"] /\ UNCHANGED authServer
    <3> DEFINE k == [login[l] EXCEPT !.pc = "done"]
    <3>1. k \in LoginRecs /\ k.token = login[l].token /\ k.pc = "done" BY <1>t, <1>d DEF LoginRecs
    <3>2. login' = [login EXCEPT ![l] = k] BY <2>3
    <3> HIDE DEF k
    <3>3. /\ login' \in [Logins -> LoginRecs] /\ (\A m \in Logins : login'[m].token.r <= authServer.issued)
          /\ CommitsHaveProvider' /\ LoginsHold'
      BY <1>t, <1>i, <1>p, LoginMovesOn, <3>1, <3>2
    <3>4. SavedTypeOK' /\ TokensAreIssued' BY <1>t, <2>1, <2>3, <3>3 DEF SavedTypeOK, TokensAreIssued
    <3> QED BY <1>g, <2>1, <2>3, <3>3, <3>4, OnlyLoginMoves
  <2> QED BY <1>2, <2>2, <2>3 DEF LoginReturns
<1>3. CASE CommitBegins(l)
  <2> DEFINE p == IF l = "mini_auth" THEN 0 ELSE latest
  <2>1. UNCHANGED <<chal, conf, latest, prov, call, cli, rem, authServer, age, events>> BY <1>3 DEF CommitBegins
  <2>2. CASE login' = [login EXCEPT ![l].pc = "done"] /\ UNCHANGED <<stored, op>>
    <3> DEFINE k == [login[l] EXCEPT !.pc = "done"]
    <3>1. k \in LoginRecs /\ k.token = login[l].token /\ k.pc = "done" BY <1>t, <1>d DEF LoginRecs
    <3>2. login' = [login EXCEPT ![l] = k] BY <2>2
    <3> HIDE DEF k
    <3>3. /\ login' \in [Logins -> LoginRecs] /\ (\A m \in Logins : login'[m].token.r <= authServer.issued)
          /\ CommitsHaveProvider' /\ LoginsHold'
      BY <1>t, <1>i, <1>p, <3>1, <3>2, LoginMovesOn
    <3>4. SavedTypeOK' /\ TokensAreIssued' BY <1>t, <2>1, <2>2, <3>3 DEF SavedTypeOK, TokensAreIssued
    <3> QED BY <1>g, <2>1, <3>3, <3>4, OnlyLoginMoves
  <2>3. CASE /\ SaveLogin(l) \/ UNCHANGED stored
             /\ login' = [login EXCEPT ![l].pc = IF p = 0 THEN "clear" ELSE "lock", ![l].p = p]
             /\ op' \in {op, [op EXCEPT !.mu = l]}
    <3> DEFINE k == [login[l] EXCEPT !.pc = IF p = 0 THEN "clear" ELSE "lock", !.p = p]
    <3>p. p \in {0} \cup Provs /\ (p # 0 => prov[p].made) BY <1>t DEF LatestIsMade
    <3>2. login' = [login EXCEPT ![l] = k] BY <2>3
    <3> HIDE DEF p
    <3>1. k \in LoginRecs /\ k.token = login[l].token /\ k.p = p /\ (k.pc # "lock" => p = 0) /\ (k.pc = "lock" => p # 0)
      BY <1>t, <1>d, <3>p DEF LoginRecs
    <3> HIDE DEF k
    <3>3. /\ login' \in [Logins -> LoginRecs] /\ (\A m \in Logins : login'[m].token.r <= authServer.issued)
          /\ CommitsHaveProvider' /\ LoginsHold'
      BY <1>t, <1>i, <1>p, <3>p, <3>1, <3>2, LoginMovesOn
    <3>4. op' \in [mu : OpOwners, gen : Nat]
      <4>1. l \in OpOwners BY DEF OpOwners
      <4> QED BY <1>t, <2>3, <4>1
    <3>5. stored' \in LoginSet /\ stored'.r <= authServer.issued
      BY <1>t, <2>3, SavedByLogin DEF SavedTypeOK, TokensAreIssued
    <3>6. SavedTypeOK' /\ TokensAreIssued' BY <1>t, <2>1, <3>3, <3>4, <3>5 DEF SavedTypeOK, TokensAreIssued
    <3> QED BY <1>g, <2>1, <3>3, <3>6, OnlyLoginMoves
  <2> QED BY <1>3, <2>2, <2>3 DEF CommitBegins
<1> QED BY <1>1, <1>2, <1>3

\* serverOpMu as a login leaves it.
LEMMA ReleasedOwners ==
    ASSUME TokenIInv, NEW l \in Logins
    PROVE  Released(l) \in [mu : OpOwners, gen : Nat]
<1>1. op \in [mu : OpOwners, gen : Nat] BY DEF TokenIInv, TokenTypeOK, SavedTypeOK
<1>2. NoOne \in OpOwners BY DEF OpOwners
<1> QED BY <1>1, <1>2 DEF Released

\* commitBrowserLogin up to the challenge.
LEMMA CommitBrowserLoginStep ==
    ASSUME TokenIInv, Remember, NEW l \in Logins, CommitBrowserLogin(l)
    PROVE  TokenIInv'
<1>t. /\ ServerIsSound(authServer) /\ SavedTypeOK /\ TokensAreIssued /\ CommitsHaveProvider /\ LoginsHold
      /\ login \in [Logins -> LoginRecs] /\ login[l] \in LoginRecs /\ login[l].token.r <= authServer.issued
      /\ op \in [mu : OpOwners, gen : Nat] /\ prov \in [Provs -> Providers]
      /\ authServer.issued \in Nat /\ authServer.issued >= authServer.issued
  BY DEF TokenIInv, TokenTypeOK, SavedTypeOK, TokensAreIssued, ServerIsSound
<1>g. GrowsTo(authServer, authServer) BY EventsCounted
<1> DEFINE p == login[l].p
<1>1. /\ login[l].pc = "lock" /\ prov[p].mu = NoOne
      /\ UNCHANGED <<chal, conf, latest, call, cli, rem, authServer, age, events>>
  BY DEF CommitBrowserLogin
<1>2. p \in Provs /\ p # 0 /\ prov[p].made BY <1>1, <1>t DEF LoginRecs, CommitsHaveProvider, LoginsHold
<1>3. prov[p] \in Providers /\ ProviderIsSound(prov[p], authServer) BY <1>2, <1>t DEF TokenIInv
<1>4. CASE login' = [login EXCEPT ![l].pc = "done"] /\ op' = Released(l) /\ UNCHANGED <<stored, prov>>
  <2> DEFINE k == [login[l] EXCEPT !.pc = "done"]
  <2>1. k \in LoginRecs /\ k.token = login[l].token /\ k.pc = "done" BY <1>t DEF LoginRecs, LoginPCs
  <2>2. login' = [login EXCEPT ![l] = k] BY <1>4
  <2> HIDE DEF k
  <2>3. /\ login' \in [Logins -> LoginRecs] /\ (\A m \in Logins : login'[m].token.r <= authServer.issued)
        /\ CommitsHaveProvider' /\ LoginsHold'
    <3>1. prov' = prov BY <1>4
    <3> HIDE DEF p
    <3> QED BY <1>t, <2>1, <2>2, <3>1, LoginMovesOn
  <2>4. op' \in [mu : OpOwners, gen : Nat] BY <1>4, ReleasedOwners
  <2>5. SavedTypeOK' /\ TokensAreIssued' BY <1>t, <1>1, <1>4, <2>3, <2>4 DEF SavedTypeOK, TokensAreIssued
  <2> QED BY <1>g, <1>1, <1>4, <2>3, <2>5, OnlyLoginMoves
<1>5. CASE /\ ~prov[p].retired /\ SaveLogin(l) /\ prov' = [prov EXCEPT ![p].mu = l]
           /\ login' = [login EXCEPT ![l].pc = "clear"] /\ UNCHANGED op
  <2> DEFINE k == [login[l] EXCEPT !.pc = "clear"]
  <2> DEFINE Q == [prov[p] EXCEPT !.mu = l]
  <2>1. k \in LoginRecs /\ k.token = login[l].token /\ k.pc = "clear" /\ k.p = p BY <1>t DEF LoginRecs, LoginPCs
  <2>2. login' = [login EXCEPT ![l] = k] BY <1>5
  <2> HIDE DEF k
  <2>3. Q \in Providers /\ ProviderIsSound(Q, authServer) BY <1>3, <1>5, ProviderLetsGo
  <2>4. Q.made /\ Q.mu = l /\ prov' = [prov EXCEPT ![p] = Q] BY <1>2, <1>3, <1>5 DEF Providers
  <2> HIDE DEF Q
  <2>5. \A q \in Provs : prov'[q] = IF q = p THEN Q ELSE prov[q] BY <1>t, <2>4
  <2>6. prov' \in [Provs -> Providers] BY <1>t, <2>3, <2>4
  <2>7. \A q \in Provs : prov[q].made =>
            prov'[q].made /\ (prov[q].mu \in Logins \ {l} => prov'[q].mu = prov[q].mu)
    BY <1>1, <2>4, <2>5, TokenDomains
  <2>8. prov'[p].made /\ prov'[p].mu = l BY <1>2, <2>4, <2>5
  <2>9. /\ login' \in [Logins -> LoginRecs] /\ (\A m \in Logins : login'[m].token.r <= authServer.issued)
        /\ CommitsHaveProvider' /\ LoginsHold'
    <3> HIDE DEF p
    <3> QED BY <1>t, <2>1, <2>2, <2>7, <2>8, LoginMovesOn
  <2>10. stored' \in LoginSet /\ stored'.r <= authServer.issued BY <1>5, SavedByLogin
  <2>11. SavedTypeOK' /\ TokensAreIssued' BY <1>t, <1>1, <1>5, <2>9, <2>10 DEF SavedTypeOK, TokensAreIssued
  <2>12. \A q \in Provs :
            /\ ProviderIsSound(prov'[q], authServer) /\ (prov[q].made => prov'[q].made)
            /\ prov[q].mu \in Callers => prov'[q].mu = prov[q].mu /\ prov'[q].login = prov[q].login
    BY <1>1, <2>3, <2>5, <2>7, TokenDomains DEF TokenIInv
  <2> QED BY <1>g, <1>1, <2>6, <2>9, <2>11, <2>12, CallsStand
<1> QED BY <1>4, <1>5 DEF CommitBrowserLogin

\* The end of a login: its provider adopts it and is let go.
LEMMA LoginEndsStep ==
    ASSUME TokenIInv, Remember, NEW l \in Logins, login[l].pc \in {"clear", "remove"}, LoginEnds(l),
           chal' \in Nat, UNCHANGED <<stored, conf, latest, call, cli, rem, authServer, age, events>>
    PROVE  TokenIInv'
<1>t. /\ ServerIsSound(authServer) /\ SavedTypeOK /\ TokensAreIssued /\ LoginsHold
      /\ login \in [Logins -> LoginRecs] /\ login[l] \in LoginRecs /\ login[l].token.r <= authServer.issued
      /\ prov \in [Provs -> Providers] /\ authServer.issued \in Nat /\ authServer.issued >= authServer.issued
  BY DEF TokenIInv, TokenTypeOK, SavedTypeOK, TokensAreIssued, ServerIsSound
<1>g. GrowsTo(authServer, authServer) BY EventsCounted
<1> DEFINE p == login[l].p
<1> DEFINE k == [login[l] EXCEPT !.pc = "done"]
<1>1. k \in LoginRecs /\ k.token = login[l].token /\ k.pc = "done" BY <1>t DEF LoginRecs, LoginPCs
<1>2. login' = [login EXCEPT ![l] = k] /\ op' \in [mu : OpOwners, gen : Nat] BY ReleasedOwners DEF LoginEnds
<1> HIDE DEF k
\* Only its own provider changes.
<1>3. /\ prov' \in [Provs -> Providers]
      /\ \A q \in Provs :
            /\ ProviderIsSound(prov'[q], authServer) /\ (prov[q].made => prov'[q].made)
            /\ prov[q].mu # l => prov'[q] = prov[q]
  <2>1. CASE p = 0
    <3>1. prov' = prov BY <2>1 DEF LoginEnds
    <3> QED BY <1>t, <3>1 DEF TokenIInv
  <2>2. CASE p # 0
    <3> DEFINE A == Adopted(prov[p], login[l].token)
    <3> DEFINE B == [A EXCEPT !.mu = NoOne]
    <3> DEFINE Q == [B EXCEPT !.conf = login[l].conf]
    <3>1. p \in Provs /\ prov[p].mu = l /\ prov[p] \in Providers /\ ProviderIsSound(prov[p], authServer)
      BY <1>t, <2>2 DEF LoginsHold, LoginRecs, TokenIInv
    <3>2. ~prov[p].retired BY <3>1, TokenDomains DEF ProviderIsSound
    <3>3. login[l].token \in LoginSet /\ login[l].conf \in Nat BY <1>t DEF LoginRecs
    <3>4. A \in Providers /\ ProviderIsSound(A, authServer) /\ A.made = prov[p].made
      BY <1>t, <3>1, <3>2, <3>3, ProviderAdopts
    <3>5. prov' = [prov EXCEPT ![p] = Q]
      <4>1. prov' = [prov EXCEPT ![p] = [A EXCEPT !.conf = login[l].conf, !.mu = NoOne]]
        BY <1>t, <2>2, <3>1 DEF LoginEnds
      <4> HIDE DEF A
      <4> QED BY <3>4, <4>1 DEF Providers
    <3> HIDE DEF A
    <3>6. B \in Providers /\ ProviderIsSound(B, authServer) BY <3>4, ProviderLetsGo
    <3>7. B.made = prov[p].made BY <3>4 DEF Providers
    <3> HIDE DEF B
    <3>8. Q \in Providers /\ ProviderIsSound(Q, authServer) /\ Q.made = prov[p].made
      BY <3>3, <3>6, <3>7 DEF Providers, ProviderIsSound
    <3> HIDE DEF Q
    <3>9. \A q \in Provs : prov'[q] = IF q = p THEN Q ELSE prov[q] BY <1>t, <3>5
    <3>10. prov' \in [Provs -> Providers] BY <1>t, <3>5, <3>8
    <3> QED BY <3>1, <3>8, <3>9, <3>10 DEF TokenIInv
  <2> QED BY <2>1, <2>2
<1>4. /\ login' \in [Logins -> LoginRecs] /\ (\A m \in Logins : login'[m].token.r <= authServer.issued)
      /\ CommitsHaveProvider' /\ LoginsHold'
  BY <1>t, <1>1, <1>2, <1>3, LoginMovesOn
<1>5. SavedTypeOK' /\ TokensAreIssued' BY <1>t, <1>2, <1>4 DEF SavedTypeOK, TokensAreIssued
<1>6. \A q \in Provs : prov[q].mu \in Callers => prov'[q].mu = prov[q].mu /\ prov'[q].login = prov[q].login
  BY <1>3, TokenDomains
<1> QED BY <1>g, <1>3, <1>4, <1>5, <1>6, CallsStand

\* clearConsumedChallenge.
LEMMA ChallengeSteps ==
    ASSUME TokenIInv, Remember, NEW l \in Logins, LooksAtChallenge(l) \/ RemoveChallenge(l)
    PROVE  TokenIInv'
<1>t. /\ SavedTypeOK /\ TokensAreIssued /\ LoginsHold /\ chal \in Nat
      /\ login \in [Logins -> LoginRecs] /\ login[l] \in LoginRecs /\ login[l].token.r <= authServer.issued
      /\ authServer.issued \in Nat /\ authServer.issued >= authServer.issued
  BY DEF TokenIInv, TokenTypeOK, SavedTypeOK, TokensAreIssued, ServerIsSound
<1>1. CASE RemoveChallenge(l)
  <2>1. chal' \in Nat BY <1>t, <1>1 DEF RemoveChallenge
  <2> QED BY <1>1, <2>1, LoginEndsStep DEF RemoveChallenge
<1>2. CASE LooksAtChallenge(l) /\ LoginEnds(l)
  BY <1>t, <1>2, LoginEndsStep DEF LooksAtChallenge
<1>3. CASE LooksAtChallenge(l) /\ login' = [login EXCEPT ![l].pc = "remove"] /\ UNCHANGED <<prov, op>>
  <2> DEFINE k == [login[l] EXCEPT !.pc = "remove"]
  <2>1. k \in LoginRecs /\ k.token = login[l].token /\ k.pc = "remove" /\ k.p = login[l].p
    BY <1>t DEF LoginRecs, LoginPCs
  <2>2. login' = [login EXCEPT ![l] = k] BY <1>3
  <2> HIDE DEF k
  <2>3. /\ login[l].pc = "clear"
        /\ UNCHANGED <<stored, chal, conf, latest, call, cli, rem, authServer, age, events, prov, op>>
    BY <1>3 DEF LooksAtChallenge
  <2>4. /\ login' \in [Logins -> LoginRecs] /\ (\A m \in Logins : login'[m].token.r <= authServer.issued)
        /\ CommitsHaveProvider' /\ LoginsHold'
    <3>1. k.p # 0 => prov[k.p].made /\ prov[k.p].mu = l BY <1>t, <2>1, <2>3 DEF LoginsHold
    <3> QED BY <1>t, <2>1, <2>2, <2>3, <3>1, LoginMovesOn
  <2>5. SavedTypeOK' /\ TokensAreIssued' BY <1>t, <2>3, <2>4 DEF SavedTypeOK, TokensAreIssued
  <2> QED BY <2>3, <2>4, <2>5, EventsCounted, OnlyLoginMoves
<1> QED BY <1>1, <1>2, <1>3 DEF LooksAtChallenge

\* detachAndCloseServer, Forget and DeleteCredentials.
LEMMA RemovalSteps ==
    ASSUME TokenIInv, Remember, RemovalStep
    PROVE  TokenIInv'
<1>t. /\ ServerIsSound(authServer) /\ SavedTypeOK /\ TokensAreIssued /\ CommitsHaveProvider
      /\ prov \in [Provs -> Providers] /\ latest \in {0} \cup Provs /\ op \in [mu : OpOwners, gen : Nat]
      /\ rem \in [pc : RemovalPCs, p : {0} \cup Provs, deletes : BOOLEAN]
      /\ conf \in [file : Nat, daemon : Nat]
      /\ \A p \in Provs : ProviderIsSound(prov[p], authServer)
  BY DEF TokenIInv, TokenTypeOK, SavedTypeOK
<1>g. GrowsTo(authServer, authServer) BY EventsCounted
<1>d. /\ {"idle", "forget", "forgetAgain", "delete", "again", "done"} \subseteq RemovalPCs
      /\ NoOne \in OpOwners /\ "remover" \in OpOwners
  BY DEF RemovalPCs, OpOwners
<1>n. 0 \notin Provs /\ NoOne \in Callers \cup Logins \cup {NoOne} BY TokenDomains
<1>1. CASE Detach
  <2>1. /\ UNCHANGED <<stored, chal, conf, call, cli, login, authServer, age>>
        /\ Event \/ UNCHANGED events
        /\ op' = [mu |-> "remover", gen |-> op.gen + 1] /\ latest' = 0
    BY <1>1 DEF Detach
  <2>2. rem' \in [pc : RemovalPCs, p : {0} \cup Provs, deletes : BOOLEAN]
    BY <1>1, <1>t, <1>d DEF Detach
  <2>3. op' \in [mu : OpOwners, gen : Nat] BY <1>t, <1>d, <2>1
  <2>4. SavedTypeOK' /\ TokensAreIssued' /\ CommitsHaveProvider'
    BY <1>t, <2>1, <2>2, <2>3, EventsCounted DEF SavedTypeOK, TokensAreIssued, CommitsHaveProvider
  <2>5. /\ prov' \in [Provs -> Providers]
        /\ \A p \in Provs :
              /\ ProviderIsSound(prov'[p], authServer) /\ (prov[p].made => prov'[p].made)
              /\ prov[p].mu # NoOne => prov'[p].mu = prov[p].mu /\ prov'[p].login = prov[p].login
    <3>1. CASE latest = 0
      <4>1. prov' = prov BY <1>1, <3>1 DEF Detach
      <4> QED BY <1>t, <4>1
    <3>2. CASE latest \in Provs
      <4> DEFINE P == prov[latest]
      <4> DEFINE Q == [P EXCEPT !.cancelled = TRUE]
      <4>1. P \in Providers /\ ProviderIsSound(P, authServer) BY <1>t, <3>2
      <4>2. Q \in Providers /\ ProviderIsSound(Q, authServer) BY <1>n, <4>1, ProviderLetsGo
      <4>3. Q.made = P.made /\ Q.mu = P.mu /\ Q.login = P.login BY <4>1 DEF Providers
      <4>4. prov' = [prov EXCEPT ![latest] = Q] BY <1>1, <1>n, <3>2 DEF Detach
      <4> HIDE DEF Q
      <4>5. \A p \in Provs : prov'[p] = IF p = latest THEN Q ELSE prov[p] BY <1>t, <4>4
      <4>6. prov' \in [Provs -> Providers] BY <1>t, <4>2, <4>4
      <4> QED BY <1>t, <4>2, <4>3, <4>5, <4>6
    <3> QED BY <1>t, <3>1, <3>2
  <2>6. LoginsHold' BY <2>1, <2>5, HoldsKept, TokenDomains
  <2> QED BY <1>g, <2>1, <2>4, <2>5, <2>6, CallsStand, TokenDomains
<1>2. CASE Retire
  <2>1. /\ UNCHANGED <<stored, chal, latest, call, cli, login, authServer, age, events>>
        /\ op' = [op EXCEPT !.mu = NoOne] /\ conf' = [conf EXCEPT !.daemon = conf.file]
        /\ rem.p # 0 => prov[rem.p].mu = NoOne
    BY <1>2 DEF Retire
  <2>2. rem' \in [pc : RemovalPCs, p : {0} \cup Provs, deletes : BOOLEAN]
    <3>1. PICK pc \in RemovalPCs : rem' = [rem EXCEPT !.pc = pc] BY <1>2, <1>d DEF Retire
    <3> QED BY <1>t, <3>1
  <2>3. op' \in [mu : OpOwners, gen : Nat] /\ conf' \in [file : Nat, daemon : Nat] BY <1>t, <1>d, <2>1
  <2>4. SavedTypeOK' /\ TokensAreIssued' /\ CommitsHaveProvider'
    BY <1>t, <2>1, <2>2, <2>3 DEF SavedTypeOK, TokensAreIssued, CommitsHaveProvider
  <2>5. /\ prov' \in [Provs -> Providers]
        /\ \A p \in Provs :
              /\ ProviderIsSound(prov'[p], authServer) /\ (prov[p].made => prov'[p].made)
              /\ prov[p].mu # NoOne => prov'[p].mu = prov[p].mu /\ prov'[p].login = prov[p].login
    <3>1. CASE rem.p = 0
      <4>1. prov' = prov BY <1>2, <3>1 DEF Retire
      <4> QED BY <1>t, <4>1
    <3>2. CASE rem.p \in Provs
      <4> DEFINE P == prov[rem.p]
      <4> DEFINE Q == [P EXCEPT !.retired = TRUE, !.login = NoLogin]
      <4>1. P \in Providers /\ ProviderIsSound(P, authServer) /\ P.mu = NoOne BY <1>n, <1>t, <2>1, <3>2
      <4>2. /\ Q \in Providers /\ Q.made = P.made /\ Q.retired /\ Q.login = NoLogin /\ Q.mu = NoOne
            /\ Q.persisted = P.persisted /\ Q.dead = P.dead
        BY <4>1, TokenDomains DEF Providers
      <4>3. prov' = [prov EXCEPT ![rem.p] = Q]
        <5>1. prov' = [prov EXCEPT ![rem.p].retired = TRUE, ![rem.p].login = NoLogin]
          BY <1>2, <1>n, <3>2 DEF Retire
        <5> QED BY <1>t, <3>2, <5>1 DEF Providers
      <4> HIDE DEF Q
      <4>4. ProviderIsSound(Q, authServer)
        <5>1. 0 <= authServer.issued BY <1>t DEF ServerIsSound
        <5> QED BY <4>1, <4>2, <5>1, TokenDomains DEF ProviderIsSound
      <4>5. \A p \in Provs : prov'[p] = IF p = rem.p THEN Q ELSE prov[p] BY <1>t, <4>3
      <4>6. prov' \in [Provs -> Providers] BY <1>t, <4>2, <4>3
      <4> QED BY <1>t, <4>1, <4>2, <4>4, <4>5, <4>6
    <3> QED BY <1>t, <3>1, <3>2
  <2>6. LoginsHold' BY <2>1, <2>5, HoldsKept, TokenDomains
  <2> QED BY <1>g, <2>1, <2>4, <2>5, <2>6, CallsStand, TokenDomains
<1>3. CASE DeleteCredentials
  <2>1. /\ UNCHANGED <<conf, latest, prov, op, call, cli, login, authServer, age, events>>
        /\ stored' = NoLogin /\ chal' = 0 /\ rem' = [rem EXCEPT !.pc = "again"]
    BY <1>3 DEF DeleteCredentials
  <2>2. rem' \in [pc : RemovalPCs, p : {0} \cup Provs, deletes : BOOLEAN] BY <1>t, <1>d, <2>1
  <2>3. stored' \in LoginSet /\ stored'.r <= authServer.issued
    BY <1>t, <2>1, TokenDomains DEF ServerIsSound
  <2>4. SavedTypeOK' /\ TokensAreIssued' /\ CommitsHaveProvider'
    BY <1>t, <2>1, <2>2, <2>3 DEF SavedTypeOK, TokensAreIssued, CommitsHaveProvider
  <2> QED BY <1>g, <2>1, <2>4, OnlySavedMoves
<1> QED BY <1>1, <1>2, <1>3 DEF RemovalStep

\* The user edits, tokens age and are revoked, and a backoff ends.
LEMMA WorldSteps ==
    ASSUME TokenIInv, Remember, Edit \/ TokenAges \/ TokenRevoked \/ BackoffEnds
    PROVE  TokenIInv'
<1>t. /\ ServerIsSound(authServer) /\ SavedTypeOK /\ TokensAreIssued /\ CommitsHaveProvider
      /\ prov \in [Provs -> Providers] /\ conf \in [file : Nat, daemon : Nat]
      /\ chal \in Nat /\ age \in [1 .. MaxTokens -> Ages] /\ events \in Nat
      /\ \A p \in Provs : ProviderIsSound(prov[p], authServer)
  BY DEF TokenIInv, TokenTypeOK, SavedTypeOK
<1>g. GrowsTo(authServer, authServer) BY EventsCounted
<1>1. CASE Edit
  <2>1. /\ UNCHANGED <<stored, chal, latest, prov, op, call, cli, login, rem, authServer, age>> /\ Event
        /\ conf' = [conf EXCEPT !.file = 2]
    BY <1>1 DEF Edit
  <2>2. conf' \in [file : Nat, daemon : Nat] BY <1>t, <2>1
  <2>3. SavedTypeOK' /\ TokensAreIssued' /\ CommitsHaveProvider'
    BY <1>t, <2>1, <2>2, EventsCounted DEF SavedTypeOK, TokensAreIssued, CommitsHaveProvider
  <2> QED BY <1>g, <2>1, <2>3, OnlySavedMoves
<1>2. CASE TokenAges
  <2>1. UNCHANGED <<stored, chal, conf, latest, prov, op, call, cli, login, rem, authServer, events>>
    BY <1>2 DEF TokenAges
  <2>2. age' \in [1 .. MaxTokens -> Ages]
    <3>1. PICK n \in 1 .. authServer.issued, a \in Ages : age' = [age EXCEPT ![n] = a]
      BY <1>2 DEF TokenAges, Ages
    <3> QED BY <1>t, <3>1
  <2>3. SavedTypeOK' /\ TokensAreIssued' /\ CommitsHaveProvider' BY <1>g, <1>t, <2>1, <2>2, SavedGrows
  <2> QED BY <1>g, <2>1, <2>3, OnlySavedMoves
<1>3. CASE TokenRevoked
  <2>1. /\ UNCHANGED <<stored, chal, conf, latest, prov, op, call, cli, login, rem, age>> /\ Event
        /\ \E r \in authServer.valid : authServer' = [authServer EXCEPT !.valid = @ \ {r}]
    BY <1>3 DEF TokenRevoked
  <2>2. GrowsTo(authServer, authServer')
    <3>1. PICK r \in authServer.valid : authServer' = [authServer EXCEPT !.valid = @ \ {r}] BY <2>1
    <3>2. /\ authServer' \in [issued : Nat, valid : SUBSET Nat] /\ authServer'.issued = authServer.issued
          /\ authServer'.valid = authServer.valid \ {r} /\ authServer.issued \in Nat
      BY <1>t, <3>1 DEF ServerIsSound
    <3> QED BY <1>t, <3>2 DEF GrowsTo, ServerIsSound
  <2>3. SavedTypeOK' /\ TokensAreIssued' /\ CommitsHaveProvider' BY <1>t, <2>1, <2>2, SavedGrows, EventsCounted
  <2> QED BY <2>1, <2>2, <2>3, OnlySavedMoves
<1>4. CASE BackoffEnds
  <2>1. UNCHANGED call /\ UNCHANGED unmoved BY <1>4 DEF BackoffEnds
  <2>2. PICK p \in Provs : prov' = [prov EXCEPT ![p].backoff = FALSE] BY <1>4 DEF BackoffEnds
  <2> DEFINE Q == [prov[p] EXCEPT !.backoff = FALSE]
  <2>3. NoOne \in Callers \cup Logins \cup {NoOne} /\ prov[p] \in Providers /\ ProviderIsSound(prov[p], authServer) BY <1>t
  <2>4. Q \in Providers /\ ProviderIsSound(Q, authServer) BY <2>3, ProviderLetsGo
  <2>5. Q.made = prov[p].made /\ Q.mu = prov[p].mu /\ Q.login = prov[p].login BY <2>3 DEF Providers
  <2>6. prov' = [prov EXCEPT ![p] = Q] BY <2>2
  <2> HIDE DEF Q
  <2>7. \A q \in Provs : prov'[q] = IF q = p THEN Q ELSE prov[q] BY <1>t, <2>6
  <2>8. prov' \in [Provs -> Providers] BY <1>t, <2>4, <2>6
  <2>9. /\ SavedTypeOK' /\ TokensAreIssued' /\ CommitsHaveProvider' /\ latest' = latest /\ login' = login
        /\ GrowsTo(authServer, authServer')
    BY <2>1, SavedStays
  <2>10. LoginsHold' BY <2>5, <2>7, <2>9, HoldsKept
  <2> QED BY <1>t, <2>1, <2>4, <2>5, <2>7, <2>8, <2>9, <2>10, CallsStand
<1> QED BY <1>1, <1>2, <1>3, <1>4

-----------------------------------------------------------------------------
(* The saved login: the theorems *)

\* The providers, the requests that share them, the saved login and the authorization server agree
\* at every moment (provider/refresh.go, registry.go, commands of the CLI).
THEOREM TokenInvariant == TokenSpec => []TokenIInv
<1>1. TokenInit => TokenIInv
  <2> SUFFICES ASSUME TokenInit PROVE TokenIInv
    OBVIOUS
  <2>1. /\ stored = [a |-> 1, r |-> 1, conf |-> 1] /\ stored \in LoginSet /\ stored.r = 1
        /\ chal \in Nat /\ conf = [file |-> 1, daemon |-> 1] /\ latest = 0
        /\ events = 0 /\ doubt = {}
    BY DEF TokenInit, LoginSet
  <2>2. authServer = [issued |-> 1, valid |-> {1}] /\ ServerIsSound(authServer)
    BY DEF TokenInit, ServerIsSound
  <2>3. ASSUME NEW p \in Provs
        PROVE  prov[p] \in Providers /\ ProviderIsSound(prov[p], authServer)
    <3>1. prov[p] = [NewProv(0) EXCEPT !.made = FALSE] BY DEF TokenInit
    <3>2. /\ prov[p] \in Providers /\ prov[p].login = NoLogin /\ prov[p].persisted = NoLogin
          /\ prov[p].dead = 0 /\ ~prov[p].retired
      <4>1. prov[p] = [made |-> FALSE, conf |-> 0, login |-> NoLogin, persisted |-> NoLogin, dead |-> 0,
                       backoff |-> FALSE, mu |-> NoOne, cancelled |-> FALSE, retired |-> FALSE]
        BY <3>1 DEF NewProv
      <4> QED BY <4>1, TokenDomains DEF Providers
    <3> QED BY <2>2, <3>2, TokenDomains DEF ProviderIsSound
  <2>4. prov \in [Provs -> Providers] BY <2>3 DEF TokenInit
  <2>5. ASSUME NEW c \in Callers
        PROVE  call[c] \in CallRecs /\ CallIsSound(c)
    <3>1. call[c] = NewCall BY DEF TokenInit
    <3>2. call[c] \in CallRecs /\ call[c].pc = "idle" /\ call[c].answer = NoLogin
      BY <3>1, TokenDomains DEF NewCall, CallRecs
    <3> QED BY <2>2, <3>2, TokenDomains DEF CallIsSound
  <2>6. call \in [Callers -> CallRecs] BY <2>5 DEF TokenInit
  <2>7. /\ op \in [mu : OpOwners, gen : Nat] /\ cli.login = NoLogin
        /\ cli \in [pc : {"idle", "exchange", "save", "done"}, login : LoginSet]
        /\ rem \in [pc : RemovalPCs, p : {0} \cup Provs, deletes : BOOLEAN]
        /\ age \in [1 .. MaxTokens -> Ages]
    BY TokenDomains DEF TokenInit, OpOwners, RemovalPCs, Ages
  <2>8. ASSUME NEW l \in Logins
        PROVE  login[l] \in LoginRecs /\ login[l].pc = "idle" /\ login[l].token = NoLogin
    <3>1. login[l] = [pc |-> "idle", conf |-> 0, chal |-> 0, gen |-> 0, p |-> 0, token |-> NoLogin]
      BY DEF TokenInit
    <3> QED BY <3>1, TokenDomains DEF LoginRecs, LoginPCs
  <2>9. login \in [Logins -> LoginRecs] BY <2>8 DEF TokenInit
  <2>10. SavedTypeOK BY <2>1, <2>2, <2>7, <2>9 DEF SavedTypeOK
  <2>11. TokensAreIssued /\ CommitsHaveProvider /\ LatestIsMade /\ LoginsHold
    BY <2>1, <2>2, <2>7, <2>8, TokenDomains DEF TokensAreIssued, CommitsHaveProvider, LatestIsMade, LoginsHold
  <2> QED BY <2>1, <2>3, <2>4, <2>5, <2>6, <2>10, <2>11 DEF TokenIInv, TokenTypeOK
<1>2. TokenIInv /\ [TokenNext]_tokenVars => TokenIInv'
  <2> SUFFICES ASSUME TokenIInv, [TokenNext]_tokenVars PROVE TokenIInv'
    OBVIOUS
  <2>1. CASE TokenNext
    <3>1. Remember /\ Step BY <2>1 DEF TokenNext
    <3>2. ASSUME NEW c \in Callers, GetOrCreate(c) \/ Refreshing(c) \/ Rejected(c) PROVE TokenIInv'
      BY <3>1, <3>2, GetOrCreateStep, LockStep, RefreshLockedStep, ExchangeStep, TakeAnswerStep, PersistStep,
         RejectedStep DEF Refreshing
    <3>3. ASSUME NEW l \in Logins,
                 \/ LoginBegins(l) \/ LoginReturns(l) \/ CommitBegins(l) \/ CommitBrowserLogin(l)
                 \/ LooksAtChallenge(l) \/ RemoveChallenge(l)
          PROVE  TokenIInv'
      BY <3>1, <3>3, LoginSteps, CommitBrowserLoginStep, ChallengeSteps
    <3> QED BY <3>1, <3>2, <3>3, CliSteps, RemovalSteps, WorldSteps DEF Step
  <2>2. CASE UNCHANGED tokenVars
    BY <2>2 DEF tokenVars, TokenIInv, TokenTypeOK, SavedTypeOK, TokensAreIssued, CommitsHaveProvider, LatestIsMade,
                LoginsHold, CallIsSound, P_
  <2> QED BY <2>1, <2>2
<1> QED BY <1>1, <1>2, PTL DEF TokenSpec

\* For any requests, tokens, providers and events, nobody is told to log in whose saved login served
\* throughout: syncWithSavedLoginLocked adopts it before it is refreshed, and a token is called dead
\* (deadRefreshToken) only once the server has refused it.
THEOREM LoginsAreNotWasted == TokenSpec => []ReauthOnlyWhenNeeded
<1>1. TokenIInv => ReauthOnlyWhenNeeded BY DEF TokenIInv, CallIsSound, ReauthOnlyWhenNeeded, At
<1> QED BY <1>1, TokenInvariant, PTL

\* A provider that Forget has retired never authorizes, refreshes or saves again.
THEOREM RetiredProvidersAreSilent == TokenSpec => []RetiredIsSilent
<1>1. TokenIInv => RetiredIsSilent
  BY TokenDomains DEF TokenIInv, CallIsSound, ProviderIsSound, RetiredIsSilent, P_, Refreshes
<1> QED BY <1>1, TokenInvariant, PTL

\* The steps that touch the challenge.
LEMMA MovesChallenge ==
    ASSUME TokenNext, chal' # chal
    PROVE  CliRecords \/ DeleteCredentials \/ (\E c \in Callers : Rejected(c)) \/ \E l \in Logins : RemoveChallenge(l)
<1>1. ASSUME NEW c \in Callers, GetOrCreate(c) \/ Refreshing(c) PROVE FALSE
  BY <1>1 DEF GetOrCreate, Refreshing, Lock, RefreshLocked, Exchange, ExchangeFails, TakeAnswer, Persist, unmoved
<1>2. ~(CliLoads \/ CliRefreshes \/ CliSaves) BY DEF CliLoads, CliRefreshes, CliSaves
<1>3. ~(Edit \/ Detach \/ Retire \/ TokenAges \/ TokenRevoked \/ BackoffEnds)
  BY DEF Edit, Detach, Retire, TokenAges, TokenRevoked, BackoffEnds, unmoved
<1>4. ASSUME NEW l \in Logins,
             LoginBegins(l) \/ LoginReturns(l) \/ CommitBegins(l) \/ CommitBrowserLogin(l) \/ LooksAtChallenge(l)
      PROVE  FALSE
  BY <1>4 DEF LoginBegins, LoginReturns, CommitBegins, CommitBrowserLogin, LooksAtChallenge
<1> QED BY <1>1, <1>2, <1>3, <1>4 DEF TokenNext, Step, RemovalStep

\* A login comes to remove its challenge only from its look at it.
LEMMA MovesToRemove ==
    ASSUME TokenIInv, TokenNext, NEW l \in Logins, login'[l].pc = "remove"
    PROVE  \/ login'[l] = login[l]
           \/ login'[l].chal = login[l].chal /\ chal = login[l].chal /\ chal' = chal
<1>t. login \in [Logins -> LoginRecs] /\ \A m \in Logins : login[m] \in LoginRecs
  BY DEF TokenIInv, TokenTypeOK, SavedTypeOK
<1>1. CASE login' = login BY <1>1
<1>2. ASSUME NEW m \in Logins, LoginBegins(m) \/ LoginReturns(m) \/ CommitBegins(m) \/ CommitBrowserLogin(m)
      PROVE  login'[l] = login[l]
  <2>1. CASE m = l
    <3>1. LoginBegins(m) => login'[l].pc = "browser" BY <1>t, <2>1 DEF LoginBegins, LoginRecs
    <3>2. LoginReturns(m) => login'[l].pc \in {"commit", "done"} BY <1>t, <2>1 DEF LoginReturns, LoginRecs
    <3>3. CommitBegins(m) => login'[l].pc \in {"lock", "clear", "done"} BY <1>t, <2>1 DEF CommitBegins, LoginRecs
    <3>4. CommitBrowserLogin(m) => login'[l].pc \in {"clear", "done"}
      BY <1>t, <2>1 DEF CommitBrowserLogin, LoginRecs
    <3> QED BY <1>2, <3>1, <3>2, <3>3, <3>4
  <2>2. CASE m # l
    BY <1>2, <1>t, <2>2 DEF LoginBegins, LoginReturns, CommitBegins, CommitBrowserLogin
  <2> QED BY <2>1, <2>2
<1>3. ASSUME NEW m \in Logins, LooksAtChallenge(m) \/ RemoveChallenge(m)
      PROVE  \/ login'[l] = login[l]
             \/ login'[l].chal = login[l].chal /\ chal = login[l].chal /\ chal' = chal
  <2>1. CASE login' = [login EXCEPT ![m].pc = "done"] BY <1>t, <2>1 DEF LoginRecs
  <2>2. CASE LooksAtChallenge(m) /\ IsConsumed(login[m].chal) /\ login' = [login EXCEPT ![m].pc = "remove"]
    BY <1>t, <2>2 DEF LooksAtChallenge, IsConsumed, LoginRecs
  <2> QED BY <1>3, <2>1, <2>2 DEF LooksAtChallenge, RemoveChallenge, LoginEnds
<1>4. ASSUME NEW c \in Callers, GetOrCreate(c) \/ Refreshing(c) \/ Rejected(c) PROVE login' = login
  BY <1>4 DEF GetOrCreate, Refreshing, Lock, RefreshLocked, Exchange, ExchangeFails, TakeAnswer, Persist, Rejected,
              unmoved
<1>5. CliRecords \/ CliLoads \/ CliRefreshes \/ CliSaves \/ Edit \/ RemovalStep \/ TokenAges \/ TokenRevoked
        \/ BackoffEnds => login' = login
  BY DEF CliRecords, CliLoads, CliRefreshes, CliSaves, Edit, RemovalStep, Detach, Retire, DeleteCredentials, TokenAges,
         TokenRevoked, BackoffEnds, unmoved
<1> QED BY <1>1, <1>2, <1>3, <1>4, <1>5 DEF TokenNext, Step

\* A login is about to remove the challenge it was made for, or another process has replaced it:
\* within the daemon challengeMu lets nobody.
LEMMA OwnRemovals == TokenSpec => []RemovesItsOwn
<1>1. TokenInit => RemovesItsOwn BY DEF TokenInit, RemovesItsOwn
<1>2. TokenIInv /\ RemovesItsOwn /\ [TokenNext]_tokenVars => RemovesItsOwn'
  <2>1. CASE UNCHANGED tokenVars BY <2>1 DEF tokenVars, RemovesItsOwn
  <2>2. ASSUME TokenIInv, RemovesItsOwn, TokenNext, NEW l \in Logins, login'[l].pc = "remove"
        PROVE  chal' \in {0, login'[l].chal} \/ l \in overtaken'
    <3>1. overtaken' = overtaken \cup {m \in Logins : Overtakes(m)} BY <2>2 DEF TokenNext, Remember
    <3>2. CASE login'[l] = login[l]
      <4>1. CASE chal' \in {0, chal} BY <2>2, <3>1, <3>2, <4>1 DEF RemovesItsOwn
      <4>2. CASE chal' \notin {0, chal}
        <5>1. CASE CliRecords
          <6>1. call' = call BY <5>1 DEF CliRecords
          <6> QED BY <2>2, <3>1, <3>2, <4>2, <6>1 DEF Overtakes
        <5>2. ASSUME NEW c \in Callers, Rejected(c) PROVE l \in overtaken'
          <6>1. l # "start_auth" BY <2>2, <3>2, <4>2, <5>2 DEF Rejected, ChallengeMuFree
          <6> QED BY <2>2, <3>1, <3>2, <4>2, <6>1 DEF Overtakes
        <5>3. DeleteCredentials => chal' = 0 BY DEF DeleteCredentials
        <5>4. \A m \in Logins : RemoveChallenge(m) => chal' \in {0, chal} BY DEF RemoveChallenge
        <5> QED BY <2>2, <4>2, <5>1, <5>2, <5>3, <5>4, MovesChallenge
      <4> QED BY <4>1, <4>2
    <3>3. CASE login'[l].chal = login[l].chal /\ chal = login[l].chal /\ chal' = chal BY <3>3
    <3> QED BY <2>2, <3>2, <3>3, MovesToRemove
  <2> QED BY <2>1, <2>2 DEF RemovesItsOwn
<1> QED BY <1>1, <1>2, TokenInvariant, PTL DEF TokenSpec

\* clearConsumedChallenge drops no challenge but the one its login was made for, unless another
\* process replaced that one between the look and the removal.
THEOREM ChallengesWait == TokenSpec => ChallengeWaits
<1> DEFINE Drops == (chal # 0 /\ chal' = 0) =>
                rem.pc = "delete"
                \/ \E l \in Logins : login[l].pc = "remove" /\ (login[l].chal = chal \/ l \in overtaken)
<1>1. RemovesItsOwn /\ TokenIInv /\ [TokenNext]_tokenVars => [Drops]_tokenVars
  <2> SUFFICES ASSUME RemovesItsOwn, TokenIInv, TokenNext, chal # 0, chal' = 0, rem.pc # "delete"
               PROVE  \E l \in Logins : login[l].pc = "remove" /\ (login[l].chal = chal \/ l \in overtaken)
    OBVIOUS
  <2>t. events \in Nat BY DEF TokenIInv, TokenTypeOK, SavedTypeOK
  <2>1. ~CliRecords BY <2>t DEF CliRecords
  <2>2. ~DeleteCredentials BY DEF DeleteCredentials
  <2>3. \A c \in Callers : ~Rejected(c) BY <2>t DEF Rejected
  <2>4. PICK l \in Logins : RemoveChallenge(l) BY <2>1, <2>2, <2>3, MovesChallenge
  <2>5. login[l].pc = "remove" BY <2>4 DEF RemoveChallenge
  <2> QED BY <2>5 DEF RemovesItsOwn
<1> QED BY <1>1, OwnRemovals, TokenInvariant, PTL DEF TokenSpec, ChallengeWaits

-----------------------------------------------------------------------------
(* Projection rules: the inductive invariant *)

FileContents == Contents \cup {Gone, Broken}

RulesTypeOK ==
    /\ file \in FileContents /\ mem \in Contents \cup {Nil}
    /\ moved \in BOOLEAN /\ unread \in BOOLEAN
    /\ poll \in [at : {"tick", "load", "files"}, read : FileContents]
    /\ loaded \in [{Poller, ReloadCall} -> FileContents \cup {Nil, Replaced}]
    /\ \/ set = SetIdle
       \/ set \in [at : {"check", "rename", "publish"}, tool : Tools, rule : Rules, base : Contents, left : Nat]
    /\ \/ inst = NoInstall \/ inst = [at |-> "connecting"]
       \/ inst \in [at : {"adding"}, rules : Contents \cup {Nil}]

\* A reload and a save exclude each other.
PersistIsHeld ==
    /\ \A a \in {Poller, ReloadCall} : loaded[a] # Nil => persist = a
    /\ set # SetIdle => persist = Setter
    /\ loaded[Poller] # Nil => poll.at = "load"

\* While the file is not written, the poller has, or is about to load, what the file holds.
PollIsOfFile ==
    ~moved =>
        /\ IF poll.at = "load" THEN poll.read = file ELSE seen = file
        /\ loaded[Poller] \in {Nil, file, Broken, Replaced}
        /\ loaded[Poller] = Broken => unread \/ file = Broken

\* Once the poller has loaded it, so do the other reloads, and a save has nothing to write.
OthersAreOfFile ==
    ~moved /\ poll.at # "load" =>
        /\ loaded[ReloadCall] \in {Nil, file, Broken, Replaced}
        /\ set # SetIdle => set.base = file /\ (set.at = "publish" => Edited = file)

\* From then on, if it could read it, the rules applied, and then the aliases, are the file's.
RulesApplied ==
    ~moved /\ ~unread /\ file # Broken =>
        /\ poll.at # "load" \/ loaded[Poller] = Replaced => Entry(mem) = Entry(RulesOf(file))
        /\ poll.at # "load" /\ loaded[ReloadCall] # Replaced => reg = AliasesOf(mem)

RulesIInv == RulesTypeOK /\ PersistIsHeld /\ PollIsOfFile /\ OthersAreOfFile /\ RulesApplied

\* The marks are no contents, and differ.
LEMMA MarksDiffer ==
  /\ Empty \in Contents /\ NoRule \in Rules
  /\ \A m \in {Gone, Broken, Nil, Replaced} : m \notin Contents
  /\ Gone # Broken /\ Gone # Nil /\ Gone # Replaced /\ Broken # Nil /\ Broken # Replaced /\ Nil # Replaced
<1>1. PICK t \in Tools : TRUE
  BY RulesAssumption
<1>2. /\ Gone[t].shape = "gone" /\ Broken[t].shape = "broken"
      /\ Nil[t].shape = "nil" /\ Replaced[t].shape = "replaced"
  BY <1>1 DEF Gone, Broken, Nil, Replaced, Mark
<1>3. \A c \in Contents : c[t].shape \in Shapes
  BY <1>1 DEF Contents, Rules
<1>4. NoRule \in Rules
  BY RulesAssumption DEF NoRule, Rules
<1>5. Empty \in Contents
  BY <1>4 DEF Empty, Contents
<1>6. \A w \in {"gone", "broken", "nil", "replaced"} : w \notin Shapes
  BY RulesAssumption DEF Marks
<1> QED
  BY <1>2, <1>3, <1>4, <1>5, <1>6

\* The rules of a file, and those applied for what memory holds.
LEMMA RulesOfFile ==
  /\ \A c \in FileContents : RulesOf(c) \in Contents \cup {Nil}
  /\ \A c \in Contents : Entry(RulesOf(c)) = c
  /\ \A m \in Contents : Entry(m) = m
  /\ Entry(Nil) = Empty /\ RulesOf(Gone) = Nil
  BY MarksDiffer DEF RulesOf, Entry, FileContents

\* A save edits one tool's rule of the contents it has read.
LEMMA EditedIsContents ==
  ASSUME RulesTypeOK, set # SetIdle
  PROVE  /\ Saved \in Rules /\ Edited \in Contents /\ Edited[set.tool] = Saved
         /\ set.tool \in Tools /\ set.base \in Contents /\ set.at \in {"check", "rename", "publish"}
<1>1. set.rule \in Rules /\ set.tool \in Tools /\ set.base \in Contents /\ set.at \in {"check", "rename", "publish"}
  BY DEF RulesTypeOK
<1>2. set.base[set.tool] \in Rules
  BY <1>1 DEF Contents
<1>3. Saved \in Rules
  BY <1>1, <1>2 DEF Saved, KeepAlias, Rules
<1> QED
  BY <1>1, <1>3 DEF Edited, Contents

-----------------------------------------------------------------------------
(* Projection rules: the steps *)

\* The poller reads the fingerprint, and from then on knows whether the file is written.
LEMMA FingerprintKeeps ==
  ASSUME RulesIInv, PollFingerprint
  PROVE  RulesIInv'
<1>1. /\ UNCHANGED <<file, mem, reg, inst, persist, seen, loaded, set, unread>> /\ poll.at = "tick"
      /\ \/ poll' = [poll EXCEPT !.at = "files"] /\ moved' = moved
         \/ poll' = [at |-> "load", read |-> file] /\ moved' = FALSE
  BY DEF PollFingerprint
<1>2. RulesTypeOK /\ loaded[Poller] = Nil
  BY <1>1 DEF RulesIInv, PersistIsHeld
<1>3. CASE poll' = [poll EXCEPT !.at = "files"] /\ moved' = moved
  <2>1. poll' \in [at : {"tick", "load", "files"}, read : FileContents] /\ poll'.at = "files"
    BY <1>2, <1>3 DEF RulesTypeOK
  <2>2. RulesTypeOK'
    BY <1>1, <1>2, <1>3, <2>1 DEF RulesTypeOK
  <2> QED
    BY <1>1, <1>2, <1>3, <2>1, <2>2
    DEF RulesIInv, PersistIsHeld, PollIsOfFile, OthersAreOfFile, RulesApplied, Edited, Saved
<1>4. CASE poll' = [at |-> "load", read |-> file] /\ moved' = FALSE
  <2>1. poll' \in [at : {"tick", "load", "files"}, read : FileContents] /\ poll'.at = "load" /\ poll'.read = file
    BY <1>2, <1>4 DEF RulesTypeOK
  <2>2. RulesTypeOK'
    BY <1>1, <1>2, <1>4, <2>1 DEF RulesTypeOK
  <2> QED
    BY <1>1, <1>2, <2>1, <2>2, MarksDiffer
    DEF RulesIInv, PersistIsHeld, PollIsOfFile, OthersAreOfFile, RulesApplied
<1> QED
  BY <1>1, <1>3, <1>4

\* A reload holds persistMu from its read of the file on.
LEMMA LoadKeeps ==
  ASSUME RulesIInv, NEW a \in {Poller, ReloadCall}, ApplyLoad(a)
  PROVE  RulesIInv'
<1>1. PICK read \in {file, Broken} :
         /\ loaded' = [loaded EXCEPT ![a] = read]
         /\ unread' = (unread \/ (a = Poller /\ read # file))
  BY DEF ApplyLoad
<1>2. /\ UNCHANGED <<file, mem, reg, inst, poll, seen, set, moved>> /\ persist = Free /\ persist' = a
      /\ (a = Poller => poll.at = "load")
  BY DEF ApplyLoad, Reloads
<1>3. RulesTypeOK /\ set = SetIdle /\ \A b \in {Poller, ReloadCall} : loaded[b] = Nil
  BY <1>2 DEF RulesIInv, PersistIsHeld, Free, Poller, ReloadCall, Setter
<1>4. /\ loaded' \in [{Poller, ReloadCall} -> FileContents \cup {Nil, Replaced}]
      /\ loaded'[a] = read /\ \A b \in {Poller, ReloadCall} : b # a => loaded'[b] = Nil
  BY <1>1, <1>3 DEF RulesTypeOK, FileContents
<1>5. Poller # ReloadCall /\ read # Nil /\ read # Replaced /\ Nil # Broken
  BY <1>3, MarksDiffer DEF Poller, ReloadCall, RulesTypeOK, FileContents
<1>6. unread' \in BOOLEAN /\ (unread => unread') /\ (a = Poller /\ read # file => unread')
  BY <1>1, <1>3 DEF RulesTypeOK
<1>7. RulesTypeOK'
  BY <1>2, <1>3, <1>4, <1>6 DEF RulesTypeOK
<1>8. PersistIsHeld'
  BY <1>2, <1>3, <1>4 DEF RulesIInv, PersistIsHeld
<1>9. PollIsOfFile' /\ OthersAreOfFile'
  BY <1>2, <1>3, <1>4, <1>5, <1>6 DEF RulesIInv, PollIsOfFile, OthersAreOfFile
<1>10. RulesApplied'
  BY <1>2, <1>3, <1>4, <1>5, <1>6, MarksDiffer DEF RulesIInv, RulesApplied
<1> QED
  BY <1>7, <1>8, <1>9, <1>10 DEF RulesIInv

\* A load that fails applies nothing; the poller then has not read the file it goes on from.
LEMMA FailedLoadKeeps ==
  ASSUME RulesIInv, NEW a \in {Poller, ReloadCall}, LoadFails(a)
  PROVE  RulesIInv'
<1>1. /\ UNCHANGED <<file, mem, reg, inst, persist, loaded, set, moved>> /\ persist = Free
      /\ \/ a = Poller /\ poll.at = "load" /\ poll' = [poll EXCEPT !.at = "files"]
            /\ seen' = poll.read /\ unread' = TRUE
         \/ UNCHANGED <<poll, seen, unread>>
  BY DEF LoadFails, Reloads
<1>2. RulesTypeOK /\ set = SetIdle /\ \A b \in {Poller, ReloadCall} : loaded[b] = Nil
  BY <1>1 DEF RulesIInv, PersistIsHeld, Free, Poller, ReloadCall, Setter
<1>3. CASE /\ a = Poller /\ poll.at = "load" /\ poll' = [poll EXCEPT !.at = "files"]
           /\ seen' = poll.read /\ unread' = TRUE
  <2>1. poll' \in [at : {"tick", "load", "files"}, read : FileContents] /\ poll'.at = "files"
    BY <1>2, <1>3 DEF RulesTypeOK
  <2>2. RulesTypeOK'
    BY <1>1, <1>2, <1>3, <2>1 DEF RulesTypeOK
  <2> QED
    BY <1>1, <1>2, <1>3, <2>1, <2>2, MarksDiffer
    DEF RulesIInv, PersistIsHeld, PollIsOfFile, OthersAreOfFile, RulesApplied
<1>4. CASE UNCHANGED <<poll, seen, unread>>
  BY <1>1, <1>2, <1>4, MarksDiffer
  DEF RulesIInv, RulesTypeOK, PersistIsHeld, PollIsOfFile, OthersAreOfFile, RulesApplied, AliasesOf
<1> QED
  BY <1>1, <1>3, <1>4

\* The rules read become the rules applied, unless the file does not load.
LEMMA ReplaceKeeps ==
  ASSUME RulesIInv, NEW a \in {Poller, ReloadCall}, ApplyReplace(a)
  PROVE  RulesIInv'
<1>1. /\ UNCHANGED <<file, reg, inst, persist, poll, seen, set, moved>>
      /\ loaded[a] \notin {Nil, Replaced} /\ loaded' = [loaded EXCEPT ![a] = Replaced]
      /\ mem' = IF loaded[a] = Broken THEN mem ELSE RulesOf(loaded[a])
      /\ unread' = (unread /\ loaded[a] = Broken)
  BY DEF ApplyReplace
<1>2. RulesTypeOK /\ loaded[a] \in FileContents
  BY <1>1 DEF RulesIInv, RulesTypeOK
<1>3. /\ loaded' \in [{Poller, ReloadCall} -> FileContents \cup {Nil, Replaced}]
      /\ loaded'[a] = Replaced /\ \A b \in {Poller, ReloadCall} : b # a => loaded'[b] = loaded[b]
  BY <1>1, <1>2 DEF RulesTypeOK
<1>4. persist = a /\ set = SetIdle /\ (\A b \in {Poller, ReloadCall} : b # a => loaded[b] = Nil)
      /\ (a = Poller => poll.at = "load")
  BY <1>1 DEF RulesIInv, PersistIsHeld, Poller, ReloadCall, Setter
<1>5. RulesTypeOK'
  BY <1>1, <1>2, <1>3, RulesOfFile DEF RulesTypeOK
<1>6. PersistIsHeld' /\ PollIsOfFile' /\ OthersAreOfFile'
  BY <1>1, <1>3, <1>4, MarksDiffer DEF RulesIInv, PersistIsHeld, PollIsOfFile, OthersAreOfFile
<1>7. RulesApplied'
  <2> SUFFICES ASSUME ~moved, ~unread', file # Broken
               PROVE  /\ poll.at # "load" \/ loaded'[Poller] = Replaced => Entry(mem') = Entry(RulesOf(file))
                      /\ poll.at # "load" /\ loaded'[ReloadCall] # Replaced => reg = AliasesOf(mem')
    BY <1>1 DEF RulesApplied
  <2>1. CASE poll.at = "load" /\ a # Poller
    BY <1>3, <1>4, <2>1, MarksDiffer DEF Poller, ReloadCall
  <2>2. CASE poll.at # "load" \/ a = Poller
    <3>1. loaded[a] \in {file, Broken}
      BY <1>1, <1>4, <2>2 DEF RulesIInv, PollIsOfFile, OthersAreOfFile, Poller, ReloadCall
    <3>2. CASE loaded[a] = file
      <4>1. mem' = RulesOf(file)
        BY <1>1, <3>2
      <4>2. poll.at = "load" \/ loaded'[ReloadCall] = Replaced
        BY <1>3, <1>4 DEF Poller, ReloadCall
      <4> QED
        BY <4>1, <4>2
    <3>3. CASE loaded[a] = Broken
      <4>1. ~unread /\ mem' = mem
        BY <1>1, <1>2, <3>3 DEF RulesTypeOK
      <4>2. a # Poller
        BY <3>3, <4>1 DEF RulesIInv, PollIsOfFile
      <4>3. poll.at # "load" /\ loaded'[ReloadCall] = Replaced
        BY <1>3, <2>2, <4>2
      <4>4. Entry(mem) = Entry(RulesOf(file))
        BY <4>1, <4>3 DEF RulesIInv, RulesApplied
      <4> QED
        BY <4>1, <4>3, <4>4
    <3> QED
      BY <3>1, <3>2, <3>3
  <2> QED
    BY <2>1, <2>2
<1> QED
  BY <1>5, <1>6, <1>7 DEF RulesIInv

\* The aliases follow; the poller has then applied the file whose fingerprint it read.
LEMMA AliasesKeeps ==
  ASSUME RulesIInv, NEW a \in {Poller, ReloadCall}, ApplyAliases(a)
  PROVE  RulesIInv'
<1>1. /\ UNCHANGED <<file, mem, inst, set, moved, unread>> /\ loaded[a] = Replaced
      /\ reg' = AliasesOf(mem) /\ loaded' = [loaded EXCEPT ![a] = Nil]
      /\ persist' = IF persist = a THEN Free ELSE persist
      /\ IF a = Poller THEN poll' = [poll EXCEPT !.at = "files"] /\ seen' = poll.read
         ELSE UNCHANGED <<poll, seen>>
  BY DEF ApplyAliases
<1>2. RulesTypeOK /\ Replaced # Nil
  BY MarksDiffer DEF RulesIInv
<1>3. /\ loaded' \in [{Poller, ReloadCall} -> FileContents \cup {Nil, Replaced}]
      /\ loaded'[a] = Nil /\ \A b \in {Poller, ReloadCall} : b # a => loaded'[b] = loaded[b]
  BY <1>1, <1>2 DEF RulesTypeOK
<1>4. persist = a /\ set = SetIdle /\ (\A b \in {Poller, ReloadCall} : b # a => loaded[b] = Nil)
      /\ (a = Poller => poll.at = "load")
  BY <1>1, <1>2 DEF RulesIInv, PersistIsHeld, Poller, ReloadCall, Setter
<1>5. /\ poll' \in [at : {"tick", "load", "files"}, read : FileContents]
      /\ a = Poller => poll'.at = "files" /\ seen' = poll.read
      /\ a # Poller => poll' = poll /\ seen' = seen
  BY <1>1, <1>2 DEF RulesTypeOK
<1>6. RulesTypeOK'
  BY <1>1, <1>2, <1>3, <1>5 DEF RulesTypeOK
<1>7. PersistIsHeld'
  BY <1>1, <1>3, <1>4 DEF PersistIsHeld
<1>8. PollIsOfFile' /\ OthersAreOfFile'
  BY <1>1, <1>3, <1>4, <1>5, MarksDiffer DEF RulesIInv, PollIsOfFile, OthersAreOfFile, Poller, ReloadCall
<1>9. RulesApplied'
  <2> SUFFICES ASSUME ~moved, ~unread, file # Broken
               PROVE  /\ poll'.at # "load" \/ loaded'[Poller] = Replaced => Entry(mem) = Entry(RulesOf(file))
                      /\ poll'.at # "load" /\ loaded'[ReloadCall] # Replaced => reg' = AliasesOf(mem)
    BY <1>1 DEF RulesApplied
  <2>1. CASE a = Poller
    BY <1>1, <1>2, <1>3, <1>4, <2>1 DEF RulesIInv, RulesApplied
  <2>2. CASE a # Poller
    <3>1. poll' = poll /\ a = ReloadCall /\ loaded[Poller] = Nil
      BY <1>4, <1>5, <2>2
    <3> QED
      BY <1>1, <1>2, <1>3, <2>2, <3>1 DEF RulesIInv, RulesApplied
  <2> QED
    BY <2>1, <2>2
<1> QED
  BY <1>6, <1>7, <1>8, <1>9 DEF RulesIInv

\* A server is removed by the poller only when its file is gone; otherwise its rules stay.
LEMMA PollFilesKeeps ==
  ASSUME RulesIInv, PollFiles
  PROVE  RulesIInv'
<1>1. /\ UNCHANGED <<file, persist, seen, loaded, set, moved, unread>>
      /\ poll.at = "files" /\ poll' = [poll EXCEPT !.at = "tick"]
      /\ \/ file = Gone /\ mem' = Nil /\ reg' = AliasesOf(Nil)
         \/ UNCHANGED <<mem, reg>>
      /\ inst' = inst \/ inst' = NoInstall \/ inst' = [at |-> "connecting"]
  BY DEF PollFiles, DetachRules
<1>2. RulesTypeOK
  BY DEF RulesIInv
<1>3. poll' \in [at : {"tick", "load", "files"}, read : FileContents] /\ poll'.at = "tick"
  BY <1>1, <1>2 DEF RulesTypeOK
<1>4. mem' \in Contents \cup {Nil}
  BY <1>1, <1>2 DEF RulesTypeOK
<1>5. inst' = NoInstall \/ inst' = [at |-> "connecting"] \/ inst' \in [at : {"adding"}, rules : Contents \cup {Nil}]
  BY <1>1, <1>2 DEF RulesTypeOK
<1>6. RulesTypeOK'
  BY <1>1, <1>2, <1>3, <1>4, <1>5 DEF RulesTypeOK
<1>7. PersistIsHeld' /\ PollIsOfFile' /\ OthersAreOfFile'
  BY <1>1, <1>3 DEF RulesIInv, PersistIsHeld, PollIsOfFile, OthersAreOfFile, Edited, Saved
<1>8. RulesApplied'
  <2>1. CASE file = Gone /\ mem' = Nil /\ reg' = AliasesOf(Nil)
    BY <1>1, <2>1, RulesOfFile DEF RulesApplied
  <2>2. CASE UNCHANGED <<mem, reg>>
    BY <1>1, <2>2 DEF RulesIInv, RulesApplied, AliasesOf
  <2> QED
    BY <1>1, <2>1, <2>2
<1> QED
  BY <1>6, <1>7, <1>8 DEF RulesIInv

\* An install leaves the rules alone, or seeds what the poller then no longer vouches for.
LEMMA InstallKeeps ==
  ASSUME RulesIInv, Install
  PROVE  RulesIInv'
<1>1. /\ UNCHANGED <<file, persist, poll, seen, loaded, set, unread>>
      /\ \/ inst.at = "adding" /\ mem' = inst.rules /\ moved' = TRUE
         \/ mem' = mem /\ moved' = moved
      /\ reg' = AliasesOf(mem') /\ inst' = NoInstall
  <2> DEFINE seeds == inst.at = "adding" /\ mem = Nil /\ inst.rules # Nil
  <2>1. /\ mem' = IF seeds THEN inst.rules ELSE mem
        /\ moved' = (moved \/ seeds)
    BY DEF Install
  <2>2. moved \in BOOLEAN
    BY DEF RulesIInv, RulesTypeOK
  <2>3. CASE seeds
    BY <2>1, <2>2, <2>3 DEF Install
  <2>4. CASE ~seeds
    BY <2>1, <2>2, <2>4 DEF Install
  <2> QED
    BY <2>3, <2>4
<1>2. RulesTypeOK
  BY DEF RulesIInv
<1>3. mem' \in Contents \cup {Nil} /\ moved' \in BOOLEAN
  <2>1. inst.at = "adding" => inst.rules \in Contents \cup {Nil}
    BY <1>2 DEF RulesTypeOK, NoInstall
  <2> QED
    BY <1>1, <1>2, <2>1 DEF RulesTypeOK
<1>4. RulesTypeOK'
  BY <1>1, <1>2, <1>3 DEF RulesTypeOK
<1>5. PersistIsHeld' /\ PollIsOfFile' /\ OthersAreOfFile'
  BY <1>1 DEF RulesIInv, PersistIsHeld, PollIsOfFile, OthersAreOfFile, Edited, Saved
<1>6. RulesApplied'
  BY <1>1 DEF RulesIInv, RulesApplied
<1> QED
  BY <1>4, <1>5, <1>6 DEF RulesIInv

\* What a step does that writes the file, and so leaves the poller to find that out.
Writes ==
    /\ UNCHANGED <<persist, poll, seen, loaded, unread>> /\ moved' = TRUE
    /\ file' \in FileContents /\ mem' \in Contents \cup {Nil}
    /\ \/ set' = set
       \/ set # SetIdle /\ set' = [set EXCEPT !.at = "publish"]
    /\ inst' = inst \/ inst' = NoInstall \/ inst' \in [at : {"adding"}, rules : Contents \cup {Nil}]

\* A step that writes the file keeps who holds persistMu.
LEMMA WritesKeep ==
  ASSUME RulesIInv, Writes
  PROVE  RulesIInv'
<1>1. RulesTypeOK /\ PersistIsHeld
  BY DEF RulesIInv
<1>2. \/ set' = SetIdle
      \/ set' \in [at : {"check", "rename", "publish"}, tool : Tools, rule : Rules, base : Contents, left : Nat]
  BY <1>1 DEF Writes, RulesTypeOK
<1>3. set' # SetIdle => set # SetIdle
  BY DEF Writes
<1>4. RulesTypeOK'
  BY <1>1, <1>2 DEF RulesTypeOK, Writes
<1>5. PersistIsHeld'
  BY <1>1, <1>3 DEF PersistIsHeld, Writes
<1> QED
  BY <1>4, <1>5 DEF RulesIInv, PollIsOfFile, OthersAreOfFile, RulesApplied, Writes

\* Adding and removing by an agent, and editing by hand, write the file.
LEMMA FileIsWritten ==
  ASSUME RulesIInv,
         \/ \E content \in Written : AddServerFromAgent(content)
         \/ RemoveServerFromAgent
         \/ \E content \in Written \cup {Gone, Broken} : EditByHand(content)
         \/ SetRename
  PROVE  Writes
<1>1. RulesTypeOK /\ mem \in Contents \cup {Nil} /\ Written \subseteq FileContents /\ Gone \in FileContents
      /\ Broken \in FileContents
  BY RulesAssumption DEF RulesIInv, RulesTypeOK, FileContents
<1>2. ASSUME NEW content \in Written, AddServerFromAgent(content)
      PROVE  Writes
  <2>1. inst' = [at |-> "adding", rules |-> RulesOf(content)] /\ RulesOf(content) \in Contents \cup {Nil}
    BY <1>1, <1>2, RulesOfFile DEF AddServerFromAgent
  <2>2. inst' \in [at : {"adding"}, rules : Contents \cup {Nil}]
    BY <2>1
  <2> QED
    BY <1>1, <1>2, <2>2 DEF Writes, AddServerFromAgent
<1>3. CASE RemoveServerFromAgent
  BY <1>1, <1>3 DEF Writes, RemoveServerFromAgent, DetachRules
<1>4. ASSUME NEW content \in Written \cup {Gone, Broken}, EditByHand(content)
      PROVE  Writes
  BY <1>1, <1>4 DEF Writes, EditByHand
<1>5. CASE SetRename
  <2>1. set # SetIdle
    BY <1>5 DEF SetRename, SetIdle
  <2> QED
    BY <1>1, <1>5, <2>1, EditedIsContents DEF Writes, SetRename, FileContents
<1> QED
  BY <1>2, <1>3, <1>4, <1>5

\* A save reads the file under persistMu.
LEMMA ReadKeeps ==
  ASSUME RulesIInv, NEW t \in Tools, NEW r \in Rules, SetRead(t, r)
  PROVE  RulesIInv'
<1>1. /\ UNCHANGED <<file, mem, reg, inst, poll, seen, loaded, moved, unread>> /\ persist = Free /\ set = SetIdle
      /\ \/ UNCHANGED <<set, persist>>
         \/ /\ file \notin {Gone, Broken} /\ persist' = Setter
            /\ set' = [at |-> "check", tool |-> t, rule |-> r, base |-> file, left |-> EditAttempts]
  BY DEF SetRead
<1>2. CASE UNCHANGED <<set, persist>>
  BY <1>1, <1>2
  DEF RulesIInv, RulesTypeOK, PersistIsHeld, PollIsOfFile, OthersAreOfFile, RulesApplied, Edited, Saved, AliasesOf
<1>3. CASE /\ file \notin {Gone, Broken} /\ persist' = Setter
           /\ set' = [at |-> "check", tool |-> t, rule |-> r, base |-> file, left |-> EditAttempts]
  <2>1. \A a \in {Poller, ReloadCall} : loaded[a] = Nil
    BY <1>1 DEF RulesIInv, PersistIsHeld, Free, Poller, ReloadCall
  <2>2. set' \in [at : {"check", "rename", "publish"}, tool : Tools, rule : Rules, base : Contents, left : Nat]
    BY <1>1, <1>3, RulesAssumption DEF RulesIInv, RulesTypeOK, FileContents
  <2>3. RulesTypeOK'
    BY <1>1, <2>2 DEF RulesIInv, RulesTypeOK
  <2>4. set'.base = file /\ set'.at = "check"
    BY <1>3
  <2>5. PersistIsHeld' /\ PollIsOfFile' /\ OthersAreOfFile'
    BY <1>1, <1>3, <2>1, <2>4 DEF RulesIInv, PersistIsHeld, PollIsOfFile, OthersAreOfFile
  <2>6. RulesApplied'
    BY <1>1 DEF RulesIInv, RulesApplied, AliasesOf
  <2> QED
    BY <2>3, <2>5, <2>6 DEF RulesIInv
<1> QED
  BY <1>1, <1>2, <1>3

\* A save that finds the file as it was goes on; on a file not written since it was loaded it
\* goes straight to memory only with what the file holds.
LEMMA CheckKeeps ==
  ASSUME RulesIInv, SetCheck
  PROVE  RulesIInv'
<1>1. UNCHANGED <<file, mem, reg, inst, poll, seen, loaded, moved, unread>> /\ set.at = "check" /\ set # SetIdle
  BY DEF SetCheck, SetIdle
<1>2. RulesTypeOK /\ persist = Setter
  BY <1>1 DEF RulesIInv, PersistIsHeld
<1>3. set \in [at : {"check", "rename", "publish"}, tool : Tools, rule : Rules, base : Contents, left : Nat]
  BY <1>1, <1>2 DEF RulesTypeOK
<1>4. \/ /\ set' = [set EXCEPT !.at = "publish"] /\ persist' = persist /\ Edited = set.base
      \/ /\ set' = [set EXCEPT !.at = "rename"] /\ persist' = persist
      \/ /\ set' = [set EXCEPT !.base = file, !.left = @ - 1] /\ persist' = persist
         /\ file # set.base /\ set.left > 1 /\ file \notin {Gone, Broken}
      \/ set' = SetIdle /\ persist' = Free
  BY DEF SetCheck
<1>5. RulesTypeOK' /\ (set' # SetIdle => persist' = Setter)
  <2>1. \/ set' = SetIdle
        \/ set' \in [at : {"check", "rename", "publish"}, tool : Tools, rule : Rules, base : Contents, left : Nat]
    <3>1. CASE set' = [set EXCEPT !.base = file, !.left = @ - 1]
               /\ set.left > 1 /\ file \notin {Gone, Broken}
      <4>1. file \in Contents /\ set.left - 1 \in Nat
        BY <1>2, <1>3, <3>1 DEF RulesTypeOK, FileContents
      <4> QED
        BY <1>3, <3>1, <4>1
    <3> QED
      BY <1>3, <1>4, <3>1
  <2> QED
    BY <1>1, <1>2, <1>4, <2>1 DEF RulesTypeOK
<1>6. \A a \in {Poller, ReloadCall} : loaded[a] = Nil
  BY <1>2 DEF RulesIInv, PersistIsHeld, Poller, ReloadCall, Setter
<1>7. PersistIsHeld' /\ PollIsOfFile'
  BY <1>1, <1>5, <1>6 DEF RulesIInv, PersistIsHeld, PollIsOfFile
<1>8. OthersAreOfFile'
  <2> SUFFICES ASSUME ~moved, poll.at # "load", set' # SetIdle
               PROVE  set'.base = file /\ (set'.at = "publish" => Edited' = file)
    BY <1>1, <1>6 DEF OthersAreOfFile
  <2>1. set.base = file
    BY <1>1 DEF RulesIInv, OthersAreOfFile
  <2>2. CASE set' = [set EXCEPT !.at = "publish"] /\ Edited = set.base
    <3>1. set'.base = set.base /\ set'.tool = set.tool /\ set'.rule = set.rule
      BY <1>3, <2>2
    <3>2. Edited' = Edited
      BY <3>1 DEF Edited, Saved
    <3> QED
      BY <2>1, <2>2, <3>1, <3>2
  <2>3. CASE set' = [set EXCEPT !.at = "rename"]
    BY <1>3, <2>1, <2>3
  <2> QED
    BY <1>4, <2>1, <2>2, <2>3
<1>9. RulesApplied'
  BY <1>1 DEF RulesIInv, RulesApplied, AliasesOf
<1> QED
  BY <1>5, <1>7, <1>8, <1>9 DEF RulesIInv

\* A save publishes in memory what it wrote; on a file that was not written, what is there already.
LEMMA SetPublishKeeps ==
  ASSUME RulesIInv, SetPublish
  PROVE  RulesIInv'
<1>1. /\ UNCHANGED <<file, reg, inst, poll, seen, loaded, moved, unread>> /\ set.at = "publish" /\ set # SetIdle
      /\ mem' = IF mem = Nil /\ Saved = NoRule THEN Nil ELSE [Entry(mem) EXCEPT ![set.tool] = Saved]
      /\ set' = SetIdle /\ persist' = Free
  BY DEF SetPublish, SetIdle
<1>2. RulesTypeOK /\ persist = Setter
  BY <1>1 DEF RulesIInv, PersistIsHeld
<1>3. \A a \in {Poller, ReloadCall} : loaded[a] = Nil
  BY <1>2 DEF RulesIInv, PersistIsHeld, Poller, ReloadCall, Setter
<1>4. Saved \in Rules /\ Edited[set.tool] = Saved /\ set.tool \in Tools /\ Edited \in Contents
  BY <1>1, <1>2, EditedIsContents
<1>5. Entry(mem) \in Contents
  BY <1>2, RulesOfFile, MarksDiffer DEF RulesTypeOK
<1>6. [Entry(mem) EXCEPT ![set.tool] = Saved] \in Contents
  BY <1>4, <1>5 DEF Contents
<1>7. RulesTypeOK'
  BY <1>1, <1>2, <1>6 DEF RulesTypeOK
<1>8. PersistIsHeld' /\ PollIsOfFile' /\ OthersAreOfFile'
  BY <1>1, <1>3 DEF RulesIInv, PersistIsHeld, PollIsOfFile, OthersAreOfFile
<1>9. RulesApplied'
  <2> SUFFICES ASSUME ~moved, ~unread, file # Broken, poll.at # "load"
               PROVE  Entry(mem') = Entry(RulesOf(file)) /\ AliasesOf(mem') = AliasesOf(mem)
    BY <1>1, <1>3, MarksDiffer DEF RulesIInv, RulesApplied
  <2>1. Entry(mem) = Entry(RulesOf(file))
    BY DEF RulesIInv, RulesApplied
  <2>2. Edited = file
    BY <1>1 DEF RulesIInv, OthersAreOfFile
  <2>3. Entry(mem) = file
    BY <1>4, <2>1, <2>2, RulesOfFile
  <2>4. [Entry(mem) EXCEPT ![set.tool] = Saved] = file
    BY <1>4, <1>5, <2>2, <2>3 DEF Contents
  <2>5. Entry(mem') = file
    BY <1>1, <1>4, <2>2, <2>3, <2>4, RulesOfFile
  <2> QED
    BY <2>1, <2>3, <2>5 DEF AliasesOf
<1> QED
  BY <1>7, <1>8, <1>9 DEF RulesIInv

\* Start-up has applied the file, and the poller applies it once more.
LEMMA RulesInitKeeps ==
  ASSUME RulesInit
  PROVE  RulesIInv
<1>1. file \in Contents /\ file \in FileContents
  BY RulesAssumption DEF RulesInit, FileContents
<1>2. RulesTypeOK
  BY <1>1, RulesOfFile DEF RulesInit, RulesTypeOK
<1> QED
  BY <1>2, MarksDiffer
  DEF RulesInit, RulesIInv, PersistIsHeld, PollIsOfFile, OthersAreOfFile, RulesApplied, Poller, ReloadCall

\* Every step keeps the invariant.
LEMMA RulesStepKeeps ==
  ASSUME RulesIInv, [RulesNext]_rulesVars
  PROVE  RulesIInv'
<1>1. CASE UNCHANGED rulesVars
  BY <1>1 DEF rulesVars, RulesIInv, RulesTypeOK, PersistIsHeld, PollIsOfFile, OthersAreOfFile, RulesApplied,
    Edited, Saved, AliasesOf
<1>2. CASE PollFingerprint
  BY <1>2, FingerprintKeeps
<1>3. CASE PollFiles
  BY <1>3, PollFilesKeeps
<1>4. CASE Install
  BY <1>4, InstallKeeps
<1>5. CASE \/ \E content \in Written : AddServerFromAgent(content)
           \/ RemoveServerFromAgent
           \/ \E content \in Written \cup {Gone, Broken} : EditByHand(content)
           \/ SetRename
  BY <1>5, FileIsWritten, WritesKeep
<1>6. ASSUME NEW a \in {Poller, ReloadCall}, ApplyLoad(a) \/ LoadFails(a) \/ ApplyReplace(a) \/ ApplyAliases(a)
      PROVE  RulesIInv'
  BY <1>6, LoadKeeps, FailedLoadKeeps, ReplaceKeeps, AliasesKeeps
<1>7. ASSUME NEW t \in Tools, NEW r \in Rules, SetRead(t, r)
      PROVE  RulesIInv'
  BY <1>7, ReadKeeps
<1>8. CASE SetCheck
  BY <1>8, CheckKeeps
<1>9. CASE SetPublish
  BY <1>9, SetPublishKeeps
<1> QED
  BY <1>1, <1>2, <1>3, <1>4, <1>5, <1>6, <1>7, <1>8, <1>9 DEF RulesNext

\* Once the poller has seen the file as it is and nothing is under way, the rules applied and the
\* aliases registered are the file's, for any tools, rules and edits: a reload that read the file
\* before a save undoes nothing, and no save undoes a reload.  What the poller could not read is left
\* to the next reload that can.
THEOREM RulesAreTheFiles == RulesSpec => []RulesFollowFile
<1>1. RulesInit => RulesIInv
  BY RulesInitKeeps
<1>2. RulesIInv /\ [RulesNext]_rulesVars => RulesIInv'
  BY RulesStepKeeps
<1>3. RulesIInv => RulesFollowFile
  <2> SUFFICES ASSUME RulesIInv, Settled, ~moved, ~unread, file # Broken
               PROVE  FileIsApplied
    BY DEF RulesFollowFile
  <2>1. Nil # Replaced
    BY MarksDiffer
  <2> QED
    BY <2>1 DEF RulesIInv, RulesApplied, Settled, FileIsApplied
<1> QED
  BY <1>1, <1>2, <1>3, PTL DEF RulesSpec

-----------------------------------------------------------------------------
(* Tool-change delivery: the inductive invariant *)

\* The one stream the proxy reads is the one its run goroutine started and waits for.
StreamIsActive ==
    /\ \A c \in Conns : conn[c].client # "none" => c = active
    /\ active \in Conns <=> run \in {"wait", "stop", "quit"}

\* A stream that writes to the listens holds their lock.
WalkHoldsLock == \A c \in Conns : conn[c].client = "walk" => lock = "stream" /\ modern

\* What a modern agent is owed goes to listens it was acknowledged, and those are registered, but
\* for the one whose acknowledgement the reader is about to register.
OwedAreListens ==
    /\ modern => owed \subseteq acked
    /\ lock # "reader" => acked \subseteq ids
    /\ \A l, m \in acked \ ids : l = m

\* The eviction loop drops a session of the store, and the store waits for it.
EvictionHolds ==
    /\ evict[1] = "checked" => evict[2] = cur
    /\ evict[1] # "idle" => evict[2] \in Sessions

DeliveryIInv == TypeOK /\ StreamIsActive /\ WalkHoldsLock /\ OwedAreListens /\ EvictionHolds /\ OwedIsHeld

\* A connection's part of Held.
Bears(k, ears, rest) ==
    \/ k.srv = "open" /\ k.queue > 0
    \/ ~ClientGone(k) /\ k.wire > 0
    \/ k.client = "forward"
    \/ k.client = "walk" /\ ears \subseteq rest

\* A step that leaves notices and listens where they are.
KeepsNotices ==
    /\ conn' = conn /\ lost' = lost /\ UNCHANGED <<modern, ids, lock, todo, acked, owed>>
    /\ (closing => closing') /\ (broken => broken')
    /\ \A s \in Sessions : box'[s].pending = box[s].pending /\ box'[s].closed = box[s].closed

\* A step that moves one connection, with what it bears unless the loss is known.
Moves(c, new) ==
    /\ c \in Conns /\ new \in Conn /\ Update(c, new)
    /\ UNCHANGED <<modern, ids, todo, acked, owed, box>>
    /\ (lost => lost') /\ (closing => closing') /\ (broken => broken')
    /\ Bears(conn[c], owed, todo) => Bears(new, owed, todo) \/ Excused'

\* The types of what a notice passes through.
LEMMA DeliveryTypes ==
  ASSUME TypeOK
  PROVE  /\ \A c \in Conns : conn[c] \in Conn
         /\ \A s \in Sessions : box[s] \in Box
         /\ NoConn \in Conn
  BY DeliveryAssumption DEF TypeOK, NoConn, Conn

\* What may still happen stays a count.
LEMMA HappensKeeps ==
  ASSUME TypeOK, NEW e \in Events, Happens(e)
  PROVE  left' \in [Events -> Nat]
<1>1. left \in [Events -> Nat] /\ left[e] > 0
  BY DEF TypeOK, Happens
<1>2. left[e] - 1 \in Nat
  BY <1>1
<1> QED
  BY <1>1, <1>2 DEF Happens

\* What is held is pending in a session or borne by a connection.
LEMMA HeldIsBorne ==
  Held <=> \/ \E s \in Sessions : box[s].pending /\ ~box[s].closed
           \/ \E c \in Conns : Bears(conn[c], owed, todo)
  BY DEF Held, Bears

\* An update touches one connection, and forgets it only when both its ends are gone.
LEMMA UpdateOfOne ==
  ASSUME TypeOK, NEW c \in Conns, NEW new \in Conn, Update(c, new)
  PROVE  /\ conn' \in [Conns -> Conn]
         /\ \A d \in Conns : d # c => conn'[d] = conn[d]
         /\ \/ conn'[c] = new
            \/ conn'[c] = NoConn /\ new.client = "none" /\ new.srv = "none"
         /\ conn'[c].client = new.client /\ conn'[c].srv = new.srv
<1>1. conn \in [Conns -> Conn] /\ NoConn \in Conn
  BY DeliveryTypes DEF TypeOK
<1>2. NoConn.client = "none" /\ NoConn.srv = "none"
  BY DEF NoConn
<1> QED
  BY <1>1, <1>2 DEF Update

\* Nothing is lost by a step that leaves notices alone.
LEMMA KeepsNoticesKeeps ==
  ASSUME DeliveryIInv, KeepsNotices, TypeOK', StreamIsActive', EvictionHolds'
  PROVE  DeliveryIInv'
<1>1. WalkHoldsLock' /\ OwedAreListens'
  BY DEF DeliveryIInv, KeepsNotices, WalkHoldsLock, OwedAreListens
<1>2. Held => Held'
  BY DEF Held, KeepsNotices, ClientGone
<1>3. OwedIsHeld'
  BY <1>2 DEF DeliveryIInv, KeepsNotices, OwedIsHeld, Excused
<1> QED
  BY <1>1, <1>3 DEF DeliveryIInv

\* A notice that moves along its connection is still held.
LEMMA MovesKeepOwed ==
  ASSUME DeliveryIInv, NEW c, NEW new, Moves(c, new)
  PROVE  OwedIsHeld'
<1>1. /\ c \in Conns /\ new \in Conn /\ TypeOK
      /\ \A d \in Conns : d # c => conn'[d] = conn[d]
      /\ \/ conn'[c] = new
         \/ conn'[c] = NoConn /\ new.client = "none" /\ new.srv = "none"
  BY UpdateOfOne DEF DeliveryIInv, Moves
<1>2. SUFFICES ASSUME owed' # {}, ~Excused'
               PROVE  Held'
  BY DEF OwedIsHeld
<1>3. owed # {} /\ ~Excused
  BY <1>2 DEF Moves, Excused
<1>4. Held
  BY <1>3 DEF DeliveryIInv, OwedIsHeld
<1>5. CASE \E s \in Sessions : box[s].pending /\ ~box[s].closed
  BY <1>5 DEF Held, Moves
<1>6. CASE \E d \in Conns : Bears(conn[d], owed, todo)
  <2>1. PICK d \in Conns : Bears(conn[d], owed, todo)
    BY <1>6
  <2>2. CASE d # c
    BY <1>1, <2>1, <2>2 DEF Held, Bears, Moves, ClientGone
  <2>3. CASE d = c
    <3>1. Bears(new, owed, todo)
      BY <1>2, <2>1, <2>3 DEF Moves
    <3>2. new.client # "none" \/ new.srv # "none"
      BY <3>1 DEF Bears, ClientGone
    <3>3. conn'[c] = new
      BY <1>1, <3>2
    <3> QED
      BY <1>1, <3>1, <3>3 DEF Held, Bears, Moves, ClientGone
  <2> QED
    BY <2>2, <2>3
<1> QED
  BY <1>4, <1>5, <1>6, HeldIsBorne

-----------------------------------------------------------------------------
(* Tool-change delivery: the proxy's steps *)

\* What a session's creation leaves alone.
LEMMA AcquireKeeps ==
  ASSUME TypeOK, EvictionHolds, NEW ready \in BOOLEAN, Acquire(ready), evict' = evict
  PROVE  /\ cur' \in 0 .. MaxSessions /\ box' \in [Sessions -> Box] /\ EvictionHolds'
         /\ \A s \in Sessions : box'[s].pending = box[s].pending /\ box'[s].closed = box[s].closed
<1>1. PICK s \in Sessions : cur' = s /\ box' = [box EXCEPT ![s].made = TRUE, ![s].ready = @ \/ ready]
  BY DEF Acquire
<1>2. box \in [Sessions -> Box] /\ MaxSessions \in Nat
  BY DeliveryAssumption DEF TypeOK
<1>3. [box[s] EXCEPT !.made = TRUE, !.ready = @ \/ ready] \in Box
  BY <1>2 DEF Box
<1>4. box' = [box EXCEPT ![s] = [box[s] EXCEPT !.made = TRUE, !.ready = @ \/ ready]]
  BY <1>1, <1>2 DEF Box
<1>5. box' \in [Sessions -> Box]
  BY <1>2, <1>3, <1>4
<1>6. \A t \in Sessions : box'[t].pending = box[t].pending /\ box'[t].closed = box[t].closed
  BY <1>2, <1>4 DEF Box
<1>7. EvictionHolds'
  BY DEF EvictionHolds, Acquire
<1> QED
  BY <1>1, <1>2, <1>5, <1>6, <1>7 DEF Sessions

\* The forwards: relinking, handshakes, binds.
LEMMA ForwardsKeep ==
  ASSUME DeliveryIInv,
         \/ Relink
         \/ \E b \in Binders, g \in Gens : Handshake(b, g)
         \/ \E b \in Binders : RequestForgotten(b) \/ BindStore(b) \/ Signal(b)
  PROVE  DeliveryIInv'
<1> USE DeliveryAssumption
<1>1. TypeOK /\ EvictionHolds
  BY DEF DeliveryIInv
<1>2. CASE Relink
  <2>1. left' \in [Events -> Nat] /\ link' \in Gens /\ valid' \subseteq Gens
    BY <1>1, <1>2, HappensKeeps DEF TypeOK, Relink, Gens, Events
  <2>2. TypeOK'
    BY <1>1, <1>2, <2>1 DEF TypeOK, Relink, runner, subs, ghost
  <2> QED
    BY <1>2, <2>2, KeepsNoticesKeeps
    DEF Relink, runner, subs, ghost, KeepsNotices, DeliveryIInv, StreamIsActive, EvictionHolds
<1>3. ASSUME NEW b \in Binders, NEW g \in Gens, Handshake(b, g)
      PROVE  DeliveryIInv'
  <2>1. CASE Acquire(TRUE)
    <3>1. /\ cur' \in 0 .. MaxSessions /\ box' \in [Sessions -> Box] /\ EvictionHolds'
          /\ \A s \in Sessions : box'[s].pending = box[s].pending /\ box'[s].closed = box[s].closed
      BY <1>1, <1>3, <2>1, AcquireKeeps DEF Handshake
    <3>2. TypeOK'
      BY <1>1, <1>3, <3>1 DEF TypeOK, Handshake, Gens, runner, subs, ghost
    <3> QED
      BY <1>3, <3>1, <3>2, KeepsNoticesKeeps
      DEF Handshake, runner, subs, ghost, KeepsNotices, DeliveryIInv, StreamIsActive
  <2>2. CASE UNCHANGED <<cur, box>>
    <3>1. TypeOK'
      BY <1>1, <1>3, <2>2 DEF TypeOK, Handshake, Gens, runner, subs, ghost
    <3> QED
      BY <1>3, <2>2, <3>1, KeepsNoticesKeeps
      DEF Handshake, runner, subs, ghost, KeepsNotices, DeliveryIInv, StreamIsActive, EvictionHolds
  <2> QED
    BY <1>3, <2>1, <2>2 DEF Handshake
<1>4. ASSUME NEW b \in Binders, RequestForgotten(b)
      PROVE  DeliveryIInv'
  <2>1. /\ cur' \in 0 .. MaxSessions /\ box' \in [Sessions -> Box] /\ EvictionHolds'
        /\ \A s \in Sessions : box'[s].pending = box[s].pending /\ box'[s].closed = box[s].closed
    BY <1>1, <1>4, AcquireKeeps DEF RequestForgotten
  <2>2. TypeOK'
    BY <1>1, <1>4, <2>1 DEF TypeOK, RequestForgotten, proxy, runner, subs, ghost
  <2> QED
    BY <1>4, <2>1, <2>2, KeepsNoticesKeeps
    DEF RequestForgotten, proxy, runner, subs, ghost, KeepsNotices, DeliveryIInv, StreamIsActive
<1>5. ASSUME NEW b \in Binders, BindStore(b) \/ Signal(b)
      PROVE  DeliveryIInv'
  <2>1. /\ binder' \in [Binders -> [pc : {"idle", "shaken", "stored", "done"}, gen : 0 .. MaxGen]]
        /\ desired' \in 0 .. MaxGen /\ wake' \in BOOLEAN
    <3>1. binder[b] \in [pc : {"idle", "shaken", "stored", "done"}, gen : 0 .. MaxGen]
      BY <1>1 DEF TypeOK
    <3>2. \A pc \in {"done", "stored"} :
            [binder[b] EXCEPT !.pc = pc] \in [pc : {"idle", "shaken", "stored", "done"}, gen : 0 .. MaxGen]
      BY <3>1
    <3>3. \E pc \in {"done", "stored"} : binder' = [binder EXCEPT ![b] = [binder[b] EXCEPT !.pc = pc]]
      BY <1>5 DEF BindStore, Signal
    <3>4. binder' \in [Binders -> [pc : {"idle", "shaken", "stored", "done"}, gen : 0 .. MaxGen]]
      BY <1>1, <3>2, <3>3 DEF TypeOK
    <3>5. desired' \in 0 .. MaxGen /\ wake' \in BOOLEAN
      BY <1>1, <1>5, <3>1 DEF TypeOK, BindStore, Signal
    <3> QED
      BY <3>4, <3>5
  <2>2. TypeOK'
    BY <1>1, <1>5, <2>1 DEF TypeOK, BindStore, Signal, runner, subs, store, ghost
  <2> QED
    BY <1>5, <2>2, KeepsNoticesKeeps
    DEF BindStore, Signal, runner, subs, store, ghost, KeepsNotices, DeliveryIInv, StreamIsActive, EvictionHolds
<1> QED
  BY <1>2, <1>3, <1>4, <1>5

\* The run goroutine while it has no stream, and the end of the proxy.
LEMMA RunKeeps ==
  ASSUME DeliveryIInv, NotBound \/ Woken \/ DelayEnds \/ Quits \/ Close
  PROVE  DeliveryIInv'
<1>1. TypeOK /\ StreamIsActive
  BY DEF DeliveryIInv
<1>2. TypeOK'
  <2>1. CASE NotBound \/ Woken \/ DelayEnds \/ Quits
    BY <1>1, <2>1 DEF TypeOK, NotBound, Woken, DelayEnds, Quits, proxy, subs, store, ghost
  <2>2. CASE Close
    <3>1. left' \in [Events -> Nat]
      BY <1>1, <2>2, HappensKeeps DEF Close, Events
    <3> QED
      BY <1>1, <2>2, <3>1 DEF TypeOK, Close, proxy, subs, store, ghost
  <2> QED
    BY <2>1, <2>2
<1>3. StreamIsActive'
  BY <1>1 DEF StreamIsActive, NotBound, Woken, DelayEnds, Quits, Close
<1>4. EvictionHolds' /\ KeepsNotices
  BY DEF NotBound, Woken, DelayEnds, Quits, Close, proxy, subs, store, ghost, KeepsNotices, DeliveryIInv, EvictionHolds
<1> QED
  BY <1>2, <1>3, <1>4, KeepsNoticesKeeps

-----------------------------------------------------------------------------
(* Tool-change delivery: the stream *)

\* What the run goroutine starts, cancels and sees end.
LEMMA StreamKeeps ==
  ASSUME DeliveryIInv, (\E c \in Conns : Start(c)) \/ Rebind \/ WaitCancelled \/ StreamDone
  PROVE  DeliveryIInv'
<1> USE DeliveryAssumption
<1>1. TypeOK /\ StreamIsActive /\ WalkHoldsLock /\ OwedAreListens /\ EvictionHolds
  BY DEF DeliveryIInv
<1>2. ASSUME NEW c \in Conns, Start(c)
      PROVE  DeliveryIInv'
  <2> DEFINE new == [NoConn EXCEPT !.client = "dial", !.srv = "req", !.gen = desired]
  <2>1. new \in Conn /\ new.client = "dial" /\ new.srv = "req"
    <3>1. NoConn \in Conn /\ desired \in 0 .. MaxGen
      BY <1>1, DeliveryTypes DEF TypeOK
    <3> QED
      BY <3>1 DEF Conn
  <2>2. Moves(c, new)
    BY <1>2, <2>1 DEF Start, Moves, Bears, NoConn, proxy, subs, store, ghost, ClientGone
  <2>3. /\ conn' \in [Conns -> Conn] /\ conn'[c] = new
        /\ \A d \in Conns : d # c => conn'[d] = conn[d]
    BY <1>1, <1>2, <2>1, UpdateOfOne DEF Start
  <2>4. TypeOK'
    BY <1>1, <1>2, <2>3 DEF TypeOK, Start, proxy, subs, store, ghost
  <2>5. StreamIsActive'
    BY <1>1, <1>2, <2>1, <2>3 DEF StreamIsActive, Start, TypeOK
  <2>6. WalkHoldsLock' /\ OwedAreListens' /\ EvictionHolds'
    BY <1>1, <1>2, <2>1, <2>3 DEF WalkHoldsLock, OwedAreListens, EvictionHolds, Start, subs, store, ghost
  <2> QED
    BY <2>2, <2>4, <2>5, <2>6, MovesKeepOwed DEF DeliveryIInv
<1>3. ASSUME NEW pc \in {"stop", "quit"}, Cancel(active, pc), run = "wait", UNCHANGED <<subs, store, ghost, closing>>,
             TypeOK' \/ conn' \notin [Conns -> Conn]
      PROVE  DeliveryIInv'
  <2>1. active \in Conns /\ conn[active] \in Conn
    BY <1>1, <1>3 DEF StreamIsActive, TypeOK
  <2> DEFINE new == [conn[active] EXCEPT !.cut = TRUE]
  <2>2. /\ new \in Conn /\ new.client = conn[active].client /\ new.srv = conn[active].srv
        /\ new.queue = conn[active].queue /\ new.wire = conn[active].wire
    BY <2>1 DEF Conn
  <2>3. Moves(active, new)
    BY <1>3, <2>1, <2>2 DEF Cancel, Moves, Bears, subs, store, ghost, ClientGone
  <2>4. /\ conn' \in [Conns -> Conn] /\ conn'[active].client = conn[active].client
        /\ \A d \in Conns : d # active => conn'[d] = conn[d]
    <3>1. Update(active, new)
      BY <2>3 DEF Moves
    <3> HIDE DEF new
    <3> QED
      BY <1>1, <2>1, <2>2, <3>1, UpdateOfOne
  <2>5. StreamIsActive' /\ WalkHoldsLock' /\ OwedAreListens' /\ EvictionHolds'
    BY <1>1, <1>3, <2>4
    DEF StreamIsActive, WalkHoldsLock, OwedAreListens, EvictionHolds, Cancel, subs, store, ghost
  <2> QED
    BY <1>3, <2>3, <2>4, <2>5, MovesKeepOwed DEF DeliveryIInv
<1>4. CASE Rebind
  <2>1. CASE desired # conn[active].gen
    <3>1. Cancel(active, "stop") /\ run = "wait" /\ UNCHANGED <<subs, store, ghost, closing>>
      BY <1>4, <2>1 DEF Rebind, Cancel
    <3>2. TypeOK' \/ conn' \notin [Conns -> Conn]
      BY <1>1, <1>4, <3>1 DEF TypeOK, Rebind, Cancel, subs, store, ghost
    <3> QED
      BY <1>3, <3>1, <3>2
  <2>2. CASE ~(desired # conn[active].gen)
    <3>1. TypeOK'
      BY <1>1, <1>4, <2>2 DEF TypeOK, Rebind, runner, subs, store, ghost
    <3> QED
      BY <1>1, <1>4, <2>2, <3>1, KeepsNoticesKeeps
      DEF Rebind, runner, subs, store, ghost, KeepsNotices, StreamIsActive, EvictionHolds
  <2> QED
    BY <2>1, <2>2
<1>5. CASE WaitCancelled
  <2>1. Cancel(active, "quit") /\ run = "wait" /\ UNCHANGED <<subs, store, ghost, closing>>
    BY <1>5 DEF WaitCancelled, Cancel
  <2>2. TypeOK' \/ conn' \notin [Conns -> Conn]
    BY <1>1, <1>5, <2>1 DEF TypeOK, WaitCancelled, Cancel, proxy, subs, store, ghost
  <2> QED
    BY <1>3, <2>1, <2>2
<1>6. CASE StreamDone
  <2>1. active \in Conns /\ conn[active] \in Conn
    BY <1>1, <1>6 DEF StreamIsActive, TypeOK, StreamDone
  <2> DEFINE new == [conn[active] EXCEPT !.client = "none", !.wire = 0, !.cut = TRUE]
  <2>2. /\ new \in Conn /\ new.client = "none" /\ new.srv = conn[active].srv
        /\ new.queue = conn[active].queue
    BY <2>1 DEF Conn
  <2>3. Moves(active, new)
    BY <1>6, <2>1, <2>2 DEF StreamDone, Moves, Bears, proxy, subs, store, ghost, ClientGone
  <2>4. /\ conn' \in [Conns -> Conn] /\ conn'[active].client = "none"
        /\ \A d \in Conns : d # active => conn'[d] = conn[d]
    <3>1. Update(active, new)
      BY <2>3 DEF Moves
    <3> HIDE DEF new
    <3> QED
      BY <1>1, <2>1, <2>2, <3>1, UpdateOfOne
  <2>5. active' = 0 /\ 0 \notin Conns /\ run' \in {"next", "done", "retry"}
    BY <1>6 DEF StreamDone, AfterDone
  <2>6. TypeOK'
    BY <1>1, <1>6, <2>4, <2>5 DEF TypeOK, StreamDone, proxy, subs, store, ghost
  <2>7. StreamIsActive'
    BY <1>1, <2>4, <2>5 DEF StreamIsActive
  <2>8. WalkHoldsLock' /\ OwedAreListens' /\ EvictionHolds'
    BY <1>1, <1>6, <2>4 DEF WalkHoldsLock, OwedAreListens, EvictionHolds, StreamDone, subs, store, ghost
  <2> QED
    BY <2>3, <2>6, <2>7, <2>8, MovesKeepOwed DEF DeliveryIInv
<1> QED
  BY <1>2, <1>4, <1>5, <1>6

-----------------------------------------------------------------------------
(* Tool-change delivery: the ends of a connection *)

\* An end of a connection that moves what it bears, and nothing else.
LEMMA MovesKeep ==
  ASSUME DeliveryIInv, NEW c \in Conns, NEW new \in Conn, Moves(c, new),
         UNCHANGED <<proxy, runner, subs, store, pub, left>>, lost' \in BOOLEAN,
         new.client = "none" <=> conn[c].client = "none", new.client # "walk"
  PROVE  DeliveryIInv'
<1>1. TypeOK /\ StreamIsActive /\ WalkHoldsLock /\ OwedAreListens /\ EvictionHolds
  BY DEF DeliveryIInv
<1>2. /\ conn' \in [Conns -> Conn] /\ conn'[c].client = new.client
      /\ \A d \in Conns : d # c => conn'[d] = conn[d]
  BY <1>1, UpdateOfOne DEF Moves
<1>3. TypeOK'
  BY <1>1, <1>2 DEF TypeOK, Moves, proxy, runner, subs, store
<1>4. StreamIsActive' /\ WalkHoldsLock' /\ OwedAreListens' /\ EvictionHolds'
  BY <1>1, <1>2 DEF StreamIsActive, WalkHoldsLock, OwedAreListens, EvictionHolds, Moves, runner, subs, store
<1> QED
  BY <1>3, <1>4, MovesKeepOwed DEF DeliveryIInv

\* The client's end ends: what it bore is known to be lost.
LEMMA OverKeeps ==
  ASSUME DeliveryIInv, NEW c \in Conns, Over(c), conn[c].client \notin {"none", "over"},
         UNCHANGED <<proxy, runner, subs, store, pub, acked, owed, left>>
  PROVE  DeliveryIInv'
<1>1. TypeOK /\ conn[c] \in Conn
  BY DEF DeliveryIInv, TypeOK
<1> DEFINE new == [conn[c] EXCEPT !.client = "over"]
<1>2. new \in Conn /\ new.client = "over" /\ new.queue = conn[c].queue /\ new.srv = conn[c].srv
  BY <1>1 DEF Conn
<1>3. lost' \in BOOLEAN /\ Update(c, new) /\ lost' = (lost \/ conn[c].client \in {"forward", "walk"} \/ Carries(conn[c]))
  BY <1>1 DEF Over, TypeOK
<1>4. Bears(conn[c], owed, todo) => lost'
  <2>1. conn[c].queue \in Nat /\ conn[c].wire \in Nat
    BY <1>1, DeliveryAssumption DEF Conn
  <2>2. conn[c].queue > 0 \/ conn[c].wire > 0 => Carries(conn[c])
    BY <2>1 DEF Carries
  <2> QED
    BY <1>3, <2>2 DEF Bears
<1>5. Moves(c, new)
  BY <1>1, <1>2, <1>3, <1>4 DEF Moves, Excused, proxy, runner, subs, store
<1> HIDE DEF new
<1> QED
  BY <1>2, <1>3, <1>5, MovesKeep

\* The consume goroutine, but for its walk over the listens.
LEMMA ConsumeKeeps ==
  ASSUME DeliveryIInv, NEW c \in Conns, Answered(c) \/ ReadNotice(c) \/ StreamEnds(c) \/ ForwardRaw(c)
  PROVE  DeliveryIInv'
<1>1. TypeOK /\ conn[c] \in Conn
  BY DEF DeliveryIInv, TypeOK
<1>2. CASE Over(c) /\ conn[c].client \notin {"none", "over"}
           /\ UNCHANGED <<proxy, runner, subs, store, pub, acked, owed, left>>
  BY <1>2, OverKeeps
<1>3. CASE Answered(c) /\ Update(c, [conn[c] EXCEPT !.client = "read"]) /\ UNCHANGED lost
  <2> DEFINE new == [conn[c] EXCEPT !.client = "read"]
  <2>1. /\ new \in Conn /\ new.client = "read" /\ conn[c].client = "dial"
        /\ Bears(conn[c], owed, todo) => Bears(new, owed, todo)
    BY <1>1, <1>3 DEF Conn, Answered, Bears, ClientGone
  <2>2. Moves(c, new) /\ UNCHANGED <<proxy, runner, subs, store, pub, left>> /\ lost' \in BOOLEAN
    BY <1>1, <1>3, <2>1 DEF Answered, Moves, runner, subs, store, TypeOK
  <2> HIDE DEF new
  <2> QED
    BY <2>1, <2>2, MovesKeep
<1>4. CASE ReadNotice(c)
  <2> DEFINE new == [conn[c] EXCEPT !.client = "forward", !.wire = @ - 1]
  <2>1. new \in Conn /\ new.client = "forward" /\ conn[c].client = "read"
    <3>1. conn[c].wire - 1 \in Nat /\ conn[c].client = "read"
      BY <1>1, <1>4 DEF Conn, ReadNotice
    <3> QED
      BY <1>1, <3>1 DEF Conn
  <2>2. Moves(c, new) /\ UNCHANGED <<proxy, runner, subs, store, pub, left>> /\ lost' \in BOOLEAN
    BY <1>1, <1>4, <2>1 DEF ReadNotice, Moves, Bears, runner, subs, store, ghost, TypeOK
  <2> HIDE DEF new
  <2> QED
    BY <2>1, <2>2, MovesKeep
<1>5. CASE ForwardRaw(c) /\ ~broken
  <2> DEFINE new == [conn[c] EXCEPT !.client = "read"]
  <2>1. new \in Conn /\ new.client = "read" /\ conn[c].client = "forward" /\ Update(c, new)
    BY <1>1, <1>5 DEF Conn, ForwardRaw
  <2>2. /\ conn' \in [Conns -> Conn] /\ conn'[c].client = "read"
        /\ \A d \in Conns : d # c => conn'[d] = conn[d]
    <3> HIDE DEF new
    <3> QED
      BY <1>1, <2>1, UpdateOfOne
  <2>3. owed' = {} /\ lost' = lost /\ UNCHANGED <<proxy, runner, subs, store, pub, acked, left>>
    BY <1>5 DEF ForwardRaw
  <2>4. TypeOK'
    BY <1>1, <2>2, <2>3 DEF TypeOK, proxy, runner, subs, store
  <2>5. StreamIsActive' /\ WalkHoldsLock' /\ OwedAreListens' /\ EvictionHolds' /\ OwedIsHeld'
    BY <2>1, <2>2, <2>3
    DEF DeliveryIInv, StreamIsActive, WalkHoldsLock, OwedAreListens, EvictionHolds, OwedIsHeld, runner, subs, store
  <2> QED
    BY <2>4, <2>5 DEF DeliveryIInv
<1>6. CASE Answered(c)
  BY <1>2, <1>3, <1>6 DEF Answered
<1>7. CASE StreamEnds(c)
  BY <1>2, <1>7 DEF StreamEnds
<1>8. CASE ForwardRaw(c) /\ broken
  BY <1>2, <1>8 DEF ForwardRaw
<1> QED
  BY <1>4, <1>5, <1>6, <1>7, <1>8

\* forEach writes to the listens it found: those owed a notice are among them.
LEMMA WalkKeeps ==
  ASSUME DeliveryIInv, NEW c \in Conns,
         ForEachBegins(c) \/ (\E l \in Listens : ForEachWrites(c, l)) \/ ForEachEnds(c)
  PROVE  DeliveryIInv'
<1>1. /\ TypeOK /\ StreamIsActive /\ WalkHoldsLock /\ OwedAreListens /\ EvictionHolds
      /\ conn[c] \in Conn
  BY DEF DeliveryIInv, TypeOK
<1>2. \A d \in Conns : d # c => conn[d].client = "none"
  BY <1>1 DEF StreamIsActive, ForEachBegins, ForEachWrites, ForEachEnds
<1>3. CASE ForEachBegins(c)
  <2> DEFINE new == [conn[c] EXCEPT !.client = "walk"]
  <2>1. new \in Conn /\ new.client = "walk" /\ conn[c].client = "forward" /\ Update(c, new)
    BY <1>1, <1>3 DEF Conn, ForEachBegins
  <2>2. /\ conn' \in [Conns -> Conn] /\ conn'[c].client = "walk"
        /\ \A d \in Conns : d # c => conn'[d] = conn[d]
    <3> HIDE DEF new
    <3> QED
      BY <1>1, <2>1, UpdateOfOne
  <2>3. /\ lock = "free" /\ modern /\ lock' = "stream" /\ todo' = ids
        /\ UNCHANGED <<proxy, runner, modern, ids, broken, store, pub, ghost, left>>
    BY <1>3 DEF ForEachBegins
  <2>4. TypeOK'
    BY <1>1, <2>2, <2>3 DEF TypeOK, proxy, runner, store, ghost
  <2>5. StreamIsActive' /\ WalkHoldsLock' /\ OwedAreListens' /\ EvictionHolds'
    BY <1>1, <1>2, <2>1, <2>2, <2>3
    DEF StreamIsActive, WalkHoldsLock, OwedAreListens, EvictionHolds, runner, store, ghost
  <2>6. owed' \subseteq todo'
    BY <1>1, <2>3 DEF OwedAreListens, ghost
  <2>7. OwedIsHeld'
    BY <2>2, <2>6 DEF OwedIsHeld, Held
  <2> QED
    BY <2>4, <2>5, <2>7 DEF DeliveryIInv
<1>4. ASSUME NEW l \in Listens, ForEachWrites(c, l), broken
      PROVE  DeliveryIInv'
  <2> DEFINE new == [conn[c] EXCEPT !.client = "over"]
  <2>1. new \in Conn /\ new.client = "over" /\ conn[c].client = "walk" /\ Update(c, new)
    BY <1>1, <1>4 DEF Conn, ForEachWrites, Over
  <2>2. /\ conn' \in [Conns -> Conn] /\ conn'[c].client = "over"
        /\ \A d \in Conns : d # c => conn'[d] = conn[d]
    <3> HIDE DEF new
    <3> QED
      BY <1>1, <2>1, UpdateOfOne
  <2>3. /\ lock = "stream" /\ lock' = "free" /\ todo' = {} /\ lost' \in BOOLEAN
        /\ UNCHANGED <<proxy, runner, modern, ids, broken, store, pub, acked, owed, left>>
    BY <1>1, <1>4, <2>1 DEF ForEachWrites, Over, WalkHoldsLock, TypeOK
  <2>4. TypeOK'
    BY <1>1, <2>2, <2>3 DEF TypeOK, proxy, runner, store
  <2>5. StreamIsActive' /\ WalkHoldsLock' /\ OwedAreListens' /\ EvictionHolds'
    BY <1>1, <1>2, <2>1, <2>2, <2>3
    DEF StreamIsActive, WalkHoldsLock, OwedAreListens, EvictionHolds, runner, store
  <2>6. OwedIsHeld'
    BY <1>4, <2>3 DEF OwedIsHeld, Excused
  <2> QED
    BY <2>4, <2>5, <2>6 DEF DeliveryIInv
<1>5. ASSUME NEW l \in Listens, ForEachWrites(c, l), ~broken
      PROVE  DeliveryIInv'
  <2>1. /\ todo' = todo \ {l} /\ owed' = owed \ {l} /\ conn[c].client = "walk"
        /\ UNCHANGED <<lock, conn, lost, proxy, runner, modern, ids, broken, store, pub, acked, left>>
    BY <1>5 DEF ForEachWrites
  <2>2. TypeOK'
    BY <1>1, <2>1 DEF TypeOK, proxy, runner, store
  <2>3. StreamIsActive' /\ WalkHoldsLock' /\ OwedAreListens' /\ EvictionHolds'
    BY <1>1, <2>1 DEF StreamIsActive, WalkHoldsLock, OwedAreListens, EvictionHolds, runner, store
  <2>4. OwedIsHeld'
    <3>1. SUFFICES ASSUME owed' # {}, ~Excused'
                   PROVE  Held'
      BY DEF OwedIsHeld
    <3>2. Held
      BY <2>1, <3>1 DEF DeliveryIInv, OwedIsHeld, Excused, runner
    <3> QED
      BY <2>1, <3>2 DEF Held, ClientGone, store
  <2> QED
    BY <2>2, <2>3, <2>4 DEF DeliveryIInv
<1>6. CASE ForEachEnds(c)
  <2> DEFINE new == [conn[c] EXCEPT !.client = "read"]
  <2>1. /\ new \in Conn /\ new.client = "read" /\ new.srv = conn[c].srv /\ new.queue = conn[c].queue
        /\ new.wire = conn[c].wire /\ conn[c].client = "walk" /\ Update(c, new)
    BY <1>1, <1>6 DEF Conn, ForEachEnds
  <2>2. /\ conn' \in [Conns -> Conn] /\ conn'[c].client = "read"
        /\ \A d \in Conns : d # c => conn'[d] = conn[d]
    <3> HIDE DEF new
    <3> QED
      BY <1>1, <2>1, UpdateOfOne
  <2>3. /\ lock = "stream" /\ lock' = "free" /\ todo = {}
        /\ UNCHANGED <<proxy, runner, modern, ids, todo, broken, store, pub, ghost, left>>
    BY <1>1, <1>6, <2>1 DEF ForEachEnds, WalkHoldsLock
  <2>4. TypeOK'
    BY <1>1, <2>2, <2>3 DEF TypeOK, proxy, runner, store, ghost
  <2>5. StreamIsActive' /\ WalkHoldsLock' /\ OwedAreListens' /\ EvictionHolds'
    BY <1>1, <1>2, <2>1, <2>2, <2>3
    DEF StreamIsActive, WalkHoldsLock, OwedAreListens, EvictionHolds, runner, store, ghost
  <2>6. OwedIsHeld'
    <3>1. CASE owed = {}
      BY <2>3, <3>1 DEF OwedIsHeld, ghost
    <3>2. CASE owed # {}
      <4>1. Bears(conn[c], owed, todo) => Bears(new, owed, todo)
        BY <2>1, <2>3, <3>2 DEF Bears, ClientGone
      <4>2. Moves(c, new)
        BY <2>1, <2>3, <4>1 DEF Moves, runner, store, ghost
      <4> QED
        BY <4>2, MovesKeepOwed
    <3> QED
      BY <3>1, <3>2
  <2> QED
    BY <2>4, <2>5, <2>6 DEF DeliveryIInv
<1> QED
  BY <1>3, <1>4, <1>5, <1>6

\* The daemon's handler of a stream.
LEMMA HandlerKeeps ==
  ASSUME DeliveryIInv, NEW c \in Conns, Handler(c)
  PROVE  DeliveryIInv'
<1>1. /\ TypeOK /\ conn[c] \in Conn /\ conn[c].queue \in Nat /\ conn[c].wire \in Nat
      /\ StreamIsActive /\ WalkHoldsLock /\ OwedAreListens /\ EvictionHolds
  BY DeliveryAssumption DEF DeliveryIInv, TypeOK, Conn
<1>2. ASSUME NEW new \in Conn, Update(c, new), new.client = conn[c].client,
             Bears(conn[c], owed, todo) => Bears(new, owed, todo) \/ Excused', (lost => lost'), lost' \in BOOLEAN,
             UNCHANGED <<proxy, runner, subs, store, pub, acked, owed, left>>
      PROVE  DeliveryIInv'
  <2>1. Moves(c, new)
    BY <1>2 DEF Moves, runner, subs, store
  <2>2. /\ conn' \in [Conns -> Conn] /\ conn'[c].client = conn[c].client
        /\ \A d \in Conns : d # c => conn'[d] = conn[d]
    BY <1>1, <1>2, UpdateOfOne
  <2>3. TypeOK'
    BY <1>1, <1>2, <2>2 DEF TypeOK, proxy, runner, subs, store
  <2>4. StreamIsActive' /\ WalkHoldsLock' /\ OwedAreListens' /\ EvictionHolds'
    BY <1>1, <1>2, <2>2 DEF StreamIsActive, WalkHoldsLock, OwedAreListens, EvictionHolds, runner, subs, store
  <2> QED
    BY <2>1, <2>3, <2>4, MovesKeepOwed DEF DeliveryIInv
<1>3. CASE LookUp(c)
  <2>1. PICK new \in {[conn[c] EXCEPT !.srv = "looked", !.sess = cur], [conn[c] EXCEPT !.srv = "none"]} :
             Update(c, new) /\ UNCHANGED <<proxy, runner, subs, store, pub, ghost, left>>
    BY <1>3 DEF LookUp
  <2>2. /\ new \in Conn /\ new.client = conn[c].client /\ new.queue = conn[c].queue /\ new.wire = conn[c].wire
        /\ conn[c].srv = "req"
    BY <1>1, <1>3 DEF Conn, TypeOK, LookUp
  <2>3. Bears(conn[c], owed, todo) => Bears(new, owed, todo)
    BY <2>2 DEF Bears, ClientGone
  <2>4. lost' = lost /\ lost \in BOOLEAN /\ UNCHANGED <<acked, owed>>
    BY <1>1, <2>1 DEF ghost, TypeOK
  <2> QED
    BY <1>2, <2>1, <2>2, <2>3, <2>4
<1>4. CASE OpenStream(c) /\ box[conn[c].sess].closed
  <2> DEFINE new == [conn[c] EXCEPT !.srv = "none"]
  <2>1. /\ new \in Conn /\ new.client = conn[c].client /\ new.queue = conn[c].queue /\ new.wire = conn[c].wire
        /\ conn[c].srv = "looked" /\ Update(c, new)
        /\ UNCHANGED <<proxy, runner, subs, store, pub, ghost, left>>
    BY <1>1, <1>4 DEF Conn, OpenStream, store
  <2>2. Bears(conn[c], owed, todo) => Bears(new, owed, todo)
    BY <2>1 DEF Bears, ClientGone
  <2>3. lost' = lost /\ lost \in BOOLEAN /\ UNCHANGED <<acked, owed>>
    BY <1>1, <2>1 DEF ghost, TypeOK
  <2> HIDE DEF new
  <2> QED
    BY <1>2, <2>1, <2>2, <2>3
<1>5. CASE OpenStream(c) /\ ~box[conn[c].sess].closed
  <2> DEFINE s == conn[c].sess
             new == [conn[c] EXCEPT !.srv = "open", !.queue = FirstNotice(s)]
  <2>1. /\ conn[c].srv = "looked" /\ Update(c, new) /\ box' = [box EXCEPT ![s].pending = FALSE]
        /\ UNCHANGED <<proxy, runner, subs, valid, cur, evict, pub, ghost, left>>
    BY <1>5 DEF OpenStream
  <2>2. FirstNotice(s) \in 0 .. Cap /\ (box[s].pending => FirstNotice(s) = 1)
    BY DeliveryAssumption DEF FirstNotice
  <2>3. /\ new \in Conn /\ new.client = conn[c].client /\ new.srv = "open" /\ new.queue = FirstNotice(s)
        /\ new.wire = conn[c].wire
    BY <1>1, <2>2 DEF Conn
  <2>4. /\ conn' \in [Conns -> Conn] /\ conn'[c] = new
        /\ \A d \in Conns : d # c => conn'[d] = conn[d]
    <3> HIDE DEF new
    <3> QED
      BY <1>1, <2>1, <2>3, UpdateOfOne
  <2>5. /\ box' \in [Sessions -> Box]
        /\ \A t \in Sessions : box'[t].closed = box[t].closed /\ (t # s => box'[t].pending = box[t].pending)
    BY <1>1, <2>1 DEF TypeOK, Box
  <2>6. TypeOK'
    BY <1>1, <2>1, <2>4, <2>5 DEF TypeOK, proxy, runner, subs, ghost
  <2>7. StreamIsActive' /\ WalkHoldsLock' /\ OwedAreListens' /\ EvictionHolds'
    BY <1>1, <2>1, <2>3, <2>4 DEF StreamIsActive, WalkHoldsLock, OwedAreListens, EvictionHolds, runner, subs, ghost
  <2>8. OwedIsHeld'
    <3>1. SUFFICES ASSUME owed' # {}, ~Excused'
                   PROVE  Held'
      BY DEF OwedIsHeld
    <3>2. Held
      BY <2>1, <3>1 DEF DeliveryIInv, OwedIsHeld, Excused, runner, subs, ghost
    <3>3. CASE \E t \in Sessions : box[t].pending /\ ~box[t].closed
      <4>1. PICK t \in Sessions : box[t].pending /\ ~box[t].closed
        BY <3>3
      <4>2. CASE t = s
        <5>1. FirstNotice(s) > 0
          BY <2>2, <4>1, <4>2
        <5>2. conn'[c].srv = "open" /\ conn'[c].queue > 0
          BY <2>3, <2>4, <5>1
        <5> QED
          BY <5>2 DEF Held
      <4>3. CASE t # s
        BY <2>5, <4>1, <4>3 DEF Held
      <4> QED
        BY <4>2, <4>3
    <3>4. CASE \E d \in Conns : Bears(conn[d], owed, todo)
      <4>1. PICK d \in Conns : Bears(conn[d], owed, todo)
        BY <3>4
      <4>2. Bears(conn'[d], owed, todo)
        BY <2>1, <2>3, <2>4, <4>1 DEF Bears, ClientGone
      <4>3. owed' = owed /\ todo' = todo
        BY <2>1 DEF subs, ghost
      <4> QED
        BY <4>2, <4>3 DEF Held, Bears, ClientGone
    <3> QED
      BY <3>2, <3>3, <3>4, HeldIsBorne
  <2> QED
    BY <2>6, <2>7, <2>8 DEF DeliveryIInv
<1>6. CASE WriteNotice(c)
  <2> DEFINE wire == IF ClientGone(conn[c]) THEN 0 ELSE conn[c].wire + 1
             new == [conn[c] EXCEPT !.queue = @ - 1, !.wire = IF ClientGone(conn[c]) THEN 0 ELSE @ + 1]
  <2>1. /\ conn[c].srv = "open" /\ conn[c].queue > 0 /\ Update(c, new)
        /\ lost' = (lost \/ ClientGone(conn[c]))
        /\ UNCHANGED <<proxy, runner, subs, store, pub, acked, owed, left>>
    BY <1>6 DEF WriteNotice
  <2>2. conn[c].queue - 1 \in 0 .. Cap /\ wire \in Nat
    <3>1. conn[c].queue \in 0 .. Cap
      BY <1>1 DEF Conn
    <3> QED
      BY <1>1, <2>1, <3>1, DeliveryAssumption
  <2>3. new = [conn[c] EXCEPT !.queue = conn[c].queue - 1, !.wire = wire]
    OBVIOUS
  <2>4. new \in Conn /\ new.client = conn[c].client /\ new.wire = wire
    BY <1>1, <2>2, <2>3 DEF Conn
  <2>5. ~ClientGone(conn[c]) => wire > 0 /\ ~ClientGone(new)
    BY <1>1, <2>4 DEF ClientGone
  <2>6. Bears(new, owed, todo) \/ lost'
    BY <2>1, <2>4, <2>5 DEF Bears
  <2>7. lost' \in BOOLEAN /\ (lost => lost')
    BY <1>1, <2>1 DEF TypeOK, ClientGone
  <2>8. Bears(conn[c], owed, todo) => Bears(new, owed, todo) \/ Excused'
    BY <2>6 DEF Excused
  <2> HIDE DEF new
  <2> QED
    BY <1>2, <2>1, <2>4, <2>7, <2>8
<1>7. CASE HandlerCancelled(c)
  <2> DEFINE new == [conn[c] EXCEPT !.srv = "none", !.queue = 0]
  <2>1. /\ Update(c, new) /\ lost' = (lost \/ conn[c].queue > 0)
        /\ UNCHANGED <<proxy, runner, subs, store, pub, acked, owed, left>>
    BY <1>7 DEF HandlerCancelled
  <2>2. new \in Conn /\ new.client = conn[c].client /\ new.wire = conn[c].wire
    <3>1. 0 \in 0 .. Cap
      BY DeliveryAssumption
    <3> QED
      BY <1>1, <3>1 DEF Conn
  <2>3. Bears(conn[c], owed, todo) => Bears(new, owed, todo) \/ Excused'
    BY <2>1, <2>2 DEF Bears, ClientGone, Excused
  <2>4. lost' \in BOOLEAN /\ (lost => lost')
    BY <1>1, <2>1 DEF TypeOK
  <2> HIDE DEF new
  <2> QED
    BY <1>2, <2>1, <2>2, <2>3, <2>4
<1>8. CASE HandlerEnds(c)
  <2> DEFINE new == [conn[c] EXCEPT !.srv = "none"]
  <2>1. Update(c, new) /\ conn[c].queue = 0 /\ UNCHANGED <<proxy, runner, subs, store, pub, ghost, left>>
    BY <1>8 DEF HandlerEnds
  <2>2. new \in Conn /\ new.client = conn[c].client /\ new.wire = conn[c].wire
    BY <1>1 DEF Conn
  <2>3. Bears(conn[c], owed, todo) => Bears(new, owed, todo)
    BY <2>1, <2>2 DEF Bears, ClientGone
  <2>4. lost' = lost /\ lost \in BOOLEAN /\ UNCHANGED <<acked, owed>>
    BY <1>1, <2>1 DEF ghost, TypeOK
  <2> HIDE DEF new
  <2> QED
    BY <1>2, <2>1, <2>2, <2>3, <2>4
<1> QED
  BY <1>3, <1>4, <1>5, <1>6, <1>7, <1>8 DEF Handler

-----------------------------------------------------------------------------
(* Tool-change delivery: the agent's listens, and the daemon *)

\* Acknowledging, registering and cancelling a listen, and the end of the agent.
LEMMA ReaderKeeps ==
  ASSUME DeliveryIInv, Reader
  PROVE  DeliveryIInv'
<1>1. TypeOK /\ StreamIsActive /\ WalkHoldsLock /\ OwedAreListens /\ EvictionHolds
  BY DEF DeliveryIInv
<1>2. ASSUME NEW l \in Listens, WriteAck(l)
      PROVE  DeliveryIInv'
  <2>1. /\ l \notin acked /\ lock = "free" /\ lock' = "reader" /\ acked' = acked \cup {l} /\ left' \in [Events -> Nat]
        /\ UNCHANGED <<proxy, runner, modern, ids, todo, broken, conn, store, pub, owed, lost>>
    BY <1>1, <1>2, HappensKeeps DEF WriteAck, AckHeld, Events
  <2>2. TypeOK'
    BY <1>1, <2>1 DEF TypeOK, proxy, runner, store
  <2>3. StreamIsActive' /\ WalkHoldsLock' /\ OwedAreListens' /\ EvictionHolds'
    BY <1>1, <2>1 DEF StreamIsActive, WalkHoldsLock, OwedAreListens, EvictionHolds, runner, store
  <2>4. OwedIsHeld'
    BY <2>1 DEF DeliveryIInv, OwedIsHeld, Held, Excused, ClientGone, runner, store
  <2> QED
    BY <2>2, <2>3, <2>4 DEF DeliveryIInv
<1>3. ASSUME NEW l \in Listens, Register(l)
      PROVE  DeliveryIInv'
  <2>1. /\ l \in acked \ ids /\ lock # "stream" /\ ids' = ids \cup {l} /\ lock' = "free"
        /\ UNCHANGED <<proxy, runner, modern, todo, broken, conn, store, pub, ghost, left>>
    BY <1>3 DEF Register
  <2>2. TypeOK'
    BY <1>1, <2>1 DEF TypeOK, proxy, runner, store, ghost
  <2>3. StreamIsActive' /\ WalkHoldsLock' /\ OwedAreListens' /\ EvictionHolds'
    BY <1>1, <2>1 DEF StreamIsActive, WalkHoldsLock, OwedAreListens, EvictionHolds, runner, store, ghost
  <2>4. OwedIsHeld'
    BY <2>1 DEF DeliveryIInv, OwedIsHeld, Held, Excused, ClientGone, runner, store, ghost
  <2> QED
    BY <2>2, <2>3, <2>4 DEF DeliveryIInv
<1>4. ASSUME NEW l \in Listens, CancelListen(l)
      PROVE  DeliveryIInv'
  <2>1. /\ lock = "free" /\ ids' = ids \ {l} /\ acked' = acked \ {l} /\ owed' = owed \ {l}
        /\ left' \in [Events -> Nat]
        /\ UNCHANGED <<proxy, runner, modern, lock, todo, broken, conn, store, pub, lost>>
    BY <1>1, <1>4, HappensKeeps DEF CancelListen, Events
  <2>2. TypeOK'
    BY <1>1, <2>1 DEF TypeOK, proxy, runner, store
  <2>3. StreamIsActive' /\ WalkHoldsLock' /\ OwedAreListens' /\ EvictionHolds'
    BY <1>1, <2>1 DEF StreamIsActive, WalkHoldsLock, OwedAreListens, EvictionHolds, runner, store
  <2>4. OwedIsHeld'
    <3>1. SUFFICES ASSUME owed' # {}, ~Excused'
                   PROVE  Held'
      BY DEF OwedIsHeld
    <3>2. Held
      BY <2>1, <3>1 DEF DeliveryIInv, OwedIsHeld, Excused, runner
    <3> QED
      BY <2>1, <3>2 DEF Held, ClientGone, store
  <2> QED
    BY <2>2, <2>3, <2>4 DEF DeliveryIInv
<1>5. CASE AgentGone
  <2>1. /\ broken' = TRUE /\ left' \in [Events -> Nat]
        /\ UNCHANGED <<proxy, runner, modern, ids, lock, todo, conn, store, pub, ghost>>
    BY <1>1, <1>5, HappensKeeps DEF AgentGone, Events
  <2>2. TypeOK'
    BY <1>1, <2>1 DEF TypeOK, proxy, runner, store, ghost
  <2> QED
    BY <1>1, <2>1, <2>2, KeepsNoticesKeeps
    DEF KeepsNotices, StreamIsActive, EvictionHolds, runner, store, ghost
<1> QED
  BY <1>2, <1>3, <1>4, <1>5 DEF Reader

\* A change is published to a stream with room, or kept for the next one.
LEMMA PublishKeeps ==
  ASSUME DeliveryIInv, Publish
  PROVE  DeliveryIInv'
<1>1. /\ TypeOK /\ StreamIsActive /\ WalkHoldsLock /\ OwedAreListens /\ EvictionHolds
      /\ pub \in Sessions /\ pub' = 0 /\ 0 \in 0 .. MaxSessions /\ box \in [Sessions -> Box]
      /\ UNCHANGED <<proxy, runner, subs, valid, cur, evict, left>>
  BY DeliveryAssumption DEF DeliveryIInv, TypeOK, Publish, Sessions
<1>2. CASE UNCHANGED <<conn, box, ghost>>
  <2>1. TypeOK'
    BY <1>1, <1>2 DEF TypeOK, proxy, runner, subs, ghost
  <2> QED
    BY <1>1, <1>2, <2>1, KeepsNoticesKeeps
    DEF KeepsNotices, StreamIsActive, EvictionHolds, runner, subs, ghost
<1>3. CASE /\ box[pub].ready /\ ~box[pub].closed
           /\ owed' = (IF modern THEN acked ELSE {Agent}) /\ lost' = FALSE /\ acked' = acked
           /\ \/ Pending(pub) /\ conn' = conn
              \/ /\ \E c \in Conns : conn[c].srv = "open" /\ HasRoom(c) /\ Update(c, [conn[c] EXCEPT !.queue = @ + 1])
                 /\ box' = box
  <2>1. owed' \subseteq Ears /\ (modern => owed' \subseteq acked)
    BY <1>1, <1>3 DEF TypeOK, Ears
  <2>2. CASE Pending(pub) /\ conn' = conn
    <3>1. /\ box' \in [Sessions -> Box] /\ box'[pub].pending /\ ~box'[pub].closed
      BY <1>1, <1>3, <2>2 DEF Pending, Box
    <3>2. TypeOK'
      BY <1>1, <1>3, <2>1, <2>2, <3>1 DEF TypeOK, proxy, runner, subs
    <3>3. StreamIsActive' /\ WalkHoldsLock' /\ OwedAreListens' /\ EvictionHolds'
      BY <1>1, <1>3, <2>1, <2>2
      DEF StreamIsActive, WalkHoldsLock, OwedAreListens, EvictionHolds, runner, subs
    <3>4. OwedIsHeld'
      BY <1>1, <3>1 DEF OwedIsHeld, Held
    <3> QED
      BY <3>2, <3>3, <3>4 DEF DeliveryIInv
  <2>3. ASSUME NEW c \in Conns, conn[c].srv = "open", HasRoom(c), Update(c, [conn[c] EXCEPT !.queue = @ + 1]), box' = box
        PROVE  DeliveryIInv'
    <3> DEFINE new == [conn[c] EXCEPT !.queue = @ + 1]
    <3>1. conn[c] \in Conn /\ conn[c].queue \in 0 .. Cap
      BY <1>1 DEF TypeOK, Conn
    <3>2. conn[c].queue + 1 \in 0 .. Cap /\ conn[c].queue + 1 > 0
      BY <2>3, <3>1, DeliveryAssumption DEF HasRoom
    <3>3. /\ new \in Conn /\ new.client = conn[c].client /\ new.srv = "open" /\ new.queue = conn[c].queue + 1
      BY <2>3, <3>1, <3>2 DEF Conn
    <3>4. /\ conn' \in [Conns -> Conn] /\ conn'[c] = new
          /\ \A d \in Conns : d # c => conn'[d] = conn[d]
      <4>1. Update(c, new)
        BY <2>3
      <4> HIDE DEF new
      <4> QED
        BY <1>1, <3>3, <4>1, UpdateOfOne
    <3>5. TypeOK'
      BY <1>1, <1>3, <2>1, <2>3, <3>4 DEF TypeOK, proxy, runner, subs
    <3>6. StreamIsActive' /\ WalkHoldsLock' /\ OwedAreListens' /\ EvictionHolds'
      BY <1>1, <1>3, <2>1, <3>3, <3>4
      DEF StreamIsActive, WalkHoldsLock, OwedAreListens, EvictionHolds, runner, subs
    <3>7. conn'[c].srv = "open" /\ conn'[c].queue > 0
      BY <3>2, <3>3, <3>4
    <3>8. OwedIsHeld'
      BY <3>7 DEF OwedIsHeld, Held
    <3> QED
      BY <3>5, <3>6, <3>8 DEF DeliveryIInv
  <2> QED
    BY <1>3, <2>2, <2>3
<1> QED
  BY <1>2, <1>3 DEF Publish, StreamsOf

\* Eviction and restart drop only what is then known to be lost.
LEMMA DaemonKeeps ==
  ASSUME DeliveryIInv, Daemon
  PROVE  DeliveryIInv'
<1>1. TypeOK /\ StreamIsActive /\ WalkHoldsLock /\ OwedAreListens /\ EvictionHolds /\ MaxSessions \in Nat
  BY DeliveryAssumption DEF DeliveryIInv
<1>2. CASE Snapshot
  <2>1. left' \in [Events -> Nat]
    BY <1>1, <1>2, HappensKeeps DEF Snapshot, Events
  <2>2. TypeOK'
    BY <1>1, <1>2, <2>1 DEF TypeOK, Snapshot, proxy, runner, subs, store, ghost
  <2> QED
    BY <1>1, <1>2, <2>2, KeepsNoticesKeeps
    DEF KeepsNotices, Snapshot, StreamIsActive, EvictionHolds, runner, subs, store, ghost
<1>3. CASE Publish
  BY <1>3, PublishKeeps
<1>4. CASE EvictCheck
  <2>1. left' \in [Events -> Nat] /\ cur \in Sessions /\ evict' = <<"checked", cur>>
    BY <1>1, <1>4, HappensKeeps DEF EvictCheck, Events, TypeOK, Sessions
  <2>2. EvictionHolds' /\ evict' \in {"idle", "checked", "deleted"} \X (0 .. MaxSessions)
    BY <1>1, <1>4, <2>1 DEF EvictionHolds, EvictCheck, Sessions
  <2>3. TypeOK'
    BY <1>1, <1>4, <2>1, <2>2 DEF TypeOK, EvictCheck, proxy, runner, subs, ghost
  <2> QED
    BY <1>1, <1>4, <2>2, <2>3, KeepsNoticesKeeps
    DEF KeepsNotices, EvictCheck, StreamIsActive, runner, subs, ghost
<1>5. CASE EvictDelete
  <2>1. evict' = <<"deleted", cur>> /\ cur' = 0 /\ cur \in Sessions
    BY <1>1, <1>5 DEF EvictDelete, EvictionHolds
  <2>2. EvictionHolds' /\ evict' \in {"idle", "checked", "deleted"} \X (0 .. MaxSessions)
    BY <1>1, <2>1 DEF EvictionHolds, Sessions
  <2>3. TypeOK'
    BY <1>1, <1>5, <2>1, <2>2 DEF TypeOK, EvictDelete, proxy, runner, subs, ghost
  <2> QED
    BY <1>1, <1>5, <2>2, <2>3, KeepsNoticesKeeps
    DEF KeepsNotices, EvictDelete, StreamIsActive, runner, subs, ghost
<1>6. CASE EvictClose
  <2> DEFINE e == evict[2]
  <2>1. /\ e \in Sessions /\ evict' = <<"idle", 0>>
        /\ box' = [box EXCEPT ![e].closed = TRUE, ![e].pending = FALSE] /\ lost' = (lost \/ box[e].pending)
        /\ UNCHANGED <<proxy, runner, subs, conn, valid, cur, pub, acked, owed, left>>
    BY <1>1, <1>6 DEF EvictClose, EvictionHolds, NoEviction
  <2>2. /\ box' \in [Sessions -> Box] /\ (\A t \in Sessions : t # e => box'[t] = box[t]) /\ lost' \in BOOLEAN
    BY <1>1, <2>1 DEF TypeOK, Box
  <2>3. EvictionHolds' /\ evict' \in {"idle", "checked", "deleted"} \X (0 .. MaxSessions)
    BY <1>1, <2>1 DEF EvictionHolds
  <2>4. TypeOK'
    BY <1>1, <2>1, <2>2, <2>3 DEF TypeOK, proxy, runner, subs
  <2>5. StreamIsActive' /\ WalkHoldsLock' /\ OwedAreListens'
    BY <1>1, <2>1 DEF StreamIsActive, WalkHoldsLock, OwedAreListens, runner, subs
  <2>6. OwedIsHeld'
    <3>1. SUFFICES ASSUME owed' # {}, ~Excused'
                   PROVE  Held'
      BY DEF OwedIsHeld
    <3>2. Held /\ ~box[e].pending
      BY <2>1, <3>1 DEF DeliveryIInv, OwedIsHeld, Excused, runner, subs
    <3> QED
      BY <2>1, <2>2, <3>2 DEF Held, ClientGone, subs
  <2> QED
    BY <2>3, <2>4, <2>5, <2>6 DEF DeliveryIInv
<1>7. CASE Restart
  <2>1. /\ valid' \subseteq Gens /\ cur' = 0 /\ evict' = <<"idle", 0>> /\ pub' = 0 /\ lost' = TRUE
        /\ left' \in [Events -> Nat] /\ UNCHANGED <<proxy, runner, subs, acked, owed>>
    BY <1>1, <1>7, HappensKeeps DEF Restart, Events, NoEviction, TypeOK
  <2>2. box' \in [Sessions -> Box]
    BY <1>1, <1>7 DEF Restart, TypeOK, Box
  <2>3. 0 \in 0 .. Cap /\ \A c \in Conns : conn[c] \in Conn
    BY <1>1, DeliveryAssumption DEF TypeOK
  <2>4. \A c \in Conns : [conn[c] EXCEPT !.srv = "none", !.queue = 0] \in Conn
                         /\ [conn[c] EXCEPT !.srv = "none", !.queue = 0].client = conn[c].client
    BY <2>3 DEF Conn
  <2>5. NoConn \in Conn /\ NoConn.client = "none"
    BY <1>1, DeliveryTypes DEF NoConn
  <2>6. conn' \in [Conns -> Conn] /\ \A c \in Conns : conn'[c].client = conn[c].client
    BY <1>7, <2>4, <2>5 DEF Restart
  <2>7. EvictionHolds' /\ evict' \in {"idle", "checked", "deleted"} \X (0 .. MaxSessions)
    BY <1>1, <2>1 DEF EvictionHolds
  <2>8. TypeOK'
    BY <1>1, <2>1, <2>2, <2>6, <2>7 DEF TypeOK, proxy, runner, subs
  <2>9. StreamIsActive' /\ WalkHoldsLock' /\ OwedAreListens' /\ OwedIsHeld'
    BY <1>1, <2>1, <2>6 DEF StreamIsActive, WalkHoldsLock, OwedAreListens, OwedIsHeld, Excused, runner, subs
  <2> QED
    BY <2>7, <2>8, <2>9 DEF DeliveryIInv
<1> QED
  BY <1>2, <1>3, <1>4, <1>5, <1>6, <1>7 DEF Daemon

-----------------------------------------------------------------------------
(* Tool-change delivery: the theorems *)

\* At first nothing is owed, and there is no stream.
LEMMA DeliveryInit ==
  ASSUME Init
  PROVE  DeliveryIInv
<1>1. TypeOK
  <2>1. conn \in [Conns -> Conn] /\ box \in [Sessions -> Box] /\ left \in [Events -> Nat]
    <3>1. 0 \in 0 .. MaxGen /\ 0 \in 0 .. MaxSessions /\ 0 \in 0 .. Cap
      BY DeliveryAssumption
    <3>2. NoConn \in Conn
      BY <3>1 DEF NoConn, Conn
    <3> QED
      BY <3>2, DeliveryAssumption DEF Init, Box
  <2>2. 1 \in Gens /\ binder \in [Binders -> [pc : {"idle", "shaken", "stored", "done"}, gen : 0 .. MaxGen]]
    BY DeliveryAssumption DEF Init, Gens
  <2>3. evict \in {"idle", "checked", "deleted"} \X (0 .. MaxSessions)
    BY DeliveryAssumption DEF Init, NoEviction
  <2>4. 0 \in 0 .. MaxGen /\ 0 \in 0 .. MaxSessions /\ modern \in BOOLEAN
    BY DeliveryAssumption DEF Init
  <2> QED
    BY <2>1, <2>2, <2>3, <2>4 DEF Init, TypeOK
<1>2. \A c \in Conns : conn[c].client = "none"
  BY DEF Init, NoConn
<1> QED
  BY <1>1, <1>2, DeliveryAssumption
  DEF Init, DeliveryIInv, StreamIsActive, WalkHoldsLock, OwedAreListens, EvictionHolds, OwedIsHeld, NoEviction

\* Every step keeps the invariant.
LEMMA DeliveryStep ==
  ASSUME DeliveryIInv, [Next]_vars
  PROVE  DeliveryIInv'
<1>1. CASE UNCHANGED vars
  <2>1. UNCHANGED <<proxy, runner, subs, conn, store, pub, ghost, left>>
    BY <1>1 DEF vars
  <2>2. TypeOK'
    BY <2>1 DEF DeliveryIInv, TypeOK, proxy, runner, subs, store, ghost
  <2> QED
    BY <2>1, <2>2, KeepsNoticesKeeps
    DEF KeepsNotices, DeliveryIInv, StreamIsActive, EvictionHolds, runner, subs, store, ghost
<1>2. CASE Proxy
  BY <1>2, ForwardsKeep, RunKeeps, StreamKeeps DEF Proxy
<1>3. CASE Reader
  BY <1>3, ReaderKeeps
<1>4. CASE Daemon
  BY <1>4, DaemonKeeps
<1>5. ASSUME NEW c \in Conns, Consume(c) \/ Handler(c)
      PROVE  DeliveryIInv'
  BY <1>5, ConsumeKeeps, WalkKeeps, HandlerKeeps DEF Consume
<1> QED
  BY <1>1, <1>2, <1>3, <1>4, <1>5 DEF Next

\* The invariant holds in every state.
LEMMA DeliveryInvariance == Spec => []DeliveryIInv
  BY DeliveryInit, DeliveryStep, PTL DEF Spec

\* A published change is not forgotten, for any listens, binds, streams, sessions and channel
\* size: until the ears entitled to it have been written a notice, one is pending, queued, on the
\* wire or being written, unless a stream was cut with it, its session dropped or the agent gone.
THEOREM NoticesAreHeld == Spec => []OwedIsHeld
<1>1. DeliveryIInv => OwedIsHeld
  BY DEF DeliveryIInv
<1> QED
  BY <1>1, DeliveryInvariance, PTL

\* Only one stream writes to the agent at a time, and none once Close has returned.
THEOREM OneStreamAtATime == Spec => []OneStream
<1>1. DeliveryIInv => OneStream
  <2> SUFFICES ASSUME DeliveryIInv
               PROVE  OneStream
    OBVIOUS
  <2>1. Reading \subseteq {active}
    BY DEF DeliveryIInv, StreamIsActive, Reading
  <2>2. IsFiniteSet({active}) /\ Cardinality({active}) = 1
    BY FS_Singleton
  <2>3. Cardinality(Reading) <= 1
    BY <2>1, <2>2, FS_Subset
  <2>4. run = "done" => Reading = {}
    BY <2>1 DEF DeliveryIInv, StreamIsActive, Reading
  <2> QED
    BY <2>3, <2>4 DEF OneStream
<1> QED
  BY <1>1, DeliveryInvariance, PTL
===============================================================================
