--------------------------- MODULE Sessions_proofs ---------------------------
(***************************************************************************)
(* Proofs about what serves one session of the user: the connections of a  *)
(* proxy session, for any number of calls, removals and failures, and a    *)
(* run of mini init, for any servers, settings, logins and checks.         *)
(***************************************************************************)
EXTENDS SessionConns, InitRun, TLAPS

-----------------------------------------------------------------------------
(* Per-session connections *)


\* A connection stored after the removal took what was stored is about to be
\* found by the check of the call that stored it.
StoredIsChecked ==
    ~registered /\ removal.pc # "take" /\ stored # None =>
        \E p \in Calls : call[p].pc \in {"check", "remove"}

\* A dialOnce that is done has a connection to share.
DoneHasConn == \A d \in Onces : once[d].state = "done" => once[d].conn # None

\* Who lists the tools of a new connection dialled it, and so did who failed to.
DialledItself ==
    \A p \in Calls : call[p].pc = "list" \/ call[p].result = "noDial" => call[p].dialled

\* A call waits for, or dials under, a dialOnce that it has got.
HasOnce == \A p \in Calls : call[p].pc \in {"lock", "look", "dial", "list"} => call[p].once # None

IInv == TypeOK /\ HasOnce /\ NoLeakedSessionConn /\ StoredIsChecked /\ DoneHasConn /\ DialledItself

-----------------------------------------------------------------------------
\* A new session has no connection and no dialOnce.
LEMMA InitIInv == Init => IInv
  BY ConnsAssumption DEF Init, IInv, TypeOK, NoLeakedSessionConn, StoredIsChecked, DoneHasConn,
     DialledItself, HasOnce, Call, Once, NoCall, NoRemoval, Conns, Onces

\* A call that changes by a typed record leaves the calls typed.
LEMMA OneCallTyped ==
    ASSUME call \in [Calls -> Call], NEW p \in Calls, NEW r \in Call,
           call' = [call EXCEPT ![p] = r]
    PROVE  call' \in [Calls -> Call]
  OBVIOUS

\* Types are kept by every step of a call.
LEMMA StepTypes ==
    ASSUME TypeOK, HasOnce, NEW p \in Calls, Begin(p) \/ Step(p) PROVE TypeOK'
<1> USE ConnsAssumption DEF TypeOK, HasOnce, Call, Once, Conns, Onces, server
<1>1. CASE Begin(p) BY <1>1 DEF Begin, Go
<1>2. CASE Find(p) BY <1>2 DEF Find, Go, GoWith
<1>3. CASE GetDialOnce(p)
  <2>1. entry' \in Onces BY <1>3 DEF GetDialOnce
  <2> DEFINE r == [pc |-> "lock", once |-> entry', conn |-> None,
                   dialled |-> FALSE, result |-> "none"]
  <2>3. r \in Call BY <2>1
  <2>4. call' = [call EXCEPT ![p] = r] BY <1>3 DEF GetDialOnce
  <2> HIDE DEF r, Call
  <2>5. call' \in [Calls -> Call] BY <2>3, <2>4, OneCallTyped
  <2> QED BY <1>3, <2>1, <2>5 DEF GetDialOnce
<1>4. CASE LockOnce(p)
  <2> DEFINE d == call[p].once
  <2>1. d \in Onces /\ once[d].conn \in Conns \cup {None} BY <1>4 DEF LockOnce
  <2> HIDE DEF d
  <2>2. CASE Return(p, "noDial") /\ UNCHANGED once
    BY <1>4, <2>2 DEF LockOnce, Return, NoCall
  <2>3. CASE GoWith(p, "check", once[d].conn) /\ UNCHANGED once
    <3> DEFINE r == [pc |-> "check", once |-> call[p].once, conn |-> once[d].conn,
                     dialled |-> call[p].dialled, result |-> "none"]
    <3>1. r \in Call BY <2>1
    <3>2. call' = [call EXCEPT ![p] = r] BY <2>3 DEF GoWith
    <3> HIDE DEF r, Call
    <3>3. call' \in [Calls -> Call] BY <3>1, <3>2, OneCallTyped
    <3> QED BY <1>4, <2>3, <3>3 DEF LockOnce
  <2>4. CASE Go(p, "look") /\ once' = [once EXCEPT ![d].holder = p]
    <3>1. call' \in [Calls -> Call] BY <2>4 DEF Go
    <3>2. once' \in [Onces -> Once] BY <2>1, <2>4
    <3> QED BY <1>4, <3>1, <3>2 DEF LockOnce
  <2> QED BY <1>4, <2>2, <2>3, <2>4 DEF LockOnce, d
<1>5. CASE Look(p) BY <1>5 DEF Look, Go, GoWith, UnlockedOnce
<1>6. CASE Dial(p)
  <2> DEFINE r == [pc |-> "list", once |-> call[p].once, conn |-> p,
                   dialled |-> TRUE, result |-> "none"]
  <2>1. r \in Call OBVIOUS
  <2>2. call' = [call EXCEPT ![p] = r] BY <1>6 DEF Dial
  <2> HIDE DEF r, Call
  <2>3. call' \in [Calls -> Call] BY <2>1, <2>2, OneCallTyped
  <2> QED BY <1>6, <2>3 DEF Dial
<1>7. CASE DialFails(p)
  <2>1. call' \in [Calls -> Call] BY <1>7 DEF DialFails, NoCall
  <2>2. once' \in [Onces -> Once] BY <1>7 DEF DialFails, UnlockedOnce
  <2>3. breaks' \in 0 .. MaxBreaks BY <1>7 DEF DialFails, Fails
  <2> QED BY <1>7, <2>1, <2>2, <2>3 DEF DialFails
<1>8. CASE ListFails(p)
  <2>1. call' \in [Calls -> Call] BY <1>8 DEF ListFails, Return, NoCall
  <2>2. once' \in [Onces -> Once] BY <1>8 DEF ListFails, UnlockedOnce
  <2>3. breaks' \in 0 .. MaxBreaks BY <1>8 DEF ListFails, Fails
  <2> QED BY <1>8, <2>1, <2>2, <2>3 DEF ListFails, Closed
<1>9. CASE GetOrSetConn(p) BY <1>9 DEF GetOrSetConn, Go, GoWith, UnlockedOnce, Closed
<1>10. CASE CheckDialedConn(p) BY <1>10 DEF CheckDialedConn, Go
<1>11. CASE RemoveConn(p) BY <1>11 DEF RemoveConn, Go
<1>12. CASE CloseDialed(p) BY <1>12 DEF CloseDialed, Return, NoCall, Closed
<1>13. CASE CallEnds(p) BY <1>13 DEF CallEnds, Return, NoCall
<1>14. CASE CallBreaks(p) BY <1>14 DEF CallBreaks, Go
<1>15. CASE EvictConn(p) BY <1>15 DEF EvictConn, Go
<1>16. CASE CloseBroken(p) BY <1>16 DEF CloseBroken, Return, NoCall, Closed
<1> QED BY <1>1, <1>2, <1>3, <1>4, <1>5, <1>6, <1>7, <1>8, <1>9, <1>10, <1>11, <1>12, <1>13,
           <1>14, <1>15, <1>16 DEF Step

\* A call that has a dialOnce keeps it until it is done with it.
LEMMA StepOnce ==
    ASSUME TypeOK, HasOnce, NEW p \in Calls, Begin(p) \/ Step(p) PROVE HasOnce'
<1> USE ConnsAssumption DEF TypeOK, HasOnce, Call, Once, Conns, Onces, server
<1>1. CASE Begin(p) BY <1>1 DEF Begin, Go
<1>2. CASE Find(p) BY <1>2 DEF Find, Go, GoWith
<1>3. CASE GetDialOnce(p) BY <1>3 DEF GetDialOnce
<1>4. CASE LockOnce(p)
  <2>1. call[p].once # None BY <1>4 DEF LockOnce
  <2>2. CASE Return(p, "noDial") BY <2>2 DEF Return, NoCall
  <2>3. CASE \E c : GoWith(p, "check", c) BY <2>3 DEF GoWith
  <2>4. CASE Go(p, "look") BY <2>1, <2>4 DEF Go
  <2> QED BY <1>4, <2>2, <2>3, <2>4 DEF LockOnce
<1>5. CASE Look(p) BY <1>5 DEF Look, Go, GoWith
<1>6. CASE Dial(p) BY <1>6 DEF Dial
<1>7. CASE DialFails(p) BY <1>7 DEF DialFails, NoCall
<1>8. CASE ListFails(p) BY <1>8 DEF ListFails, Return, NoCall
<1>9. CASE GetOrSetConn(p) BY <1>9 DEF GetOrSetConn, Go, GoWith
<1>10. CASE CheckDialedConn(p) BY <1>10 DEF CheckDialedConn, Go
<1>11. CASE RemoveConn(p) BY <1>11 DEF RemoveConn, Go
<1>12. CASE CloseDialed(p) BY <1>12 DEF CloseDialed, Return, NoCall
<1>13. CASE CallEnds(p) BY <1>13 DEF CallEnds, Return, NoCall
<1>14. CASE CallBreaks(p) BY <1>14 DEF CallBreaks, Go
<1>15. CASE EvictConn(p) BY <1>15 DEF EvictConn, Go
<1>16. CASE CloseBroken(p) BY <1>16 DEF CloseBroken, Return, NoCall
<1> QED BY <1>1, <1>2, <1>3, <1>4, <1>5, <1>6, <1>7, <1>8, <1>9, <1>10, <1>11, <1>12, <1>13,
           <1>14, <1>15, <1>16 DEF Step

\* A step of one call leaves every open connection with an owner.
LEMMA StepOwners ==
    ASSUME TypeOK, NoLeakedSessionConn, NEW p \in Calls, Begin(p) \/ Step(p)
    PROVE NoLeakedSessionConn'
<1> USE ConnsAssumption DEF TypeOK, Call, Conns, NoLeakedSessionConn, Holds, server
<1>1. CASE Begin(p) BY <1>1 DEF Begin, Go
<1>2. CASE Find(p) BY <1>2 DEF Find, Go, GoWith
<1>3. CASE GetDialOnce(p) BY <1>3 DEF GetDialOnce
<1>4. CASE LockOnce(p) BY <1>4 DEF LockOnce, Go, GoWith, Return, NoCall
<1>5. CASE Look(p) BY <1>5 DEF Look, Go, GoWith
<1>6. CASE Dial(p) BY <1>6 DEF Dial
<1>7. CASE DialFails(p) BY <1>7 DEF DialFails, NoCall
<1>8. CASE ListFails(p) BY <1>8 DEF ListFails, Return, NoCall, Closed
<1>9. CASE GetOrSetConn(p) BY <1>9 DEF GetOrSetConn, Go, GoWith, Closed
<1>10. CASE CheckDialedConn(p) BY <1>10 DEF CheckDialedConn, Go
<1>11. CASE RemoveConn(p) BY <1>11 DEF RemoveConn, Go
<1>12. CASE CloseDialed(p) BY <1>12 DEF CloseDialed, Return, NoCall, Closed
<1>13. CASE CallEnds(p) BY <1>13 DEF CallEnds, Return, NoCall
<1>14. CASE CallBreaks(p) BY <1>14 DEF CallBreaks, Go
<1>15. CASE EvictConn(p) BY <1>15 DEF EvictConn, Go
<1>16. CASE CloseBroken(p) BY <1>16 DEF CloseBroken, Return, NoCall, Closed
<1> QED BY <1>1, <1>2, <1>3, <1>4, <1>5, <1>6, <1>7, <1>8, <1>9, <1>10, <1>11, <1>12, <1>13,
           <1>14, <1>15, <1>16 DEF Step

\* A step of one call stores a connection only to check it next, and a call that
\* checks while the server is gone goes on to remove what is stored.
LEMMA StepChecks ==
    ASSUME TypeOK, StoredIsChecked, NEW p \in Calls, Begin(p) \/ Step(p)
    PROVE StoredIsChecked'
<1> USE ConnsAssumption DEF TypeOK, Call, Conns, StoredIsChecked, server
<1>1. CASE Begin(p) BY <1>1 DEF Begin, Go
<1>2. CASE Find(p) BY <1>2 DEF Find, Go, GoWith
<1>3. CASE GetDialOnce(p) BY <1>3 DEF GetDialOnce
<1>4. CASE LockOnce(p) BY <1>4 DEF LockOnce, Go, GoWith, Return, NoCall
<1>5. CASE Look(p) BY <1>5 DEF Look, Go, GoWith
<1>6. CASE Dial(p) BY <1>6 DEF Dial
<1>7. CASE DialFails(p) BY <1>7 DEF DialFails, NoCall
<1>8. CASE ListFails(p) BY <1>8 DEF ListFails, Return, NoCall
<1>9. CASE GetOrSetConn(p) BY <1>9 DEF GetOrSetConn, Go, GoWith
<1>10. CASE CheckDialedConn(p) BY <1>10 DEF CheckDialedConn, StillThere, Go
<1>11. CASE RemoveConn(p) BY <1>11 DEF RemoveConn, Go
<1>12. CASE CloseDialed(p) BY <1>12 DEF CloseDialed, Return, NoCall
<1>13. CASE CallEnds(p) BY <1>13 DEF CallEnds, Return, NoCall
<1>14. CASE CallBreaks(p) BY <1>14 DEF CallBreaks, Go
<1>15. CASE EvictConn(p) BY <1>15 DEF EvictConn, Go
<1>16. CASE CloseBroken(p) BY <1>16 DEF CloseBroken, Return, NoCall
<1> QED BY <1>1, <1>2, <1>3, <1>4, <1>5, <1>6, <1>7, <1>8, <1>9, <1>10, <1>11, <1>12, <1>13,
           <1>14, <1>15, <1>16 DEF Step

\* A dial that failed leaves its dialOnce to be tried again by the next caller.
LEMMA StepDials ==
    ASSUME TypeOK, HasOnce, DoneHasConn, DialledItself, NEW p \in Calls, Begin(p) \/ Step(p)
    PROVE DoneHasConn' /\ DialledItself'
<1> USE ConnsAssumption DEF TypeOK, Call, Once, Conns, Onces, HasOnce, DoneHasConn, DialledItself, server
<1>1. CASE Begin(p) BY <1>1 DEF Begin, Go
<1>2. CASE Find(p) BY <1>2 DEF Find, Go, GoWith
<1>3. CASE GetDialOnce(p) BY <1>3 DEF GetDialOnce
<1>4. CASE LockOnce(p) BY <1>4 DEF LockOnce, Go, GoWith, Return, NoCall
<1>5. CASE Look(p) BY <1>5 DEF Look, Go, GoWith, UnlockedOnce
<1>6. CASE Dial(p) BY <1>6 DEF Dial
<1>7. CASE DialFails(p) BY <1>7 DEF DialFails, NoCall, UnlockedOnce
<1>8. CASE ListFails(p) BY <1>8 DEF ListFails, Return, NoCall, UnlockedOnce
<1>9. CASE GetOrSetConn(p) BY <1>9 DEF GetOrSetConn, Go, GoWith, UnlockedOnce
<1>10. CASE CheckDialedConn(p) BY <1>10 DEF CheckDialedConn, Go
<1>11. CASE RemoveConn(p) BY <1>11 DEF RemoveConn, Go
<1>12. CASE CloseDialed(p) BY <1>12 DEF CloseDialed, Return, NoCall
<1>13. CASE CallEnds(p) BY <1>13 DEF CallEnds, Return, NoCall
<1>14. CASE CallBreaks(p) BY <1>14 DEF CallBreaks, Go
<1>15. CASE EvictConn(p) BY <1>15 DEF EvictConn, Go
<1>16. CASE CloseBroken(p) BY <1>16 DEF CloseBroken, Return, NoCall
<1> QED BY <1>1, <1>2, <1>3, <1>4, <1>5, <1>6, <1>7, <1>8, <1>9, <1>10, <1>11, <1>12, <1>13,
           <1>14, <1>15, <1>16 DEF Step

\* The server's and the outside world's steps move no call.
LEMMA ServerKeeps ==
    ASSUME IInv,
           (\E c \in Conns : Breaks(c)) \/ Detach \/ Removing \/ Install \/ EvictSession
    PROVE IInv'
<1> USE ConnsAssumption DEF IInv, TypeOK, Conns, Onces, NoRemoval, NoLeakedSessionConn, Holds,
        StoredIsChecked, HasOnce, DoneHasConn, DialledItself, server
<1>1. CASE \E c \in Conns : Breaks(c) BY <1>1 DEF Breaks, Fails
<1>2. CASE Detach
  <2>1. removals' \in 0 .. MaxRemovals BY <1>2 DEF Detach
  <2>2. TypeOK' BY <1>2, <2>1 DEF Detach
  <2>3. NoLeakedSessionConn' BY <1>2 DEF Detach
  <2> QED BY <1>2, <2>2, <2>3 DEF Detach
<1>3. CASE TakeConn BY <1>3 DEF TakeConn
<1>4. CASE CloseTaken BY <1>4 DEF CloseTaken, Closed
<1>5. CASE ForgetTaken BY <1>5 DEF ForgetTaken
<1>6. CASE Install BY <1>6 DEF Install
<1>7. CASE EvictSession BY <1>7 DEF EvictSession, Closed
<1> QED BY <1>1, <1>2, <1>3, <1>4, <1>5, <1>6, <1>7 DEF Removing

LEMMA NextIInv == IInv /\ [Next]_vars => IInv'
<1> SUFFICES ASSUME IInv, [Next]_vars PROVE IInv'
    OBVIOUS
<1>1. CASE \E p \in Calls : Begin(p) \/ Step(p)
  BY <1>1, StepTypes, StepOnce, StepOwners, StepChecks, StepDials DEF IInv
<1>2. CASE (\E c \in Conns : Breaks(c)) \/ Detach \/ Removing \/ Install \/ EvictSession
  BY <1>2, ServerKeeps
<1>3. CASE UNCHANGED vars
  BY <1>3 DEF vars, IInv, TypeOK, NoLeakedSessionConn, Holds, StoredIsChecked, DoneHasConn,
     DialledItself, HasOnce
<1> QED BY <1>1, <1>2, <1>3 DEF Next

\* The invariant holds throughout.
LEMMA Invariance == Spec => []IInv
  BY InitIInv, NextIInv, PTL DEF Spec

-----------------------------------------------------------------------------
\* However calls, breaks, removals and evictions interleave, no connection of a
\* session is left open without somebody who will use or close it.
THEOREM NoSessionConnLeaks == Spec => []NoLeakedSessionConn
<1>1. IInv => NoLeakedSessionConn BY DEF IInv
<1> QED BY <1>1, Invariance, PTL

\* A removed server keeps no connection once the calls that knew it have ended.
THEOREM RemovalClosesEverything == Spec => []RemovedLeavesNoConn
<1>1. IInv => RemovedLeavesNoConn
  <2> SUFFICES ASSUME IInv, ~registered, removal.pc = "idle", \A p \in Calls : ~Active(p),
                      NEW c \in open
               PROVE FALSE
    BY DEF RemovedLeavesNoConn
  <2>1. c \in Conns /\ c # None
    BY ConnsAssumption DEF IInv, TypeOK, Conns
  <2>2. stored = None
    BY DEF IInv, StoredIsChecked, Active
  <2>3. PICK p \in Calls : Holds(p, c)
    BY <2>1, <2>2 DEF IInv, NoLeakedSessionConn
  <2> QED BY <2>3 DEF Holds, Active
<1> QED BY <1>1, Invariance, PTL

\* A call fails to dial only in its own dial, never with the error of another's.
THEOREM DialErrorsAreOwn == Spec => []OwnDialErrors
<1>1. IInv => OwnDialErrors BY DEF IInv, DialledItself, OwnDialErrors
<1> QED BY <1>1, Invariance, PTL

\* Every open connection has an owner, and a removed server has none once its calls have ended.
THEOREM ConnectionsAreOwned == Spec => []ConnsAreOwned
<1>1. NoLeakedSessionConn /\ RemovedLeavesNoConn => ConnsAreOwned BY DEF ConnsAreOwned
<1> QED BY <1>1, NoSessionConnLeaks, RemovalClosesEverything, PTL


-----------------------------------------------------------------------------
(* A run of mini init: the inductive invariant *)

Screens == {"keys", "saving", "moving", "leaving"}
Commits == {"committing", "connecting", "done"}
Steps == Screens \cup {"quitting", "ending", "waiting", "closing"} \cup Commits
Names == SUBSET Servers
Event == {"started", "err", "ok"}

UIStates == [at : 1 .. 6, pc : Steps, to : 0 .. 6, saved : BOOLEAN, saves : Nat, end : {"", "quit", "finished"}]
ServerDirs == [srv : [Servers -> Settings], login : [Servers -> Settings], found : Names]
CheckStates == [running : SUBSET (Dirs \X Servers), cancelled : BOOLEAN, checking : Names, checked : Names,
                changed : BOOLEAN, refused : Names, noSelfRegistration : Names]
\* The Logins screen's copy.
LoginsCopy == [checking : Names, need : Names, rows : Names, byHand : Names,
               results : [Servers -> {"none"} \cup Event], waiting : BOOLEAN]
LoginStates == [pending : 0 .. MaxLogins, id : 0 .. MaxLogins, s : Servers \cup {""}, dir : Dirs, v : Settings,
                phase : {"none", "begin", "browser", "exchange", "done"}, cancelled : BOOLEAN]
Inboxes == [events : Seq(Event), awaited : BOOLEAN]
Commitments == [left : Names, step : {"", "forget", "copy", "create"}, ours : Names, removed : Names]
Targets == Dirs \X Servers \X Settings
Plans == [targets : SUBSET Targets, listed : BOOLEAN]
Choices == {"later", "only", "remove"}
ConnectStates == [plan : Plans, withMini : BOOLEAN, runs : Nat, stop : BOOLEAN, done : BOOLEAN, passed : Names,
                  chosen : Choices]
Probes == [phase : {"none", "run", "ended"}, targets : SUBSET Targets, passed : Names]

ConnectTypeOK == connect \in ConnectStates /\ probes \in [1 .. MaxConnects -> Probes]

RunTypeOK ==
    /\ ui \in UIStates /\ dir \in [Dirs -> ServerDirs] /\ made \in BOOLEAN /\ outside \in Nat
    /\ checks \in CheckStates /\ logins \in LoginsCopy /\ login \in LoginStates
    /\ inbox \in [1 .. MaxLogins -> Inboxes] /\ commit \in Commitments
    /\ ConnectTypeOK

\* The Logins screen is shown, or about to be left.
OnLogins == ui.at = Logins /\ ui.pc \in {"keys", "leaving"}

\* The browser login's goroutine runs.
LoginRuns == login.phase \in {"begin", "browser", "exchange"}

\* A run saves before it shows Logins, and leaves it only for another screen.
ScreensFollow ==
    /\ ui.at \in Logins .. Review \/ ui.pc \in {"saving", "moving"} => ui.saved
    /\ ui.pc = "leaving" => ui.at = Logins /\ ui.to # Logins
    /\ ui.pc \in {"waiting", "committing", "connecting"} => ui.end = "finished"
    /\ ui.pc \in Screens <=> ui.at # Past

\* A login runs only while the screen or the end of the run waits for it, and tells its end last.
LoginIsAwaited ==
    /\ login.pending \in {0, login.id}
    /\ login.pending # 0 => login.s \in Servers /\ (OnLogins \/ ui.pc = "ending")
    /\ LoginRuns => login.pending # 0 /\ (ui.pc = "ending" => login.cancelled)
    /\ \A i \in 1 .. MaxLogins : i > login.id => inbox[i].events = << >>
    /\ LoginRuns => \A k \in 1 .. Len(inbox[login.id].events) : inbox[login.id].events[k] = "started"

\* What has ended, by the step of the run's end.
EndsInOrder ==
    /\ ui.pc \in {"waiting", "closing"} \cup Commits => \A i \in 1 .. MaxConnects : probes[i].phase # "run"
    /\ ui.pc \in Commits => checks.running = {}
    /\ ui.pc \in {"connecting", "done"} => ~made
    /\ ui.pc \notin Screens => \A s \in Servers : logins.results[s] = "none"

\* The servers staged have the logins made for their settings, and those that are made are theirs.
StageIsKept ==
    /\ \A s \in Servers : Has("stage", s) => dir["stage"].login[s] \in {0, dir["stage"].srv[s]}
    /\ login.pending # 0 /\ login.dir = "stage" =>
          /\ dir["stage"].srv[login.s] = login.v /\ login.v # 0
          /\ \A k \in 1 .. Len(inbox[login.id].events) :
                inbox[login.id].events[k] = "ok" => LoggedIn("stage", login.s)

\* Unless somebody else adds servers, those that need a login, and those shown as logged in, are
\* the stage's.
ShownAreStaged ==
    /\ OnLogins => \A s \in logins.need : \E d \in Dirs : Has(d, s)
    /\ outside = 0 =>
          /\ ui.pc \notin Commits => \A s \in Servers : ~Has("mini", s)
          /\ login.pending # 0 => login.dir = "stage"
          /\ \A s \in Servers : logins.results[s] = "ok" => Has("stage", s) /\ LoggedIn("stage", s)

\* A server becomes mini's after what mini remembered of its name is forgotten.
CommitIsClean ==
    /\ ui.pc \notin Commits => commit = [left |-> {}, step |-> "", ours |-> {}, removed |-> {}]
    /\ ui.end # "finished" => commit.ours = {} /\ commit.removed = {}
    /\ ui.pc = "committing" => \A s \in commit.left : Has("stage", s)
    /\ ui.pc \in Commits \ {"committing"} => commit.left = {}
    /\ \A s \in commit.left :
          /\ s = (CHOOSE x \in commit.left : TRUE) /\ commit.step = "copy" => dir["mini"].login[s] = 0
          /\ s = (CHOOSE x \in commit.left : TRUE) /\ commit.step = "create" =>
                dir["mini"].login[s] \in {0, dir["stage"].srv[s]}
    /\ \A s \in commit.ours :
          s \notin commit.left /\ Has("mini", s) /\ dir["mini"].login[s] \in {0, dir["mini"].srv[s]}

\* The Logins screen shows the checks that run, or is about to be told.
ScreenIsTold ==
    OnLogins =>
        /\ logins.checking = checks.checking \/ (logins.waiting /\ checks.changed)
        /\ logins.checking # {} => logins.waiting

RunIInv ==
    /\ RunTypeOK /\ ScreensFollow /\ LoginIsAwaited /\ EndsInOrder /\ StageIsKept /\ ShownAreStaged
    /\ CommitIsClean /\ ScreenIsTold

\* A step that leaves the servers and logins of both directories.
SameServers == \A d \in Dirs : dir'[d].srv = dir[d].srv /\ dir'[d].login = dir[d].login

-----------------------------------------------------------------------------
(* A run of mini init: the screens *)

\* The UI after a step.
LEMMA UITyped ==
  ASSUME NEW u \in UIStates, NEW pc \in Steps, NEW at \in 1 .. 6, NEW to \in 0 .. 6
  PROVE  /\ [u EXCEPT !.pc = pc] \in UIStates /\ [u EXCEPT !.pc = pc, !.to = to] \in UIStates
         /\ [u EXCEPT !.pc = pc, !.at = at] \in UIStates
         /\ [u EXCEPT !.saved = TRUE, !.saves = @ + 1] \in UIStates
         /\ [u EXCEPT !.pc = pc, !.saved = TRUE, !.saves = @ + 1] \in UIStates
         /\ \A end \in {"", "quit", "finished"} : Ended(pc, end) \in UIStates
<1>1. \A end \in {"", "quit", "finished"} : Ended(pc, end) \in UIStates
  <2>1. 6 \in 1 .. 6 /\ 0 \in 0 .. 6 /\ 0 \in Nat /\ FALSE \in BOOLEAN
    OBVIOUS
  <2> QED BY <2>1 DEF UIStates, Ended, Past
<1>2. [u EXCEPT !.pc = pc] \in UIStates /\ [u EXCEPT !.pc = pc, !.to = to] \in UIStates
  BY DEF UIStates
<1>3. [u EXCEPT !.pc = pc, !.at = at] \in UIStates
  BY DEF UIStates
<1>4. u.saves \in Nat /\ u.saves + 1 \in Nat
  <2>1. u.saves \in Nat BY DEF UIStates
  <2> QED BY <2>1
<1>5. \A n \in Nat : [u EXCEPT !.saved = TRUE, !.saves = n] \in UIStates
  BY DEF UIStates
<1>6. \A n \in Nat : [u EXCEPT !.pc = pc, !.saved = TRUE, !.saves = n] \in UIStates
  BY DEF UIStates
<1> QED BY <1>1, <1>2, <1>3, <1>4, <1>5, <1>6

\* The events of a login, one more or one less.
LEMMA EventsSent ==
  ASSUME NEW q \in Seq(Event), NEW e \in Event
  PROVE  /\ Append(q, e) \in Seq(Event)
         /\ \A k \in 1 .. Len(Append(q, e)) : Append(q, e)[k] = e \/ (k \in 1 .. Len(q) /\ Append(q, e)[k] = q[k])
  OBVIOUS

\* The events of a login, without the one that was read.
LEMMA EventsRead ==
  ASSUME NEW q \in Seq(Event), q # << >>
  PROVE  /\ Tail(q) \in Seq(Event) /\ Head(q) \in Event /\ 1 \in 1 .. Len(q) /\ Head(q) = q[1]
         /\ \A k \in 1 .. Len(Tail(q)) : k + 1 \in 1 .. Len(q) /\ Tail(q)[k] = q[k + 1]
  OBVIOUS

\* Reading the Logins screen again: the checks that run, and servers that are there.
LEMMA RefreshReads ==
  ASSUME RunTypeOK, NEW l \in LoginsCopy
  PROVE  /\ RefreshLogins(l) \in LoginsCopy
         /\ RefreshLogins(l).results = l.results /\ RefreshLogins(l).waiting = l.waiting
         /\ RefreshLogins(l).checking = checks.checking
         /\ \A s \in RefreshLogins(l).need : s \in Servers /\ \E d \in Dirs : Has(d, s)
<1>1. checks.checking \in Names
  BY DEF RunTypeOK, CheckStates
<1>2. \A s \in Servers, d \in Dirs : NeedsLogin(d, s) => Has(d, s)
  BY DEF NeedsLogin, UsesOAuthLogin
<1> QED
  BY <1>1, <1>2 DEF RefreshLogins, LoginsCopy, Names

\* Import and Catalog show the same whatever the later screens last read.
LEMMA ShownEarly ==
  ASSUME NEW v
  PROVE  /\ Shown(v) \subseteq 1 .. 5
         /\ 1 \in Shown(v) <=> Importable # {}
         /\ 2 \in Shown(v) <=> ~CatalogEmpty
         /\ 4 \in Shown(v) <=> v.plan.listed
<1> USE DEF Shown, Imports, Catalogs, Logins, Connects, Review
<1>1. Shown(v) \subseteq 1 .. 5
  OBVIOUS
<1>2. 1 \in Shown(v) <=> Importable # {}
  OBVIOUS
<1>3. 2 \in Shown(v) <=> ~CatalogEmpty
  OBVIOUS
<1>4. 4 \in Shown(v) <=> v.plan.listed
  OBVIOUS
<1> QED
  BY <1>1, <1>2, <1>3, <1>4

\* A set of screens has a first and a last one.
LEMMA FirstAndLast ==
  ASSUME NEW S \in SUBSET (1 .. 5), S # {}
  PROVE  (\E i \in S : \A j \in S : i <= j) /\ (\E i \in S : \A j \in S : i >= j)
<1>1. \A j \in S : j \in {1, 2, 3, 4, 5}
  OBVIOUS
<1>2. \E i \in S : \A j \in S : i <= j
  <2>1. CASE 1 \in S BY <1>1, <2>1
  <2>2. CASE 1 \notin S /\ 2 \in S BY <1>1, <2>2
  <2>3. CASE 1 \notin S /\ 2 \notin S /\ 3 \in S BY <1>1, <2>3
  <2>4. CASE 1 \notin S /\ 2 \notin S /\ 3 \notin S /\ 4 \in S BY <1>1, <2>4
  <2>5. CASE 1 \notin S /\ 2 \notin S /\ 3 \notin S /\ 4 \notin S
    <3>1. \A j \in S : j = 5 BY <1>1, <2>5
    <3>2. PICK i \in S : TRUE OBVIOUS
    <3> QED BY <3>1, <3>2
  <2> QED BY <2>1, <2>2, <2>3, <2>4, <2>5
<1>3. \E i \in S : \A j \in S : i >= j
  <2>1. CASE 5 \in S BY <1>1, <2>1
  <2>2. CASE 5 \notin S /\ 4 \in S BY <1>1, <2>2
  <2>3. CASE 5 \notin S /\ 4 \notin S /\ 3 \in S BY <1>1, <2>3
  <2>4. CASE 5 \notin S /\ 4 \notin S /\ 3 \notin S /\ 2 \in S BY <1>1, <2>4
  <2>5. CASE 5 \notin S /\ 4 \notin S /\ 3 \notin S /\ 2 \notin S
    <3>1. \A j \in S : j = 1 BY <1>1, <2>5
    <3>2. PICK i \in S : TRUE OBVIOUS
    <3> QED BY <3>1, <3>2
  <2> QED BY <2>1, <2>2, <2>3, <2>4, <2>5
<1> QED
  BY <1>2, <1>3

\* The next screen, and the one before.
LEMMA ShownNext ==
  ASSUME NEW at \in 1 .. 6, NEW v
  PROVE  /\ NextShown(at, v) \in 1 .. 6
         /\ at # 6 => NextShown(at, v) > at
         /\ NextShown(at, v) = 3 => \A j \in Shown(v) : j > at => j >= 3
         /\ PrevShown(at, v) \in 1 .. 6 /\ PrevShown(at, v) <= at
         /\ PrevShown(at, v) = 3 => \A j \in Shown(v) : j < at => j <= 3
<1> DEFINE later == {i \in Shown(v) : i > at}
           earlier == {i \in Shown(v) : i < at}
<1>1. later \in SUBSET (1 .. 5) /\ earlier \in SUBSET (1 .. 5)
  BY ShownEarly
<1>2. later # {} => NextShown(at, v) \in later /\ \A j \in later : NextShown(at, v) <= j
  BY <1>1, FirstAndLast DEF NextShown
<1>3. later = {} => NextShown(at, v) = 6
  BY DEF NextShown, Past
<1>4. earlier # {} => PrevShown(at, v) \in earlier /\ \A j \in earlier : PrevShown(at, v) >= j
  BY <1>1, FirstAndLast DEF PrevShown
<1>5. earlier = {} => PrevShown(at, v) = at
  BY DEF PrevShown
<1> QED
  BY <1>1, <1>2, <1>3, <1>4, <1>5

\* What a screen last read, as it is or read again.
Reads(v) == v.logins \in {logins, RefreshLogins(logins)}

\* Before Logins is shown it is read again, whether it is reached forwards or backwards.
LEMMA LoginsAreRead ==
  ASSUME NEW at \in 1 .. 6
  PROVE  /\ Reads(RefreshAfter(at, View)) /\ Reads(RefreshBefore(at, View))
         /\ at < 3 /\ NextShown(at, RefreshAfter(at, View)) = 3 => RefreshAfter(at, View).logins = RefreshLogins(logins)
         /\ at > 3 /\ at # 6 /\ PrevShown(at, RefreshBefore(at, View)) = 3
              => RefreshBefore(at, View).logins = RefreshLogins(logins)
<1>1. Reads(RefreshAfter(at, View)) /\ Reads(RefreshBefore(at, View))
  BY DEF RefreshAfter, RefreshBefore, Reads, View
<1>2. ASSUME at < 3, NextShown(at, RefreshAfter(at, View)) = 3
      PROVE  RefreshAfter(at, View).logins = RefreshLogins(logins)
  <2>1. \A j \in Shown(RefreshAfter(at, View)) : j > at => j >= 3
    BY <1>2, ShownNext
  <2>2. Shown(View) \cap (at + 1 .. 2) = {}
    BY <1>2, <2>1, ShownEarly
  <2> QED
    BY <1>2, <2>2 DEF RefreshAfter, View, Logins, Catalogs
<1>3. ASSUME at > 3, at # 6, PrevShown(at, RefreshBefore(at, View)) = 3
      PROVE  RefreshBefore(at, View).logins = RefreshLogins(logins)
  <2>1. \A j \in Shown(RefreshBefore(at, View)) : j < at => j <= 3
    BY <1>3, ShownNext
  <2>2. CASE at = 4
    BY <2>2 DEF RefreshBefore, View, Connects, Review
  <2>3. CASE at = 5
    <3>1. 4 \notin Shown(RefreshBefore(at, View))
      BY <2>1, <2>3
    <3> QED
      BY <2>3, <3>1, ShownEarly DEF RefreshBefore, View, Connects, Review
  <2> QED
    BY <1>3, <2>2, <2>3
<1> QED
  BY <1>1, <1>2, <1>3

\* The views of the later screens.
Views == [logins : LoginsCopy, plan : Plans]

\* The plan names servers of the two directories.
LEMMA PlanTyped ==
  ASSUME RunTypeOK
  PROVE  PlanConnect \in Plans
<1> DEFINE dirs == IF made THEN Dirs ELSE {"mini"}
           from(s) == IF made /\ Has("stage", s) THEN "stage" ELSE "mini"
           dups == IF ServedAfterEdit(agent.mini) THEN Duplicates(dirs) ELSE {}
           targets == {<<from(s), s, dir[from(s)].srv[s]>> : s \in dups}
           listed == ~connect.withMini \/ dups # {}
<1>1. dups \subseteq Servers
  BY DEF Duplicates
<1>2. \A s \in Servers : from(s) \in Dirs /\ dir[from(s)].srv[s] \in Settings
  <2>1. \A d \in Dirs : dir[d].srv \in [Servers -> Settings]
    BY DEF RunTypeOK, ServerDirs
  <2>2. \A s \in Servers : from(s) \in Dirs
    BY DEF Dirs
  <2> HIDE DEF from
  <2> QED BY <2>1, <2>2
<1>3. targets \in SUBSET Targets
  BY <1>1, <1>2 DEF Targets
<1>4. listed \in BOOLEAN
  OBVIOUS
<1>5. PlanConnect = [targets |-> targets, listed |-> listed]
  BY DEF PlanConnect
<1> HIDE DEF targets, listed
<1> QED BY <1>3, <1>4, <1>5 DEF Plans

\* What the refreshes give are views.
LEMMA ViewsTyped ==
  ASSUME RunTypeOK, NEW at \in 1 .. 6, NEW v \in Views
  PROVE  /\ View \in Views
         /\ RefreshAfter(at, v) \in Views /\ RefreshBefore(at, v) \in Views
         /\ RefreshAfter(at, v).logins \in {v.logins, RefreshLogins(v.logins)}
         /\ RefreshAfter(at, v).logins.results = v.logins.results
         /\ at >= 3 => RefreshAfter(at, v).logins = v.logins
<1>1. v.logins \in LoginsCopy /\ v.plan \in Plans
  BY DEF Views
<1>2. RefreshLogins(v.logins) \in LoginsCopy /\ RefreshLogins(v.logins).results = v.logins.results
  BY <1>1, RefreshReads
<1>3. \A l \in LoginsCopy, p \in Plans :
        [v EXCEPT !.logins = l] \in Views /\ [v EXCEPT !.plan = p] \in Views
        /\ [[v EXCEPT !.logins = l] EXCEPT !.plan = p] \in Views
  BY DEF Views
<1>4. \A l, p :
        /\ [v EXCEPT !.logins = l].logins = l /\ [v EXCEPT !.plan = p].logins = v.logins
        /\ [[v EXCEPT !.logins = l] EXCEPT !.plan = p].logins = l
        /\ [[v EXCEPT !.plan = p] EXCEPT !.logins = l].logins = l
  BY DEF Views
<1>5. View \in Views
  BY DEF View, Views, RunTypeOK, ConnectTypeOK, ConnectStates
<1> DEFINE l == RefreshLogins(v.logins)
<1>6. RefreshAfter(at, v) \in {v, [v EXCEPT !.logins = l], [v EXCEPT !.plan = PlanConnect],
                               [[v EXCEPT !.logins = l] EXCEPT !.plan = PlanConnect]}
  BY DEF RefreshAfter
<1>7. RefreshBefore(at, v) \in {v, [v EXCEPT !.logins = RefreshLogins(@)], [v EXCEPT !.plan = PlanConnect],
                                [[v EXCEPT !.plan = PlanConnect] EXCEPT !.logins = RefreshLogins(@)]}
  BY DEF RefreshBefore
<1>8. [v EXCEPT !.plan = PlanConnect] \in Views
      /\ [[v EXCEPT !.plan = PlanConnect] EXCEPT !.logins = RefreshLogins(@)] \in Views
  BY <1>1, <1>2, PlanTyped DEF Views
<1>9. RefreshAfter(at, v) \in Views /\ RefreshBefore(at, v) \in Views
  BY <1>2, <1>3, <1>6, <1>7, <1>8, PlanTyped
<1>10. RefreshAfter(at, v).logins \in {v.logins, RefreshLogins(v.logins)}
  <2>1. /\ [v EXCEPT !.logins = l].logins = l /\ [v EXCEPT !.plan = PlanConnect].logins = v.logins
        /\ [[v EXCEPT !.logins = l] EXCEPT !.plan = PlanConnect].logins = l
    BY <1>4
  <2> HIDE DEF l
  <2>2. RefreshAfter(at, v).logins \in {v.logins, l}
    BY <1>6, <2>1
  <2> QED BY <2>2 DEF l
<1>11. at >= 3 => RefreshAfter(at, v).logins = v.logins
  BY <1>4 DEF RefreshAfter, Logins
<1> QED
  BY <1>2, <1>5, <1>9, <1>10, <1>11

-----------------------------------------------------------------------------
(* A run of mini init: steps of the screens *)

\* A step of the UI from a screen to a screen, or to the end: it reads the servers, the checks and
\* the logins, and may cancel the login, or forget one that has ended.
ScreenStep ==
    /\ ui.pc \in Screens /\ ui'.pc \in Screens \cup {"quitting"}
    /\ UNCHANGED <<dir, inbox, commit, outside>>
    /\ checks' \in {checks, [checks EXCEPT !.cancelled = TRUE]} /\ made' \in BOOLEAN
    /\ ui' \in UIStates /\ ConnectTypeOK' /\ logins' \in LoginsCopy
    /\ logins'.results = logins.results \/ \A s \in Servers : logins'.results[s] = "none"
    /\ ui'.pc \notin Screens => \A s \in Servers : logins'.results[s] = "none"
    /\ login' \in {login, [login EXCEPT !.cancelled = TRUE], [login EXCEPT !.pending = 0, !.cancelled = FALSE]}
    /\ login'.pending # 0 => OnLogins'
    /\ LoginRuns => login'.pending = login.pending
    /\ ScreensFollow' /\ ScreenIsTold'
    /\ OnLogins' => \A s \in logins'.need : \E d \in Dirs : Has(d, s)

\* A step of the screens that reads what it shows keeps what the run promises.
LEMMA ScreenKeeps ==
  ASSUME RunIInv, ScreenStep
  PROVE  RunIInv'
<1>1. /\ checks' \in CheckStates /\ checks'.checking = checks.checking /\ checks'.changed = checks.changed
      /\ checks'.running = checks.running
  BY DEF RunIInv, RunTypeOK, ScreenStep, CheckStates
<1>2. /\ login' \in LoginStates /\ login'.pending \in {0, login.pending} /\ login'.id = login.id
      /\ login'.s = login.s /\ login'.dir = login.dir /\ login'.v = login.v /\ login'.phase = login.phase
  <2>1. login \in LoginStates
    BY DEF RunIInv, RunTypeOK
  <2>2. /\ [login EXCEPT !.cancelled = TRUE] \in LoginStates
        /\ [login EXCEPT !.pending = 0, !.cancelled = FALSE] \in LoginStates
    <3>1. 0 \in 0 .. MaxLogins
      BY ConstantsAssumption
    <3> QED BY <2>1, <3>1 DEF LoginStates
  <2> QED
    BY <2>1, <2>2 DEF ScreenStep, LoginStates
<1>3. RunTypeOK'
  BY <1>1, <1>2 DEF RunIInv, RunTypeOK, ScreenStep, ConnectTypeOK
<1>4. LoginIsAwaited'
  <2>1. ui'.pc # "ending" /\ ui.pc # "ending"
    BY DEF ScreenStep, Screens
  <2> QED
    BY <1>2, <2>1 DEF RunIInv, LoginIsAwaited, LoginRuns, ScreenStep
<1>5. EndsInOrder'
  BY DEF ScreenStep, EndsInOrder, Screens, Commits
<1>6. StageIsKept'
  BY <1>2 DEF RunIInv, StageIsKept, ScreenStep, Has, LoggedIn
<1>7. ShownAreStaged'
  <2>1. ui.pc \notin Commits /\ ui'.pc \notin Commits
    BY DEF ScreenStep, Screens, Commits
  <2>2. \A s \in Servers : logins'.results[s] = "ok" => logins.results[s] = "ok"
    BY DEF ScreenStep
  <2>3. \A d, s : (Has(d, s)' <=> Has(d, s)) /\ (LoggedIn(d, s)' <=> LoggedIn(d, s))
    BY DEF ScreenStep, Has, LoggedIn
  <2>4. OnLogins' => \A s \in logins'.need : \E d \in Dirs : Has(d, s)'
    BY <2>3 DEF ScreenStep
  <2> QED
    BY <1>2, <2>1, <2>2, <2>3, <2>4 DEF RunIInv, ShownAreStaged, ScreenStep
<1>8. CommitIsClean'
  <2>1. ui.pc \notin Commits /\ ui'.pc \notin Commits
    BY DEF ScreenStep, Screens, Commits
  <2>2. commit' = [left |-> {}, step |-> "", ours |-> {}, removed |-> {}]
    BY <2>1 DEF RunIInv, CommitIsClean, ScreenStep
  <2> QED
    BY <2>1, <2>2 DEF CommitIsClean, Commits
<1> QED
  BY <1>3, <1>4, <1>5, <1>6, <1>7, <1>8 DEF RunIInv, ScreenStep

\* While a screen is shown, a login that is awaited is awaited by Logins.
LEMMA AwaitedByLogins ==
  ASSUME RunIInv, ui.pc \in Screens, login.pending # 0
  PROVE  OnLogins /\ ui.at = 3 /\ ui.saved
  BY DEF RunIInv, LoginIsAwaited, ScreensFollow, Screens, OnLogins, Logins, Review

\* What Logins shows, as it is or read again, is or will be up to date, and of servers there are.
LEMMA ReadsAreTold ==
  ASSUME RunIInv, NEW l \in {logins, RefreshLogins(logins)}, OnLogins
  PROVE  /\ l.checking = checks.checking \/ (l.waiting /\ checks.changed)
         /\ l.checking # {} => l.waiting
         /\ \A s \in l.need : \E d \in Dirs : Has(d, s)
<1>1. logins \in LoginsCopy /\ RunTypeOK
  BY DEF RunIInv, RunTypeOK
<1>2. /\ RefreshLogins(logins).checking = checks.checking
      /\ RefreshLogins(logins).waiting = logins.waiting
      /\ \A s \in RefreshLogins(logins).need : \E d \in Dirs : Has(d, s)
  BY <1>1, RefreshReads
<1> QED
  BY <1>2 DEF RunIInv, ScreenIsTold, ShownAreStaged

\* show with its enter, and what it needs.
LEMMA ShowEffect ==
  ASSUME RunIInv, NEW u \in UIStates, NEW to \in 1 .. 6, NEW view \in Views, NEW chosen \in Choices,
         Show(u, to, view, chosen),
         view.logins.results = logins.results,
         to = 3 => view.logins = RefreshLogins(logins),
         to \in 3 .. 5 => u.saved,
         u.pc \in Screens
  PROVE  /\ ui'.pc \in Screens \cup {"quitting"} /\ ui' \in UIStates
         /\ ConnectTypeOK' /\ logins' \in LoginsCopy
         /\ logins'.results = logins.results \/ \A s \in Servers : logins'.results[s] = "none"
         /\ ui'.pc \notin Screens => \A s \in Servers : logins'.results[s] = "none"
         /\ ScreensFollow'
         /\ OnLogins' =>
              /\ logins'.checking = checks.checking
              /\ logins'.checking # {} => logins'.waiting
              /\ \A s \in logins'.need : \E d \in Dirs : Has(d, s)
<1> DEFINE after == RefreshAfter(to, view)
           l == after.logins
<1>0. RunTypeOK /\ ConnectTypeOK
  BY DEF RunIInv, RunTypeOK
<1>1. after \in Views /\ l.results = logins.results /\ (to >= 3 => l = view.logins)
  BY <1>0, ViewsTyped
<1>2. l \in LoginsCopy /\ after.plan \in Plans
  BY <1>1 DEF Views
<1>3. NoLogins \in LoginsCopy /\ (\A s \in Servers : NoLogins.results[s] = "none")
  BY DEF NoLogins, LoginsCopy, Names
<1>4. NoPlan \in Plans
  BY DEF NoPlan, Plans
<1>5. connect \in ConnectStates /\ probes \in [1 .. MaxConnects -> Probes]
  BY <1>0 DEF ConnectTypeOK
<1> DEFINE c == [connect EXCEPT !.plan = after.plan, !.chosen = chosen, !.stop = FALSE]
<1>6. c \in ConnectStates /\ c.plan.targets \in SUBSET Targets
  BY <1>2, <1>5 DEF ConnectStates, Plans
<1>7. CASE to = 6
  <2>1. ui' = Ended("quitting", "finished") /\ logins' = NoLogins /\ UNCHANGED probes
        /\ connect' = [c EXCEPT !.plan = NoPlan, !.done = FALSE, !.passed = IF chosen = "remove" THEN @ ELSE {}]
    BY <1>7 DEF Show, NoScreens, Past
  <2>2. ui' \in UIStates /\ ui'.pc = "quitting" /\ ui'.at = 6 /\ ui'.end = "finished"
    <3>1. "quitting" \in Steps /\ 1 \in 1 .. 6 /\ 0 \in 0 .. 6
      BY DEF Steps
    <3>2. Ended("quitting", "finished") \in UIStates
      BY <3>1, UITyped
    <3> QED BY <2>1, <3>2 DEF Ended, Past
  <2>3. connect' \in ConnectStates
    <3>1. c.passed \in Names
      BY <1>6 DEF ConnectStates
    <3>2. (IF chosen = "remove" THEN c.passed ELSE {}) \in Names
      BY <3>1 DEF Names
    <3> HIDE DEF c
    <3>3. \A p \in Names : [c EXCEPT !.plan = NoPlan, !.done = FALSE, !.passed = p] \in ConnectStates
      BY <1>4, <1>6 DEF ConnectStates
    <3> QED BY <2>1, <3>2, <3>3
  <2>4. ScreensFollow'
    BY <2>2 DEF ScreensFollow, Screens, Logins, Review, Past
  <2>5. ~OnLogins'
    BY <2>2 DEF OnLogins
  <2> QED
    BY <1>3, <1>5, <2>1, <2>2, <2>3, <2>4, <2>5 DEF ConnectTypeOK
<1>8. CASE to # 6
  <2>1. /\ ui' = [u EXCEPT !.pc = "keys", !.at = to]
        /\ logins' = [l EXCEPT !.waiting = @ \/ (to = 3 /\ l.checking # {})]
        /\ IF to = 4
           THEN /\ connect' = [c EXCEPT !.runs = @ + 1, !.stop = TRUE, !.done = FALSE, !.passed = {}]
                /\ probes' = [probes EXCEPT ![c.runs + 1] =
                                 [phase |-> "run", targets |-> c.plan.targets, passed |-> {}]]
           ELSE connect' = c /\ UNCHANGED probes
    BY <1>8 DEF Show, Past, Logins, Connects
  <2>2. ui' \in UIStates /\ ui'.pc = "keys" /\ ui'.at = to /\ ui'.saved = u.saved
    BY <2>1 DEF UIStates, Steps, Screens
  <2>3. /\ logins' \in LoginsCopy /\ logins'.results = l.results /\ logins'.need = l.need
        /\ logins'.checking = l.checking
        /\ logins'.waiting <=> l.waiting \/ (to = 3 /\ l.checking # {})
    <3> HIDE DEF l
    <3> QED BY <1>2, <2>1 DEF LoginsCopy
  <2>4. connect' \in ConnectStates
    <3> HIDE DEF c
    <3>1. [c EXCEPT !.runs = @ + 1, !.stop = TRUE, !.done = FALSE, !.passed = {}] \in ConnectStates
      <4>1. c.runs + 1 \in Nat /\ {} \in Names
        BY <1>6 DEF ConnectStates, Names
      <4>2. \A n \in Nat, p \in Names :
              [c EXCEPT !.runs = n, !.stop = TRUE, !.done = FALSE, !.passed = p] \in ConnectStates
        BY <1>6 DEF ConnectStates
      <4> QED BY <4>1, <4>2
    <3> QED BY <1>6, <2>1, <3>1
  <2>5. probes' \in [1 .. MaxConnects -> Probes]
    <3>1. [phase |-> "run", targets |-> c.plan.targets, passed |-> {}] \in Probes
      <4> HIDE DEF c
      <4> QED BY <1>6 DEF Probes, Names
    <3> HIDE DEF c
    <3> QED BY <1>5, <2>1, <3>1
  <2>6. ScreensFollow'
    BY <1>8, <2>2 DEF ScreensFollow, Screens, Logins, Review, Past
  <2>7. ASSUME OnLogins'
        PROVE  /\ logins'.checking = checks.checking
               /\ logins'.checking # {} => logins'.waiting
               /\ \A s \in logins'.need : \E d \in Dirs : Has(d, s)
    <3>1. to = 3
      BY <2>2, <2>7 DEF OnLogins, Logins
    <3>2. l = RefreshLogins(logins)
      BY <1>1, <3>1
    <3>3. logins \in LoginsCopy
      BY <1>0 DEF RunTypeOK
    <3>4. /\ RefreshLogins(logins).checking = checks.checking
          /\ \A s \in RefreshLogins(logins).need : \E d \in Dirs : Has(d, s)
      BY <1>0, <3>3, RefreshReads
    <3> HIDE DEF l
    <3> QED BY <2>3, <3>1, <3>2, <3>4
  <2> QED
    BY <1>1, <2>2, <2>3, <2>4, <2>5, <2>6, <2>7 DEF ConnectTypeOK, Screens
<1> QED
  BY <1>7, <1>8

\* leave and show.
LEMMA MoveKeeps ==
  ASSUME RunIInv, NEW u \in UIStates, NEW to \in 1 .. 6, NEW view \in Views, NEW chosen \in Choices,
         MoveTo(u, to, view, chosen), UNCHANGED <<dir, made, checks, inbox, agent, commit, outside>>,
         ui.pc \in {"keys", "moving"}, u.pc = ui.pc, u.at = ui.at, ui.saved => u.saved,
         Reads(view), to = 3 => view.logins = RefreshLogins(logins), ui.at = 3 => to # 3,
         to \in 3 .. 5 => u.saved
  PROVE  RunIInv'
<1>0. RunTypeOK /\ ConnectTypeOK /\ logins \in LoginsCopy /\ login \in LoginStates
      /\ checks \in CheckStates /\ made \in BOOLEAN
  BY DEF RunIInv, RunTypeOK
<1>1. ui.pc \in Screens /\ u.pc \in Screens
  BY DEF Screens
<1>2. view.logins \in LoginsCopy /\ view.logins.results = logins.results /\ view.plan \in Plans
  <2>1. RefreshLogins(logins).results = logins.results
    BY <1>0, RefreshReads
  <2> QED BY <2>1 DEF Reads, Views
<1>3. CASE u.at = Logins /\ login.pending # 0
  <2>1. /\ ui' = [u EXCEPT !.pc = "leaving", !.to = to]
        /\ login' = [login EXCEPT !.cancelled = TRUE]
        /\ logins' = view.logins
        /\ connect' = [connect EXCEPT !.plan = view.plan, !.chosen = chosen]
        /\ UNCHANGED probes
    BY <1>3 DEF MoveTo
  <2>2. OnLogins /\ ui.saved
    BY <1>1, <1>3, AwaitedByLogins
  <2>3. /\ ui' \in UIStates /\ ui'.pc = "leaving" /\ ui'.to = to /\ ui'.at = 3 /\ ui'.saved
    <3>1. "leaving" \in Steps /\ to \in 0 .. 6
      BY DEF Steps, Screens
    <3>2. ui' \in UIStates
      BY <2>1, <3>1, UITyped
    <3> QED BY <1>3, <2>1, <2>2, <3>2 DEF UIStates, Logins
  <2>4. ScreensFollow'
    BY <1>3, <2>3 DEF ScreensFollow, Screens, Logins, Review, Past
  <2>5. login'.pending = login.pending
    BY <1>0, <2>1 DEF LoginStates
  <2>6. ScreenIsTold' /\ \A s \in logins'.need : \E d \in Dirs : Has(d, s)
    BY <2>1, <2>2, ReadsAreTold DEF Reads, ScreenIsTold
  <2>7. OnLogins'
    BY <2>3 DEF OnLogins, Logins
  <2>8. ConnectTypeOK'
    BY <1>0, <1>2, <2>1 DEF ConnectTypeOK, ConnectStates
  <2>9. ScreenStep
    BY <1>0, <1>1, <1>2, <2>1, <2>3, <2>4, <2>5, <2>6, <2>7, <2>8 DEF ScreenStep, Screens
  <2> QED
    BY <2>9, ScreenKeeps
<1>4. CASE ~(u.at = Logins /\ login.pending # 0)
  <2>1. Show(u, to, view, chosen) /\ UNCHANGED login
    BY <1>4 DEF MoveTo
  <2>2. login.pending = 0
    BY <1>1, <1>4, AwaitedByLogins DEF Logins
  <2>3. /\ ui'.pc \in Screens \cup {"quitting"} /\ ui' \in UIStates
        /\ ConnectTypeOK' /\ logins' \in LoginsCopy
        /\ logins'.results = logins.results \/ \A s \in Servers : logins'.results[s] = "none"
        /\ ui'.pc \notin Screens => \A s \in Servers : logins'.results[s] = "none"
        /\ ScreensFollow'
        /\ OnLogins' =>
              /\ logins'.checking = checks.checking
              /\ logins'.checking # {} => logins'.waiting
              /\ \A s \in logins'.need : \E d \in Dirs : Has(d, s)
    BY <1>1, <1>2, <2>1, ShowEffect
  <2>4. ScreenIsTold'
    BY <2>3 DEF ScreenIsTold
  <2>5. ScreenStep
    BY <1>0, <1>1, <2>1, <2>2, <2>3, <2>4 DEF ScreenStep
  <2> QED
    BY <2>5, ScreenKeeps
<1> QED
  BY <1>3, <1>4

\* A move forwards, from a screen before Logins that saved or from one after it.
LEMMA OnwardsKeeps ==
  ASSUME RunIInv, NEW u \in UIStates, NEW chosen \in Choices,
         ui.pc \in {"keys", "moving"}, u.pc = ui.pc, u.at = ui.at, ui.saved => u.saved,
         MoveTo(u, NextShown(ui.at, RefreshAfter(ui.at, View)), RefreshAfter(ui.at, View), chosen),
         UNCHANGED <<dir, made, checks, inbox, agent, commit, outside>>,
         NextShown(ui.at, RefreshAfter(ui.at, View)) \in 3 .. 5 => u.saved
  PROVE  RunIInv'
<1>1. RunTypeOK /\ ui.at \in 1 .. 6 /\ ui.at # 6
  BY DEF RunIInv, RunTypeOK, UIStates, ScreensFollow, Screens, Past
<1> DEFINE view == RefreshAfter(ui.at, View)
           to == NextShown(ui.at, view)
<1>2. View \in Views
  BY DEF RunIInv, RunTypeOK, View, Views, ConnectTypeOK, ConnectStates
<1>3. view \in Views
  BY <1>1, <1>2, ViewsTyped
<1>4. to \in 1 .. 6 /\ to > ui.at
  BY <1>1, ShownNext
<1>5. Reads(view) /\ (ui.at < 3 /\ to = 3 => view.logins = RefreshLogins(logins))
  BY <1>1, LoginsAreRead
<1>6. to = 3 => ui.at < 3
  BY <1>1, <1>4
<1> HIDE DEF view, to
<1>7. MoveTo(u, to, view, chosen) /\ (to \in 3 .. 5 => u.saved)
  BY DEF view, to
<1> QED
  BY <1>1, <1>3, <1>4, <1>5, <1>6, <1>7, MoveKeeps

\* Forward, which saves on the way to Logins or moves on at once.
LEMMA ForwardKeeps ==
  ASSUME RunIInv, Free, NEW chosen \in Choices, Forward(chosen),
         UNCHANGED <<dir, inbox, agent, commit, outside>>
  PROVE  RunIInv'
<1> DEFINE view == RefreshAfter(ui.at, View)
           to == NextShown(ui.at, view)
<1>1. /\ RunTypeOK /\ ui \in UIStates /\ ui.at \in 1 .. 5 /\ ui.pc = "keys" /\ ui.pc \in Screens
      /\ (ui.at \in 3 .. 5 => ui.saved)
  <2>1. RunTypeOK /\ ui \in UIStates /\ ui.pc = "keys" /\ ui.pc \in Screens
    BY DEF RunIInv, RunTypeOK, Free, Screens
  <2>2. ui.at \in 1 .. 6 /\ ui.at # 6
    BY <2>1 DEF RunIInv, UIStates, ScreensFollow, Past
  <2> QED
    BY <2>1, <2>2 DEF RunIInv, ScreensFollow, Logins, Review
<1>2. to \in 1 .. 6 /\ to > ui.at
  BY <1>1, ShownNext
<1>3. view \in Views /\ View \in Views
  <2>1. View \in Views
    BY DEF RunIInv, RunTypeOK, View, Views, ConnectTypeOK, ConnectStates
  <2> QED BY <1>1, <2>1, ViewsTyped
<1>4. Reads(view)
  BY <1>1, LoginsAreRead
<1>5. [ui EXCEPT !.saved = TRUE, !.saves = @ + 1] \in UIStates
  <2>1. "keys" \in Steps /\ 1 \in 1 .. 6 /\ 0 \in 0 .. 6
    BY DEF Steps, Screens
  <2> QED BY <1>1, <2>1, UITyped
<1>p. "saving" \in Steps
  BY DEF Steps, Screens
<1>6. CASE /\ Saves(to) /\ ui' = [ui EXCEPT !.pc = "saving", !.saved = TRUE, !.saves = @ + 1]
           /\ checks' = [checks EXCEPT !.cancelled = TRUE]
           /\ made' = TRUE
           /\ logins' = view.logins
           /\ connect' = [connect EXCEPT !.plan = view.plan, !.chosen = chosen]
           /\ UNCHANGED <<login, picks, probes>>
  <2>1. login.pending = 0
    BY <1>1, <1>6, AwaitedByLogins DEF Saves, Catalogs
  <2>2. ui' \in UIStates /\ ui'.pc = "saving" /\ ui'.saved /\ ui'.at = ui.at /\ ui'.end = ui.end
    <3>1. 1 \in 1 .. 6 /\ 0 \in 0 .. 6
      OBVIOUS
    <3>2. ui' \in UIStates
      BY <1>1, <1>6, <1>p, <3>1, UITyped
    <3> QED BY <1>1, <1>6, <3>2 DEF UIStates
  <2>3. ScreensFollow'
    BY <1>1, <2>2 DEF ScreensFollow, Screens, Past
  <2>4. ~OnLogins' /\ ScreenIsTold'
    BY <2>2 DEF OnLogins, ScreenIsTold
  <2>5. logins' \in LoginsCopy /\ logins'.results = logins.results
    <3>1. logins \in LoginsCopy
      BY <1>1 DEF RunTypeOK
    <3> QED BY <1>1, <1>4, <1>6, <3>1, RefreshReads DEF Reads
  <2>6. ConnectTypeOK'
    <3>1. view.plan \in Plans
      BY <1>3 DEF Views
    <3> HIDE DEF view
    <3> QED BY <1>1, <1>6, <3>1 DEF RunTypeOK, ConnectTypeOK, ConnectStates
  <2>7. ScreenStep
    BY <1>1, <1>6, <2>1, <2>2, <2>3, <2>4, <2>5, <2>6 DEF ScreenStep, Screens
  <2> QED
    BY <2>7, ScreenKeeps
<1>7. CASE MoveTo([ui EXCEPT !.saved = TRUE, !.saves = @ + 1], to, view, chosen) /\ UNCHANGED <<checks, made>>
  <2>1. /\ [ui EXCEPT !.saved = TRUE, !.saves = @ + 1].pc = ui.pc
        /\ [ui EXCEPT !.saved = TRUE, !.saves = @ + 1].at = ui.at
        /\ [ui EXCEPT !.saved = TRUE, !.saves = @ + 1].saved
    BY <1>1 DEF UIStates
  <2> QED
    BY <1>1, <1>5, <1>7, <2>1, OnwardsKeeps
<1>8. CASE ~Saves(to) /\ MoveTo(ui, to, view, chosen) /\ UNCHANGED <<checks, made>>
  <2>1. to \in 3 .. 5 => ui.saved
    BY <1>1, <1>2, <1>8 DEF Saves, Catalogs
  <2> QED
    BY <1>1, <1>8, <2>1, OnwardsKeeps
<1> QED
  BY <1>6, <1>7, <1>8 DEF Forward

\* Back, the rest of forward, and esc on Logins.
LEMMA BackKeeps ==
  ASSUME RunIInv, Back PROVE RunIInv'
<1> DEFINE view == RefreshBefore(ui.at, View)
           to == PrevShown(ui.at, view)
<1>1. RunTypeOK /\ ui \in UIStates /\ ui.at \in 1 .. 5 /\ ui.pc = "keys" /\ (ui.at \in 3 .. 5 => ui.saved)
  <2>1. RunTypeOK /\ ui \in UIStates /\ ui.pc = "keys"
    BY DEF RunIInv, RunTypeOK, Back, Free
  <2>2. ui.at \in 1 .. 6 /\ ui.at # 6
    BY <2>1 DEF RunIInv, UIStates, ScreensFollow, Screens, Past
  <2> QED
    BY <2>1, <2>2 DEF RunIInv, ScreensFollow, Logins, Review
<1>2. View \in Views /\ connect.chosen \in Choices
  BY DEF RunIInv, RunTypeOK, View, Views, ConnectTypeOK, ConnectStates
<1>3. view \in Views
  BY <1>1, <1>2, ViewsTyped
<1>4. to \in 1 .. 6 /\ to <= ui.at
  BY <1>1, ShownNext
<1>5. Reads(view) /\ (ui.at > 3 /\ to = 3 => view.logins = RefreshLogins(logins))
  BY <1>1, LoginsAreRead
<1>6. /\ MoveTo(ui, to, view, connect.chosen) /\ to # ui.at
      /\ UNCHANGED <<dir, made, checks, inbox, agent, commit, outside>>
  BY DEF Back
<1> HIDE DEF view, to
<1>7. (to = 3 => ui.at > 3) /\ (ui.at = 3 => to # 3) /\ (to \in 3 .. 5 => ui.saved)
  BY <1>1, <1>4, <1>6
<1> QED
  BY <1>1, <1>2, <1>3, <1>4, <1>5, <1>6, <1>7, MoveKeeps

\* Forward goes on once its save is done.
LEMMA MoveOnKeeps ==
  ASSUME RunIInv, MoveOn PROVE RunIInv'
<1>1. ui \in UIStates /\ ui.pc = "moving" /\ ui.saved /\ connect.chosen \in Choices
  BY DEF RunIInv, RunTypeOK, ConnectTypeOK, ConnectStates, MoveOn, ScreensFollow
<1> QED
  BY <1>1, OnwardsKeeps DEF MoveOn

\* esc on Logins cancels the login and waits for it.
LEMMA CancelLoginKeeps ==
  ASSUME RunIInv, CancelLogin PROVE RunIInv'
<1>1. /\ RunTypeOK /\ ui \in UIStates /\ ui.pc = "keys" /\ ui.at = 3 /\ ui.pc \in Screens /\ ui.saved
      /\ login \in LoginStates
  BY DEF RunIInv, RunTypeOK, CancelLogin, Free, Screens, ScreensFollow, Logins, Review
<1>2. ui' \in UIStates /\ ui'.pc = "leaving" /\ ui'.at = 3 /\ ui'.to = 0 /\ ui'.saved
  <2>1. "leaving" \in Steps /\ 0 \in 0 .. 6 /\ 1 \in 1 .. 6
    BY DEF Steps, Screens
  <2>2. ui' = [ui EXCEPT !.pc = "leaving", !.to = 0]
    BY DEF CancelLogin
  <2>3. ui' \in UIStates
    BY <1>1, <2>1, <2>2, UITyped
  <2> QED BY <1>1, <2>2, <2>3 DEF UIStates
<1>3. ScreensFollow'
  BY <1>2 DEF ScreensFollow, Screens, Logins, Past, Review
<1>4. OnLogins /\ OnLogins'
  BY <1>1, <1>2 DEF OnLogins, Logins
<1>5. ScreenIsTold' /\ \A s \in logins'.need : \E d \in Dirs : Has(d, s)
  BY <1>4 DEF RunIInv, ScreenIsTold, ShownAreStaged, CancelLogin
<1>6. login' = [login EXCEPT !.cancelled = TRUE] /\ login'.pending = login.pending
  BY <1>1 DEF CancelLogin, LoginStates
<1>7. ScreenStep
  BY <1>1, <1>2, <1>3, <1>4, <1>5, <1>6 DEF CancelLogin, ScreenStep, RunTypeOK, ConnectTypeOK, Screens
<1> QED
  BY <1>7, ScreenKeeps

\* Once the cancelled login ended, the screen the user asked for is shown.
LEMMA LoginLeftKeeps ==
  ASSUME RunIInv, LoginLeft PROVE RunIInv'
<1>1. /\ RunTypeOK /\ ui \in UIStates /\ ui.pc = "leaving" /\ ui.at = 3 /\ ui.pc \in Screens /\ ui.saved
      /\ ui.to # 3 /\ ui.to \in 0 .. 6 /\ login \in LoginStates
  <2>1. RunTypeOK /\ ui \in UIStates /\ ui.pc = "leaving" /\ ui.pc \in Screens /\ login \in LoginStates
    BY DEF RunIInv, RunTypeOK, LoginLeft, Screens
  <2>2. ui.at = 3 /\ ui.to # 3 /\ ui.saved
    BY <2>1 DEF RunIInv, ScreensFollow, Logins, Review
  <2> QED BY <2>1, <2>2 DEF UIStates
<1>2. /\ login' = [login EXCEPT !.pending = 0, !.cancelled = FALSE] /\ login'.pending = 0 /\ ~LoginRuns
  BY <1>1 DEF LoginLeft, LoginRuns, LoginStates
<1>3. UNCHANGED <<dir, made, checks, inbox, agent, commit, outside>>
  BY DEF LoginLeft
<1>4. CASE ui.to = 0
  <2>1. ui' = [ui EXCEPT !.pc = "keys"] /\ UNCHANGED <<picks, logins, connect, probes>>
    BY <1>4 DEF LoginLeft
  <2>2. ui' \in UIStates /\ ui'.pc = "keys" /\ ui'.at = 3 /\ ui'.saved
    BY <1>1, <2>1 DEF UIStates, Steps, Screens
  <2>3. ScreensFollow'
    BY <2>2 DEF ScreensFollow, Screens, Logins, Past, Review
  <2>4. OnLogins /\ OnLogins'
    BY <1>1, <2>2 DEF OnLogins, Logins
  <2>5. ScreenIsTold' /\ \A s \in logins'.need : \E d \in Dirs : Has(d, s)
    BY <1>3, <2>1, <2>4 DEF RunIInv, ScreenIsTold, ShownAreStaged
  <2>6. ScreenStep
    BY <1>1, <1>2, <1>3, <2>1, <2>2, <2>3, <2>4, <2>5 DEF ScreenStep, RunTypeOK, ConnectTypeOK, Screens
  <2> QED
    BY <2>6, ScreenKeeps
<1>5. CASE ui.to # 0
  <2>1. Show(ui, ui.to, View, connect.chosen) /\ ui.to \in 1 .. 6
    BY <1>1, <1>5 DEF LoginLeft
  <2>2. View \in Views /\ connect.chosen \in Choices /\ View.logins = logins
    BY DEF RunIInv, RunTypeOK, View, Views, ConnectTypeOK, ConnectStates
  <2>3. /\ ui'.pc \in Screens \cup {"quitting"} /\ ui' \in UIStates
        /\ ConnectTypeOK' /\ logins' \in LoginsCopy
        /\ logins'.results = logins.results \/ \A s \in Servers : logins'.results[s] = "none"
        /\ ui'.pc \notin Screens => \A s \in Servers : logins'.results[s] = "none"
        /\ ScreensFollow'
        /\ OnLogins' =>
              /\ logins'.checking = checks.checking
              /\ logins'.checking # {} => logins'.waiting
              /\ \A s \in logins'.need : \E d \in Dirs : Has(d, s)
    BY <1>1, <2>1, <2>2, ShowEffect
  <2>4. ScreenIsTold'
    BY <1>3, <2>3 DEF ScreenIsTold
  <2>5. ScreenStep
    BY <1>1, <1>2, <1>3, <2>3, <2>4 DEF ScreenStep, RunTypeOK
  <2> QED
    BY <2>5, ScreenKeeps
<1> QED
  BY <1>4, <1>5

-----------------------------------------------------------------------------
(* A run of mini init: saves, checks and logins *)

\* A step that leaves the run where it is: ticks, the catalog, the ends of Connect's probes, edits
\* of the agent.
LEMMA QuietKeeps ==
  ASSUME RunIInv, UNCHANGED <<ui, made, checks, logins, login, inbox, commit, outside>>,
         SameServers, dir' \in [Dirs -> ServerDirs], ConnectTypeOK',
         ui.pc = "keys" \/ \A i \in 1 .. MaxConnects : probes'[i].phase = "run" => probes[i].phase = "run"
  PROVE  RunIInv'
<1>1. \A d \in Dirs : \A s : (Has(d, s)' <=> Has(d, s)) /\ (LoggedIn(d, s)' <=> LoggedIn(d, s))
  BY DEF SameServers, Has, LoggedIn
<1>2. \A d \in Dirs : dir'[d].srv = dir[d].srv /\ dir'[d].login = dir[d].login
  BY DEF SameServers
<1>3. "stage" \in Dirs /\ "mini" \in Dirs
  BY DEF Dirs
<1>4. RunTypeOK'
  BY DEF RunIInv, RunTypeOK
<1>5. ScreensFollow' /\ LoginIsAwaited' /\ ScreenIsTold'
  BY DEF RunIInv, ScreensFollow, LoginIsAwaited, ScreenIsTold, OnLogins, LoginRuns
<1>6. EndsInOrder'
  BY DEF RunIInv, EndsInOrder, Commits
<1>7. StageIsKept'
  BY <1>1, <1>2, <1>3 DEF RunIInv, StageIsKept
<1>8. ShownAreStaged'
  BY <1>1, <1>3 DEF RunIInv, ShownAreStaged, OnLogins
<1>9. CommitIsClean'
  BY <1>1, <1>2, <1>3 DEF RunIInv, CommitIsClean
<1> QED
  BY <1>4, <1>5, <1>6, <1>7, <1>8, <1>9 DEF RunIInv

\* Connect's checks end; what they detected changes no server and no login.
LEMMA EndProbesKeeps ==
  ASSUME RunIInv, NEW id \in 1 .. MaxConnects, EndProbes(id)
  PROVE  RunIInv'
<1>0. RunTypeOK /\ dir \in [Dirs -> ServerDirs] /\ connect \in ConnectStates
      /\ probes \in [1 .. MaxConnects -> Probes]
  BY DEF RunIInv, RunTypeOK, ConnectTypeOK
<1>1. probes[id] \in Probes /\ probes[id].targets \in SUBSET Targets
  BY <1>0 DEF Probes
<1>2. PICK passed \in SUBSET {t[2] : t \in {u \in {t \in probes[id].targets : dir[t[1]].srv[t[2]] = t[3]} : Works(u[1], u[2])}},
           detected \in SUBSET {t \in probes[id].targets : Kind[<<t[2], t[3]>>] = "oauth" /\ ~LoggedIn(t[1], t[2])} :
        /\ probes' = [probes EXCEPT ![id] = [phase |-> "ended", targets |-> {}, passed |-> passed]]
        /\ dir' = [d \in Dirs |-> [dir[d] EXCEPT !.found = @ \cup {t[2] : t \in {u \in detected : u[1] = d}}]]
  BY DEF EndProbes
<1>3. \A t \in Targets : t[2] \in Servers
  BY DEF Targets
<1>4. passed \in Names
  BY <1>1, <1>3 DEF Names
<1>5. \A d \in Dirs : {t[2] : t \in {u \in detected : u[1] = d}} \in Names
  BY <1>1, <1>3 DEF Names
<1>6. ASSUME NEW d \in Dirs, NEW n \in Names
      PROVE  /\ [dir[d] EXCEPT !.found = @ \cup n] \in ServerDirs
             /\ [dir[d] EXCEPT !.found = @ \cup n].srv = dir[d].srv
             /\ [dir[d] EXCEPT !.found = @ \cup n].login = dir[d].login
  <2>1. dir[d] \in ServerDirs
    BY <1>0
  <2>2. dir[d].found \cup n \in Names
    BY <2>1 DEF ServerDirs, Names
  <2> QED BY <2>1, <2>2 DEF ServerDirs
<1>7. dir' \in [Dirs -> ServerDirs] /\ SameServers
  BY <1>2, <1>5, <1>6 DEF SameServers
<1>8. [phase |-> "ended", targets |-> {}, passed |-> passed] \in Probes
  BY <1>4 DEF Probes
<1>9. ConnectTypeOK' /\ \A i \in 1 .. MaxConnects : probes'[i].phase = "run" => probes[i].phase = "run"
  BY <1>0, <1>2, <1>8 DEF ConnectTypeOK, EndProbes
<1> QED
  BY <1>7, <1>9, QuietKeeps DEF EndProbes

\* The result of Connect's checks reaches its screen.
LEMMA ConnectCheckedKeeps ==
  ASSUME RunIInv, NEW id \in 1 .. MaxConnects, ConnectChecked(id)
  PROVE  RunIInv'
<1>0. dir \in [Dirs -> ServerDirs] /\ connect \in ConnectStates /\ probes \in [1 .. MaxConnects -> Probes]
  BY DEF RunIInv, RunTypeOK, ConnectTypeOK
<1>1. probes[id].passed \in Names /\ NoProbes \in Probes
  BY <1>0 DEF Probes, NoProbes, Names
<1>2. \A p \in Names : [connect EXCEPT !.done = TRUE, !.passed = p, !.stop = FALSE] \in ConnectStates
  BY <1>0 DEF ConnectStates
<1>3. ConnectTypeOK'
  BY <1>0, <1>1, <1>2 DEF ConnectTypeOK, ConnectChecked
<1> QED
  BY <1>0, <1>3, QuietKeeps DEF ConnectChecked, SameServers, Free

\* A finished check is told to the screen that shows it.
LEMMA EndCheckKeeps ==
  ASSUME RunIInv, NEW t \in Dirs \X Servers, EndCheck(t)
  PROVE  RunIInv'
<1>0. RunTypeOK /\ dir \in [Dirs -> ServerDirs] /\ checks \in CheckStates /\ t \in checks.running
  BY DEF RunIInv, RunTypeOK, EndCheck
<1> DEFINE d == t[1]
           s == t[2]
<1>1. d \in Dirs /\ s \in Servers
  OBVIOUS
<1>2. PICK cut \in BOOLEAN, detected \in BOOLEAN :
        /\ dir' = [dir EXCEPT ![d].found = IF detected THEN @ \cup {s} ELSE @]
        /\ checks' = [checks EXCEPT
             !.running = @ \ {t},
             !.checking = @ \ {s},
             !.checked = IF checks.cancelled THEN @ ELSE @ \cup {s},
             !.changed = TRUE,
             !.refused = IF ~cut /\ KindOf(d, s) = "refuses" THEN @ \cup {s} ELSE @ \ {s},
             !.noSelfRegistration =
                IF cut THEN @ ELSE IF KindOf(d, s) = "manual" THEN @ \cup {s}
                ELSE IF KindOf(d, s) \in {"oauth", "declared"} THEN @ \ {s} ELSE @]
  BY DEF EndCheck
<1>3. UNCHANGED <<ui, picks, made, logins, login, inbox, connect, probes, agent, commit, outside>>
  BY DEF EndCheck
<1>4. dir' \in [Dirs -> ServerDirs] /\ SameServers
  <2>1. dir[d] \in ServerDirs
    BY <1>0, <1>1
  <2>2. (IF detected THEN dir[d].found \cup {s} ELSE dir[d].found) \in Names
    BY <1>1, <2>1 DEF ServerDirs, Names
  <2> DEFINE new == [dir[d] EXCEPT !.found = IF detected THEN @ \cup {s} ELSE @]
  <2>3. new \in ServerDirs /\ new.srv = dir[d].srv /\ new.login = dir[d].login
    BY <2>1, <2>2 DEF ServerDirs
  <2>4. dir' = [dir EXCEPT ![d] = new]
    BY <1>0, <1>1, <1>2
  <2> HIDE DEF new, d
  <2> QED BY <1>0, <1>1, <2>3, <2>4 DEF SameServers
<1>5. /\ checks'.running = checks.running \ {t} /\ checks'.checking = checks.checking \ {s}
      /\ checks'.changed = TRUE /\ checks' \in CheckStates
  <2>1. /\ checks.running \in SUBSET (Dirs \X Servers) /\ checks.checking \in Names /\ checks.checked \in Names
        /\ checks.refused \in Names /\ checks.noSelfRegistration \in Names
    BY <1>0 DEF CheckStates
  <2>2. PICK a \in Names, b \in Names, c \in Names :
          checks' = [checks EXCEPT !.running = checks.running \ {t}, !.checking = checks.checking \ {s},
                       !.checked = a, !.changed = TRUE, !.refused = b, !.noSelfRegistration = c]
    <3> DEFINE a == IF checks.cancelled THEN checks.checked ELSE checks.checked \cup {s}
               b == IF ~cut /\ KindOf(d, s) = "refuses" THEN checks.refused \cup {s} ELSE checks.refused \ {s}
               c == IF cut THEN checks.noSelfRegistration
                    ELSE IF KindOf(d, s) = "manual" THEN checks.noSelfRegistration \cup {s}
                    ELSE IF KindOf(d, s) \in {"oauth", "declared"} THEN checks.noSelfRegistration \ {s}
                    ELSE checks.noSelfRegistration
    <3>1. a \in Names /\ b \in Names /\ c \in Names
      BY <1>1, <2>1 DEF Names
    <3>2. checks' = [checks EXCEPT !.running = checks.running \ {t}, !.checking = checks.checking \ {s},
                       !.checked = a, !.changed = TRUE, !.refused = b, !.noSelfRegistration = c]
      BY <1>2
    <3> HIDE DEF a, b, c
    <3> QED BY <3>1, <3>2
  <2>3. checks.running \ {t} \in SUBSET (Dirs \X Servers) /\ checks.checking \ {s} \in Names
    BY <2>1 DEF Names
  <2> QED BY <1>0, <2>2, <2>3 DEF CheckStates
<1> HIDE DEF d, s
<1>6. \A x \in Dirs : \A n : (Has(x, n)' <=> Has(x, n)) /\ (LoggedIn(x, n)' <=> LoggedIn(x, n))
  BY <1>4 DEF SameServers, Has, LoggedIn
<1>7. \A x \in Dirs : dir'[x].srv = dir[x].srv /\ dir'[x].login = dir[x].login
  BY <1>4 DEF SameServers
<1>8. "stage" \in Dirs /\ "mini" \in Dirs
  BY DEF Dirs
<1>9. RunTypeOK'
  BY <1>3, <1>4, <1>5 DEF RunIInv, RunTypeOK, ConnectTypeOK
<1>10. ScreensFollow' /\ LoginIsAwaited'
  BY <1>3 DEF RunIInv, ScreensFollow, LoginIsAwaited, OnLogins, LoginRuns
<1>11. EndsInOrder'
  BY <1>0, <1>3, <1>5 DEF RunIInv, EndsInOrder, Commits
<1>12. StageIsKept'
  BY <1>3, <1>6, <1>7, <1>8 DEF RunIInv, StageIsKept
<1>13. ShownAreStaged'
  BY <1>3, <1>6, <1>8 DEF RunIInv, ShownAreStaged, OnLogins
<1>14. CommitIsClean'
  BY <1>3, <1>6, <1>7, <1>8 DEF RunIInv, CommitIsClean
<1>15. ScreenIsTold'
  BY <1>3, <1>5 DEF RunIInv, ScreenIsTold, OnLogins
<1> QED
  BY <1>9, <1>10, <1>11, <1>12, <1>13, <1>14, <1>15 DEF RunIInv

\* The Logins screen reads the checks again and waits on while some run.
LEMMA ChecksChangedKeeps ==
  ASSUME RunIInv, ChecksChanged
  PROVE  RunIInv'
<1>0. RunTypeOK /\ checks \in CheckStates /\ logins \in LoginsCopy /\ ui.pc = "keys"
  BY DEF RunIInv, RunTypeOK, ChecksChanged, Free
<1> DEFINE l == RefreshLogins(logins)
<1>1. /\ l \in LoginsCopy /\ l.results = logins.results /\ l.checking = checks.checking
      /\ \A s \in l.need : \E d \in Dirs : Has(d, s)
  BY <1>0, RefreshReads
<1>2. /\ checks' = [checks EXCEPT !.changed = FALSE] /\ logins' = [l EXCEPT !.waiting = l.checking # {}]
      /\ UNCHANGED <<ui, picks, dir, made, login, inbox, connect, probes, agent, commit, outside>>
  BY DEF ChecksChanged
<1> HIDE DEF l
<1>3. /\ checks' \in CheckStates /\ checks'.checking = checks.checking /\ checks'.running = checks.running
  BY <1>0, <1>2 DEF CheckStates
<1>4. /\ logins' \in LoginsCopy /\ logins'.results = logins.results /\ logins'.need = l.need
      /\ logins'.checking = checks.checking /\ (logins'.waiting <=> checks.checking # {})
  BY <1>1, <1>2 DEF LoginsCopy
<1>5. RunTypeOK'
  BY <1>2, <1>3, <1>4 DEF RunIInv, RunTypeOK, ConnectTypeOK
<1>6. ScreensFollow' /\ LoginIsAwaited'
  BY <1>2 DEF RunIInv, ScreensFollow, LoginIsAwaited, OnLogins, LoginRuns
<1>p. \A d, s : (Has(d, s)' <=> Has(d, s)) /\ (LoggedIn(d, s)' <=> LoggedIn(d, s))
  BY <1>2 DEF Has, LoggedIn
<1>q. EndsInOrder'
  BY <1>2, <1>3, <1>4 DEF RunIInv, EndsInOrder
<1>r. StageIsKept'
  BY <1>2, <1>p DEF RunIInv, StageIsKept
<1>7. CommitIsClean'
  BY <1>2, <1>p DEF RunIInv, CommitIsClean
<1>8. ShownAreStaged'
  BY <1>1, <1>2, <1>4 DEF RunIInv, ShownAreStaged, OnLogins, Has, LoggedIn
<1>9. ScreenIsTold'
  BY <1>2, <1>3, <1>4 DEF ScreenIsTold
<1> QED
  BY <1>5, <1>6, <1>q, <1>r, <1>7, <1>8, <1>9 DEF RunIInv

\* A login that runs is of the stage or of mini's server as they were when it began, and no commit.
LEMMA LoginIsEarly ==
  ASSUME RunIInv, LoginRuns
  PROVE  /\ login.pending = login.id /\ login.id \in 1 .. MaxLogins /\ login.s \in Servers /\ login.dir \in Dirs
         /\ login.v \in Settings /\ ui.pc \notin Commits /\ commit.ours = {} /\ commit.left = {}
<1>1. login.pending # 0 /\ login.pending = login.id
  BY DEF RunIInv, LoginIsAwaited
<1>2. login.id \in 1 .. MaxLogins /\ login.dir \in Dirs /\ login.v \in Settings
  <2>1. login.id \in 0 .. MaxLogins /\ login.dir \in Dirs /\ login.v \in Settings
    BY DEF RunIInv, RunTypeOK, LoginStates
  <2> QED BY <1>1, <2>1, ConstantsAssumption
<1>3. ui.pc \notin Commits
  BY <1>1 DEF RunIInv, LoginIsAwaited, OnLogins, Commits
<1>4. commit.ours = {} /\ commit.left = {}
  <2>1. commit = [left |-> {}, step |-> "", ours |-> {}, removed |-> {}]
    BY <1>3 DEF RunIInv, CommitIsClean
  <2> QED BY <2>1
<1> QED
  BY <1>1, <1>2, <1>3, <1>4 DEF RunIInv, LoginIsAwaited

\* A login starts for a server that is there, with its settings as they are.
LEMMA StartLoginKeeps ==
  ASSUME RunIInv, NEW s \in Servers, StartLogin(s)
  PROVE  RunIInv'
<1> DEFINE d == IF Has("stage", s) THEN "stage" ELSE "mini"
           id == login.id + 1
<1>0. /\ RunTypeOK /\ dir \in [Dirs -> ServerDirs] /\ inbox \in [1 .. MaxLogins -> Inboxes] /\ login \in LoginStates
      /\ ui.pc = "keys" /\ ui.at = 3 /\ OnLogins /\ OnLogins'
  BY DEF RunIInv, RunTypeOK, StartLogin, Free, Logins, OnLogins
<1>1. id \in 1 .. MaxLogins /\ id \in 0 .. MaxLogins /\ login.id \in 0 .. MaxLogins /\ login.pending = 0
  <2>1. login.id \in 0 .. MaxLogins /\ login.id < MaxLogins /\ login.pending = 0
    BY <1>0 DEF LoginStates, StartLogin
  <2> QED BY <2>1, ConstantsAssumption
<1>2. s \in logins.need
  BY DEF StartLogin, Selectable
<1>3. d \in Dirs /\ Has(d, s)
  BY <1>0, <1>2 DEF RunIInv, ShownAreStaged, Dirs
<1>4. /\ login' = [pending |-> id, id |-> id, s |-> s, dir |-> d, v |-> dir[d].srv[s],
                   phase |-> "begin", cancelled |-> FALSE]
      /\ inbox' = [inbox EXCEPT ![id].awaited = TRUE]
      /\ UNCHANGED <<ui, picks, dir, made, checks, logins, connect, probes, agent, commit, outside>>
  BY DEF StartLogin
<1>5. dir[d].srv[s] \in Settings /\ dir[d].srv[s] # 0
  BY <1>0, <1>3 DEF ServerDirs, Has
<1>6. d = "stage" \/ d = "mini"
  BY DEF Dirs
<1>7. outside = 0 => d = "stage"
  <2>1. ui.pc \notin Commits
    BY <1>0 DEF Commits
  <2>2. outside = 0 => ~Has("mini", s)
    BY <2>1 DEF RunIInv, ShownAreStaged
  <2> QED BY <1>3, <1>6, <2>2
<1> HIDE DEF d, id
<1>8. /\ login' \in LoginStates /\ login'.pending = id /\ login'.id = id /\ login'.s = s /\ login'.dir = d
      /\ login'.v = dir[d].srv[s] /\ login'.phase = "begin"
  BY <1>1, <1>3, <1>4, <1>5 DEF LoginStates
<1>9. /\ inbox' \in [1 .. MaxLogins -> Inboxes]
      /\ \A i \in 1 .. MaxLogins : inbox'[i].events = inbox[i].events
  <2>1. [inbox[id] EXCEPT !.awaited = TRUE] \in Inboxes
        /\ [inbox[id] EXCEPT !.awaited = TRUE].events = inbox[id].events
    BY <1>0, <1>1 DEF Inboxes
  <2> QED BY <1>0, <1>1, <1>4, <2>1
<1>10. inbox'[id].events = << >>
  <2>1. id > login.id
    BY <1>1 DEF id
  <2> QED BY <1>1, <1>9, <2>1 DEF RunIInv, LoginIsAwaited
<1>11. RunTypeOK'
  BY <1>4, <1>8, <1>9 DEF RunIInv, RunTypeOK, ConnectTypeOK
<1>12. LoginIsAwaited'
  <2>1. \A i \in 1 .. MaxLogins : i > id => i > login.id
    BY <1>1 DEF id
  <2>2. \A i \in 1 .. MaxLogins : i > id => inbox'[i].events = << >>
    BY <1>9, <2>1 DEF RunIInv, LoginIsAwaited
  <2>3. id # 0 /\ ui'.pc # "ending"
    BY <1>0, <1>1, <1>4
  <2> QED BY <1>0, <1>8, <1>10, <2>2, <2>3 DEF LoginIsAwaited
<1>13. StageIsKept'
  BY <1>4, <1>5, <1>8, <1>10 DEF RunIInv, StageIsKept, Has
<1>14. ShownAreStaged'
  BY <1>4, <1>7, <1>8 DEF RunIInv, ShownAreStaged, OnLogins, Has, LoggedIn
<1>15. ScreensFollow' /\ EndsInOrder' /\ ScreenIsTold'
  BY <1>4 DEF RunIInv, ScreensFollow, EndsInOrder, ScreenIsTold, OnLogins
<1>16. CommitIsClean'
  BY <1>4 DEF RunIInv, CommitIsClean, Has
<1> QED
  BY <1>11, <1>12, <1>13, <1>14, <1>15, <1>16 DEF RunIInv

\* The browser login, but for what it saves.
LEMMA LoginStepKeeps ==
  ASSUME RunIInv, LoginStarts \/ LoginAnswered \/ LoginFails
  PROVE  RunIInv'
<1>0. /\ login \in LoginStates /\ inbox \in [1 .. MaxLogins -> Inboxes] /\ LoginRuns
  BY DEF RunIInv, RunTypeOK, LoginRuns, LoginStarts, LoginAnswered, LoginFails
<1>1. /\ login.pending = login.id /\ login.id \in 1 .. MaxLogins
  BY <1>0, LoginIsEarly
<1>2. UNCHANGED <<ui, picks, dir, made, checks, logins, connect, probes, agent, commit, outside>>
  BY DEF LoginStarts, LoginAnswered, LoginFails
<1>3. PICK phase \in {"browser", "exchange", "done"} : login' = [login EXCEPT !.phase = phase]
  BY DEF LoginStarts, LoginAnswered, LoginFails
<1>4. /\ login' \in LoginStates /\ login'.pending = login.pending /\ login'.id = login.id /\ login'.s = login.s
      /\ login'.dir = login.dir /\ login'.v = login.v /\ login'.phase = phase /\ login'.cancelled = login.cancelled
  BY <1>0, <1>3 DEF LoginStates
<1>5. \/ UNCHANGED inbox
      \/ /\ phase # "done" /\ inbox' = [inbox EXCEPT ![login.id].events = Append(@, "started")]
      \/ /\ phase = "done" /\ inbox' = [inbox EXCEPT ![login.id].events = Append(@, "err")]
  <2>1. CASE LoginStarts
    BY <1>0, <1>4, <2>1 DEF LoginStarts, Send, LoginStates
  <2>2. CASE LoginAnswered
    BY <2>2 DEF LoginAnswered
  <2>3. CASE LoginFails
    BY <1>0, <1>4, <2>3 DEF LoginFails, Send, LoginStates
  <2> QED BY <2>1, <2>2, <2>3
<1>6. /\ inbox' \in [1 .. MaxLogins -> Inboxes]
      /\ \A i \in 1 .. MaxLogins : i # login.id => inbox'[i] = inbox[i]
      /\ \A k \in 1 .. Len(inbox'[login.id].events) :
            \/ inbox'[login.id].events[k] = (IF phase = "done" THEN "err" ELSE "started")
            \/ k \in 1 .. Len(inbox[login.id].events) /\ inbox'[login.id].events[k] = inbox[login.id].events[k]
  <2> DEFINE q == inbox[login.id].events
  <2>1. q \in Seq(Event) /\ inbox[login.id] \in Inboxes
    BY <1>0, <1>1 DEF Inboxes
  <2>2. ASSUME NEW e \in Event, inbox' = [inbox EXCEPT ![login.id].events = Append(@, e)]
        PROVE  /\ inbox' \in [1 .. MaxLogins -> Inboxes] /\ inbox'[login.id].events = Append(q, e)
               /\ \A i \in 1 .. MaxLogins : i # login.id => inbox'[i] = inbox[i]
    <3>1. Append(q, e) \in Seq(Event)
      BY <2>1, EventsSent
    <3>2. [inbox[login.id] EXCEPT !.events = Append(q, e)] \in Inboxes
          /\ [inbox[login.id] EXCEPT !.events = Append(q, e)].events = Append(q, e)
      BY <2>1, <3>1 DEF Inboxes
    <3>3. inbox' = [inbox EXCEPT ![login.id] = [inbox[login.id] EXCEPT !.events = Append(q, e)]]
      BY <1>0, <1>1, <2>2
    <3> HIDE DEF q
    <3> QED BY <1>0, <1>1, <3>2, <3>3
  <2>3. "started" \in Event /\ "err" \in Event
    BY DEF Event
  <2>4. CASE UNCHANGED inbox
    BY <1>0, <2>4
  <2>5. CASE phase # "done" /\ inbox' = [inbox EXCEPT ![login.id].events = Append(@, "started")]
    <3>1. /\ inbox' \in [1 .. MaxLogins -> Inboxes] /\ inbox'[login.id].events = Append(q, "started")
          /\ \A i \in 1 .. MaxLogins : i # login.id => inbox'[i] = inbox[i]
      BY <2>2, <2>3, <2>5
    <3>2. \A k \in 1 .. Len(Append(q, "started")) : Append(q, "started")[k] = "started"
            \/ (k \in 1 .. Len(q) /\ Append(q, "started")[k] = q[k])
      BY <2>1, <2>3, EventsSent
    <3> QED BY <2>5, <3>1, <3>2
  <2>6. CASE phase = "done" /\ inbox' = [inbox EXCEPT ![login.id].events = Append(@, "err")]
    <3>1. /\ inbox' \in [1 .. MaxLogins -> Inboxes] /\ inbox'[login.id].events = Append(q, "err")
          /\ \A i \in 1 .. MaxLogins : i # login.id => inbox'[i] = inbox[i]
      BY <2>2, <2>3, <2>6
    <3>2. \A k \in 1 .. Len(Append(q, "err")) : Append(q, "err")[k] = "err"
            \/ (k \in 1 .. Len(q) /\ Append(q, "err")[k] = q[k])
      BY <2>1, <2>3, EventsSent
    <3> QED BY <2>6, <3>1, <3>2
  <2> QED BY <1>5, <2>4, <2>5, <2>6
<1>7. RunTypeOK'
  BY <1>2, <1>4, <1>6 DEF RunIInv, RunTypeOK, ConnectTypeOK
<1>8. LoginIsAwaited'
  <2>1. \A k \in 1 .. Len(inbox[login.id].events) : inbox[login.id].events[k] = "started"
    BY <1>0 DEF RunIInv, LoginIsAwaited
  <2>2. LoginRuns' => \A k \in 1 .. Len(inbox'[login.id].events) : inbox'[login.id].events[k] = "started"
    BY <1>4, <1>6, <2>1 DEF LoginRuns
  <2>3. \A i \in 1 .. MaxLogins : i > login.id => inbox'[i].events = << >>
    BY <1>1, <1>6 DEF RunIInv, LoginIsAwaited
  <2> QED BY <1>0, <1>2, <1>4, <2>2, <2>3 DEF RunIInv, LoginIsAwaited, OnLogins
<1>9. StageIsKept'
  <2>1. \A k \in 1 .. Len(inbox'[login.id].events) : inbox'[login.id].events[k] = "ok" =>
           k \in 1 .. Len(inbox[login.id].events) /\ inbox[login.id].events[k] = "ok"
    BY <1>6
  <2> QED BY <1>2, <1>4, <2>1 DEF RunIInv, StageIsKept, Has, LoggedIn
<1>10. ShownAreStaged'
  BY <1>2, <1>4 DEF RunIInv, ShownAreStaged, OnLogins, Has, LoggedIn
<1>11. ScreensFollow' /\ EndsInOrder' /\ ScreenIsTold'
  BY <1>2 DEF RunIInv, ScreensFollow, EndsInOrder, ScreenIsTold, OnLogins
<1>12. CommitIsClean'
  BY <1>2 DEF RunIInv, CommitIsClean, Has
<1> QED
  BY <1>7, <1>8, <1>9, <1>10, <1>11, <1>12 DEF RunIInv

\* The login is saved with the settings it was made for.
LEMMA LoginSavedKeeps ==
  ASSUME RunIInv, LoginSaved
  PROVE  RunIInv'
<1>0. /\ login \in LoginStates /\ inbox \in [1 .. MaxLogins -> Inboxes] /\ dir \in [Dirs -> ServerDirs] /\ LoginRuns
  BY DEF RunIInv, RunTypeOK, LoginRuns, LoginSaved
<1>1. /\ login.pending = login.id /\ login.id \in 1 .. MaxLogins /\ login.s \in Servers /\ login.dir \in Dirs
      /\ login.v \in Settings /\ ui.pc \notin Commits /\ commit.ours = {} /\ commit.left = {}
  BY <1>0, LoginIsEarly
<1>2. /\ UNCHANGED <<ui, picks, made, checks, logins, connect, probes, agent, commit, outside>>
      /\ dir' = [dir EXCEPT ![login.dir].login[login.s] = login.v]
      /\ login' = [login EXCEPT !.phase = "done"]
      /\ inbox' = [inbox EXCEPT ![login.id].events = Append(@, "ok")]
  BY DEF LoginSaved, Send
<1>3. /\ login' \in LoginStates /\ login'.pending = login.pending /\ login'.id = login.id /\ login'.s = login.s
      /\ login'.dir = login.dir /\ login'.v = login.v /\ login'.phase = "done" /\ login'.cancelled = login.cancelled
  BY <1>0, <1>2 DEF LoginStates
<1>4. /\ inbox' \in [1 .. MaxLogins -> Inboxes]
      /\ \A i \in 1 .. MaxLogins : i # login.id => inbox'[i] = inbox[i]
  <2> DEFINE q == inbox[login.id].events
  <2>1. q \in Seq(Event) /\ inbox[login.id] \in Inboxes /\ "ok" \in Event
    BY <1>0, <1>1 DEF Inboxes, Event
  <2>2. Append(q, "ok") \in Seq(Event)
    BY <2>1, EventsSent
  <2>3. [inbox[login.id] EXCEPT !.events = Append(q, "ok")] \in Inboxes
    BY <2>1, <2>2 DEF Inboxes
  <2>4. inbox' = [inbox EXCEPT ![login.id] = [inbox[login.id] EXCEPT !.events = Append(q, "ok")]]
    BY <1>0, <1>1, <1>2
  <2> HIDE DEF q
  <2> QED BY <1>0, <1>1, <2>3, <2>4
<1>5. /\ dir' \in [Dirs -> ServerDirs]
      /\ \A d \in Dirs : dir'[d].srv = dir[d].srv
      /\ dir'[login.dir].login[login.s] = login.v
      /\ \A d \in Dirs, s \in Servers : d # login.dir \/ s # login.s => dir'[d].login[s] = dir[d].login[s]
  <2> DEFINE e == dir[login.dir]
             m == [e.login EXCEPT ![login.s] = login.v]
             new == [e EXCEPT !.login = m]
  <2>1. e \in ServerDirs /\ e.login \in [Servers -> Settings]
    BY <1>0, <1>1 DEF ServerDirs
  <2>2. m \in [Servers -> Settings] /\ m[login.s] = login.v /\ \A s \in Servers : s # login.s => m[s] = e.login[s]
    BY <1>1, <2>1
  <2>3. new \in ServerDirs /\ new.srv = e.srv /\ new.login = m
    <3> HIDE DEF m, e
    <3> QED BY <2>1, <2>2 DEF ServerDirs
  <2>4. dir' = [dir EXCEPT ![login.dir] = new]
    BY <1>0, <1>1, <1>2
  <2>5. dir'[login.dir] = new /\ \A d \in Dirs : d # login.dir => dir'[d] = dir[d]
    BY <1>0, <1>1, <2>4
  <2>6. dir' \in [Dirs -> ServerDirs]
    <3> HIDE DEF new
    <3> QED BY <1>0, <2>3, <2>4
  <2> HIDE DEF m, new
  <2> QED BY <1>1, <2>2, <2>3, <2>5, <2>6
<1>6. "stage" \in Dirs /\ "mini" \in Dirs
  BY DEF Dirs
<1>7. \A d \in Dirs, s \in Servers : Has(d, s)' <=> Has(d, s)
  BY <1>5 DEF Has
<1>8. RunTypeOK'
  BY <1>2, <1>3, <1>4, <1>5 DEF RunIInv, RunTypeOK, ConnectTypeOK
<1>9. LoginIsAwaited'
  <2>1. ~LoginRuns'
    BY <1>3 DEF LoginRuns
  <2>2. \A i \in 1 .. MaxLogins : i > login.id => inbox'[i].events = << >>
    BY <1>1, <1>4 DEF RunIInv, LoginIsAwaited
  <2> QED BY <1>2, <1>3, <2>1, <2>2 DEF RunIInv, LoginIsAwaited, OnLogins
<1>10. login.dir = "stage" => dir["stage"].srv[login.s] = login.v /\ login.v # 0
  BY <1>1 DEF RunIInv, StageIsKept
<1>11. login.dir = "stage" => dir'["stage"].login[login.s] = dir'["stage"].srv[login.s]
  BY <1>1, <1>5, <1>6, <1>10
<1>12. \A s \in Servers : LoggedIn("stage", s) => LoggedIn("stage", s)'
  <2>1. ASSUME NEW s \in Servers, LoggedIn("stage", s) PROVE LoggedIn("stage", s)'
    <3>1. CASE login.dir = "stage" /\ s = login.s BY <1>11, <3>1 DEF LoggedIn
    <3>2. CASE "stage" # login.dir \/ s # login.s BY <1>5, <1>6, <2>1, <3>2 DEF LoggedIn
    <3> QED BY <3>1, <3>2
  <2> QED BY <2>1
<1>13. StageIsKept'
  <2>1. \A s \in Servers : Has("stage", s)' => dir'["stage"].login[s] \in {0, dir'["stage"].srv[s]}
    <3>1. ASSUME NEW s \in Servers, Has("stage", s)'
          PROVE  dir'["stage"].login[s] \in {0, dir'["stage"].srv[s]}
      <4>1. CASE login.dir = "stage" /\ s = login.s BY <1>11, <4>1
      <4>2. CASE "stage" # login.dir \/ s # login.s
        BY <1>5, <1>6, <1>7, <3>1, <4>2 DEF RunIInv, StageIsKept
      <4> QED BY <4>1, <4>2
    <3> QED BY <3>1
  <2> QED BY <1>3, <1>5, <1>6, <1>10, <1>11, <2>1 DEF StageIsKept, LoggedIn
<1>14. ShownAreStaged'
  <2>1. OnLogins' => \A s \in logins'.need : \E d \in Dirs : Has(d, s)'
    <3>1. OnLogins' => OnLogins
      BY <1>2 DEF OnLogins
    <3>2. \A s \in logins.need : s \in Servers
      BY DEF RunIInv, RunTypeOK, LoginsCopy, Names
    <3> QED BY <1>2, <1>7, <3>1, <3>2 DEF RunIInv, ShownAreStaged
  <2> QED BY <1>2, <1>3, <1>6, <1>7, <1>12, <2>1 DEF RunIInv, ShownAreStaged
<1>15. ScreensFollow' /\ EndsInOrder' /\ ScreenIsTold'
  BY <1>2 DEF RunIInv, ScreensFollow, EndsInOrder, ScreenIsTold, OnLogins
<1>16. CommitIsClean'
  <2>1. ui'.pc \notin Commits /\ commit' = [left |-> {}, step |-> "", ours |-> {}, removed |-> {}]
    BY <1>1, <1>2 DEF RunIInv, CommitIsClean
  <2> QED BY <2>1 DEF CommitIsClean, Commits
<1> QED
  BY <1>8, <1>9, <1>13, <1>14, <1>15, <1>16 DEF RunIInv

\* Reading or dropping what a login sent.
LEMMA InboxRead ==
  ASSUME RunIInv, NEW id \in 1 .. MaxLogins, inbox[id].events # << >>,
         inbox' \in {[inbox EXCEPT ![id] = NoEvents], [inbox EXCEPT ![id].events = Tail(@)]}
  PROVE  /\ inbox' \in [1 .. MaxLogins -> Inboxes]
         /\ \A i \in 1 .. MaxLogins : inbox[i].events = << >> => inbox'[i].events = << >>
         /\ \A i \in 1 .. MaxLogins : \A k \in 1 .. Len(inbox'[i].events) :
              \E j \in 1 .. Len(inbox[i].events) : inbox'[i].events[k] = inbox[i].events[j]
<1>1. inbox \in [1 .. MaxLogins -> Inboxes] /\ inbox[id] \in Inboxes /\ inbox[id].events \in Seq(Event)
  BY DEF RunIInv, RunTypeOK, Inboxes
<1>2. NoEvents \in Inboxes /\ NoEvents.events = << >>
  BY DEF NoEvents, Inboxes
<1> DEFINE q == inbox[id].events
           rest == [inbox[id] EXCEPT !.events = Tail(q)]
<1>3. /\ Tail(q) \in Seq(Event)
      /\ \A k \in 1 .. Len(Tail(q)) : k + 1 \in 1 .. Len(q) /\ Tail(q)[k] = q[k + 1]
  BY <1>1, EventsRead
<1>4. rest \in Inboxes /\ rest.events = Tail(q)
  <2> HIDE DEF q
  <2> QED BY <1>1, <1>3 DEF Inboxes
<1>5. inbox' = [inbox EXCEPT ![id] = NoEvents] \/ inbox' = [inbox EXCEPT ![id] = rest]
  BY <1>1
<1> HIDE DEF rest
<1>6. CASE inbox' = [inbox EXCEPT ![id] = NoEvents]
  BY <1>1, <1>2, <1>6
<1>7. CASE inbox' = [inbox EXCEPT ![id] = rest]
  <2>1. inbox'[id].events = Tail(q) /\ \A i \in 1 .. MaxLogins : i # id => inbox'[i] = inbox[i]
    BY <1>1, <1>4, <1>7
  <2>2. \A k \in 1 .. Len(inbox'[id].events) :
              \E j \in 1 .. Len(inbox[id].events) : inbox'[id].events[k] = inbox[id].events[j]
    BY <1>3, <2>1
  <2>3. inbox' \in [1 .. MaxLogins -> Inboxes]
    BY <1>1, <1>4, <1>7
  <2> QED BY <2>1, <2>2, <2>3
<1> QED
  BY <1>5, <1>6, <1>7

\* The pending login tells its screen: its last event ends it.
LEMMA LoginEventKeeps ==
  ASSUME RunIInv, NEW id \in 1 .. MaxLogins, LoginEvent(id)
  PROVE  RunIInv'
<1> DEFINE event == Head(inbox[id].events)
           l == [logins EXCEPT !.results[login.s] = event]
<1>0. /\ RunTypeOK /\ login \in LoginStates /\ logins \in LoginsCopy /\ inbox[id].events \in Seq(Event)
      /\ ui.pc = "keys" /\ inbox[id].events # << >> /\ login.id \in 0 .. MaxLogins
  BY DEF RunIInv, RunTypeOK, LoginStates, Inboxes, LoginEvent, Free
<1>1. UNCHANGED <<ui, picks, dir, made, checks, connect, probes, agent, commit, outside>>
  BY DEF LoginEvent
<1>2. event \in Event /\ 1 \in 1 .. Len(inbox[id].events) /\ event = inbox[id].events[1]
  BY <1>0, EventsRead
<1>3. /\ inbox' \in [1 .. MaxLogins -> Inboxes]
      /\ \A i \in 1 .. MaxLogins : inbox[i].events = << >> => inbox'[i].events = << >>
      /\ \A i \in 1 .. MaxLogins : \A k \in 1 .. Len(inbox'[i].events) :
              \E j \in 1 .. Len(inbox[i].events) : inbox'[i].events[k] = inbox[i].events[j]
  <2>1. inbox' \in {[inbox EXCEPT ![id] = NoEvents], [inbox EXCEPT ![id].events = Tail(@)]}
    BY DEF LoginEvent
  <2> QED BY <1>0, <2>1, InboxRead
<1>4. ScreensFollow' /\ CommitIsClean'
  BY <1>1 DEF RunIInv, ScreensFollow, CommitIsClean, Has
<1>5. CASE UNCHANGED <<logins, login>>
  <2>1. RunTypeOK'
    BY <1>1, <1>3, <1>5 DEF RunIInv, RunTypeOK, ConnectTypeOK
  <2>2. LoginIsAwaited'
    <3>1. \A i \in 1 .. MaxLogins : i > login.id => inbox'[i].events = << >>
      BY <1>3 DEF RunIInv, LoginIsAwaited
    <3>2. LoginRuns => \A k \in 1 .. Len(inbox'[login.id].events) : inbox'[login.id].events[k] = "started"
      <4>1. SUFFICES ASSUME LoginRuns
                     PROVE  \A k \in 1 .. Len(inbox'[login.id].events) : inbox'[login.id].events[k] = "started"
        OBVIOUS
      <4>2. login.id \in 1 .. MaxLogins
        BY <4>1, LoginIsEarly
      <4>3. \A j \in 1 .. Len(inbox[login.id].events) : inbox[login.id].events[j] = "started"
        BY <4>1 DEF RunIInv, LoginIsAwaited
      <4> QED BY <1>3, <4>2, <4>3
    <3> QED BY <1>1, <1>5, <3>1, <3>2 DEF RunIInv, LoginIsAwaited, OnLogins, LoginRuns
  <2>3. StageIsKept'
    <3>1. ASSUME login.pending # 0, login.dir = "stage", NEW k \in 1 .. Len(inbox'[login.id].events),
                 inbox'[login.id].events[k] = "ok"
          PROVE  LoggedIn("stage", login.s)
      <4>1. login.id \in 1 .. MaxLogins
        BY <1>0, <3>1 DEF RunIInv, LoginIsAwaited
      <4>2. PICK j \in 1 .. Len(inbox[login.id].events) : inbox[login.id].events[j] = "ok"
        BY <1>3, <3>1, <4>1
      <4> QED BY <3>1, <4>2 DEF RunIInv, StageIsKept
    <3> QED BY <1>1, <1>5, <3>1 DEF RunIInv, StageIsKept, Has, LoggedIn
  <2>4. ShownAreStaged' /\ EndsInOrder' /\ ScreenIsTold'
    BY <1>1, <1>5 DEF RunIInv, ShownAreStaged, EndsInOrder, ScreenIsTold, OnLogins, Has, LoggedIn
  <2> QED BY <1>4, <2>1, <2>2, <2>3, <2>4 DEF RunIInv
<1>6. CASE /\ id = login.pending /\ event # "started"
           /\ login' = [login EXCEPT !.pending = 0] /\ logins' = RefreshLogins(l)
  <2>1. id = login.id /\ login.s \in Servers /\ OnLogins
    BY <1>0, <1>6 DEF RunIInv, LoginIsAwaited
  <2>2. ~LoginRuns
    BY <1>2, <1>6, <2>1 DEF RunIInv, LoginIsAwaited
  <2>3. /\ login' \in LoginStates /\ login'.pending = 0 /\ login'.id = login.id /\ login'.phase = login.phase
    <3>1. 0 \in 0 .. MaxLogins
      BY ConstantsAssumption
    <3> QED BY <1>0, <1>6, <3>1 DEF LoginStates
  <2>4. /\ l \in LoginsCopy /\ l.waiting = logins.waiting /\ l.results[login.s] = event
        /\ \A s \in Servers : s # login.s => l.results[s] = logins.results[s]
    <3>1. logins.results \in [Servers -> {"none"} \cup Event]
      BY <1>0 DEF LoginsCopy
    <3>2. [logins.results EXCEPT ![login.s] = event] \in [Servers -> {"none"} \cup Event]
      BY <1>2, <3>1
    <3>3. l = [logins EXCEPT !.results = [logins.results EXCEPT ![login.s] = event]]
      BY <1>0 DEF LoginsCopy
    <3> HIDE DEF event
    <3>4. l.results = [logins.results EXCEPT ![login.s] = event] /\ l.waiting = logins.waiting /\ l \in LoginsCopy
      BY <1>0, <3>2, <3>3 DEF LoginsCopy
    <3> QED BY <2>1, <3>1, <3>4
  <2> HIDE DEF l
  <2>5. /\ logins' \in LoginsCopy /\ logins'.results = l.results /\ logins'.waiting = logins.waiting
        /\ logins'.checking = checks.checking
        /\ \A s \in logins'.need : \E d \in Dirs : Has(d, s)
    BY <1>0, <1>6, <2>4, RefreshReads
  <2>6. RunTypeOK'
    BY <1>1, <1>3, <2>3, <2>5 DEF RunIInv, RunTypeOK, ConnectTypeOK
  <2>7. LoginIsAwaited'
    <3>1. ~LoginRuns'
      BY <2>2, <2>3 DEF LoginRuns
    <3>2. \A i \in 1 .. MaxLogins : i > login.id => inbox'[i].events = << >>
      BY <1>3 DEF RunIInv, LoginIsAwaited
    <3> QED BY <2>3, <3>1, <3>2 DEF LoginIsAwaited
  <2>8. StageIsKept'
    BY <1>1, <2>3 DEF RunIInv, StageIsKept, Has, LoggedIn
  <2>9. ShownAreStaged'
    <3>1. ASSUME outside = 0, NEW s \in Servers, logins'.results[s] = "ok"
          PROVE  Has("stage", s) /\ LoggedIn("stage", s)
      <4>1. CASE s # login.s
        BY <2>4, <2>5, <3>1, <4>1 DEF RunIInv, ShownAreStaged
      <4>2. CASE s = login.s
        <5>1. login.dir = "stage" /\ event = "ok" /\ login.pending # 0
          BY <1>0, <1>6, <2>4, <2>5, <3>1, <4>2 DEF RunIInv, ShownAreStaged
        <5>2. inbox[login.id].events[1] = "ok" /\ 1 \in 1 .. Len(inbox[login.id].events)
          BY <1>2, <2>1, <5>1
        <5> QED BY <4>2, <5>1, <5>2 DEF RunIInv, StageIsKept, Has
      <4> QED BY <4>1, <4>2
    <3>2. ui'.pc \notin Commits => \A s \in Servers : outside = 0 => ~Has("mini", s)'
      BY <1>1 DEF RunIInv, ShownAreStaged, Has
    <3> QED BY <1>1, <2>3, <2>5, <3>1, <3>2 DEF ShownAreStaged, Has, LoggedIn
  <2>10. EndsInOrder'
    BY <1>0, <1>1 DEF EndsInOrder, Commits, Screens
  <2>11. ScreenIsTold'
    BY <1>1, <2>1, <2>5 DEF RunIInv, ScreenIsTold, OnLogins
  <2> QED BY <1>4, <2>6, <2>7, <2>8, <2>9, <2>10, <2>11 DEF RunIInv
<1> QED
  BY <1>5, <1>6 DEF LoginEvent

\* Sync: of the servers that were to change, those that could not be removed stay as they are; the
\* others begin without a login, and what was shown of a removed one is forgotten.
LEMMA SyncEffect ==
  ASSUME RunTypeOK, Sync
  PROVE  /\ dir' \in [Dirs -> ServerDirs] /\ dir'["mini"] = dir["mini"]
         /\ checks' \in CheckStates /\ logins' \in LoginsCopy
         /\ \A s \in Servers :
              \/ /\ dir'["stage"].srv[s] = dir["stage"].srv[s] /\ dir'["stage"].login[s] = dir["stage"].login[s]
                 /\ logins'.results[s] \in {logins.results[s], "none"}
              \/ /\ dir'["stage"].login[s] = 0
                 /\ dir["stage"].srv[s] # 0 => logins'.results[s] = "none"
                 /\ dir["stage"].srv[s] = 0 => logins'.results[s] \in {logins.results[s], "none"}
<1> DEFINE staged == dir["stage"]
           changed == {s \in Servers : staged.srv[s] # Want[s]}
<1>0. /\ dir \in [Dirs -> ServerDirs] /\ checks \in CheckStates /\ logins \in LoginsCopy
      /\ staged \in ServerDirs /\ "stage" \in Dirs /\ "mini" \in Dirs
  BY DEF RunTypeOK, Dirs
<1>1. PICK stuck \in SUBSET {s \in changed : staged.srv[s] # 0},
           failed \in SUBSET {s \in changed : Want[s] # 0} :
        LET gone == {s \in changed : staged.srv[s] # 0} \ stuck
            ds == [dir EXCEPT !["stage"] =
                    [srv |-> [s \in Servers |-> IF s \in stuck THEN staged.srv[s]
                                                ELSE IF s \in failed THEN 0 ELSE Want[s]],
                     login |-> [s \in Servers |-> IF s \in changed \ stuck THEN 0 ELSE staged.login[s]],
                     found |-> staged.found \ (changed \ stuck)]]
            checked == checks.checked \ gone
            targets == CheckTargets(ds, checked)
        IN /\ stuck \cap failed = {}
           /\ dir' = ds
           /\ checks' = [checks EXCEPT !.running = targets, !.cancelled = FALSE, !.checked = checked,
                                       !.checking = {t[2] : t \in targets}, !.changed = TRUE]
           /\ logins' = [logins EXCEPT !.results = [s \in Servers |-> IF s \in gone THEN "none" ELSE @[s]]]
  BY DEF Sync
<1> DEFINE gone == {s \in changed : staged.srv[s] # 0} \ stuck
           srv == [s \in Servers |-> IF s \in stuck THEN staged.srv[s] ELSE IF s \in failed THEN 0 ELSE Want[s]]
           kept == [s \in Servers |-> IF s \in changed \ stuck THEN 0 ELSE staged.login[s]]
           found == staged.found \ (changed \ stuck)
           new == [srv |-> srv, login |-> kept, found |-> found]
           checked == checks.checked \ gone
           targets == CheckTargets(dir', checked)
           results == [s \in Servers |-> IF s \in gone THEN "none" ELSE logins.results[s]]
<1>2. dir' = [dir EXCEPT !["stage"] = new]
  BY <1>1
<1>3. checks' = [checks EXCEPT !.running = targets, !.cancelled = FALSE, !.checked = checked,
                               !.checking = {t[2] : t \in targets}, !.changed = TRUE]
  BY <1>1
<1>4. logins' = [logins EXCEPT !.results = results]
  BY <1>1
<1>5. \A s \in Servers : Want[s] \in Settings
  BY DEF Want, Settings
<1>6. new \in ServerDirs
  <2>1. srv \in [Servers -> Settings]
    BY <1>0, <1>5 DEF ServerDirs, Settings
  <2>2. kept \in [Servers -> Settings]
    BY <1>0 DEF ServerDirs, Settings
  <2>3. found \in Names
    BY <1>0 DEF ServerDirs, Names
  <2> HIDE DEF srv, kept, found
  <2> QED BY <2>1, <2>2, <2>3 DEF ServerDirs
<1>7. dir' \in [Dirs -> ServerDirs] /\ dir'["mini"] = dir["mini"] /\ dir'["stage"] = new
  <2> HIDE DEF new
  <2> QED BY <1>0, <1>2, <1>6
<1>8. checks' \in CheckStates
  <2>1. checked \in Names
    BY <1>0 DEF CheckStates, Names
  <2>2. targets \in SUBSET (Dirs \X Servers)
    BY DEF CheckTargets
  <2> HIDE DEF checked, targets
  <2>3. {t[2] : t \in targets} \in Names
    BY <2>2 DEF Names
  <2> QED BY <1>0, <1>3, <2>1, <2>2, <2>3 DEF CheckStates
<1>9. results \in [Servers -> {"none"} \cup Event] /\ logins' \in LoginsCopy /\ logins'.results = results
  <2>1. results \in [Servers -> {"none"} \cup Event]
    BY <1>0 DEF LoginsCopy
  <2> HIDE DEF results
  <2> QED BY <1>0, <1>4, <2>1 DEF LoginsCopy
<1>10. ASSUME NEW s \in Servers
       PROVE  \/ /\ srv[s] = staged.srv[s] /\ kept[s] = staged.login[s]
                 /\ results[s] \in {logins.results[s], "none"}
              \/ /\ kept[s] = 0
                 /\ staged.srv[s] # 0 => results[s] = "none"
                 /\ staged.srv[s] = 0 => results[s] \in {logins.results[s], "none"}
  <2>1. CASE s \in stuck
    BY <2>1
  <2>2. CASE s \notin stuck /\ s \in changed
    BY <2>2
  <2>3. CASE s \notin changed
    BY <2>3
  <2> QED BY <2>1, <2>2, <2>3
<1> HIDE DEF srv, kept, results, found
<1>11. new.srv = srv /\ new.login = kept
  OBVIOUS
<1> QED
  BY <1>7, <1>8, <1>9, <1>10, <1>11

\* A save stages what the user wants and starts the checks; removed servers lose their results.
LEMMA SaveKeeps ==
  ASSUME RunIInv, Save
  PROVE  RunIInv'
<1>0. RunTypeOK /\ ui \in UIStates /\ ui.pc = "saving" /\ login \in LoginStates
  BY DEF RunIInv, RunTypeOK, Save
<1>1. /\ ui' = [ui EXCEPT !.pc = "moving"]
      /\ UNCHANGED <<picks, made, login, inbox, connect, probes, agent, commit, outside>>
  BY DEF Save
<1>2. /\ dir' \in [Dirs -> ServerDirs] /\ dir'["mini"] = dir["mini"]
      /\ checks' \in CheckStates /\ logins' \in LoginsCopy
      /\ \A s \in Servers :
           \/ /\ dir'["stage"].srv[s] = dir["stage"].srv[s] /\ dir'["stage"].login[s] = dir["stage"].login[s]
              /\ logins'.results[s] \in {logins.results[s], "none"}
           \/ /\ dir'["stage"].login[s] = 0
              /\ dir["stage"].srv[s] # 0 => logins'.results[s] = "none"
              /\ dir["stage"].srv[s] = 0 => logins'.results[s] \in {logins.results[s], "none"}
  BY <1>0, SyncEffect DEF Save
<1>3. /\ ui' \in UIStates /\ ui'.pc = "moving" /\ ui'.at = ui.at /\ ui'.saved = ui.saved /\ ui'.end = ui.end
      /\ ui'.to = ui.to
  <2>1. "moving" \in Steps
    BY DEF Steps, Screens
  <2> QED BY <1>0, <1>1, <2>1 DEF UIStates
<1>4. login.pending = 0 /\ ~LoginRuns
  BY <1>0 DEF RunIInv, LoginIsAwaited, OnLogins
<1>5. ~OnLogins' /\ ScreenIsTold'
  BY <1>3 DEF OnLogins, ScreenIsTold
<1>6. RunTypeOK'
  BY <1>1, <1>2, <1>3 DEF RunIInv, RunTypeOK, ConnectTypeOK
<1>7. ScreensFollow'
  BY <1>0, <1>3 DEF RunIInv, ScreensFollow, Screens
<1>8. LoginIsAwaited'
  BY <1>1, <1>4 DEF RunIInv, LoginIsAwaited, LoginRuns
<1>9. EndsInOrder'
  BY <1>3 DEF EndsInOrder, Commits, Screens
<1>10. StageIsKept'
  <2>1. ASSUME NEW s \in Servers, Has("stage", s)'
        PROVE  dir'["stage"].login[s] \in {0, dir'["stage"].srv[s]}
    BY <1>2, <2>1 DEF RunIInv, StageIsKept, Has
  <2> QED BY <1>1, <1>4, <2>1 DEF StageIsKept
<1>11. ShownAreStaged'
  <2>1. ui.pc \notin Commits
    BY <1>0 DEF Commits
  <2>2. outside = 0 => \A s \in Servers : ~Has("mini", s)'
    BY <1>2, <2>1 DEF RunIInv, ShownAreStaged, Has
  <2>3. ASSUME outside = 0, NEW s \in Servers, logins'.results[s] = "ok"
        PROVE  Has("stage", s)' /\ LoggedIn("stage", s)'
    <3>1. logins.results[s] = "ok"
      BY <1>2, <2>3
    <3>2. dir["stage"].srv[s] # 0 /\ dir["stage"].login[s] = dir["stage"].srv[s]
      BY <2>3, <3>1 DEF RunIInv, ShownAreStaged, Has, LoggedIn
    <3>3. dir'["stage"].srv[s] = dir["stage"].srv[s] /\ dir'["stage"].login[s] = dir["stage"].login[s]
      BY <1>2, <2>3, <3>2
    <3> QED BY <3>2, <3>3 DEF Has, LoggedIn
  <2> QED BY <1>1, <1>4, <1>5, <2>2, <2>3 DEF ShownAreStaged
<1>12. CommitIsClean'
  <2>1. ui.pc \notin Commits /\ ui'.pc \notin Commits
    BY <1>0, <1>3 DEF Commits
  <2>2. commit' = [left |-> {}, step |-> "", ours |-> {}, removed |-> {}]
    BY <1>1, <2>1 DEF RunIInv, CommitIsClean
  <2> QED BY <2>1, <2>2 DEF CommitIsClean, Commits
<1> QED
  BY <1>5, <1>6, <1>7, <1>8, <1>9, <1>10, <1>11, <1>12 DEF RunIInv

-----------------------------------------------------------------------------
(* A run of mini init: its end *)

\* What the screens leave when the UI ends.
LEMMA NothingShown == NoLogins \in LoginsCopy /\ NoLogins.need = {} /\ \A s \in Servers : NoLogins.results[s] = "none"
BY DEF NoLogins, LoginsCopy, Names

\* The UI ends from any screen; the pending login is cancelled.
LEMMA UIEndsKeeps ==
  ASSUME RunIInv, UIEnds
  PROVE  RunIInv'
<1>0. /\ RunTypeOK /\ login \in LoginStates /\ inbox \in [1 .. MaxLogins -> Inboxes] /\ connect \in ConnectStates
      /\ probes \in [1 .. MaxConnects -> Probes]
  BY DEF RunIInv, RunTypeOK, ConnectTypeOK
<1>1. ui.pc \in {"keys", "quitting"}
  BY DEF UIEnds, Free
<1>2. /\ login' = [login EXCEPT !.cancelled = login.pending # 0]
      /\ connect' = [connect EXCEPT !.stop = FALSE, !.plan = NoPlan, !.done = FALSE]
      /\ logins' = NoLogins
      /\ inbox' = [i \in 1 .. MaxLogins |-> IF i = login.id /\ login.phase # "done" THEN inbox[i] ELSE NoEvents]
      /\ probes' = [i \in 1 .. MaxConnects |-> IF probes[i].phase = "run" THEN probes[i] ELSE NoProbes]
      /\ UNCHANGED <<dir, made, checks, agent, commit, outside>>
  BY DEF UIEnds, NoScreens
<1>3. ui' \in UIStates /\ ui'.pc = "ending" /\ ui'.at = 6
  <2>1. PICK end \in {"quit", "finished"} : ui' = Ended("ending", end)
    BY DEF UIEnds
  <2>2. "ending" \in Steps /\ 1 \in 1 .. 6 /\ 0 \in 0 .. 6
    BY DEF Steps
  <2>3. ui \in UIStates /\ end \in {"", "quit", "finished"}
    BY <1>0 DEF RunTypeOK
  <2>4. Ended("ending", end) \in UIStates
    BY <2>2, <2>3, UITyped
  <2> QED BY <2>1, <2>4 DEF Ended, Past
<1>4. /\ login' \in LoginStates /\ login'.pending = login.pending /\ login'.id = login.id /\ login'.s = login.s
      /\ login'.dir = login.dir /\ login'.v = login.v /\ login'.phase = login.phase
      /\ login'.cancelled = (login.pending # 0)
  BY <1>0, <1>2 DEF LoginStates
<1>5. /\ inbox' \in [1 .. MaxLogins -> Inboxes]
      /\ \A i \in 1 .. MaxLogins : inbox'[i] = inbox[i] \/ inbox'[i].events = << >>
  <2>1. NoEvents \in Inboxes /\ NoEvents.events = << >>
    BY DEF NoEvents, Inboxes
  <2> QED BY <1>0, <1>2, <2>1
<1>6. ConnectTypeOK'
  <2>1. NoPlan \in Plans /\ NoProbes \in Probes
    BY DEF NoPlan, Plans, NoProbes, Probes, Names
  <2>2. connect' \in ConnectStates
    BY <1>0, <1>2, <2>1 DEF ConnectStates
  <2> QED BY <1>0, <1>2, <2>1, <2>2 DEF ConnectTypeOK
<1>7. RunTypeOK'
  BY <1>2, <1>3, <1>4, <1>5, <1>6, NothingShown DEF RunIInv, RunTypeOK
<1>8. ScreensFollow'
  BY <1>3 DEF ScreensFollow, Screens, Logins, Review, Past
<1>9. LoginIsAwaited'
  <2>1. login.pending # 0 => login.s \in Servers
    BY DEF RunIInv, LoginIsAwaited
  <2>2. LoginRuns => login.pending # 0 /\ login.id \in 1 .. MaxLogins
    <3>1. SUFFICES ASSUME LoginRuns PROVE login.pending # 0 /\ login.id \in 1 .. MaxLogins
      OBVIOUS
    <3>2. login.pending = login.id /\ login.id \in 1 .. MaxLogins
      BY <3>1, LoginIsEarly
    <3> QED BY <3>2
  <2>3. \A i \in 1 .. MaxLogins : i > login.id => inbox'[i].events = << >>
    BY <1>5 DEF RunIInv, LoginIsAwaited
  <2>4. LoginRuns => \A k \in 1 .. Len(inbox'[login.id].events) : inbox'[login.id].events[k] = "started"
    <3>1. LoginRuns => \A k \in 1 .. Len(inbox[login.id].events) : inbox[login.id].events[k] = "started"
      BY DEF RunIInv, LoginIsAwaited
    <3> QED BY <1>5, <2>2, <3>1
  <2> QED BY <1>3, <1>4, <2>1, <2>2, <2>3, <2>4 DEF RunIInv, LoginIsAwaited, LoginRuns
<1>10. EndsInOrder'
  BY <1>2, <1>3, NothingShown DEF EndsInOrder, Commits
<1>11. StageIsKept'
  <2>1. login.pending # 0 => login.id \in 1 .. MaxLogins
    <3>1. login.id \in 0 .. MaxLogins
      BY <1>0 DEF LoginStates
    <3> QED BY <3>1, ConstantsAssumption DEF RunIInv, LoginIsAwaited
  <2>2. login.pending # 0 /\ login.dir = "stage" =>
           \A k \in 1 .. Len(inbox'[login.id].events) : inbox'[login.id].events[k] = "ok" => LoggedIn("stage", login.s)
    <3>1. login.pending # 0 /\ login.dir = "stage" =>
           \A k \in 1 .. Len(inbox[login.id].events) : inbox[login.id].events[k] = "ok" => LoggedIn("stage", login.s)
      BY DEF RunIInv, StageIsKept
    <3> QED BY <1>5, <2>1, <3>1
  <2> QED BY <1>2, <1>4, <2>2 DEF RunIInv, StageIsKept, Has, LoggedIn
<1>12. ShownAreStaged'
  <2>1. ui.pc \notin Commits
    BY <1>1 DEF Commits
  <2>2. ~OnLogins'
    BY <1>3 DEF OnLogins
  <2> QED BY <1>2, <1>4, <2>1, <2>2, NothingShown DEF RunIInv, ShownAreStaged, Has
<1>13. CommitIsClean'
  <2>1. ui.pc \notin Commits /\ ui'.pc \notin Commits
    BY <1>1, <1>3 DEF Commits
  <2>2. commit' = [left |-> {}, step |-> "", ours |-> {}, removed |-> {}]
    BY <1>2, <2>1 DEF RunIInv, CommitIsClean
  <2> QED BY <2>1, <2>2 DEF CommitIsClean, Commits
<1>14. ScreenIsTold'
  BY <1>3 DEF ScreenIsTold, OnLogins
<1> QED
  BY <1>7, <1>8, <1>9, <1>10, <1>11, <1>12, <1>13, <1>14 DEF RunIInv

\* After the UI has ended no login is awaited, once what it started has stopped.
LEMMA NoLoginLater ==
  ASSUME RunIInv, ui.pc \in {"quitting", "waiting", "closing"} \cup Commits
  PROVE  login.pending = 0 /\ ~LoginRuns
BY DEF RunIInv, LoginIsAwaited, OnLogins, Commits

\* Once login and probes ended, the run waits for its checks or closes.
LEMMA UIEndedKeeps ==
  ASSUME RunIInv, UIEnded
  PROVE  RunIInv'
<1>0. RunTypeOK /\ login \in LoginStates /\ ui \in UIStates /\ checks \in CheckStates /\ ui.pc = "ending" /\ ui.at = 6
  BY DEF RunIInv, RunTypeOK, UIEnded, ScreensFollow, Screens, Past
<1>1. /\ login' = [login EXCEPT !.pending = 0, !.cancelled = FALSE]
      /\ ui' = [ui EXCEPT !.pc = IF ui.end = "finished" THEN "waiting" ELSE "closing"]
      /\ checks' = [checks EXCEPT !.cancelled = ui.end # "finished"]
      /\ UNCHANGED <<picks, dir, made, logins, inbox, connect, probes, agent, commit, outside>>
  BY DEF UIEnded
<1>2. ~LoginRuns /\ \A i \in 1 .. MaxConnects : probes[i].phase # "run"
  BY <1>0 DEF RunIInv, UIEnded, AllStopped, LoginIsAwaited, LoginRuns
<1>3. /\ ui' \in UIStates /\ ui'.at = 6 /\ ui'.end = ui.end /\ ui'.pc \in {"waiting", "closing"}
      /\ ui'.pc = "waiting" => ui.end = "finished"
  <2>1. (IF ui.end = "finished" THEN "waiting" ELSE "closing") \in Steps
    BY DEF Steps
  <2> QED BY <1>0, <1>1, <2>1 DEF UIStates
<1>4. /\ checks' \in CheckStates /\ checks'.running = checks.running
  BY <1>0, <1>1 DEF CheckStates
<1>5. /\ login' \in LoginStates /\ login'.pending = 0 /\ login'.id = login.id /\ login'.phase = login.phase
  <2>1. 0 \in 0 .. MaxLogins
    BY ConstantsAssumption
  <2> QED BY <1>0, <1>1, <2>1 DEF LoginStates
<1>6. RunTypeOK'
  BY <1>1, <1>3, <1>4, <1>5 DEF RunIInv, RunTypeOK, ConnectTypeOK
<1>7. ScreensFollow'
  BY <1>3 DEF ScreensFollow, Screens, Logins, Review, Past
<1>8. LoginIsAwaited'
  BY <1>1, <1>2, <1>5 DEF RunIInv, LoginIsAwaited, LoginRuns
<1>9. EndsInOrder'
  BY <1>0, <1>1, <1>2, <1>3 DEF RunIInv, EndsInOrder, Commits, Screens
<1>10. StageIsKept'
  BY <1>1, <1>5 DEF RunIInv, StageIsKept, Has, LoggedIn
<1>11. ShownAreStaged'
  <2>1. ui.pc \notin Commits /\ ~OnLogins'
    BY <1>0, <1>3 DEF Commits, OnLogins
  <2> QED BY <1>1, <1>5, <2>1 DEF RunIInv, ShownAreStaged, Has, LoggedIn
<1>12. CommitIsClean'
  <2>1. ui.pc \notin Commits /\ ui'.pc \notin Commits
    BY <1>0, <1>3 DEF Commits
  <2>2. commit' = [left |-> {}, step |-> "", ours |-> {}, removed |-> {}]
    BY <1>1, <2>1 DEF RunIInv, CommitIsClean
  <2> QED BY <2>1, <2>2 DEF CommitIsClean, Commits
<1>13. ScreenIsTold'
  BY <1>3 DEF ScreenIsTold, OnLogins
<1> QED
  BY <1>6, <1>7, <1>8, <1>9, <1>10, <1>11, <1>12, <1>13 DEF RunIInv

\* Without a stage there are no staged servers.
LEMMA StageGone ==
  ASSUME RunTypeOK, dir' = [dir EXCEPT !["stage"] = NoStage]
  PROVE  /\ dir' \in [Dirs -> ServerDirs] /\ dir'["mini"] = dir["mini"]
         /\ \A s \in Servers : dir'["stage"].srv[s] = 0 /\ dir'["stage"].login[s] = 0
<1>1. NoStage \in ServerDirs
  BY DEF NoStage, ServerDirs, Settings, Names
<1>2. "stage" \in Dirs /\ "mini" \in Dirs /\ dir \in [Dirs -> ServerDirs]
  BY DEF Dirs, RunTypeOK
<1>3. \A s \in Servers : NoStage.srv[s] = 0 /\ NoStage.login[s] = 0
  BY DEF NoStage
<1> QED
  BY <1>1, <1>2, <1>3

\* A step of the run's end: what it commits, what it discards.
EndStep ==
    /\ ui.pc \in {"waiting", "closing"} \cup Commits /\ ui'.pc \in Commits
    /\ UNCHANGED <<logins, login, inbox, connect, probes, outside>>
    /\ ui' \in UIStates /\ dir' \in [Dirs -> ServerDirs] /\ checks' \in CheckStates /\ checks'.running = {}
    /\ made' \in BOOLEAN /\ commit' \in Commitments
    /\ ui'.at = 6 /\ (ui'.pc # "done" => ui'.end = "finished")
    /\ ui'.pc \in {"connecting", "done"} => ~made'
    /\ \A s \in Servers : dir'["stage"].srv[s] # 0 => dir'["stage"].login[s] \in {0, dir'["stage"].srv[s]}
    /\ CommitIsClean'

\* Such a step keeps what the run promises.
LEMMA EndStepKeeps ==
  ASSUME RunIInv, EndStep
  PROVE  RunIInv'
<1>1. login.pending = 0 /\ ~LoginRuns
  BY NoLoginLater DEF EndStep
<1>2. \A s \in Servers : logins.results[s] = "none"
  BY DEF RunIInv, EndsInOrder, EndStep, Screens, Commits
<1>3. \A i \in 1 .. MaxConnects : probes[i].phase # "run"
  BY DEF RunIInv, EndsInOrder, EndStep
<1>4. RunTypeOK'
  BY DEF RunIInv, RunTypeOK, EndStep, ConnectTypeOK
<1>5. ScreensFollow'
  BY DEF EndStep, ScreensFollow, Screens, Commits, Logins, Review, Past
<1>6. LoginIsAwaited'
  BY <1>1 DEF RunIInv, EndStep, LoginIsAwaited, LoginRuns
<1>7. EndsInOrder'
  BY <1>2, <1>3 DEF EndStep, EndsInOrder
<1>8. StageIsKept'
  BY <1>1 DEF EndStep, StageIsKept, Has
<1>9. ShownAreStaged'
  <2>1. ~OnLogins'
    BY DEF EndStep, OnLogins, Commits
  <2> QED BY <1>1, <1>2, <2>1 DEF EndStep, ShownAreStaged
<1>10. ScreenIsTold'
  BY DEF EndStep, ScreenIsTold, OnLogins, Commits
<1> QED
  BY <1>4, <1>5, <1>6, <1>7, <1>8, <1>9, <1>10 DEF RunIInv, EndStep

\* A run that did not finish discards its stage.
LEMMA CloseKeeps ==
  ASSUME RunIInv, Close
  PROVE  RunIInv'
<1>0. RunTypeOK /\ ui \in UIStates /\ ui.pc = "closing" /\ ui.at = 6 /\ checks \in CheckStates
  BY DEF RunIInv, RunTypeOK, Close, ScreensFollow, Screens, Past
<1>1. /\ ui' = [ui EXCEPT !.pc = "done"] /\ checks' = [checks EXCEPT !.checking = {}] /\ made' = FALSE
      /\ dir' = [dir EXCEPT !["stage"] = NoStage] /\ checks.running = {}
      /\ UNCHANGED <<picks, logins, login, inbox, connect, probes, agent, commit, outside>>
  BY DEF Close
<1>2. ui' \in UIStates /\ ui'.pc = "done" /\ ui'.at = 6
  <2>1. "done" \in Steps
    BY DEF Steps, Commits
  <2> QED BY <1>0, <1>1, <2>1 DEF UIStates
<1>3. checks' \in CheckStates /\ checks'.running = {}
  BY <1>0, <1>1 DEF CheckStates, Names
<1>4. dir' \in [Dirs -> ServerDirs] /\ \A s \in Servers : dir'["stage"].srv[s] = 0
  BY <1>0, <1>1, StageGone
<1>5. CommitIsClean'
  <2>1. ui.pc \notin Commits
    BY <1>0 DEF Commits
  <2>2. commit' = [left |-> {}, step |-> "", ours |-> {}, removed |-> {}]
    BY <1>1, <2>1 DEF RunIInv, CommitIsClean
  <2> QED BY <1>2, <2>2 DEF CommitIsClean, Commits
<1>6. EndStep
  BY <1>0, <1>1, <1>2, <1>3, <1>4, <1>5 DEF EndStep, RunTypeOK, Commits
<1> QED
  BY <1>6, EndStepKeeps

\* A finished run commits the servers staged.
LEMMA BeginCommitKeeps ==
  ASSUME RunIInv, BeginCommit
  PROVE  RunIInv'
<1>0. /\ RunTypeOK /\ ui \in UIStates /\ ui.pc = "waiting" /\ ui.at = 6 /\ ui.end = "finished"
      /\ commit = [left |-> {}, step |-> "", ours |-> {}, removed |-> {}]
  <2>1. ui.pc \notin Commits
    BY DEF BeginCommit, Commits
  <2> QED BY <2>1 DEF RunIInv, RunTypeOK, BeginCommit, ScreensFollow, Screens, Past, CommitIsClean
<1>1. /\ ui' = [ui EXCEPT !.pc = "committing"] /\ checks.running = {}
      /\ commit' = [commit EXCEPT !.left = {s \in Servers : Has("stage", s)}]
      /\ UNCHANGED <<picks, dir, made, checks, logins, login, inbox, connect, probes, agent, outside>>
  BY DEF BeginCommit
<1>2. ui' \in UIStates /\ ui'.pc = "committing" /\ ui'.at = 6 /\ ui'.end = "finished"
  <2>1. "committing" \in Steps
    BY DEF Steps, Commits
  <2> QED BY <1>0, <1>1, <2>1 DEF UIStates
<1>3. commit' = [left |-> {s \in Servers : Has("stage", s)}, step |-> "", ours |-> {}, removed |-> {}]
  BY <1>0, <1>1
<1>4. commit' \in Commitments
  BY <1>3 DEF Commitments, Names
<1>5. CommitIsClean'
  <2>1. \A s : Has("stage", s)' <=> Has("stage", s)
    BY <1>1 DEF Has
  <2> QED BY <1>2, <1>3, <2>1 DEF CommitIsClean, Commits
<1>6. EndStep
  BY <1>0, <1>1, <1>2, <1>4, <1>5 DEF RunIInv, StageIsKept, Has, EndStep, RunTypeOK, Commits
<1> QED
  BY <1>6, EndStepKeeps

\* While servers are committed.
LEMMA WhileCommitting ==
  ASSUME RunIInv, ui.pc = "committing"
  PROVE  /\ RunTypeOK /\ ui \in UIStates /\ ui.at = 6 /\ ui.end = "finished" /\ checks \in CheckStates
         /\ checks.running = {} /\ commit \in Commitments /\ dir \in [Dirs -> ServerDirs] /\ made \in BOOLEAN
         /\ commit.left \subseteq Servers /\ commit.ours \subseteq Servers
         /\ \A s \in commit.left : dir["stage"].srv[s] # 0 /\ dir["stage"].login[s] \in {0, dir["stage"].srv[s]}
<1>1. /\ RunTypeOK /\ ui \in UIStates /\ ui.at = 6 /\ ui.end = "finished" /\ checks \in CheckStates
      /\ checks.running = {} /\ commit \in Commitments /\ dir \in [Dirs -> ServerDirs] /\ made \in BOOLEAN
  BY DEF RunIInv, RunTypeOK, ScreensFollow, Screens, Past, EndsInOrder, Commits
<1>2. commit.left \subseteq Servers /\ commit.ours \subseteq Servers
  BY <1>1 DEF Commitments, Names
<1>3. \A s \in commit.left : dir["stage"].srv[s] # 0 /\ dir["stage"].login[s] \in {0, dir["stage"].srv[s]}
  BY <1>2 DEF RunIInv, CommitIsClean, StageIsKept, Has
<1> QED
  BY <1>1, <1>2, <1>3

\* What a step of a server's commit may do: it changes only mini's entries of that server, and keeps
\* to the order of the steps.
CommitStep(s) ==
    /\ ui.pc = "committing" /\ s \in commit.left
    /\ UNCHANGED <<ui, made, checks, logins, login, inbox, connect, probes, outside>>
    /\ dir' \in [Dirs -> ServerDirs] /\ dir'["stage"] = dir["stage"]
    /\ \A x \in Servers \ {s} : dir'["mini"].srv[x] = dir["mini"].srv[x] /\ dir'["mini"].login[x] = dir["mini"].login[x]
    /\ commit' \in Commitments
    /\ \/ /\ commit'.left = commit.left \ {s} /\ commit'.step = ""
          /\ \/ commit'.ours = commit.ours
             \/ /\ commit'.ours = commit.ours \cup {s}
                /\ dir'["mini"].srv[s] # 0 /\ dir'["mini"].login[s] \in {0, dir'["mini"].srv[s]}
       \/ commit'.left = commit.left /\ commit'.ours = commit.ours /\ commit'.step = "forget"
       \/ commit'.left = commit.left /\ commit'.ours = commit.ours /\ commit'.step = "copy" /\ dir'["mini"].login[s] = 0
       \/ /\ commit'.left = commit.left /\ commit'.ours = commit.ours /\ commit'.step = "create"
          /\ dir'["mini"].login[s] \in {0, dir["stage"].srv[s]}

\* Such a step keeps what the run promises.
LEMMA CommitStepKeeps ==
  ASSUME RunIInv, NEW s \in Servers, s = (CHOOSE x \in commit.left : TRUE), CommitStep(s)
  PROVE  RunIInv'
<1>0. /\ RunTypeOK /\ ui \in UIStates /\ ui.at = 6 /\ ui.end = "finished" /\ checks \in CheckStates
      /\ checks.running = {} /\ commit \in Commitments /\ dir \in [Dirs -> ServerDirs] /\ made \in BOOLEAN
      /\ commit.left \subseteq Servers /\ commit.ours \subseteq Servers
      /\ \A x \in commit.left : dir["stage"].srv[x] # 0 /\ dir["stage"].login[x] \in {0, dir["stage"].srv[x]}
  BY WhileCommitting DEF CommitStep
<1>1. \A x \in commit.ours : x # s /\ dir["mini"].srv[x] # 0 /\ dir["mini"].login[x] \in {0, dir["mini"].srv[x]}
                             /\ x \notin commit.left
  BY DEF RunIInv, CommitIsClean, Has, CommitStep
<1>2. ASSUME NEW x \in commit'.ours
      PROVE  x \notin commit'.left /\ dir'["mini"].srv[x] # 0 /\ dir'["mini"].login[x] \in {0, dir'["mini"].srv[x]}
  <2>1. CASE x \in commit.ours
    <3>1. x \in Servers \ {s} /\ commit'.left \subseteq commit.left
      BY <1>0, <1>1, <2>1 DEF CommitStep
    <3> QED BY <1>1, <2>1, <3>1 DEF CommitStep
  <2>2. CASE x \notin commit.ours
    BY <1>2, <2>2 DEF CommitStep
  <2> QED BY <2>1, <2>2
<1>3. \A x \in commit'.left : dir'["stage"].srv[x] # 0
  BY <1>0 DEF CommitStep
<1>4. ASSUME NEW x \in commit'.left, x = (CHOOSE y \in commit'.left : TRUE)
      PROVE  /\ commit'.step = "copy" => dir'["mini"].login[x] = 0
             /\ commit'.step = "create" => dir'["mini"].login[x] \in {0, dir'["stage"].srv[x]}
  <2>1. CASE commit'.step = ""
    BY <2>1
  <2>2. CASE commit'.step # ""
    <3>1. commit'.left = commit.left
      BY <2>2 DEF CommitStep
    <3>2. x = s
      BY <1>4, <3>1
    <3> QED BY <2>2, <3>2 DEF CommitStep
  <2> QED BY <2>1, <2>2
<1>5. CommitIsClean'
  <2>1. ui' = ui /\ ui.pc = "committing"
    BY DEF CommitStep
  <2> QED BY <1>0, <1>2, <1>3, <1>4, <2>1 DEF CommitIsClean, Commits, Has
<1>6. EndStep
  <2>1. \A x \in Servers : dir["stage"].srv[x] # 0 => dir["stage"].login[x] \in {0, dir["stage"].srv[x]}
    BY DEF RunIInv, StageIsKept, Has
  <2> QED BY <1>0, <1>5, <2>1 DEF EndStep, CommitStep, Commits
<1> QED
  BY <1>6, EndStepKeeps

\* Changes of mini's entries of one server.
Kept(s) ==
    /\ dir' \in [Dirs -> ServerDirs] /\ dir'["stage"] = dir["stage"]
    /\ \A x \in Servers \ {s} : dir'["mini"].srv[x] = dir["mini"].srv[x] /\ dir'["mini"].login[x] = dir["mini"].login[x]

\* One directory replaced.
LEMMA MiniReplaced ==
  ASSUME NEW old \in [Dirs -> ServerDirs], NEW m \in ServerDirs, NEW ds, ds = [old EXCEPT !["mini"] = m]
  PROVE  ds["mini"] = m /\ ds["stage"] = old["stage"] /\ ds \in [Dirs -> ServerDirs]
BY DEF Dirs

\* What mini remembers of a server, replaced.
LEMMA MiniForgets ==
  ASSUME RunTypeOK, NEW s \in Servers, NEW n \in Settings, NEW f \in Names,
         dir' = [dir EXCEPT !["mini"].login[s] = n, !["mini"].found = f]
  PROVE  Kept(s) /\ dir'["mini"].login[s] = n
<1> DEFINE m == dir["mini"]
           srv == m.srv
           kept == [m.login EXCEPT ![s] = n]
           new == [m EXCEPT !.login = kept, !.found = f]
<1>0. /\ dir \in [Dirs -> ServerDirs] /\ "mini" \in Dirs /\ "stage" \in Dirs /\ m \in ServerDirs
      /\ m.srv \in [Servers -> Settings] /\ m.login \in [Servers -> Settings] /\ m.found \in Names
  BY DEF RunTypeOK, Dirs, ServerDirs
<1>1. /\ srv \in [Servers -> Settings] /\ \A x \in Servers \ {s} : srv[x] = m.srv[x]
      /\ kept \in [Servers -> Settings] /\ \A x \in Servers \ {s} : kept[x] = m.login[x]
      /\ kept[s] = n /\ srv = m.srv
  BY <1>0
<1>2. dir' = [dir EXCEPT !["mini"] = new]
  BY <1>0 DEF ServerDirs
<1>3. new \in ServerDirs /\ new.srv = srv /\ new.login = kept
  <2> HIDE DEF m, srv, kept
  <2> QED BY <1>0, <1>1 DEF ServerDirs
<1> HIDE DEF new
<1>4. dir'["mini"] = new /\ dir'["stage"] = dir["stage"] /\ dir' \in [Dirs -> ServerDirs]
  BY <1>0, <1>2, <1>3
<1> HIDE DEF srv, kept
<1> QED
  BY <1>1, <1>3, <1>4 DEF Kept

\* A server's settings, written.
LEMMA MiniGets ==
  ASSUME RunTypeOK, NEW s \in Servers, NEW v \in Settings,
         dir' = [dir EXCEPT !["mini"].srv[s] = v]
  PROVE  Kept(s) /\ dir'["mini"].srv[s] = v /\ dir'["mini"].login[s] = dir["mini"].login[s]
<1> DEFINE m == dir["mini"]
           srv == [m.srv EXCEPT ![s] = v]
           kept == m.login
           new == [m EXCEPT !.srv = srv]
<1>0. /\ dir \in [Dirs -> ServerDirs] /\ "mini" \in Dirs /\ "stage" \in Dirs /\ m \in ServerDirs
      /\ m.srv \in [Servers -> Settings] /\ m.login \in [Servers -> Settings] /\ m.found \in Names
  BY DEF RunTypeOK, Dirs, ServerDirs
<1>1. /\ srv \in [Servers -> Settings] /\ \A x \in Servers \ {s} : srv[x] = m.srv[x]
      /\ kept \in [Servers -> Settings] /\ \A x \in Servers \ {s} : kept[x] = m.login[x]
      /\ srv[s] = v /\ kept[s] = m.login[s]
  BY <1>0
<1>2. dir' = [dir EXCEPT !["mini"] = new]
  BY <1>0 DEF ServerDirs
<1>3. new \in ServerDirs /\ new.srv = srv /\ new.login = kept
  <2> HIDE DEF m, srv, kept
  <2> QED BY <1>0, <1>1 DEF ServerDirs
<1> HIDE DEF new
<1>4. dir'["mini"] = new /\ dir'["stage"] = dir["stage"] /\ dir' \in [Dirs -> ServerDirs]
  BY <1>0, <1>2, <1>3
<1> HIDE DEF srv, kept
<1> QED
  BY <1>1, <1>3, <1>4 DEF Kept

\* A server added, with what is remembered of its name.
LEMMA MiniAdds ==
  ASSUME RunTypeOK, NEW s \in Servers,
         dir' = [dir EXCEPT !["mini"].srv[s] = 1, !["mini"].login[s] = 0, !["mini"].found = @ \ {s}]
  PROVE  Kept(s) /\ dir'["mini"].srv[s] = 1 /\ dir'["mini"].login[s] = 0
<1> DEFINE m == dir["mini"]
           f == m.found \ {s}
           srv == [m.srv EXCEPT ![s] = 1]
           kept == [m.login EXCEPT ![s] = 0]
           new == [m EXCEPT !.srv = srv, !.login = kept, !.found = f]
<1>0. /\ dir \in [Dirs -> ServerDirs] /\ "mini" \in Dirs /\ "stage" \in Dirs /\ m \in ServerDirs
      /\ m.srv \in [Servers -> Settings] /\ m.login \in [Servers -> Settings] /\ f \in Names /\ 0 \in Settings /\ 1 \in Settings
  BY DEF RunTypeOK, Dirs, ServerDirs, Names, Settings
<1>1. /\ srv \in [Servers -> Settings] /\ \A x \in Servers \ {s} : srv[x] = m.srv[x]
      /\ kept \in [Servers -> Settings] /\ \A x \in Servers \ {s} : kept[x] = m.login[x]
      /\ srv[s] = 1 /\ kept[s] = 0
  BY <1>0
<1>2. dir' = [dir EXCEPT !["mini"] = new]
  BY <1>0 DEF ServerDirs
<1>3. new \in ServerDirs /\ new.srv = srv /\ new.login = kept
  <2> HIDE DEF m, f, srv, kept
  <2> QED BY <1>0, <1>1 DEF ServerDirs
<1> HIDE DEF new
<1>4. dir'["mini"] = new /\ dir'["stage"] = dir["stage"] /\ dir' \in [Dirs -> ServerDirs]
  <2> HIDE DEF m
  <2> QED BY <1>0, <1>2, <1>3, MiniReplaced
<1> HIDE DEF srv, kept
<1> QED
  BY <1>1, <1>3, <1>4 DEF Kept

\* A name taken is left alone.
LEMMA CommitCheckKeeps ==
  ASSUME RunIInv, NEW s \in Servers, CommitCheck(s)
  PROVE  RunIInv'
<1>0. /\ ui.pc = "committing" /\ s \in commit.left /\ s = (CHOOSE x \in commit.left : TRUE)
      /\ UNCHANGED <<ui, dir, made, checks, logins, login, inbox, connect, probes, outside>> /\ commit.step = ""
  BY DEF CommitCheck, Committing
<1>1. RunTypeOK /\ commit \in Commitments /\ dir \in [Dirs -> ServerDirs] /\ commit.left \in Names
  BY <1>0, WhileCommitting DEF Names
<1>2. CASE commit' = [commit EXCEPT !.left = @ \ {s}]
  <2>1. /\ commit' \in Commitments /\ commit'.left = commit.left \ {s} /\ commit'.step = ""
        /\ commit'.ours = commit.ours
    <3>1. commit.left \ {s} \in Names
      BY <1>1 DEF Names
    <3> QED BY <1>0, <1>1, <1>2, <3>1 DEF Commitments
  <2>2. CommitStep(s)
    BY <1>0, <1>1, <2>1 DEF CommitStep
  <2> QED BY <1>0, <2>2, CommitStepKeeps
<1>3. CASE commit' = [commit EXCEPT !.step = "forget"]
  <2>1. /\ commit' \in Commitments /\ commit'.left = commit.left /\ commit'.step = "forget"
        /\ commit'.ours = commit.ours
    BY <1>1, <1>3 DEF Commitments
  <2>2. CommitStep(s)
    BY <1>0, <1>1, <2>1 DEF CommitStep
  <2> QED BY <1>0, <2>2, CommitStepKeeps
<1> QED
  BY <1>2, <1>3 DEF CommitCheck

\* What mini remembers of the name is forgotten.
LEMMA CommitForgetKeeps ==
  ASSUME RunIInv, NEW s \in Servers, CommitForget(s)
  PROVE  RunIInv'
<1>0. /\ ui.pc = "committing" /\ s \in commit.left /\ s = (CHOOSE x \in commit.left : TRUE)
      /\ UNCHANGED <<ui, made, checks, logins, login, inbox, connect, probes, outside>>
      /\ commit' = [commit EXCEPT !.step = "copy"]
  BY DEF CommitForget, Committing
<1>1. RunTypeOK /\ commit \in Commitments /\ dir \in [Dirs -> ServerDirs]
  BY <1>0, WhileCommitting
<1>2. /\ commit' \in Commitments /\ commit'.left = commit.left /\ commit'.step = "copy"
      /\ commit'.ours = commit.ours
  BY <1>0, <1>1 DEF Commitments
<1>3. dir["mini"].srv[s] \in Settings /\ 0 \in Settings /\ dir["mini"].found \ {s} \in Names
  BY <1>1 DEF ServerDirs, Settings, Names, Dirs
<1>4. dir' = [dir EXCEPT !["mini"].login[s] = 0, !["mini"].found = dir["mini"].found \ {s}]
  BY <1>1 DEF CommitForget, Dirs, ServerDirs
<1>5. /\ dir' \in [Dirs -> ServerDirs] /\ dir'["stage"] = dir["stage"]
      /\ \A x \in Servers \ {s} : dir'["mini"].srv[x] = dir["mini"].srv[x] /\ dir'["mini"].login[x] = dir["mini"].login[x]
      /\ dir'["mini"].login[s] = 0
  BY <1>1, <1>3, <1>4, MiniForgets DEF Kept
<1>6. CommitStep(s)
  BY <1>0, <1>2, <1>5 DEF CommitStep
<1> QED
  BY <1>0, <1>6, CommitStepKeeps

\* The staged login becomes mini's.
LEMMA CommitCopyKeeps ==
  ASSUME RunIInv, NEW s \in Servers, CommitCopy(s)
  PROVE  RunIInv'
<1>0. /\ ui.pc = "committing" /\ s \in commit.left /\ s = (CHOOSE x \in commit.left : TRUE) /\ commit.step = "copy"
      /\ UNCHANGED <<ui, made, checks, logins, login, inbox, connect, probes, outside>>
      /\ commit' = [commit EXCEPT !.step = "create"]
  BY DEF CommitCopy, Committing
<1>1. /\ RunTypeOK /\ commit \in Commitments /\ dir \in [Dirs -> ServerDirs]
      /\ dir["stage"].login[s] \in {0, dir["stage"].srv[s]}
  BY <1>0, WhileCommitting
<1>2. dir["mini"].login[s] = 0
  BY <1>0 DEF RunIInv, CommitIsClean
<1> DEFINE n == IF dir["stage"].login[s] # 0 THEN dir["stage"].login[s] ELSE dir["mini"].login[s]
           f == IF s \in dir["stage"].found THEN dir["mini"].found \cup {s} ELSE dir["mini"].found
<1>3. n \in Settings /\ n \in {0, dir["stage"].srv[s]} /\ f \in Names /\ dir["mini"].srv[s] \in Settings
  BY <1>1, <1>2 DEF ServerDirs, Dirs, Names, Settings
<1>4. dir' = [dir EXCEPT !["mini"].login[s] = n, !["mini"].found = f]
  <2>1. dir' = [dir EXCEPT !["mini"].login[s] = IF dir["stage"].login[s] # 0 THEN dir["stage"].login[s] ELSE @,
                           !["mini"].found = IF s \in dir["stage"].found THEN @ \cup {s} ELSE @]
    BY DEF CommitCopy
  <2> QED BY <1>1, <2>1 DEF Dirs, ServerDirs
<1> HIDE DEF n, f
<1>5. /\ dir' \in [Dirs -> ServerDirs] /\ dir'["stage"] = dir["stage"]
      /\ \A x \in Servers \ {s} : dir'["mini"].srv[x] = dir["mini"].srv[x] /\ dir'["mini"].login[x] = dir["mini"].login[x]
      /\ dir'["mini"].login[s] = n
  BY <1>1, <1>3, <1>4, MiniForgets DEF Kept
<1>6. /\ commit' \in Commitments /\ commit'.left = commit.left /\ commit'.step = "create" /\ commit'.ours = commit.ours
  BY <1>0, <1>1 DEF Commitments
<1>7. CommitStep(s)
  BY <1>0, <1>3, <1>5, <1>6 DEF CommitStep
<1> QED
  BY <1>0, <1>7, CommitStepKeeps

\* The server is created in mini, or left alone if its name was taken meanwhile.
LEMMA CommitCreateKeeps ==
  ASSUME RunIInv, NEW s \in Servers, CommitCreate(s)
  PROVE  RunIInv'
<1>0. /\ ui.pc = "committing" /\ s \in commit.left /\ s = (CHOOSE x \in commit.left : TRUE) /\ commit.step = "create"
      /\ UNCHANGED <<ui, made, checks, logins, login, inbox, connect, probes, outside>>
  BY DEF CommitCreate, Committing
<1>1. /\ RunTypeOK /\ commit \in Commitments /\ dir \in [Dirs -> ServerDirs]
      /\ dir["stage"].srv[s] # 0 /\ commit.left \in Names /\ commit.ours \in Names
  BY <1>0, WhileCommitting DEF Names
<1>2. dir["mini"].login[s] \in {0, dir["stage"].srv[s]}
  BY <1>0 DEF RunIInv, CommitIsClean
<1>3. commit.left \ {s} \in Names /\ commit.ours \cup {s} \in Names
  BY <1>1 DEF Names
<1>4. CASE commit' = [commit EXCEPT !.left = @ \ {s}, !.step = ""] /\ UNCHANGED dir
  <2>1. /\ commit' \in Commitments /\ commit'.left = commit.left \ {s} /\ commit'.step = "" /\ commit'.ours = commit.ours
    BY <1>1, <1>3, <1>4 DEF Commitments
  <2>2. CommitStep(s)
    BY <1>0, <1>1, <1>4, <2>1 DEF CommitStep
  <2> QED BY <1>0, <2>2, CommitStepKeeps
<1>5. CASE /\ commit' = [commit EXCEPT !.left = @ \ {s}, !.step = "", !.ours = @ \cup {s}]
           /\ dir' = [dir EXCEPT !["mini"].srv[s] = dir["stage"].srv[s]]
  <2>1. /\ commit' \in Commitments /\ commit'.left = commit.left \ {s} /\ commit'.step = ""
        /\ commit'.ours = commit.ours \cup {s}
    BY <1>1, <1>3, <1>5 DEF Commitments
  <2>2. dir["mini"].login[s] \in Settings /\ dir["stage"].srv[s] \in Settings /\ {} \in Names
    BY <1>1 DEF ServerDirs, Dirs, Names
  <2>3. /\ dir' \in [Dirs -> ServerDirs] /\ dir'["stage"] = dir["stage"]
        /\ \A x \in Servers \ {s} : dir'["mini"].srv[x] = dir["mini"].srv[x] /\ dir'["mini"].login[x] = dir["mini"].login[x]
        /\ dir'["mini"].srv[s] = dir["stage"].srv[s] /\ dir'["mini"].login[s] = dir["mini"].login[s]
    BY <1>1, <1>5, <2>2, MiniGets DEF Kept
  <2>4. CommitStep(s)
    BY <1>0, <1>1, <1>2, <2>1, <2>3 DEF CommitStep
  <2> QED BY <1>0, <2>4, CommitStepKeeps
<1> QED
  BY <1>4, <1>5 DEF CommitCreate

\* The stage is discarded once everything is committed.
LEMMA DiscardKeeps ==
  ASSUME RunIInv, Discard
  PROVE  RunIInv'
<1>0. /\ RunTypeOK /\ ui \in UIStates /\ ui.at = 6 /\ ui.end = "finished" /\ checks \in CheckStates
      /\ checks.running = {} /\ commit \in Commitments /\ ui.pc = "committing"
  BY WhileCommitting DEF Discard
<1>1. /\ ui' = [ui EXCEPT !.pc = "connecting"] /\ made' = FALSE /\ dir' = [dir EXCEPT !["stage"] = NoStage]
      /\ commit.left = {}
      /\ UNCHANGED <<picks, checks, logins, login, inbox, connect, probes, agent, commit, outside>>
  BY DEF Discard
<1>2. ui' \in UIStates /\ ui'.pc = "connecting" /\ ui'.at = 6 /\ ui'.end = "finished"
  <2>1. "connecting" \in Steps
    BY DEF Steps, Commits
  <2> QED BY <1>0, <1>1, <2>1 DEF UIStates
<1>3. dir' \in [Dirs -> ServerDirs] /\ dir'["mini"] = dir["mini"] /\ \A s \in Servers : dir'["stage"].srv[s] = 0
  BY <1>0, <1>1, StageGone
<1>4. CommitIsClean'
  BY <1>0, <1>1, <1>2, <1>3 DEF RunIInv, CommitIsClean, Commits, Has
<1>5. EndStep
  BY <1>0, <1>1, <1>2, <1>3, <1>4 DEF EndStep, Commits
<1> QED
  BY <1>5, EndStepKeeps

\* Editing the agents leaves the servers and the stage alone.
LEMMA ConnectAgentsKeeps ==
  ASSUME RunIInv, ConnectAgents
  PROVE  RunIInv'
<1> DEFINE removed == IF connect.chosen = "remove" THEN Removals ELSE {}
<1>0. /\ RunTypeOK /\ ui \in UIStates /\ ui.pc = "connecting" /\ ui.at = 6 /\ ui.end = "finished"
      /\ checks \in CheckStates /\ checks.running = {} /\ commit \in Commitments /\ ~made
      /\ dir \in [Dirs -> ServerDirs]
  BY DEF RunIInv, RunTypeOK, ConnectAgents, ScreensFollow, Screens, Past, EndsInOrder, Commits
<1>1. /\ ui' = [ui EXCEPT !.pc = "done"]
      /\ UNCHANGED <<picks, dir, made, checks, logins, login, inbox, connect, probes, outside>>
      /\ commit' = commit \/ commit' = [commit EXCEPT !.removed = removed]
  BY DEF ConnectAgents
<1>2. removed \in Names
  BY DEF Removals, Duplicates, Names
<1> HIDE DEF removed
<1>3. commit' \in Commitments /\ commit'.left = commit.left /\ commit'.ours = commit.ours /\ commit'.step = commit.step
  BY <1>0, <1>1, <1>2 DEF Commitments
<1>4. ui' \in UIStates /\ ui'.pc = "done" /\ ui'.at = 6 /\ ui'.end = "finished"
  <2>1. "done" \in Steps
    BY DEF Steps, Commits
  <2> QED BY <1>0, <1>1, <2>1 DEF UIStates
<1>5. CommitIsClean'
  <2>1. commit.left = {}
    BY <1>0 DEF RunIInv, CommitIsClean, Commits
  <2> QED BY <1>0, <1>1, <1>3, <1>4, <2>1 DEF RunIInv, CommitIsClean, Commits, Has
<1>6. EndStep
  <2>1. \A x \in Servers : dir["stage"].srv[x] # 0 => dir["stage"].login[x] \in {0, dir["stage"].srv[x]}
    BY DEF RunIInv, StageIsKept, Has
  <2>2. made \in BOOLEAN
    BY <1>0 DEF RunTypeOK
  <2>3. ui.at = 6 /\ "done" \in Commits /\ "connecting" \in Commits
    BY <1>0 DEF Commits
  <2> QED BY <1>0, <1>1, <1>3, <1>4, <1>5, <2>1, <2>2, <2>3 DEF EndStep
<1> QED
  BY <1>6, EndStepKeeps

\* A server that another process adds is no longer this run's to add.
LEMMA OutsideAddsKeeps ==
  ASSUME RunIInv, NEW s \in Servers, OutsideAdds(s)
  PROVE  RunIInv'
<1>0. RunTypeOK /\ dir \in [Dirs -> ServerDirs] /\ "mini" \in Dirs /\ "stage" \in Dirs /\ outside \in Nat
  BY DEF RunIInv, RunTypeOK, Dirs
<1>1. /\ dir' = [dir EXCEPT !["mini"].srv[s] = 1, !["mini"].login[s] = 0, !["mini"].found = @ \ {s}]
      /\ outside' = outside + 1 /\ dir["mini"].srv[s] = 0
      /\ UNCHANGED <<ui, picks, made, checks, logins, login, inbox, connect, probes, agent, commit>>
  BY DEF OutsideAdds, Has
<1>2. /\ dir' \in [Dirs -> ServerDirs] /\ dir'["stage"] = dir["stage"]
      /\ \A x \in Servers \ {s} : dir'["mini"].srv[x] = dir["mini"].srv[x] /\ dir'["mini"].login[x] = dir["mini"].login[x]
      /\ dir'["mini"].srv[s] = 1 /\ dir'["mini"].login[s] = 0
  <2>1. Kept(s) /\ dir'["mini"].srv[s] = 1 /\ dir'["mini"].login[s] = 0
    BY <1>0, <1>1, MiniAdds
  <2> QED BY <2>1 DEF Kept
<1>3. outside' \in Nat /\ outside' # 0
  BY <1>0, <1>1
<1>4. \A x : (Has("stage", x)' <=> Has("stage", x)) /\ (LoggedIn("stage", x)' <=> LoggedIn("stage", x))
  BY <1>2 DEF Has, LoggedIn
<1>5. \A x \in Servers, d \in Dirs : Has(d, x) => Has(d, x)'
  <2>1. ASSUME NEW x \in Servers, Has("mini", x) PROVE Has("mini", x)'
    BY <1>1, <1>2, <2>1 DEF Has
  <2> QED BY <1>4, <2>1 DEF Dirs
<1>6. RunTypeOK'
  BY <1>1, <1>2, <1>3 DEF RunIInv, RunTypeOK, ConnectTypeOK
<1>7. ScreensFollow' /\ LoginIsAwaited' /\ EndsInOrder' /\ ScreenIsTold'
  BY <1>1 DEF RunIInv, ScreensFollow, LoginIsAwaited, EndsInOrder, ScreenIsTold, OnLogins, LoginRuns
<1>8. StageIsKept'
  BY <1>1, <1>2, <1>4 DEF RunIInv, StageIsKept
<1>9. ShownAreStaged'
  <2>1. \A x \in logins.need : x \in Servers
    BY <1>0 DEF RunTypeOK, LoginsCopy, Names
  <2> QED BY <1>1, <1>3, <1>5, <2>1 DEF RunIInv, ShownAreStaged, OnLogins
<1>10. CommitIsClean'
  <2>1. commit.left \subseteq Servers /\ commit.ours \subseteq Servers
    BY <1>0 DEF RunTypeOK, Commitments, Names
  <2>2. ASSUME NEW x \in commit.ours
        PROVE  x \notin commit.left /\ Has("mini", x)' /\ dir'["mini"].login[x] \in {0, dir'["mini"].srv[x]}
    <3>1. x # s /\ x \in Servers /\ x \notin commit.left
      BY <1>1, <2>1 DEF RunIInv, CommitIsClean, Has
    <3> QED BY <1>2, <3>1 DEF RunIInv, CommitIsClean, Has
  <2>3. ASSUME NEW x \in commit.left, x = (CHOOSE y \in commit.left : TRUE)
        PROVE  /\ commit.step = "copy" => dir'["mini"].login[x] = 0
               /\ commit.step = "create" => dir'["mini"].login[x] \in {0, dir'["stage"].srv[x]}
    <3>1. CASE x = s
      BY <1>2, <3>1
    <3>2. CASE x # s
      BY <1>2, <2>1, <2>3, <3>2 DEF RunIInv, CommitIsClean
    <3> QED BY <3>1, <3>2
  <2>4. ui' = ui /\ commit' = commit
    BY <1>1
  <2>5. \A x \in commit.left : Has("stage", x) => Has("stage", x)'
    BY <1>4
  <2>6. /\ ui.pc \notin Commits => commit = [left |-> {}, step |-> "", ours |-> {}, removed |-> {}]
        /\ ui.end # "finished" => commit.ours = {} /\ commit.removed = {}
        /\ ui.pc = "committing" => \A x \in commit.left : Has("stage", x)
        /\ ui.pc \in Commits \ {"committing"} => commit.left = {}
    BY DEF RunIInv, CommitIsClean
  <2> QED BY <2>2, <2>3, <2>4, <2>5, <2>6 DEF CommitIsClean
<1> QED
  BY <1>6, <1>7, <1>8, <1>9, <1>10 DEF RunIInv

-----------------------------------------------------------------------------
(* A run of mini init: what holds throughout *)

\* The run starts on Import with an empty stage and nothing running.
LEMMA RunStarts == RunInit => RunIInv
<1> SUFFICES ASSUME RunInit PROVE RunIInv
  OBVIOUS
<1> DEFINE none == [s \in Servers |-> 0]
           early == [s \in Servers |-> 3]
           kept(d) == [s \in Servers |-> IF d = "mini" THEN 3 ELSE 0]
<1>1. /\ ui = [at |-> 1, pc |-> "keys", to |-> 0, saved |-> FALSE, saves |-> 0, end |-> ""]
      /\ made = FALSE /\ outside = 0
  BY DEF RunInit, Ended, Imports
<1>2. ui \in UIStates
  <2>1. "keys" \in Steps /\ 1 \in 1 .. 6 /\ 0 \in 0 .. 6 /\ 0 \in Nat
    BY DEF Steps, Screens
  <2> QED BY <1>1, <2>1 DEF UIStates
<1>3. \A d \in Dirs : dir[d] = [srv |-> none, login |-> kept(d), found |-> {}]
  <2>1. dir = [d \in Dirs |-> [NoStage EXCEPT !.login = kept(d)]]
    BY DEF RunInit
  <2> QED BY <2>1 DEF NoStage
<1>4. dir \in [Dirs -> ServerDirs]
  <2>1. none \in [Servers -> Settings] /\ \A d : kept(d) \in [Servers -> Settings]
    BY DEF Settings
  <2>2. dir = [d \in Dirs |-> dir[d]]
    BY DEF RunInit
  <2> HIDE DEF none, kept
  <2>3. \A d \in Dirs : dir[d] \in ServerDirs
    <3>1. {} \in Names
      BY DEF Names
    <3>2. \A x, y \in [Servers -> Settings] : [srv |-> x, login |-> y, found |-> {}] \in ServerDirs
      BY <3>1 DEF ServerDirs
    <3> QED BY <1>3, <2>1, <3>2
  <2> QED BY <2>2, <2>3
<1>5. \A s \in Servers, d \in Dirs : dir[d].srv[s] = 0
  BY <1>3
<1>6. checks \in CheckStates /\ checks.running = {} /\ checks.checking = {}
  BY DEF RunInit, CheckStates, Names
<1>7. logins \in LoginsCopy /\ logins.need = {} /\ logins.checking = {} /\ \A s \in Servers : logins.results[s] = "none"
  BY NothingShown DEF RunInit, NoLogins
<1>8. login \in LoginStates /\ login.pending = 0 /\ login.id = 0 /\ login.phase = "none"
  <2>1. MaxLogins \in Nat
    BY ConstantsAssumption
  <2>2. 0 \in 0 .. MaxLogins /\ "mini" \in Dirs /\ 0 \in Settings
    BY <2>1 DEF Dirs, Settings
  <2> QED BY <2>2 DEF RunInit, NoLogin, LoginStates
<1>9. inbox \in [1 .. MaxLogins -> Inboxes] /\ \A i \in 1 .. MaxLogins : inbox[i].events = << >>
  <2>1. NoEvents \in Inboxes /\ NoEvents.events = << >>
    BY DEF NoEvents, Inboxes
  <2>2. inbox = [i \in 1 .. MaxLogins |-> NoEvents]
    BY DEF RunInit
  <2> QED BY <2>1, <2>2
<1>10. commit = [left |-> {}, step |-> "", ours |-> {}, removed |-> {}] /\ commit \in Commitments
  BY DEF RunInit, Commitments, Names
<1>11. ConnectTypeOK /\ \A i \in 1 .. MaxConnects : probes[i].phase = "none"
  <2>1. NoProbes \in Probes
    BY DEF NoProbes, Probes, Names
  <2>2. NoPlan \in Plans
    BY DEF NoPlan, Plans
  <2>3. connect \in ConnectStates
    <3>1. PICK mine \in {"none", "serves"} :
              connect = [plan |-> NoPlan, withMini |-> mine = "serves", runs |-> 0,
                         stop |-> FALSE, done |-> FALSE, passed |-> {}, chosen |-> "later"]
      BY DEF RunInit
    <3>2. (mine = "serves") \in BOOLEAN /\ {} \in Names /\ "later" \in Choices /\ 0 \in Nat
      BY DEF Names, Choices
    <3> QED BY <2>2, <3>1, <3>2 DEF ConnectStates
  <2> QED BY <2>1, <2>3 DEF RunInit, ConnectTypeOK, NoProbes
<1>12. RunTypeOK
  BY <1>1, <1>2, <1>4, <1>6, <1>7, <1>8, <1>9, <1>10, <1>11 DEF RunTypeOK
<1>13. ScreensFollow /\ ui.pc \in Screens /\ ui.pc \notin Commits /\ ~OnLogins
  <2>1. ui.at = 1 /\ ui.pc = "keys" /\ ui.at \notin 3 .. 5
    <3>1. ui.at = 1 /\ ui.pc = "keys"
      BY <1>1
    <3> QED BY <3>1
  <2> QED BY <2>1 DEF ScreensFollow, Screens, Commits, OnLogins, Logins, Review, Past
<1>14. LoginIsAwaited
  BY <1>8, <1>9 DEF LoginIsAwaited, LoginRuns
<1>15. EndsInOrder
  BY <1>1, <1>13 DEF EndsInOrder, Commits
<1>16. StageIsKept
  BY <1>5, <1>8 DEF StageIsKept, Has, Dirs
<1>17. ShownAreStaged
  BY <1>5, <1>7, <1>8, <1>13 DEF ShownAreStaged, Has, Dirs
<1>18. CommitIsClean
  BY <1>1, <1>10, <1>13 DEF CommitIsClean, Commits
<1>19. ScreenIsTold
  BY <1>13 DEF ScreenIsTold
<1> QED
  BY <1>12, <1>13, <1>14, <1>15, <1>16, <1>17, <1>18, <1>19 DEF RunIInv

\* Ticks, the loaded catalog, edits of the agent and steps that change nothing.
LEMMA RestsKeep ==
  ASSUME RunIInv, UNCHANGED <<ui, dir, made, checks, logins, login, inbox, connect, probes, commit>>,
         outside' = outside \/ (outside' = outside + 1)
  PROVE  RunIInv'
<1>1. CASE outside' = outside
  <2>1. ConnectTypeOK' /\ dir' \in [Dirs -> ServerDirs] /\ SameServers
    BY DEF RunIInv, RunTypeOK, ConnectTypeOK, SameServers
  <2> QED BY <1>1, <2>1, QuietKeeps
<1>2. CASE outside' = outside + 1
  <2>1. outside \in Nat
    BY DEF RunIInv, RunTypeOK
  <2>2. outside' \in Nat /\ outside' # 0
    BY <1>2, <2>1
  <2>3. RunTypeOK'
    BY <2>2 DEF RunIInv, RunTypeOK, ConnectTypeOK
  <2>4. \A d, s : (Has(d, s)' <=> Has(d, s)) /\ (LoggedIn(d, s)' <=> LoggedIn(d, s))
    BY DEF Has, LoggedIn
  <2>5. ScreensFollow' /\ LoginIsAwaited' /\ EndsInOrder' /\ ScreenIsTold'
    BY DEF RunIInv, ScreensFollow, LoginIsAwaited, EndsInOrder, ScreenIsTold, OnLogins, LoginRuns
  <2>6. StageIsKept'
    BY <2>4 DEF RunIInv, StageIsKept
  <2>7. ShownAreStaged'
    BY <2>2, <2>4 DEF RunIInv, ShownAreStaged, OnLogins
  <2>8. CommitIsClean'
    BY <2>4 DEF RunIInv, CommitIsClean
  <2> QED BY <2>3, <2>5, <2>6, <2>7, <2>8 DEF RunIInv
<1> QED
  BY <1>1, <1>2

\* A key moves between screens or starts a login.
LEMMA KeysKeep ==
  ASSUME RunIInv, Keys
  PROVE  RunIInv'
<1>1. ASSUME NEW s \in Servers, TickImport(s) \/ TickCatalog(s)
      PROVE  RunIInv'
  <2>1. UNCHANGED <<ui, dir, made, checks, logins, login, inbox, connect, probes, commit>> /\ outside' = outside
    BY <1>1 DEF TickImport, TickCatalog
  <2> QED BY <2>1, RestsKeep
<1>2. ASSUME Continue
      PROVE  RunIInv'
  <2>1. connect.chosen \in Choices
    BY DEF RunIInv, RunTypeOK, ConnectTypeOK, ConnectStates
  <2> QED BY <1>2, <2>1, ForwardKeeps DEF Continue
<1>3. ASSUME NEW c \in {"later", "only", "remove"}, Choose(c)
      PROVE  RunIInv'
  <2>1. c \in Choices
    BY DEF Choices
  <2> QED BY <1>3, <2>1, ForwardKeeps DEF Choose
<1> QED
  BY <1>1, <1>2, <1>3, StartLoginKeeps, BackKeeps, CancelLoginKeeps DEF Keys

\* A step after the UI's.
LEMMA EndStepsKeep ==
  ASSUME RunIInv, EndSteps
  PROVE  RunIInv'
BY UIEndedKeeps, CloseKeeps, BeginCommitKeeps, DiscardKeeps, ConnectAgentsKeeps,
   CommitCheckKeeps, CommitForgetKeeps, CommitCopyKeeps, CommitCreateKeeps DEF EndSteps

\* Every step of the run keeps the invariant.
LEMMA RunKeeps ==
  ASSUME RunIInv, [RunNext]_runVars
  PROVE  RunIInv'
<1>1. CASE LoadCatalog \/ OutsideEdits \/ Done \/ UNCHANGED runVars
  <2>1. /\ UNCHANGED <<ui, dir, made, checks, logins, login, inbox, connect, probes, commit>>
        /\ outside' = outside \/ outside' = outside + 1
    BY <1>1 DEF LoadCatalog, OutsideEdits, Done, runVars
  <2> QED BY <2>1, RestsKeep
<1>2. CASE LoginSteps
  BY <1>2, LoginStepKeeps, LoginSavedKeeps DEF LoginSteps
<1> QED
  BY <1>1, <1>2, KeysKeep, UIEndsKeeps, SaveKeeps, MoveOnKeeps, LoginLeftKeeps, ChecksChangedKeeps, EndCheckKeeps,
     LoginEventKeeps, EndProbesKeeps, ConnectCheckedKeeps, EndStepsKeep, OutsideAddsKeeps DEF RunNext

\* A run of mini init keeps its screens, its login and its commit consistent.
THEOREM RunIsConsistent == RunSpec => []RunIInv
<1>1. RunIInv /\ [RunNext]_runVars => RunIInv'
  BY RunKeeps
<1> QED
  BY RunStarts, <1>1, PTL DEF RunSpec

\* Once the run is over nothing of it is left, and one that did not finish changed nothing.
THEOREM RunLeavesNothing == RunSpec => []NothingOutlivesTheRun
<1>1. ASSUME RunIInv, ui.pc = "done"
      PROVE  /\ ~made /\ checks.running = {}
             /\ login.phase \in {"none", "done"}
             /\ \A i \in 1 .. MaxConnects : probes[i].phase # "run"
             /\ ui.end # "finished" => commit.ours = {} /\ commit.removed = {}
  <2>1. ui.pc \in Commits
    BY <1>1 DEF Commits
  <2>2. ~LoginRuns /\ login \in LoginStates
    BY <1>1, <2>1, NoLoginLater DEF RunIInv, RunTypeOK
  <2>3. login.phase \in {"none", "done"}
    BY <2>2 DEF LoginRuns, LoginStates
  <2> QED
    BY <1>1, <2>1, <2>3 DEF RunIInv, EndsInOrder, CommitIsClean
<1>2. RunIInv => NothingOutlivesTheRun
  BY <1>1 DEF NothingOutlivesTheRun
<1> QED
  BY RunIsConsistent, <1>2, PTL

\* A server becomes mini's with the login made for its settings or with none, and those shown as
\* logged in are.
THEOREM RunKeepsLogins == RunSpec => []LoginsAreKept
<1>1. RunIInv => LoginsAreKept
  BY DEF RunIInv, LoginsAreKept, StageIsKept, ShownAreStaged, CommitIsClean
<1> QED
  BY RunIsConsistent, <1>1, PTL

\* The Logins screen shows the checks that run, or is still to be told.
THEOREM RunSeesChecks == RunSpec => []ChecksAreSeen
<1>1. RunIInv => ChecksAreSeen
  BY DEF RunIInv, ChecksAreSeen, ScreenIsTold, OnLogins, Free
<1> QED
  BY RunIsConsistent, <1>1, PTL


-----------------------------------------------------------------------------
(* A run of mini init: what Connect removes *)

\* A probe of a server with these settings and this login can pass.
WorksIn(ds, s) ==
    LET kind == Kind[<<s, ds.srv[s]>>]
    IN kind = "open" \/ (kind # "refuses" /\ ds.login[s] = ds.srv[s])

\* Of the servers that are staged, the staged one is probed.
OfStage(targets, stage) ==
    \A t \in targets : t[2] \in Servers /\ (stage.srv[t[2]] # 0 => t[1] = "stage" /\ t[3] = stage.srv[t[2]])

\* Of the servers that are staged, those whose check passed still work.
StillWork(passed, stage) == \A s \in passed : stage.srv[s] # 0 => WorksIn(stage, s)

\* A run saves on the way to Logins and Connect, and leaves Connect's choice to remove only for the end.
ScreensSave ==
    /\ ~made => \A s \in Servers : dir["stage"].srv[s] = 0
    /\ ui.pc = "saving" => made
    /\ ui.pc \in {"saving", "moving"} => ui.at \in {1, 2}
    /\ ui.pc = "quitting" => ui.end = "finished"
    /\ ui.at # 6 => ui.end # "finished" /\ connect.chosen # "remove"

\* What Connect probes, and what it found, is of the servers now staged.
PassedWork ==
    /\ ui.at = 4 \/ (ui.pc = "leaving" /\ ui.to = 4) => connect.plan.listed
    /\ ui.pc = "leaving" /\ ui.to = 4 => OfStage(connect.plan.targets, dir["stage"])
    /\ connect.stop =>
        /\ ui.at = 4
        /\ connect.runs \in 1 .. MaxConnects =>
            /\ probes[connect.runs].phase = "run" => OfStage(probes[connect.runs].targets, dir["stage"])
            /\ probes[connect.runs].phase = "ended" => StillWork(probes[connect.runs].passed, dir["stage"])
    /\ ui.at = 4 \/ (ui.end = "finished" /\ ui.pc \notin {"connecting", "done"}) =>
        StillWork(connect.passed, dir["stage"])

\* A server this run added to mini has the staged login, and works there if its check passed.
OursWork ==
    /\ \A s \in commit.left :
          s = (CHOOSE x \in commit.left : TRUE) /\ commit.step = "create" /\ dir["mini"].srv[s] = 0 =>
             dir["mini"].login[s] = dir["stage"].login[s]
    /\ \A s \in commit.ours : s \in connect.passed => WorksIn(dir["mini"], s)

RemovalIInv == RunIInv /\ ScreensSave /\ PassedWork /\ OursWork

\* The two ways to say that a server works.
LEMMA WorksThere ==
  ASSUME NEW d, NEW s
  PROVE  Works(d, s) <=> dir[d].srv[s] # 0 /\ WorksIn(dir[d], s)
BY DEF Works, WorksIn, Has, KindOf, LoggedIn

\* The stage's servers and logins decide what is of the stage.
LEMMA StageDecides ==
  ASSUME NEW a, NEW b, a.srv = b.srv, a.login = b.login
  PROVE  /\ \A T : OfStage(T, a) <=> OfStage(T, b)
         /\ \A P : StillWork(P, a) <=> StillWork(P, b)
BY DEF OfStage, StillWork, WorksIn

\* A step that leaves the screens, the stage and Connect.
LEMMA StageKept ==
  ASSUME ScreensSave, PassedWork, UNCHANGED <<ui, made, connect, probes>>,
         dir'["stage"].srv = dir["stage"].srv, dir'["stage"].login = dir["stage"].login
  PROVE  ScreensSave' /\ PassedWork'
<1>1. /\ \A T : OfStage(T, dir'["stage"]) <=> OfStage(T, dir["stage"])
      /\ \A P : StillWork(P, dir'["stage"]) <=> StillWork(P, dir["stage"])
  BY StageDecides
<1>2. ScreensSave'
  BY DEF ScreensSave
<1>3. PassedWork'
  BY <1>1 DEF PassedWork
<1> QED
  BY <1>2, <1>3

-----------------------------------------------------------------------------
(* A run of mini init: the way to Connect *)

\* The screen a move ends on is shown, and those it passes are not.
LEMMA ShownBetween ==
  ASSUME NEW at \in 1 .. 6, NEW v
  PROVE  /\ NextShown(at, v) # 6 =>
              NextShown(at, v) \in Shown(v) /\ \A j \in Shown(v) : j > at => j >= NextShown(at, v)
         /\ PrevShown(at, v) # at =>
              PrevShown(at, v) \in Shown(v) /\ \A j \in Shown(v) : j < at => j <= PrevShown(at, v)
<1> DEFINE later == {i \in Shown(v) : i > at}
           earlier == {i \in Shown(v) : i < at}
<1>1. later \in SUBSET (1 .. 5) /\ earlier \in SUBSET (1 .. 5)
  BY ShownEarly
<1>2. later # {} => NextShown(at, v) \in later /\ \A j \in later : NextShown(at, v) <= j
  BY <1>1, FirstAndLast DEF NextShown
<1>3. later = {} => NextShown(at, v) = 6
  BY DEF NextShown, Past
<1>4. earlier # {} => PrevShown(at, v) \in earlier /\ \A j \in earlier : PrevShown(at, v) >= j
  BY <1>1, FirstAndLast DEF PrevShown
<1>5. earlier = {} => PrevShown(at, v) = at
  BY DEF PrevShown
<1> QED
  BY <1>1, <1>2, <1>3, <1>4, <1>5

\* A plan is of the stage as it is.
LEMMA PlanIsOfStage ==
  ASSUME RunTypeOK, ScreensSave
  PROVE  OfStage(PlanConnect.targets, dir["stage"])
<1> DEFINE dirs == IF made THEN Dirs ELSE {"mini"}
           from(s) == IF made /\ Has("stage", s) THEN "stage" ELSE "mini"
           dups == IF ServedAfterEdit(agent.mini) THEN Duplicates(dirs) ELSE {}
<1>1. dups \subseteq Servers
  BY DEF Duplicates
<1>2. PlanConnect.targets = {<<from(s), s, dir[from(s)].srv[s]>> : s \in dups}
  BY DEF PlanConnect
<1>3. \A s \in Servers : dir["stage"].srv[s] # 0 => from(s) = "stage"
  BY DEF Has, ScreensSave
<1> HIDE DEF dups, from
<1>4. ASSUME NEW t \in PlanConnect.targets
      PROVE  t[2] \in Servers /\ (dir["stage"].srv[t[2]] # 0 => t[1] = "stage" /\ t[3] = dir["stage"].srv[t[2]])
  <2>1. PICK s \in dups : t = <<from(s), s, dir[from(s)].srv[s]>>
    BY <1>2
  <2>2. t[1] = from(s) /\ t[2] = s /\ t[3] = dir[from(s)].srv[s]
    BY <2>1
  <2> QED BY <1>1, <1>3, <2>2
<1> QED
  BY <1>4 DEF OfStage

\* Before Connect is shown what it removes is planned again, and something is listed.
LEMMA ConnectIsRead ==
  ASSUME RunTypeOK, ScreensSave, NEW at \in 1 .. 5
  PROVE  /\ at # 4 /\ NextShown(at, RefreshAfter(at, View)) = 4 =>
              LET p == RefreshAfter(at, View).plan IN p.listed /\ OfStage(p.targets, dir["stage"])
         /\ at # 4 /\ PrevShown(at, RefreshBefore(at, View)) = 4 =>
              LET p == RefreshBefore(at, View).plan IN p.listed /\ OfStage(p.targets, dir["stage"])
<1>0. OfStage(PlanConnect.targets, dir["stage"])
  BY PlanIsOfStage
<1>1. ASSUME at # 4, NextShown(at, RefreshAfter(at, View)) = 4
      PROVE  RefreshAfter(at, View).plan.listed /\ RefreshAfter(at, View).plan = PlanConnect
  <2> DEFINE v == RefreshAfter(at, View)
  <2>1. 4 \in Shown(v) /\ at < 4 /\ \A j \in Shown(v) : j > at => j >= 4
    BY <1>1, ShownNext, ShownBetween
  <2>2. v.plan.listed
    BY <2>1, ShownEarly
  <2>3. CASE at = 3
    <3>1. v = [View EXCEPT !.plan = PlanConnect]
      BY <2>3 DEF RefreshAfter, Logins
    <3>2. [View EXCEPT !.plan = PlanConnect].plan = PlanConnect
      BY DEF View
    <3> QED BY <2>2, <3>1, <3>2
  <2>4. CASE at < 3
    <3> DEFINE v1 == [View EXCEPT !.logins = RefreshLogins(@)]
    <3>1. Shown(View) \cap (at + 1 .. 2) = {}
      BY <2>1, <2>4, ShownEarly
    <3>2. v = IF 3 \notin Shown(v1) THEN [v1 EXCEPT !.plan = PlanConnect] ELSE v1
      BY <2>4, <3>1 DEF RefreshAfter, Logins, Catalogs
    <3>3. 3 \notin Shown(v)
      BY <2>1, <2>4
    <3>4. 3 \notin Shown(v1)
      BY <3>2, <3>3
    <3>5. [v1 EXCEPT !.plan = PlanConnect].plan = PlanConnect
      BY DEF View
    <3> HIDE DEF v1
    <3> QED BY <2>2, <3>2, <3>4, <3>5
  <2> QED
    BY <2>1, <2>2, <2>3, <2>4
<1>2. ASSUME at # 4, PrevShown(at, RefreshBefore(at, View)) = 4
      PROVE  RefreshBefore(at, View).plan.listed /\ RefreshBefore(at, View).plan = PlanConnect
  <2>1. 4 \in Shown(RefreshBefore(at, View)) /\ at = 5
    BY <1>2, ShownNext, ShownBetween
  <2>2. RefreshBefore(at, View).plan.listed
    BY <2>1, ShownEarly
  <2> QED
    BY <2>1, <2>2 DEF RefreshBefore, View, Review
<1> QED
  BY <1>0, <1>1, <1>2

\* While Connect is shown the next screen is the end.
LEMMA ConnectIsLast ==
  ASSUME connect.plan.listed
  PROVE  RefreshAfter(4, View) = View /\ NextShown(4, View) = 6
<1>1. RefreshAfter(4, View) = View
  BY DEF RefreshAfter, Logins
<1>2. View.plan.listed
  BY DEF View
<1>3. 5 \notin Shown(View)
  BY <1>2 DEF Shown, Imports, Catalogs, Logins, Connects, Review
<1>4. {i \in Shown(View) : i > 4} = {}
  BY <1>3, ShownEarly
<1> QED
  BY <1>1, <1>4 DEF NextShown, Past

\* show, to Connect or to the end.
LEMMA ShowFollows ==
  ASSUME ScreensSave, PassedWork, connect \in ConnectStates, probes \in [1 .. MaxConnects -> Probes],
         NEW u \in UIStates, NEW to \in 1 .. 6, NEW view \in Views, NEW chosen \in Choices,
         Show(u, to, view, chosen), UNCHANGED <<dir, made>>,
         u.end # "finished",
         chosen = "remove" => to = 6 /\ StillWork(connect.passed, dir["stage"]),
         to = 4 => view.plan.listed /\ OfStage(view.plan.targets, dir["stage"])
  PROVE  ScreensSave' /\ PassedWork'
<1> DEFINE after == RefreshAfter(to, view)
           c == [connect EXCEPT !.plan = after.plan, !.chosen = chosen, !.stop = FALSE]
<1>1. to = 4 => after = view
  BY DEF RefreshAfter, Logins
<1>2. /\ c.plan = after.plan /\ c.chosen = chosen /\ c.stop = FALSE /\ c.passed = connect.passed
      /\ c.runs = connect.runs /\ connect.runs \in Nat
      /\ DOMAIN c = DOMAIN connect
  BY DEF ConnectStates
<1>d. /\ {"plan", "chosen", "stop", "passed", "runs", "done"} \subseteq DOMAIN c
  BY DEF ConnectStates
<1> HIDE DEF after
<1>3. CASE to = 6
  <2>1. ui' = Ended("quitting", "finished") /\ UNCHANGED probes
        /\ connect' = [c EXCEPT !.plan = NoPlan, !.done = FALSE, !.passed = IF chosen = "remove" THEN @ ELSE {}]
    BY <1>3 DEF Show, Past, after
  <2>2. ui'.pc = "quitting" /\ ui'.at = 6 /\ ui'.end = "finished"
    BY <2>1 DEF Ended, Past
  <2>3. connect'.stop = FALSE /\ connect'.passed = IF chosen = "remove" THEN connect.passed ELSE {}
    <3> HIDE DEF c
    <3> QED BY <1>2, <1>d, <2>1
  <2>4. StillWork(connect'.passed, dir["stage"])
    BY <2>3 DEF StillWork
  <2>5. ScreensSave'
    BY <2>2 DEF ScreensSave
  <2>6. PassedWork'
    BY <2>2, <2>3, <2>4 DEF PassedWork
  <2> QED BY <2>5, <2>6
<1>4. CASE to # 6
  <2>1. /\ ui' = [u EXCEPT !.pc = "keys", !.at = to]
        /\ IF to = 4
           THEN /\ connect' = [c EXCEPT !.runs = @ + 1, !.stop = TRUE, !.done = FALSE, !.passed = {}]
                /\ probes' = [probes EXCEPT ![c.runs + 1] =
                                 [phase |-> "run", targets |-> c.plan.targets, passed |-> {}]]
           ELSE connect' = c /\ UNCHANGED probes
    BY <1>4 DEF Show, Past, Connects, after
  <2>2. ui'.pc = "keys" /\ ui'.at = to /\ ui'.end = u.end
    BY <2>1 DEF UIStates
  <2>3. chosen # "remove"
    BY <1>4
  <2>4. CASE to = 4
    <3>1. /\ connect'.runs = connect.runs + 1 /\ connect'.passed = {} /\ connect'.plan = view.plan
          /\ connect'.chosen = chosen
      <4> HIDE DEF c
      <4> QED BY <1>1, <1>2, <1>d, <2>1, <2>4
    <3>2. ASSUME connect'.runs \in 1 .. MaxConnects
          PROVE  probes'[connect'.runs] = [phase |-> "run", targets |-> view.plan.targets, passed |-> {}]
      <4> DEFINE r == [phase |-> "run", targets |-> view.plan.targets, passed |-> {}]
      <4> HIDE DEF c
      <4>1. c.runs + 1 = connect'.runs /\ c.plan = view.plan
        BY <1>1, <1>2, <2>4, <3>1
      <4>2. probes' = [probes EXCEPT ![connect'.runs] = r]
        BY <2>1, <2>4, <4>1
      <4> HIDE DEF r
      <4>3. probes'[connect'.runs] = r
        BY <3>2, <4>2
      <4> QED BY <4>3 DEF r
    <3>3. StillWork({}, dir["stage"])
      BY DEF StillWork
    <3>4. ScreensSave'
      BY <2>2, <2>3, <2>4, <3>1 DEF ScreensSave
    <3>5. connect'.runs \in 1 .. MaxConnects =>
             /\ probes'[connect'.runs].phase = "run"
             /\ OfStage(probes'[connect'.runs].targets, dir["stage"])
      BY <2>4, <3>2
    <3>6. PassedWork'
      BY <2>2, <2>4, <3>1, <3>3, <3>5 DEF PassedWork
    <3> QED BY <3>4, <3>6
  <2>5. CASE to # 4
    <3>1. connect'.stop = FALSE /\ connect'.chosen = chosen
      BY <1>2, <2>1, <2>5
    <3>2. ScreensSave'
      BY <2>2, <2>3, <3>1 DEF ScreensSave
    <3>3. PassedWork'
      BY <2>2, <2>5, <3>1 DEF PassedWork
    <3> QED BY <3>2, <3>3
  <2> QED BY <2>4, <2>5
<1> QED
  BY <1>3, <1>4

\* leave and show.
LEMMA MoveFollows ==
  ASSUME RunIInv, ScreensSave, PassedWork, NEW u \in UIStates, NEW to \in 1 .. 6, NEW view \in Views,
         NEW chosen \in Choices,
         MoveTo(u, to, view, chosen), UNCHANGED <<dir, made>>,
         u.at = ui.at, u.end = ui.end, ui.at # 6,
         chosen = "remove" => ui.at = 4 /\ to = 6,
         to = 4 => view.plan.listed /\ OfStage(view.plan.targets, dir["stage"])
  PROVE  ScreensSave' /\ PassedWork'
<1>0. connect \in ConnectStates /\ probes \in [1 .. MaxConnects -> Probes]
  BY DEF RunIInv, RunTypeOK, ConnectTypeOK
<1>1. u.end # "finished"
  BY DEF ScreensSave
<1>2. CASE u.at = Logins /\ login.pending # 0
  <2>1. /\ ui' = [u EXCEPT !.pc = "leaving", !.to = to]
        /\ connect' = [connect EXCEPT !.plan = view.plan, !.chosen = chosen]
        /\ UNCHANGED probes
    BY <1>2 DEF MoveTo
  <2>2. ui'.pc = "leaving" /\ ui'.to = to /\ ui'.at = 3 /\ ui'.end = u.end
    BY <1>2, <2>1 DEF UIStates, Logins
  <2>3. connect'.plan = view.plan /\ connect'.chosen = chosen /\ connect'.stop = connect.stop
    BY <1>0, <2>1 DEF ConnectStates
  <2>4. ui.at = 3 /\ ~connect.stop
    BY <1>2 DEF Logins, PassedWork
  <2>5. ScreensSave'
    BY <1>1, <2>2, <2>3, <2>4 DEF ScreensSave
  <2>6. PassedWork'
    BY <1>1, <2>2, <2>3, <2>4 DEF PassedWork
  <2> QED BY <2>5, <2>6
<1>3. CASE ~(u.at = Logins /\ login.pending # 0)
  <2>1. Show(u, to, view, chosen)
    BY <1>3 DEF MoveTo
  <2>2. chosen = "remove" => to = 6 /\ StillWork(connect.passed, dir["stage"])
    BY DEF PassedWork
  <2> QED BY <1>0, <1>1, <2>1, <2>2, ShowFollows
<1> QED
  BY <1>2, <1>3

\* A move forwards.
LEMMA OnwardsFollows ==
  ASSUME RunIInv, ScreensSave, PassedWork, NEW u \in UIStates, NEW chosen \in Choices,
         MoveTo(u, NextShown(ui.at, RefreshAfter(ui.at, View)), RefreshAfter(ui.at, View), chosen),
         UNCHANGED <<dir, made>>, u.at = ui.at, u.end = ui.end, ui.at # 6,
         chosen = "remove" => ui.at = 4
  PROVE  ScreensSave' /\ PassedWork'
<1> DEFINE view == RefreshAfter(ui.at, View)
           to == NextShown(ui.at, view)
<1>1. RunTypeOK /\ ui.at \in 1 .. 5
  <2>1. RunTypeOK /\ ui.at \in 1 .. 6
    BY DEF RunIInv, RunTypeOK, UIStates
  <2> QED BY <2>1
<1>2. View \in Views
  BY DEF RunIInv, RunTypeOK, View, Views, ConnectTypeOK, ConnectStates
<1>3. view \in Views /\ to \in 1 .. 6
  BY <1>1, <1>2, ViewsTyped, ShownNext
<1>4. ui.at = 4 => to = 6
  BY ConnectIsLast DEF PassedWork
<1>5. to = 4 => view.plan.listed /\ OfStage(view.plan.targets, dir["stage"])
  BY <1>1, <1>4, ConnectIsRead
<1>6. MoveTo(u, to, view, chosen)
  OBVIOUS
<1> HIDE DEF view, to
<1> QED
  BY <1>3, <1>4, <1>5, <1>6, MoveFollows

\* Forward reaches Connect with a plan just read, or the end.
LEMMA ForwardFollows ==
  ASSUME RunIInv, ScreensSave, PassedWork, Free, NEW chosen \in Choices, Forward(chosen), UNCHANGED dir,
         chosen = "remove" => ui.at = 4
  PROVE  ScreensSave' /\ PassedWork'
<1> DEFINE view == RefreshAfter(ui.at, View)
           to == NextShown(ui.at, view)
           u == [ui EXCEPT !.saved = TRUE, !.saves = @ + 1]
<1>1. ui \in UIStates /\ ui.pc = "keys" /\ ui.at \in 1 .. 5 /\ (ui.at \in 3 .. 5 => ui.saved) /\ connect \in ConnectStates
  <2>1. ui \in UIStates /\ ui.pc = "keys" /\ connect \in ConnectStates
    BY DEF RunIInv, RunTypeOK, ConnectTypeOK, Free
  <2>2. ui.at \in 1 .. 6 /\ ui.at # 6
    BY <2>1 DEF RunIInv, UIStates, ScreensFollow, Screens, Past
  <2> QED BY <2>1, <2>2 DEF RunIInv, ScreensFollow, Logins, Review
<1>2. CASE /\ Saves(to) /\ ui' = [ui EXCEPT !.pc = "saving", !.saved = TRUE, !.saves = @ + 1]
           /\ made' = TRUE
           /\ connect' = [connect EXCEPT !.plan = view.plan, !.chosen = chosen]
           /\ UNCHANGED probes
  <2>1. ui.at \in {1, 2}
    BY <1>1, <1>2 DEF Saves, Catalogs
  <2>2. ui'.pc = "saving" /\ ui'.at = ui.at /\ ui'.end = ui.end
    BY <1>1, <1>2 DEF UIStates
  <2>3. connect'.stop = connect.stop /\ connect'.chosen = chosen /\ ~connect.stop /\ chosen # "remove"
    BY <1>1, <1>2, <2>1 DEF ConnectStates, PassedWork
  <2>4. ScreensSave'
    BY <1>2, <2>1, <2>2, <2>3 DEF ScreensSave
  <2>5. PassedWork'
    BY <2>1, <2>2, <2>3 DEF PassedWork, ScreensSave
  <2> QED BY <2>4, <2>5
<1>3. CASE MoveTo(u, to, view, chosen) /\ UNCHANGED made
  <2>1. u \in UIStates /\ u.at = ui.at /\ u.end = ui.end
    <3>1. 1 \in 1 .. 6 /\ 0 \in 0 .. 6 /\ "keys" \in Steps
      BY DEF Steps, Screens
    <3>2. u \in UIStates
      BY <1>1, <3>1, UITyped
    <3> QED BY <1>1, <3>2 DEF UIStates
  <2> HIDE DEF u
  <2> QED BY <1>1, <1>3, <2>1, OnwardsFollows
<1>4. CASE MoveTo(ui, to, view, chosen) /\ UNCHANGED made
  BY <1>1, <1>4, OnwardsFollows
<1> QED
  BY <1>2, <1>3, <1>4 DEF Forward

\* Back reaches Connect with a plan just read.
LEMMA BackFollows ==
  ASSUME RunIInv, ScreensSave, PassedWork, Back
  PROVE  ScreensSave' /\ PassedWork'
<1> DEFINE view == RefreshBefore(ui.at, View)
           to == PrevShown(ui.at, view)
<1>1. RunTypeOK /\ ui \in UIStates /\ ui.at \in 1 .. 5 /\ connect.chosen \in Choices /\ View \in Views
  <2>1. RunTypeOK /\ ui \in UIStates /\ ui.pc = "keys" /\ connect.chosen \in Choices /\ View \in Views
    BY DEF RunIInv, RunTypeOK, ConnectTypeOK, ConnectStates, Back, Free, View, Views
  <2>2. ui.at \in 1 .. 6 /\ ui.at # 6
    BY <2>1 DEF RunIInv, UIStates, ScreensFollow, Screens, Past
  <2> QED BY <2>1, <2>2
<1>2. view \in Views /\ to \in 1 .. 6
  BY <1>1, ViewsTyped, ShownNext
<1>3. MoveTo(ui, to, view, connect.chosen) /\ to # ui.at /\ UNCHANGED <<dir, made>>
  BY DEF Back
<1>4. to = 4 => view.plan.listed /\ OfStage(view.plan.targets, dir["stage"])
  BY <1>1, <1>3, ConnectIsRead
<1>5. ui.at # 6 /\ connect.chosen # "remove"
  BY <1>1 DEF ScreensSave
<1> HIDE DEF view, to
<1> QED
  BY <1>1, <1>2, <1>3, <1>4, <1>5, MoveFollows

\* Forward, once its save is done.
LEMMA MoveOnFollows ==
  ASSUME RunIInv, ScreensSave, PassedWork, MoveOn
  PROVE  ScreensSave' /\ PassedWork'
<1>1. ui \in UIStates /\ ui.at # 6 /\ connect.chosen \in Choices
  BY DEF RunIInv, RunTypeOK, ConnectTypeOK, ConnectStates, MoveOn, ScreensFollow, Screens, Past
<1>2. connect.chosen # "remove"
  BY <1>1 DEF ScreensSave
<1> QED
  BY <1>1, <1>2, OnwardsFollows DEF MoveOn

\* The end of a cancelled login shows Connect with the plan read when it was left.
LEMMA LeavesFollow ==
  ASSUME RunIInv, ScreensSave, PassedWork, CancelLogin \/ LoginLeft
  PROVE  ScreensSave' /\ PassedWork'
<1>0. /\ ui \in UIStates /\ connect \in ConnectStates /\ probes \in [1 .. MaxConnects -> Probes] /\ View \in Views
      /\ ui.at = 3 /\ connect.chosen \in Choices
  BY DEF RunIInv, RunTypeOK, ConnectTypeOK, ConnectStates, View, Views, CancelLogin, LoginLeft, ScreensFollow, Logins
<1>1. ui.end # "finished" /\ connect.chosen # "remove" /\ ~connect.stop
  BY <1>0 DEF ScreensSave, PassedWork
<1>2. CASE CancelLogin
  <2>1. ui' = [ui EXCEPT !.pc = "leaving", !.to = 0] /\ UNCHANGED <<dir, made, connect, probes>>
    BY <1>2 DEF CancelLogin
  <2>2. ui'.pc = "leaving" /\ ui'.to = 0 /\ ui'.at = 3 /\ ui'.end = ui.end
    BY <1>0, <2>1 DEF UIStates
  <2> QED BY <1>1, <2>1, <2>2 DEF ScreensSave, PassedWork
<1>3. CASE LoginLeft /\ ui.to = 0
  <2>1. ui' = [ui EXCEPT !.pc = "keys"] /\ UNCHANGED <<dir, made, connect, probes>>
    BY <1>3 DEF LoginLeft
  <2>2. ui'.pc = "keys" /\ ui'.at = 3 /\ ui'.end = ui.end
    BY <1>0, <2>1 DEF UIStates
  <2> QED BY <1>1, <2>1, <2>2 DEF ScreensSave, PassedWork
<1>4. CASE LoginLeft /\ ui.to # 0
  <2>1. Show(ui, ui.to, View, connect.chosen) /\ UNCHANGED <<dir, made>> /\ ui.pc = "leaving"
    BY <1>4 DEF LoginLeft
  <2>2. ui.to \in 1 .. 6
    <3>1. ui.to \in 0 .. 6
      BY <1>0 DEF UIStates
    <3> QED BY <1>4, <3>1
  <2>3. ui.to = 4 => View.plan.listed /\ OfStage(View.plan.targets, dir["stage"])
    BY <2>1 DEF PassedWork, View
  <2> QED BY <1>0, <1>1, <2>1, <2>2, <2>3, ShowFollows
<1> QED
  BY <1>2, <1>3, <1>4

-----------------------------------------------------------------------------
(* A run of mini init: the other steps *)

\* Saving, which changes the stage, is done before Connect.
LEMMA SaveFollows ==
  ASSUME RunIInv, ScreensSave, PassedWork, Save
  PROVE  ScreensSave' /\ PassedWork'
<1>1. ui \in UIStates /\ ui' = [ui EXCEPT !.pc = "moving"] /\ UNCHANGED <<made, connect, probes>> /\ ui.pc = "saving"
  BY DEF RunIInv, RunTypeOK, Save
<1>2. ui'.pc = "moving" /\ ui'.at = ui.at /\ ui'.end = ui.end /\ ui.at \in {1, 2} /\ made
  BY <1>1 DEF UIStates, ScreensSave
<1>3. ui.end # "finished" /\ connect.chosen # "remove" /\ ~connect.stop
  BY <1>2 DEF ScreensSave, PassedWork
<1> QED
  BY <1>1, <1>2, <1>3 DEF ScreensSave, PassedWork

\* What a login saves in the stage leaves working what worked.
LEMMA LoginSavedFollows ==
  ASSUME RunIInv, ScreensSave, PassedWork, LoginSaved
  PROVE  ScreensSave' /\ PassedWork'
<1>0. /\ dir \in [Dirs -> ServerDirs] /\ login \in LoginStates /\ LoginRuns /\ login.pending # 0 /\ login.dir \in Dirs
      /\ login.s \in Servers
  BY DEF RunIInv, RunTypeOK, LoginSaved, LoginRuns, LoginIsAwaited, LoginStates
<1>1. dir' = [dir EXCEPT ![login.dir].login[login.s] = login.v] /\ UNCHANGED <<ui, made, connect, probes>>
  BY DEF LoginSaved
<1>2. CASE login.dir # "stage"
  <2>1. dir'["stage"] = dir["stage"]
    BY <1>0, <1>1, <1>2 DEF Dirs
  <2> QED BY <1>1, <2>1, StageKept
<1>3. CASE login.dir = "stage"
  <2> DEFINE old == dir["stage"]
             new == dir'["stage"]
  <2>1. old \in ServerDirs /\ old.srv[login.s] = login.v
    BY <1>0, <1>3 DEF RunIInv, StageIsKept, Dirs
  <2>2. new.srv = old.srv /\ new.login = [old.login EXCEPT ![login.s] = login.v]
    <3>1. new = [old EXCEPT !.login = [old.login EXCEPT ![login.s] = login.v]]
      BY <1>0, <1>1, <1>3 DEF Dirs, ServerDirs
    <3> HIDE DEF old, new
    <3> QED BY <2>1, <3>1 DEF ServerDirs
  <2> HIDE DEF old, new
  <2>3. \A T : OfStage(T, old) => OfStage(T, new)
    BY <2>2 DEF OfStage
  <2>4. \A s \in Servers : WorksIn(old, s) => WorksIn(new, s)
    BY <2>1, <2>2 DEF WorksIn, ServerDirs
  <2>5. \A P \in Names : StillWork(P, old) => StillWork(P, new)
    BY <2>2, <2>4 DEF StillWork, Names
  <2>6. connect.passed \in Names /\ \A i \in 1 .. MaxConnects : probes[i].passed \in Names
    BY DEF RunIInv, RunTypeOK, ConnectTypeOK, ConnectStates, Probes
  <2>7. ScreensSave'
    BY <1>1, <2>2 DEF ScreensSave, old, new
  <2>8. PassedWork'
    BY <1>1, <2>3, <2>5, <2>6 DEF PassedWork, old, new
  <2> QED BY <2>7, <2>8
<1> QED
  BY <1>2, <1>3

\* The checks that end tell of the staged servers.
LEMMA EndProbesFollows ==
  ASSUME RunIInv, ScreensSave, PassedWork, NEW id \in 1 .. MaxConnects, EndProbes(id)
  PROVE  ScreensSave' /\ PassedWork'
<1> DEFINE targets == probes[id].targets
           same == {t \in targets : dir[t[1]].srv[t[2]] = t[3]}
           stage == dir["stage"]
<1>0. dir \in [Dirs -> ServerDirs] /\ "stage" \in Dirs /\ connect \in ConnectStates /\ probes \in [1 .. MaxConnects -> Probes]
  BY DEF RunIInv, RunTypeOK, ConnectTypeOK, Dirs
<1>1. PICK passed \in SUBSET {t[2] : t \in {u \in same : Works(u[1], u[2])}},
           detected \in SUBSET {t \in targets : Kind[<<t[2], t[3]>>] = "oauth" /\ ~LoggedIn(t[1], t[2])} :
        /\ probes' = [probes EXCEPT ![id] = [phase |-> "ended", targets |-> {}, passed |-> passed]]
        /\ dir' = [d \in Dirs |-> [dir[d] EXCEPT !.found = @ \cup {t[2] : t \in {u \in detected : u[1] = d}}]]
  BY DEF EndProbes
<1>2. probes[id].phase = "run" /\ UNCHANGED <<ui, made, connect>>
  BY DEF EndProbes
<1>3. dir'["stage"].srv = stage.srv /\ dir'["stage"].login = stage.login
  BY <1>0, <1>1 DEF ServerDirs
<1>4. /\ \A T : OfStage(T, dir'["stage"]) <=> OfStage(T, stage)
      /\ \A P : StillWork(P, dir'["stage"]) <=> StillWork(P, stage)
  BY <1>3, StageDecides
<1>5. OfStage(targets, stage) => StillWork(passed, stage)
  <2>1. ASSUME OfStage(targets, stage), NEW s \in passed, stage.srv[s] # 0
        PROVE  WorksIn(stage, s)
    <3>1. PICK t \in same : Works(t[1], t[2]) /\ s = t[2]
      BY <1>1
    <3>2. t[1] = "stage"
      BY <2>1, <3>1 DEF OfStage
    <3> QED BY <3>1, <3>2, WorksThere
  <2> QED BY <2>1 DEF StillWork
<1>6. /\ probes'[id] = [phase |-> "ended", targets |-> {}, passed |-> passed]
      /\ \A i \in 1 .. MaxConnects : i # id => probes'[i] = probes[i]
  BY <1>0, <1>1
<1>7. ScreensSave'
  BY <1>2, <1>3 DEF ScreensSave
<1> HIDE DEF targets, same
<1>8. ASSUME connect.stop, connect.runs \in 1 .. MaxConnects
      PROVE  /\ probes'[connect.runs].phase = "run" => OfStage(probes'[connect.runs].targets, stage)
             /\ probes'[connect.runs].phase = "ended" => StillWork(probes'[connect.runs].passed, stage)
  <2>1. CASE connect.runs = id
    <3>1. OfStage(targets, stage)
      BY <1>2, <1>8, <2>1 DEF PassedWork, targets
    <3> QED BY <1>5, <1>6, <2>1, <3>1
  <2>2. CASE connect.runs # id
    BY <1>6, <1>8, <2>2 DEF PassedWork
  <2> QED BY <2>1, <2>2
<1>9. PassedWork'
  BY <1>2, <1>4, <1>8 DEF PassedWork
<1> QED
  BY <1>7, <1>9

\* Connect takes only the result of the checks it started last.
LEMMA ConnectCheckedFollows ==
  ASSUME RunIInv, ScreensSave, PassedWork, NEW id \in 1 .. MaxConnects, ConnectChecked(id)
  PROVE  ScreensSave' /\ PassedWork'
<1>0. connect \in ConnectStates /\ probes \in [1 .. MaxConnects -> Probes]
  BY DEF RunIInv, RunTypeOK, ConnectTypeOK
<1>1. /\ ui.pc = "keys" /\ probes[id].phase = "ended" /\ probes' = [probes EXCEPT ![id] = NoProbes]
      /\ connect' = IF id = connect.runs /\ connect.stop
                    THEN [connect EXCEPT !.done = TRUE, !.passed = probes[id].passed, !.stop = FALSE] ELSE connect
      /\ UNCHANGED <<ui, dir, made>>
  BY DEF ConnectChecked, Free
<1>2. CASE id = connect.runs /\ connect.stop
  <2>1. /\ connect'.passed = probes[id].passed /\ ~connect'.stop /\ connect'.plan = connect.plan
        /\ connect'.chosen = connect.chosen
    BY <1>0, <1>1, <1>2 DEF ConnectStates
  <2>2. StillWork(probes[id].passed, dir["stage"])
    BY <1>1, <1>2 DEF PassedWork
  <2> QED BY <1>1, <2>1, <2>2 DEF ScreensSave, PassedWork
<1>3. CASE ~(id = connect.runs /\ connect.stop)
  <2>1. connect' = connect /\ \A i \in 1 .. MaxConnects : i # id => probes'[i] = probes[i]
    BY <1>0, <1>1, <1>3
  <2>2. ScreensSave'
    BY <1>1, <2>1 DEF ScreensSave
  <2>3. PassedWork'
    BY <1>1, <1>3, <2>1 DEF PassedWork
  <2> QED BY <2>2, <2>3
<1> QED
  BY <1>2, <1>3

\* The UI ends, and what follows up to the commit.
LEMMA UIEndsFollows ==
  ASSUME RunIInv, ScreensSave, PassedWork, UIEnds
  PROVE  ScreensSave' /\ PassedWork'
<1>0. connect \in ConnectStates
  BY DEF RunIInv, RunTypeOK, ConnectTypeOK
<1>1. UNCHANGED <<dir, made>> /\ connect' = [connect EXCEPT !.stop = FALSE, !.plan = NoPlan, !.done = FALSE]
  BY DEF UIEnds
<1>2. ~connect'.stop /\ connect'.passed = connect.passed
  BY <1>0, <1>1 DEF ConnectStates
<1>3. ui'.pc = "ending" /\ ui'.at = 6 /\ (ui'.end = "finished" => ui.pc = "quitting")
  BY DEF UIEnds, Ended, Past
<1>4. ui.pc = "quitting" => StillWork(connect.passed, dir["stage"])
  BY DEF ScreensSave, PassedWork
<1>5. ScreensSave'
  BY <1>1, <1>3 DEF ScreensSave
<1>6. PassedWork'
  BY <1>1, <1>2, <1>3, <1>4 DEF PassedWork
<1> QED
  BY <1>5, <1>6

\* The steps that end the run leave the stage and what passed.
LEMMA EndingFollows ==
  ASSUME RunIInv, ScreensSave, PassedWork, UIEnded \/ BeginCommit \/ ConnectAgents
  PROVE  ScreensSave' /\ PassedWork'
<1>0. ui \in UIStates /\ ui.at = 6
  BY DEF RunIInv, RunTypeOK, ScreensFollow, Screens, Past, UIEnded, BeginCommit, ConnectAgents
<1>1. UNCHANGED <<dir, made, connect, probes>>
  BY DEF UIEnded, BeginCommit, ConnectAgents
<1>2. /\ ui'.at = 6 /\ ui'.end = ui.end /\ ui'.pc \in {"waiting", "closing", "committing", "done"}
      /\ ui.pc \in {"connecting", "done"} => ui'.pc \in {"connecting", "done"}
  BY <1>0 DEF UIStates, UIEnded, BeginCommit, ConnectAgents
<1>3. ScreensSave'
  BY <1>1, <1>2 DEF ScreensSave
<1>4. PassedWork'
  BY <1>0, <1>1, <1>2 DEF PassedWork
<1> QED
  BY <1>3, <1>4

\* The stage goes.
LEMMA GoneFollows ==
  ASSUME RunIInv, ScreensSave, PassedWork, Close \/ Discard
  PROVE  ScreensSave' /\ PassedWork'
<1>0. RunTypeOK /\ ui \in UIStates /\ ui.at = 6 /\ connect.passed \in Names
  BY DEF RunIInv, RunTypeOK, ConnectTypeOK, ConnectStates, ScreensFollow, Screens, Past, Close, Discard
<1>1. /\ UNCHANGED <<connect, probes>> /\ dir' = [dir EXCEPT !["stage"] = NoStage]
      /\ ui' = [ui EXCEPT !.pc = "done"] \/ ui' = [ui EXCEPT !.pc = "connecting"]
  BY DEF Close, Discard
<1>2. ui'.at = 6 /\ ui'.pc \in {"connecting", "done"} /\ ~connect.stop
  <2>1. ~connect.stop
    BY <1>0 DEF PassedWork
  <2>2. ui'.at = 6 /\ ui'.pc \in {"connecting", "done"}
    BY <1>0, <1>1 DEF UIStates
  <2> QED BY <2>1, <2>2
<1>3. \A s \in Servers : dir'["stage"].srv[s] = 0
  BY <1>0, <1>1, StageGone
<1>4. ScreensSave'
  BY <1>2, <1>3 DEF ScreensSave
<1>5. PassedWork'
  BY <1>1, <1>2 DEF PassedWork
<1> QED
  BY <1>4, <1>5

-----------------------------------------------------------------------------
(* A run of mini init: the servers it commits *)

\* Before the commit there is nothing of it.
LEMMA NothingCommitted ==
  ASSUME RunIInv, ui.pc \notin Commits, commit' = commit
  PROVE  OursWork'
<1>1. commit = [left |-> {}, step |-> "", ours |-> {}, removed |-> {}]
  BY DEF RunIInv, CommitIsClean
<1>2. commit'.left = {} /\ commit'.ours = {}
  BY <1>1
<1> QED
  BY <1>2 DEF OursWork

\* The commit starts.
LEMMA BeginCommitWorks ==
  ASSUME RunIInv, BeginCommit
  PROVE  OursWork'
<1>1. ui.pc \notin Commits
  BY DEF BeginCommit, Commits
<1>2. commit = [left |-> {}, step |-> "", ours |-> {}, removed |-> {}]
  BY <1>1 DEF RunIInv, CommitIsClean
<1>3. commit' = [commit EXCEPT !.left = {s \in Servers : Has("stage", s)}]
  BY DEF BeginCommit
<1>4. commit'.step = "" /\ commit'.ours = {}
  BY <1>2, <1>3
<1> QED
  BY <1>4 DEF OursWork

\* The commit of one server.
LEMMA CommitCheckWorks ==
  ASSUME RunIInv, OursWork, NEW s \in Servers, CommitCheck(s)
  PROVE  OursWork'
<1>0. commit \in Commitments /\ connect' = connect /\ dir' = dir /\ commit.step = ""
  BY WhileCommitting DEF CommitCheck, Committing
<1>1. commit'.step # "create" /\ commit'.ours = commit.ours
  BY <1>0 DEF CommitCheck, Commitments
<1> QED
  BY <1>0, <1>1 DEF OursWork

LEMMA CommitForgetWorks ==
  ASSUME RunIInv, OursWork, NEW s \in Servers, CommitForget(s)
  PROVE  OursWork'
<1>0. RunTypeOK /\ commit \in Commitments /\ commit.left \subseteq Servers /\ commit.ours \subseteq Servers
      /\ ui.pc = "committing" /\ s \in commit.left /\ connect' = connect /\ commit.step = "forget"
  BY WhileCommitting DEF CommitForget, Committing
<1>1. s \notin commit.ours
  BY <1>0 DEF RunIInv, CommitIsClean
<1>2. commit'.step # "create" /\ commit'.ours = commit.ours
  BY <1>0 DEF CommitForget, Commitments
<1>3. \A x \in Servers \ {s} : dir'["mini"].srv[x] = dir["mini"].srv[x] /\ dir'["mini"].login[x] = dir["mini"].login[x]
  <2> DEFINE f == dir["mini"].found \ {s}
  <2>1. dir \in [Dirs -> ServerDirs]
    BY <1>0 DEF RunTypeOK
  <2>2. f \in Names /\ 0 \in Settings
    BY <2>1 DEF ServerDirs, Dirs, Names, Settings
  <2>3. dir' = [dir EXCEPT !["mini"].login[s] = 0, !["mini"].found = f]
    BY <2>1 DEF CommitForget, Dirs, ServerDirs
  <2> HIDE DEF f
  <2> QED BY <1>0, <2>2, <2>3, MiniForgets DEF Kept
<1>4. \A x \in commit.ours : WorksIn(dir["mini"], x) => WorksIn(dir'["mini"], x)
  BY <1>0, <1>1, <1>3 DEF WorksIn
<1> QED
  BY <1>0, <1>2, <1>4 DEF OursWork

\* The login copied is the staged one.
LEMMA CommitCopyWorks ==
  ASSUME RunIInv, OursWork, NEW s \in Servers, CommitCopy(s)
  PROVE  OursWork'
<1>0. /\ RunTypeOK /\ commit \in Commitments /\ commit.left \subseteq Servers /\ commit.ours \subseteq Servers
      /\ ui.pc = "committing" /\ s \in commit.left /\ connect' = connect /\ dir \in [Dirs -> ServerDirs]
      /\ s = (CHOOSE x \in commit.left : TRUE) /\ commit.step = "copy"
  BY WhileCommitting DEF CommitCopy, Committing
<1>1. s \notin commit.ours /\ dir["mini"].login[s] = 0
  BY <1>0 DEF RunIInv, CommitIsClean
<1>2. commit'.left = commit.left /\ commit'.ours = commit.ours
  BY <1>0 DEF CommitCopy, Commitments
<1> DEFINE n == dir["stage"].login[s]
           f == IF s \in dir["stage"].found THEN dir["mini"].found \cup {s} ELSE dir["mini"].found
<1>3. n \in Settings /\ f \in Names
  BY <1>0 DEF ServerDirs, Dirs, Names
<1>4. dir' = [dir EXCEPT !["mini"].login[s] = n, !["mini"].found = f]
  <2>1. dir' = [dir EXCEPT !["mini"].login[s] = IF dir["stage"].login[s] # 0 THEN dir["stage"].login[s] ELSE @,
                           !["mini"].found = IF s \in dir["stage"].found THEN @ \cup {s} ELSE @]
    BY DEF CommitCopy
  <2> QED BY <1>0, <1>1, <2>1 DEF Dirs, ServerDirs
<1>5. n = dir["stage"].login[s]
  OBVIOUS
<1> HIDE DEF n, f
<1>k. Kept(s) /\ dir'["mini"].login[s] = n
  BY <1>0, <1>3, <1>4, MiniForgets
<1>6. /\ dir'["stage"] = dir["stage"] /\ dir'["mini"].login[s] = n
      /\ \A x \in Servers \ {s} : dir'["mini"].srv[x] = dir["mini"].srv[x] /\ dir'["mini"].login[x] = dir["mini"].login[x]
  BY <1>k DEF Kept
<1>7. \A x \in commit.ours : WorksIn(dir["mini"], x) => WorksIn(dir'["mini"], x)
  BY <1>0, <1>1, <1>6 DEF WorksIn
<1>8. ASSUME NEW x \in commit'.left, x = (CHOOSE y \in commit'.left : TRUE)
      PROVE  dir'["mini"].login[x] = dir'["stage"].login[x]
  <2>1. x = s
    BY <1>0, <1>2, <1>8
  <2> QED BY <1>5, <1>6, <2>1
<1> QED
  BY <1>0, <1>2, <1>7, <1>8 DEF OursWork

\* The server created is the staged one with its login.
LEMMA CommitCreateWorks ==
  ASSUME RunIInv, PassedWork, OursWork, NEW s \in Servers, CommitCreate(s)
  PROVE  OursWork'
<1>0. /\ RunTypeOK /\ commit \in Commitments /\ commit.left \subseteq Servers /\ commit.ours \subseteq Servers
      /\ ui.pc = "committing" /\ s \in commit.left /\ connect' = connect /\ dir \in [Dirs -> ServerDirs]
      /\ s = (CHOOSE x \in commit.left : TRUE) /\ commit.step = "create" /\ ui.end = "finished"
      /\ dir["stage"].srv[s] # 0
  BY WhileCommitting DEF CommitCreate, Committing
<1>1. s \notin commit.ours
  BY <1>0 DEF RunIInv, CommitIsClean
<1>2. CASE commit' = [commit EXCEPT !.left = @ \ {s}, !.step = ""] /\ UNCHANGED dir
  <2>1. commit'.step = "" /\ commit'.ours = commit.ours
    BY <1>0, <1>2 DEF Commitments
  <2> QED BY <1>0, <1>2, <2>1 DEF OursWork
<1>3. CASE /\ ~Has("mini", s)
           /\ commit' = [commit EXCEPT !.left = @ \ {s}, !.step = "", !.ours = @ \cup {s}]
           /\ dir' = [dir EXCEPT !["mini"].srv[s] = dir["stage"].srv[s]]
  <2>1. commit'.step = "" /\ commit'.ours = commit.ours \cup {s}
    BY <1>0, <1>3 DEF Commitments
  <2>2. dir["stage"].srv[s] \in Settings
    BY <1>0 DEF ServerDirs, Dirs
  <2>3. /\ \A x \in Servers \ {s} : dir'["mini"].srv[x] = dir["mini"].srv[x] /\ dir'["mini"].login[x] = dir["mini"].login[x]
        /\ dir'["mini"].srv[s] = dir["stage"].srv[s] /\ dir'["mini"].login[s] = dir["mini"].login[s]
    BY <1>0, <1>3, <2>2, MiniGets DEF Kept
  <2>4. dir["mini"].login[s] = dir["stage"].login[s]
    BY <1>0, <1>3 DEF OursWork, Has
  <2>5. s \in connect.passed => WorksIn(dir["stage"], s)
    BY <1>0 DEF PassedWork, StillWork
  <2>6. s \in connect.passed => WorksIn(dir'["mini"], s)
    BY <2>3, <2>4, <2>5 DEF WorksIn
  <2>7. \A x \in commit.ours : WorksIn(dir["mini"], x) => WorksIn(dir'["mini"], x)
    BY <1>0, <1>1, <2>3 DEF WorksIn
  <2> QED BY <1>0, <2>1, <2>6, <2>7 DEF OursWork
<1> QED
  BY <1>2, <1>3 DEF CommitCreate

\* The end of the commit, and what other processes do during it.
LEMMA AfterCommitWorks ==
  ASSUME RunIInv, OursWork, Discard \/ ConnectAgents
  PROVE  OursWork'
<1>0. RunTypeOK /\ commit \in Commitments /\ connect' = connect
  BY DEF RunIInv, RunTypeOK, Discard, ConnectAgents
<1>1. commit.left = {}
  BY DEF RunIInv, CommitIsClean, Commits, Discard, ConnectAgents
<1>2. commit'.left = commit.left /\ commit'.ours = commit.ours
  BY <1>0 DEF Commitments, Discard, ConnectAgents
<1>3. dir'["mini"] = dir["mini"]
  BY <1>0, StageGone DEF Discard, ConnectAgents
<1> QED
  BY <1>0, <1>1, <1>2, <1>3 DEF OursWork

\* A server that another process adds is none of this run.
LEMMA OutsideAddsWorks ==
  ASSUME RunIInv, OursWork, NEW s \in Servers, OutsideAdds(s)
  PROVE  OursWork'
<1>0. /\ RunTypeOK /\ UNCHANGED <<connect, commit>> /\ dir["mini"].srv[s] = 0 /\ commit.left \subseteq Servers
      /\ commit.ours \subseteq Servers
      /\ dir' = [dir EXCEPT !["mini"].srv[s] = 1, !["mini"].login[s] = 0, !["mini"].found = @ \ {s}]
  BY DEF RunIInv, RunTypeOK, Commitments, Names, OutsideAdds, Has
<1>1. Kept(s) /\ dir'["mini"].srv[s] = 1
  BY <1>0, MiniAdds
<1>2. s \notin commit.ours
  BY <1>0 DEF RunIInv, CommitIsClean, Has
<1>3. /\ dir'["stage"] = dir["stage"]
      /\ \A x \in Servers \ {s} : dir'["mini"].srv[x] = dir["mini"].srv[x] /\ dir'["mini"].login[x] = dir["mini"].login[x]
  BY <1>1 DEF Kept
<1>4. \A x \in commit.ours : WorksIn(dir["mini"], x) => WorksIn(dir'["mini"], x)
  BY <1>0, <1>2, <1>3 DEF WorksIn
<1>5. ASSUME NEW x \in commit.left, x = (CHOOSE y \in commit.left : TRUE), commit.step = "create", dir'["mini"].srv[x] = 0
      PROVE  dir'["mini"].login[x] = dir'["stage"].login[x]
  <2>1. x \in Servers /\ dir'["mini"].srv[s] # 0
    BY <1>0, <1>1
  <2>2. x # s
    BY <1>5, <2>1
  <2> QED BY <1>3, <1>5, <2>1, <2>2 DEF OursWork
<1> QED
  BY <1>0, <1>4, <1>5 DEF OursWork

-----------------------------------------------------------------------------
(* A run of mini init: what Connect removes is served *)

\* At the start nothing is staged, shown or committed.
LEMMA RemovalStarts == RunInit => RemovalIInv
<1> SUFFICES ASSUME RunInit PROVE RemovalIInv
  OBVIOUS
<1>1. RunIInv
  BY RunStarts
<1>2. ui = [at |-> 1, pc |-> "keys", to |-> 0, saved |-> FALSE, saves |-> 0, end |-> ""]
  BY DEF RunInit, Ended, Imports
<1>3. ~connect.stop /\ connect.chosen = "later"
  <2>1. PICK mine \in {"none", "serves"} :
            connect = [plan |-> NoPlan, withMini |-> mine = "serves", runs |-> 0,
                       stop |-> FALSE, done |-> FALSE, passed |-> {}, chosen |-> "later"]
    BY DEF RunInit
  <2> QED BY <2>1
<1>4. \A s \in Servers : dir["stage"].srv[s] = 0
  BY DEF RunInit, NoStage, Dirs
<1>5. ScreensSave
  BY <1>2, <1>3, <1>4 DEF ScreensSave
<1>6. PassedWork
  <2>1. ui.at = 1 /\ ui.pc = "keys" /\ ui.end = ""
    BY <1>2
  <2>2. ui.at # 4
    <3>1. 1 # 4
      OBVIOUS
    <3> QED BY <2>1, <3>1, Zenon
  <2>3. ui.pc # "leaving"
    BY <2>1
  <2>4. ui.end # "finished"
    BY <1>5, <2>2, <2>1 DEF ScreensSave
  <2> QED BY <1>3, <2>2, <2>3, <2>4 DEF PassedWork
<1>7. OursWork
  BY DEF RunInit, OursWork
<1> QED
  BY <1>1, <1>5, <1>6, <1>7 DEF RemovalIInv

\* A step of the screens, before the commit.
LEMMA ScreensKeep ==
  ASSUME RemovalIInv, RunIInv', Keys \/ Save \/ MoveOn \/ LoginLeft \/ UIEnds
  PROVE  RemovalIInv'
<1>0. RunIInv /\ ScreensSave /\ PassedWork /\ connect.chosen \in Choices
  BY DEF RemovalIInv, RunIInv, RunTypeOK, ConnectTypeOK, ConnectStates
<1>1. ASSUME NEW s \in Servers, TickImport(s) \/ TickCatalog(s) \/ StartLogin(s)
      PROVE  ScreensSave' /\ PassedWork'
  <2>1. UNCHANGED <<ui, made, connect, probes, dir>>
    BY <1>1 DEF TickImport, TickCatalog, StartLogin
  <2> QED BY <1>0, <2>1, StageKept
<1>2. ASSUME Continue
      PROVE  ScreensSave' /\ PassedWork'
  <2>1. connect.chosen # "remove"
    BY <1>0, <1>2 DEF RunIInv, ScreensFollow, Continue, Free, Screens, Past, ScreensSave
  <2> QED BY <1>0, <1>2, <2>1, ForwardFollows DEF Continue
<1>3. ASSUME NEW c \in {"later", "only", "remove"}, Choose(c)
      PROVE  ScreensSave' /\ PassedWork'
  <2>1. c \in Choices /\ ui.at = 4
    BY <1>3 DEF Choices, Choose, Connects
  <2> QED BY <1>0, <1>3, <2>1, ForwardFollows DEF Choose
<1>4. ScreensSave' /\ PassedWork'
  BY <1>0, <1>1, <1>2, <1>3, BackFollows, LeavesFollow, SaveFollows, MoveOnFollows, UIEndsFollows DEF Keys
<1>5. ui.pc \notin Commits /\ commit' = commit
  BY DEF Keys, Continue, Choose, Back, CancelLogin, TickImport, TickCatalog, StartLogin, Free, Save, MoveOn, LoginLeft, UIEnds,
     Commits
<1>6. OursWork'
  BY <1>0, <1>5, NothingCommitted
<1> QED
  BY <1>4, <1>6 DEF RemovalIInv

\* A step beside the screens.
LEMMA BesideKeep ==
  ASSUME RemovalIInv, RunIInv', UNCHANGED <<ui, made, connect, probes, commit>>,
         dir'["stage"].srv = dir["stage"].srv, dir'["stage"].login = dir["stage"].login,
         ui.pc \in Commits => SameServers
  PROVE  RemovalIInv'
<1>0. RunIInv /\ ScreensSave /\ PassedWork /\ OursWork
  BY DEF RemovalIInv
<1>1. ScreensSave' /\ PassedWork'
  BY <1>0, StageKept
<1>2. CASE ui.pc \notin Commits
  BY <1>0, <1>1, <1>2, NothingCommitted DEF RemovalIInv
<1>3. CASE ui.pc \in Commits
  <2>1. \A d \in {"mini", "stage"} : dir'[d].srv = dir[d].srv /\ dir'[d].login = dir[d].login
    BY <1>3 DEF SameServers, Dirs
  <2>2. \A s : WorksIn(dir'["mini"], s) <=> WorksIn(dir["mini"], s)
    BY <2>1 DEF WorksIn
  <2>3. OursWork'
    BY <1>0, <2>1, <2>2 DEF OursWork
  <2> QED BY <1>1, <2>3 DEF RemovalIInv
<1> QED
  BY <1>2, <1>3

\* The session's checks, the login's events and edits of the agent.
LEMMA OthersKeep ==
  ASSUME RemovalIInv, RunIInv',
         \/ LoadCatalog \/ ChecksChanged \/ OutsideEdits \/ Done \/ UNCHANGED runVars
         \/ LoginStarts \/ LoginAnswered \/ LoginFails
         \/ \E id \in 1 .. MaxLogins : LoginEvent(id)
         \/ \E t \in Dirs \X Servers : EndCheck(t)
  PROVE  RemovalIInv'
<1>0. dir \in [Dirs -> ServerDirs]
  BY DEF RemovalIInv, RunIInv, RunTypeOK
<1>1. CASE UNCHANGED <<ui, made, connect, probes, commit, dir>>
  BY <1>1, BesideKeep DEF SameServers
<1>2. ASSUME NEW t \in Dirs \X Servers, EndCheck(t)
      PROVE  RemovalIInv'
  <2>1. PICK detected \in BOOLEAN :
            dir' = [dir EXCEPT ![t[1]].found = IF detected THEN @ \cup {t[2]} ELSE @]
    BY <1>2 DEF EndCheck
  <2>2. t[1] \in Dirs
    BY <1>2
  <2>3. SameServers
    BY <1>0, <2>1, <2>2 DEF SameServers, ServerDirs
  <2>4. UNCHANGED <<ui, made, connect, probes, commit>>
    BY <1>2 DEF EndCheck
  <2> QED BY <2>3, <2>4, BesideKeep DEF SameServers, Dirs
<1>3. (\E t \in Dirs \X Servers : EndCheck(t)) \/ UNCHANGED <<ui, made, connect, probes, commit, dir>>
  BY DEF LoadCatalog, ChecksChanged, OutsideEdits, Done, runVars, LoginStarts, LoginAnswered, LoginFails, LoginEvent
<1> QED
  BY <1>1, <1>2, <1>3

\* Every step of the run keeps the invariant.
LEMMA RemovalKeeps ==
  ASSUME RemovalIInv, [RunNext]_runVars
  PROVE  RemovalIInv'
<1>0. RunIInv /\ ScreensSave /\ PassedWork /\ OursWork /\ RunIInv'
  BY RunKeeps DEF RemovalIInv
<1>1. CASE Keys \/ Save \/ MoveOn \/ LoginLeft \/ UIEnds
  BY <1>0, <1>1, ScreensKeep
<1>2. CASE LoginSaved
  <2>1. ui.pc \notin Commits /\ commit' = commit
    <3>1. LoginRuns
      BY <1>2 DEF LoginSaved, LoginRuns
    <3> QED BY <1>0, <1>2, <3>1, NoLoginLater DEF LoginSaved
  <2> QED BY <1>0, <1>2, <2>1, NothingCommitted, LoginSavedFollows DEF RemovalIInv
<1>3. ASSUME NEW id \in 1 .. MaxConnects, EndProbes(id)
      PROVE  RemovalIInv'
  <2>1. ui.pc \notin Commits /\ commit' = commit
    BY <1>0, <1>3 DEF RunIInv, EndsInOrder, EndProbes
  <2> QED BY <1>0, <1>3, <2>1, NothingCommitted, EndProbesFollows DEF RemovalIInv
<1>4. ASSUME NEW id \in 1 .. MaxConnects, ConnectChecked(id)
      PROVE  RemovalIInv'
  <2>1. ui.pc \notin Commits /\ commit' = commit
    BY <1>4 DEF ConnectChecked, Free, Commits
  <2> QED BY <1>0, <1>4, <2>1, NothingCommitted, ConnectCheckedFollows DEF RemovalIInv
<1>5. CASE UIEnded \/ Close
  <2>1. ui.pc \notin Commits /\ commit' = commit
    BY <1>5 DEF UIEnded, Close, Commits
  <2> QED BY <1>0, <1>5, <2>1, NothingCommitted, EndingFollows, GoneFollows DEF RemovalIInv
<1>6. CASE BeginCommit \/ Discard \/ ConnectAgents
  BY <1>0, <1>6, BeginCommitWorks, AfterCommitWorks, EndingFollows, GoneFollows DEF RemovalIInv
<1>7. ASSUME NEW s \in Servers, CommitCheck(s) \/ CommitForget(s) \/ CommitCopy(s) \/ CommitCreate(s) \/ OutsideAdds(s)
      PROVE  RemovalIInv'
  <2>1. OursWork'
    BY <1>0, <1>7, CommitCheckWorks, CommitForgetWorks, CommitCopyWorks, CommitCreateWorks, OutsideAddsWorks
  <2>2. UNCHANGED <<ui, made, connect, probes>>
    BY <1>7 DEF CommitCheck, CommitForget, CommitCopy, CommitCreate, OutsideAdds
  <2>3. dir'["stage"] = dir["stage"]
    BY <1>0, <1>7 DEF CommitCheck, CommitForget, CommitCopy, CommitCreate, OutsideAdds, RunIInv, RunTypeOK, Dirs
  <2> QED BY <1>0, <2>1, <2>2, <2>3, StageKept DEF RemovalIInv
<1>8. CASE \/ LoadCatalog \/ ChecksChanged \/ OutsideEdits \/ Done \/ UNCHANGED runVars
           \/ LoginStarts \/ LoginAnswered \/ LoginFails
           \/ \E id \in 1 .. MaxLogins : LoginEvent(id)
           \/ \E t \in Dirs \X Servers : EndCheck(t)
  BY <1>0, <1>8, OthersKeep
<1> QED
  BY <1>1, <1>2, <1>3, <1>4, <1>5, <1>6, <1>7, <1>8 DEF RunNext, LoginSteps, EndSteps

\* What ConnectAgents takes from the agent mini serves in its place.
THEOREM RemovedServersAreServed == RunSpec => RemovedIsServed
<1>1. ASSUME RemovalIInv, [RunNext]_runVars, NEW s \in commit'.removed \ commit.removed
      PROVE  /\ dir["mini"].srv[s] = agent.entry[s]
             /\ agent'.mini = "serves"
             /\ s \in commit.ours => Works("mini", s)
  <2>0. RunIInv /\ OursWork /\ commit \in Commitments
    BY <1>1 DEF RemovalIInv, RunIInv, RunTypeOK
  <2>1. ConnectAgents
    <3>1. CASE commit' = commit
      BY <1>1, <3>1
    <3>2. CASE commit'.removed = commit.removed
      BY <1>1, <3>2
    <3>3. \/ commit' = commit \/ ConnectAgents \/ BeginCommit
          \/ \E x \in Servers : CommitCheck(x) \/ CommitForget(x) \/ CommitCopy(x) \/ CommitCreate(x)
      <4>1. Keys => commit' = commit
        BY DEF Keys, Continue, Choose, Back, CancelLogin, TickImport, TickCatalog, StartLogin
      <4>2. LoginSteps => commit' = commit
        BY DEF LoginSteps, LoginStarts, LoginAnswered, LoginSaved, LoginFails
      <4> QED
        BY <1>1, <4>1, <4>2 DEF RunNext, runVars, UIEnds, LoadCatalog, Save, MoveOn, LoginLeft, ChecksChanged, EndCheck, LoginEvent,
           EndProbes, ConnectChecked, EndSteps, UIEnded, Close, Discard, OutsideAdds, OutsideEdits, Done
    <3>4. BeginCommit => commit'.removed = commit.removed
      BY <2>0 DEF BeginCommit, Commitments
    <3>5. \A x \in Servers : CommitCheck(x) \/ CommitForget(x) \/ CommitCopy(x) \/ CommitCreate(x) => commit'.removed = commit.removed
      BY <2>0 DEF CommitCheck, CommitForget, CommitCopy, CommitCreate, Commitments
    <3> QED BY <3>1, <3>2, <3>3, <3>4, <3>5
  <2>2. /\ agent'.mini = IF agent.mini = "none" THEN "serves" ELSE agent.mini
        /\ commit'.removed = IF connect.chosen = "remove" THEN Removals ELSE {}
    <3>1. connect.chosen # "later"
      BY <1>1, <2>1 DEF ConnectAgents
    <3> DEFINE removed == IF connect.chosen = "remove" THEN Removals ELSE {}
    <3>2. /\ agent' = [entry |-> [x \in Servers |-> IF x \in removed THEN 0 ELSE agent.entry[x]],
                      mini |-> IF agent.mini = "none" THEN "serves" ELSE agent.mini]
          /\ commit' = [commit EXCEPT !.removed = removed]
      BY <2>1, <3>1 DEF ConnectAgents
    <3> HIDE DEF removed
    <3>3. commit'.removed = removed
      BY <2>0, <3>2 DEF Commitments
    <3> QED BY <3>2, <3>3 DEF removed
  <2>3. s \in Removals
    BY <1>1, <2>2
  <2>4. /\ ServedAfterEdit(agent.mini) /\ s \in Servers /\ s \in connect.passed
        /\ agent.entry[s] # 0 /\ dir["mini"].srv[s] = agent.entry[s]
    BY <2>3 DEF Removals, Duplicates
  <2>5. s \in commit.ours => Works("mini", s)
    BY <2>0, <2>4, WorksThere DEF OursWork
  <2> QED
    BY <2>2, <2>4, <2>5 DEF ServedAfterEdit
<1>2. RemovalIInv /\ [RunNext]_runVars => RemovalIInv'
  BY RemovalKeeps
<1>3. RemovalIInv /\ [RunNext]_runVars => [\A s \in commit'.removed \ commit.removed :
            /\ dir["mini"].srv[s] = agent.entry[s]
            /\ agent'.mini = "serves"
            /\ s \in commit.ours => Works("mini", s)]_runVars
  BY <1>1
<1> QED
  BY RemovalStarts, <1>2, <1>3, PTL DEF RunSpec, RemovedIsServed
=============================================================================
