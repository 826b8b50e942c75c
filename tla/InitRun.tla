------------------------------- MODULE InitRun -------------------------------
(***************************************************************************)
(* One run of mini init with its screens (cmd/mini/initcmd and its tui):   *)
(* the servers the user picks are staged, checked and logged in to, and    *)
(* only a finished run commits them to mini and edits the agent.           *)
(*                                                                         *)
(* The UI goroutine runs one message's handler at a time; a handler that   *)
(* waits (a save for the checks it cancelled, a leave for the login it     *)
(* cancelled) keeps the UI from everything else, which ui.pc shows.  Checks*)
(* of the session, the browser login and Connect's probes run beside it    *)
(* and reach it as messages.                                               *)
(*                                                                         *)
(* Settings of a server are a number: 1 the agent's, which Import offers,  *)
(* 2 the catalog's, 3 somebody else's; 0 is no server.  One agent stands   *)
(* for each of them.                                                       *)
(***************************************************************************)
EXTENDS Naturals, Sequences, FiniteSets

CONSTANTS Servers,      \* the names a run meets
          Importable,   \* those the agent has, which Import lists
          Listed,       \* those the catalog lists
          Kind,         \* how the server with these settings answers: <<server, settings>>
          MaxSaves, MaxLogins, MaxConnects, MaxOutside,  \* bounds, and of all of these together
          MaxRounds

Kinds == {"open", "oauth", "declared", "manual", "refuses"}
Settings == 0 .. 3
Dirs == {"stage", "mini"}

ASSUME ConstantsAssumption ==
    /\ Importable \subseteq Servers /\ Listed \subseteq Servers
    /\ Kind \in [Servers \X (1 .. 3) -> Kinds]
    /\ {MaxSaves, MaxLogins, MaxConnects, MaxOutside, MaxRounds} \subseteq Nat \ {0}

VARIABLES
    ui,        \* app and flow: screen, what its handler is doing, how the run ends
    picks,     \* the ticks on Import and Catalog
    dir,       \* the stage's and mini's servers, logins and detected OAuth
    made,      \* the stage exists
    checks,    \* session: running checks and what they found
    logins,    \* the Logins screen's copy and its results
    login,     \* the browser login's goroutine
    inbox,     \* of each login, the events its goroutine sent, and whether a command waits for one
    connect,   \* the Connect screen: plan and checks
    probes,    \* of each run of Connect's checks, its goroutine
    agent,     \* the agent's entries
    commit,    \* what Finish still has to do
    outside    \* how often something else changed mini or the agent

runVars == <<ui, picks, dir, made, checks, logins, login, inbox, connect, probes, agent, commit, outside>>

Imports == 1
Catalogs == 2
Logins == 3
Connects == 4
Review == 5
Past == 6

NoLogin == [pending |-> 0, id |-> 0, s |-> "", dir |-> "mini", v |-> 0, phase |-> "none", cancelled |-> FALSE]

-----------------------------------------------------------------------------
(* What a server still needs *)

Has(d, s) == dir[d].srv[s] # 0
KindOf(d, s) == Kind[<<s, dir[d].srv[s]>>]

\* UsesOAuthLogin: by its settings, or detected by a probe.
UsesOAuthLogin(d, s) == Has(d, s) /\ (KindOf(d, s) = "declared" \/ s \in dir[d].found)

\* ReadTokenState: a login made with other settings does not count.
LoggedIn(d, s) == dir[d].login[s] = dir[d].srv[s]

\* serverStatus.
NeedsLogin(d, s) ==
    UsesOAuthLogin(d, s) /\ ~LoggedIn(d, s) /\ s \notin checks.refused \cup checks.noSelfRegistration
NeedsHand(d, s) ==
    /\ Has(d, s)
    /\ s \in checks.refused \/ (UsesOAuthLogin(d, s) /\ ~LoggedIn(d, s) /\ s \in checks.noSelfRegistration)

\* A probe of the server can pass.
Works(d, s) ==
    Has(d, s) /\ (KindOf(d, s) = "open" \/ (KindOf(d, s) # "refuses" /\ LoggedIn(d, s)))

-----------------------------------------------------------------------------
(* The screens *)

Offered == IF picks.loaded = "yes" THEN {s \in Listed : s \notin picks.import} ELSE {}

\* adds: the picked imports, then the catalog's picks nothing imported covers.
Want == [s \in Servers |->
    CASE s \in picks.import -> 1
      [] s \in picks.catalog \cap Offered -> 2
      [] OTHER -> 0]

\* refresh of Logins: the running checks are read before the statuses.
RefreshLogins(l) ==
    LET need == {s \in Servers : \E d \in Dirs : NeedsLogin(d, s)}
        there == {s \in Servers : \E d \in Dirs : Has(d, s)}
    IN [l EXCEPT !.checking = checks.checking,
                 !.need = need,
                 !.rows = {s \in there : l.results[s] # "none" \/ s \in checks.checking \cup need},
                 !.byHand = {s \in Servers : \E d \in Dirs : NeedsHand(d, s)}]

\* servedAfterEdit: the agent ends up with a mini entry for this config directory.
ServedAfterEdit(entry) == entry \in {"none", "serves"}

\* Duplicates: entries with the settings of a server of mini, or of the stage.
Duplicates(dirs) ==
    {s \in Servers : agent.entry[s] # 0 /\ \E d \in dirs : dir[d].srv[s] = agent.entry[s]}

\* PlanConnect: what removing could replace, with the server each probe will reach; the stage's
\* server of a name hides mini's.
PlanConnect ==
    LET dirs == IF made THEN Dirs ELSE {"mini"}
        from(s) == IF made /\ Has("stage", s) THEN "stage" ELSE "mini"
        dups == IF ServedAfterEdit(agent.mini) THEN Duplicates(dirs) ELSE {}
    IN [targets |-> {<<from(s), s, dir[from(s)].srv[s]>> : s \in dups},
        listed |-> ~connect.withMini \/ dups # {}]

\* selectable: while the loading line shows, no row is.
Loading == logins.checking # {} /\ (\A s \in Servers : logins.results[s] = "none") /\ login.pending = 0
Selectable(s) == ~Loading /\ s \in (logins.rows \cap logins.need) \ logins.checking

CatalogEmpty == picks.loaded = "yes" /\ Offered = {}

\* empty, of each screen.  view is what Logins and Connect last read.
Shown(view) ==
    {i \in Imports .. Review :
        CASE i = Imports -> Importable # {}
          [] i = Catalogs -> ~CatalogEmpty
          [] i = Logins -> view.logins.rows \cup view.logins.byHand # {}
          [] i = Connects -> view.plan.listed
          [] i = Review -> ~view.plan.listed /\ (Importable # {} \/ ~CatalogEmpty)}

View == [logins |-> logins, plan |-> connect.plan]

\* refreshUpToNext(at, 1): the screens after at are read again, up to the first that has something.
RefreshAfter(at, view) ==
    LET reachesLogins == at < Logins /\ Shown(view) \cap (at + 1 .. Catalogs) = {}
        v1 == IF reachesLogins THEN [view EXCEPT !.logins = RefreshLogins(@)] ELSE view
        reachesConnects == at = Logins \/ (reachesLogins /\ Logins \notin Shown(v1))
    IN IF reachesConnects THEN [v1 EXCEPT !.plan = PlanConnect] ELSE v1

\* refreshUpToNext(at, -1).
RefreshBefore(at, view) ==
    LET v1 == IF at = Review THEN [view EXCEPT !.plan = PlanConnect] ELSE view
        reachesLogins == at = Connects \/ (at = Review /\ Connects \notin Shown(v1))
    IN IF reachesLogins THEN [v1 EXCEPT !.logins = RefreshLogins(@)] ELSE v1

\* nextShown.
NextShown(at, view) ==
    LET later == {i \in Shown(view) : i > at} IN
    IF later = {} THEN Past ELSE CHOOSE i \in later : \A j \in later : i <= j
PrevShown(at, view) ==
    LET earlier == {i \in Shown(view) : i < at} IN
    IF earlier = {} THEN at ELSE CHOOSE i \in earlier : \A j \in earlier : i >= j

-----------------------------------------------------------------------------
NoStage == [srv |-> [s \in Servers |-> 0], login |-> [s \in Servers |-> 0], found |-> {}]
NoPicks == [import |-> {}, catalog |-> {}, loaded |-> "no"]
NoLogins == [checking |-> {}, need |-> {}, rows |-> {}, byHand |-> {},
             results |-> [s \in Servers |-> "none"], waiting |-> FALSE]
NoEvents == [events |-> <<>>, awaited |-> FALSE]
NoProbes == [phase |-> "none", targets |-> {}, passed |-> {}]
NoPlan == [targets |-> {}, listed |-> FALSE]

Ended(pc, end) == [at |-> Past, pc |-> pc, to |-> 0, saved |-> FALSE, saves |-> 0, end |-> end]

RunInit ==
    /\ ui = [Ended("keys", "") EXCEPT !.at = Imports]
    \* mini remembers a login of an earlier server of each name.
    /\ dir = [d \in Dirs |-> [NoStage EXCEPT !.login = [s \in Servers |-> IF d = "mini" THEN 3 ELSE 0]]]
    /\ picks = [NoPicks EXCEPT !.import = Importable]
    /\ made = FALSE
    /\ checks = [running |-> {}, cancelled |-> FALSE, checking |-> {}, checked |-> {}, changed |-> FALSE,
                 refused |-> {}, noSelfRegistration |-> {}]
    /\ logins = NoLogins
    /\ login = NoLogin
    /\ inbox = [i \in 1 .. MaxLogins |-> NoEvents]
    /\ \E entry \in {"none", "serves"} :
        /\ agent = [entry |-> [s \in Servers |-> IF s \in Importable THEN 1 ELSE 0], mini |-> entry]
        /\ connect = [plan |-> NoPlan, withMini |-> entry = "serves", runs |-> 0,
                      stop |-> FALSE, done |-> FALSE, passed |-> {}, chosen |-> "later"]
    /\ probes = [i \in 1 .. MaxConnects |-> NoProbes]
    /\ commit = [left |-> {}, step |-> "", ours |-> {}, removed |-> {}]
    /\ outside = 0

Free == ui.pc = "keys"
Spare == ui.saves + login.id + connect.runs + outside < MaxRounds

-----------------------------------------------------------------------------
(* Import and Catalog *)

TickImport(s) ==
    /\ Free /\ ui.at = Imports /\ s \in Importable
    /\ picks' = [picks EXCEPT !.import = IF s \in @ THEN @ \ {s} ELSE @ \cup {s}]
    /\ UNCHANGED <<ui, dir, made, checks, logins, login, inbox, connect, probes, agent, commit, outside>>

\* The grid ticks only what is offered.
TickCatalog(s) ==
    /\ Free /\ ui.at = Catalogs /\ s \in Offered
    /\ picks' = [picks EXCEPT !.catalog = IF s \in @ THEN @ \ {s} ELSE @ \cup {s}]
    /\ UNCHANGED <<ui, dir, made, checks, logins, login, inbox, connect, probes, agent, commit, outside>>

\* catalogLoaded, a background message.
LoadCatalog ==
    /\ Free /\ picks.loaded = "no"
    /\ \E how \in {"yes", "failed"} : picks' = [picks EXCEPT !.loaded = how]
    /\ UNCHANGED <<ui, dir, made, checks, logins, login, inbox, connect, probes, agent, commit, outside>>

-----------------------------------------------------------------------------
(* Moving between screens *)

NoScreens == picks' = NoPicks /\ logins' = NoLogins

\* show, with the screen's enter.  Past the last one the UI ends: of the screens only what Connect
\* chose is still read.
Show(u, to, view, chosen) ==
    LET after == RefreshAfter(to, view)
        l == after.logins
        c == [connect EXCEPT !.plan = after.plan, !.chosen = chosen, !.stop = FALSE]
    IN \/ /\ to = Past
          /\ ui' = Ended("quitting", "finished")
          /\ connect' = [c EXCEPT !.plan = NoPlan, !.done = FALSE, !.passed = IF chosen = "remove" THEN @ ELSE {}]
          /\ NoScreens /\ UNCHANGED probes
       \/ /\ to # Past
          /\ ui' = [u EXCEPT !.pc = "keys", !.at = to]
          /\ picks' = [picks EXCEPT !.catalog = IF to = Catalogs THEN @ \cap Offered ELSE @]
          /\ logins' = [l EXCEPT !.waiting = @ \/ (to = Logins /\ l.checking # {})]
          /\ IF to = Connects
             THEN /\ connect' = [c EXCEPT !.runs = @ + 1, !.stop = TRUE, !.done = FALSE, !.passed = {}]
                  /\ probes' = [probes EXCEPT ![c.runs + 1] =
                                   [phase |-> "run", targets |-> c.plan.targets, passed |-> {}]]
             ELSE connect' = c /\ UNCHANGED probes

\* leave and show: Connect cancels its checks without waiting, Logins waits for the login it cancels.
MoveTo(u, to, view, chosen) ==
    IF u.at = Logins /\ login.pending # 0
    THEN /\ ui' = [u EXCEPT !.pc = "leaving", !.to = to]
         /\ login' = [login EXCEPT !.cancelled = TRUE]
         /\ logins' = view.logins
         /\ connect' = [connect EXCEPT !.plan = view.plan, !.chosen = chosen]
         /\ UNCHANGED <<picks, probes>>
    ELSE Show(u, to, view, chosen) /\ UNCHANGED login

\* crossedBy, and forward's rule for a run that never saved.
Saves(to) == (ui.at <= Catalogs /\ to > Catalogs) \/ (to = Past /\ ~ui.saved)

\* forward, up to its save, which cancels the checks and waits for them; a stage that cannot be
\* made saves nothing.
Forward(chosen) ==
    LET view == RefreshAfter(ui.at, View)
        to == NextShown(ui.at, view)
    IN \/ /\ Saves(to) /\ ui.saves < MaxSaves /\ Spare
          /\ ui' = [ui EXCEPT !.pc = "saving", !.saved = TRUE, !.saves = @ + 1]
          /\ checks' = [checks EXCEPT !.cancelled = TRUE]
          /\ made' = TRUE
          /\ logins' = view.logins
          /\ connect' = [connect EXCEPT !.plan = view.plan, !.chosen = chosen]
          /\ UNCHANGED <<login, picks, probes>>
       \/ /\ Saves(to) /\ ui.saves < MaxSaves /\ Spare /\ ~made
          /\ MoveTo([ui EXCEPT !.saved = TRUE, !.saves = @ + 1], to, view, chosen)
          /\ UNCHANGED <<checks, made>>
       \/ /\ ~Saves(to)
          /\ MoveTo(ui, to, view, chosen)
          /\ UNCHANGED <<checks, made>>

\* Continue, Save and finish.
Continue ==
    /\ Free /\ ui.at # Connects /\ ~(ui.at = Catalogs /\ picks.loaded = "no")
    /\ Forward(connect.chosen)
    /\ UNCHANGED <<dir, inbox, agent, commit, outside>>

\* choose, act: removing waits for the checks and needs something they let go.
Choose(choice) ==
    /\ Free /\ ui.at = Connects
    /\ choice = "remove" => connect.done /\ connect.passed # {}
    /\ Forward(choice)
    /\ UNCHANGED <<dir, inbox, agent, commit, outside>>

\* back, which works while the catalog loads too.
Back ==
    LET view == RefreshBefore(ui.at, View)
        to == PrevShown(ui.at, view)
    IN /\ Free /\ to # ui.at
       /\ ui.at = Connects => connect.runs < MaxConnects /\ Spare
       /\ MoveTo(ui, to, view, connect.chosen)
       /\ UNCHANGED <<dir, made, checks, inbox, agent, commit, outside>>

\* check targets: what a probe may tell, and logins whose registration is unknown.
CheckTargets(ds, checked) ==
    LET uses(d, s) == Kind[<<s, ds[d].srv[s]>>] = "declared" \/ s \in ds[d].found IN
    {t \in Dirs \X (Servers \ checked) :
        /\ ds[t[1]].srv[t[2]] # 0
        /\ uses(t[1], t[2]) => ds[t[1]].login[t[2]] # ds[t[1]].srv[t[2]]}

\* Sync: removeUnwanted, addMissing and startChecks.  A removal or an add can fail for some of them.
Sync ==
    LET staged == dir["stage"]
        changed == {s \in Servers : staged.srv[s] # Want[s]}
    IN \E stuck \in SUBSET {s \in changed : staged.srv[s] # 0},
          failed \in SUBSET {s \in changed : Want[s] # 0} :
        LET gone == {s \in changed : staged.srv[s] # 0} \ stuck
            ds == [dir EXCEPT !["stage"] =
                    [srv |-> [s \in Servers |-> IF s \in stuck THEN staged.srv[s]
                                                ELSE IF s \in failed THEN 0 ELSE Want[s]],
                     login |-> [s \in Servers |-> IF s \in changed \ stuck THEN 0 ELSE staged.login[s]],
                     found |-> staged.found \ (changed \ stuck)]]
            checked == checks.checked \ gone
            targets == CheckTargets(ds, checked)
        IN /\ stuck \cap failed = {}
           /\ dir' = ds
           /\ checks' = [checks EXCEPT !.running = targets, !.cancelled = FALSE, !.checked = checked,
                                       !.checking = {t[2] : t \in targets}, !.changed = TRUE]
           /\ logins' = [logins EXCEPT !.results = [s \in Servers |-> IF s \in gone THEN "none" ELSE @[s]]]

\* Save, once its cancelled checks ended, with the results of removed servers forgotten.
Save ==
    /\ ui.pc = "saving" /\ checks.running = {}
    /\ Sync
    /\ ui' = [ui EXCEPT !.pc = "moving"]
    /\ UNCHANGED <<picks, made, login, inbox, connect, probes, agent, commit, outside>>

\* The rest of forward: saving can empty or fill the screens after it.
MoveOn ==
    LET view == RefreshAfter(ui.at, View) IN
    /\ ui.pc = "moving"
    /\ MoveTo(ui, NextShown(ui.at, view), view, connect.chosen)
    /\ UNCHANGED <<dir, made, checks, inbox, agent, commit, outside>>

\* The cancelled login ended.  An esc that only cancelled it (to is 0) stays.
LoginLeft ==
    /\ ui.pc = "leaving" /\ login.phase = "done"
    /\ login' = [login EXCEPT !.pending = 0, !.cancelled = FALSE]
    /\ IF ui.to = 0
       THEN ui' = [ui EXCEPT !.pc = "keys"] /\ UNCHANGED <<picks, logins, connect, probes>>
       ELSE Show(ui, ui.to, View, connect.chosen)
    /\ UNCHANGED <<dir, made, checks, inbox, agent, commit, outside>>

-----------------------------------------------------------------------------
(* The session's checks *)

\* check with recordFindings.  A cut one, by its timeout or a cancel, may have detected OAuth and
\* otherwise proves nothing; a cancelled one runs again after the next save.
EndCheck(t) ==
    LET d == t[1]
        s == t[2]
        kind == KindOf(d, s)
        oauth == kind \in {"oauth", "manual"}
    IN /\ t \in checks.running
       /\ \E cut \in BOOLEAN, detected \in BOOLEAN :
            /\ ~cut => detected = oauth
            /\ detected => oauth
            /\ dir' = [dir EXCEPT ![d].found = IF detected THEN @ \cup {s} ELSE @]
            /\ checks' = [checks EXCEPT
                 !.running = @ \ {t},
                 !.checking = @ \ {s},
                 !.checked = IF checks.cancelled THEN @ ELSE @ \cup {s},
                 !.changed = TRUE,
                 !.refused = IF ~cut /\ kind = "refuses" THEN @ \cup {s} ELSE @ \ {s},
                 !.noSelfRegistration =
                    IF cut THEN @ ELSE IF kind = "manual" THEN @ \cup {s}
                    ELSE IF kind \in {"oauth", "declared"} THEN @ \ {s} ELSE @]
       /\ UNCHANGED <<ui, picks, made, logins, login, inbox, connect, probes, agent, commit, outside>>

ChecksChanged_Once ==
    /\ Free /\ logins.waiting /\ checks.changed
    /\ checks' = [checks EXCEPT !.changed = FALSE]
    /\ logins' = [RefreshLogins(logins) EXCEPT !.waiting = FALSE]
    /\ UNCHANGED <<ui, picks, dir, made, login, inbox, connect, probes, agent, commit, outside>>

\* checksChanged: one command waits on behalf of every running check.
ChecksChanged ==
    LET l == RefreshLogins(logins) IN
    /\ Free /\ logins.waiting /\ checks.changed
    /\ checks' = [checks EXCEPT !.changed = FALSE]
    /\ logins' = [l EXCEPT !.waiting = l.checking # {}]
    /\ UNCHANGED <<ui, picks, dir, made, login, inbox, connect, probes, agent, commit, outside>>

-----------------------------------------------------------------------------
(* The browser login *)

\* startLogin; configDirFor says where it will be saved.
StartLogin(s) ==
    LET d == IF Has("stage", s) THEN "stage" ELSE "mini" IN
    /\ Free /\ ui.at = Logins /\ login.pending = 0 /\ Selectable(s) /\ login.id < MaxLogins /\ Spare
    /\ login' = [pending |-> login.id + 1, id |-> login.id + 1, s |-> s, dir |-> d, v |-> dir[d].srv[s],
                 phase |-> "begin", cancelled |-> FALSE]
    /\ inbox' = [inbox EXCEPT ![login.id + 1].awaited = TRUE]
    /\ UNCHANGED <<ui, picks, dir, made, checks, logins, connect, probes, agent, commit, outside>>

\* esc on the rows cancels the login and stays.
CancelLogin ==
    /\ Free /\ ui.at = Logins /\ login.pending # 0
    /\ ui' = [ui EXCEPT !.pc = "leaving", !.to = 0]
    /\ login' = [login EXCEPT !.cancelled = TRUE]
    /\ UNCHANGED <<picks, dir, made, checks, logins, inbox, connect, probes, agent, commit, outside>>

\* The events channel holds all a login sends.
EventsSize == 2

Send(event) ==
    /\ Len(inbox[login.id].events) < EventsSize
    /\ inbox' = [inbox EXCEPT ![login.id].events = Append(@, event)]

\* runLogin from BeginLogin to the saved token: the callback port is bound and the server asked
\* how to log in; the browser answers with a code, or refuses, or nobody answers before the
\* timeout or a cancel; the code is exchanged; the login is saved whether or not it was cancelled
\* meanwhile.  Each part can fail, and a cancelled one may still have succeeded.
LoginFails ==
    /\ login.phase \in {"begin", "browser", "exchange"}
    /\ login' = [login EXCEPT !.phase = "done"]
    /\ Send("err")
    /\ UNCHANGED <<ui, picks, dir, made, checks, logins, connect, probes, agent, commit, outside>>

LoginStarts ==
    /\ login.phase = "begin"
    /\ login' = [login EXCEPT !.phase = "browser"]
    /\ Send("started")
    /\ UNCHANGED <<ui, picks, dir, made, checks, logins, connect, probes, agent, commit, outside>>

LoginAnswered ==
    /\ login.phase = "browser"
    /\ login' = [login EXCEPT !.phase = "exchange"]
    /\ UNCHANGED <<ui, picks, dir, made, checks, logins, inbox, connect, probes, agent, commit, outside>>

LoginSaved ==
    /\ login.phase = "exchange"
    /\ dir' = [dir EXCEPT ![login.dir].login[login.s] = login.v]
    /\ login' = [login EXCEPT !.phase = "done"]
    /\ Send("ok")
    /\ UNCHANGED <<ui, picks, made, checks, logins, connect, probes, agent, commit, outside>>

\* loginStarted and loginFinished; those of a login that is no longer pending are ignored.
LoginEvent(id) ==
    LET event == Head(inbox[id].events)
        l == [logins EXCEPT !.results[login.s] = event]
    IN /\ Free /\ inbox[id].awaited /\ inbox[id].events # <<>>
       /\ \/ /\ id # login.pending
             /\ inbox' = [inbox EXCEPT ![id] = NoEvents]
             /\ UNCHANGED <<logins, login>>
          \/ /\ id = login.pending /\ event = "started"
             /\ inbox' = [inbox EXCEPT ![id].events = Tail(@)]
             /\ UNCHANGED <<logins, login>>
          \/ /\ id = login.pending /\ event # "started"
             /\ inbox' = [inbox EXCEPT ![id] = NoEvents]
             /\ login' = [login EXCEPT !.pending = 0]
             /\ logins' = RefreshLogins(l)
       /\ UNCHANGED <<ui, picks, dir, made, checks, connect, probes, agent, commit, outside>>

-----------------------------------------------------------------------------
(* Connect's checks *)

\* ConnectPlan.Check ends: of the servers as the plan read them, those whose probe passed.  A
\* probe, a cancelled one too, may record that its server uses OAuth, under its name.
EndProbes(id) ==
    LET targets == probes[id].targets
        same == {t \in targets : dir[t[1]].srv[t[2]] = t[3]}
    IN /\ probes[id].phase = "run"
       /\ \E passed \in SUBSET {t[2] : t \in {u \in same : Works(u[1], u[2])}},
             detected \in SUBSET {t \in targets : Kind[<<t[2], t[3]>>] = "oauth" /\ ~LoggedIn(t[1], t[2])} :
            /\ probes' = [probes EXCEPT ![id] = [phase |-> "ended", targets |-> {}, passed |-> passed]]
            /\ dir' = [d \in Dirs |-> [dir[d] EXCEPT !.found = @ \cup {t[2] : t \in {u \in detected : u[1] = d}}]]
       /\ UNCHANGED <<ui, picks, made, checks, logins, login, inbox, connect, agent, commit, outside>>

\* connectChecked: only the current run's result counts, and only until it is cancelled.
ConnectChecked(id) ==
    /\ Free /\ probes[id].phase = "ended"
    /\ probes' = [probes EXCEPT ![id] = NoProbes]
    /\ connect' = IF id = connect.runs /\ connect.stop
                  THEN [connect EXCEPT !.done = TRUE, !.passed = probes[id].passed, !.stop = FALSE] ELSE connect
    /\ UNCHANGED <<ui, picks, dir, made, checks, logins, login, inbox, agent, commit, outside>>

-----------------------------------------------------------------------------
(* The end of the run *)

\* The UI program returns: on ctrl+c, Exit without saving, a signal or an error, or after the last
\* screen, where a ctrl+c queued behind that key still counts.  What runs beside it is cancelled.
UIEnds ==
    /\ \/ Free /\ ui' = Ended("ending", "quit")
       \/ ui.pc = "quitting" /\ \E end \in {"finished", "quit"} : ui' = Ended("ending", end)
    /\ login' = [login EXCEPT !.cancelled = login.pending # 0]
    /\ connect' = [connect EXCEPT !.stop = FALSE, !.plan = NoPlan, !.done = FALSE]
    /\ NoScreens
    /\ inbox' = [i \in 1 .. MaxLogins |-> IF i = login.id /\ login.phase # "done" THEN inbox[i] ELSE NoEvents]
    /\ probes' = [i \in 1 .. MaxConnects |-> IF probes[i].phase = "run" THEN probes[i] ELSE NoProbes]
    /\ UNCHANGED <<dir, made, checks, agent, commit, outside>>

AllStopped_LoginOnly == login.cancelled => login.phase = "done"

\* cancelLogin and cancelAndWait.
AllStopped ==
    /\ login.cancelled => login.phase = "done"
    /\ \A i \in 1 .. MaxConnects : probes[i].phase # "run"

\* A run that did not finish cancels its checks; one that did lets them end.
UIEnded ==
    /\ ui.pc = "ending" /\ AllStopped
    /\ login' = [login EXCEPT !.pending = 0, !.cancelled = FALSE]
    /\ ui' = [ui EXCEPT !.pc = IF ui.end = "finished" THEN "waiting" ELSE "closing"]
    /\ checks' = [checks EXCEPT !.cancelled = ui.end # "finished"]
    /\ UNCHANGED <<picks, dir, made, logins, inbox, connect, probes, agent, commit, outside>>

\* Close: the cancelled checks ended; the stage goes with its logins.
Close ==
    /\ ui.pc = "closing" /\ checks.running = {}
    /\ ui' = [ui EXCEPT !.pc = "done"]
    /\ checks' = [checks EXCEPT !.checking = {}]
    /\ made' = FALSE
    /\ dir' = [dir EXCEPT !["stage"] = NoStage]
    /\ UNCHANGED <<picks, logins, login, inbox, connect, probes, agent, commit, outside>>

\* Finish, once WaitChecks returned.
BeginCommit ==
    /\ ui.pc = "waiting" /\ checks.running = {}
    /\ ui' = [ui EXCEPT !.pc = "committing"]
    /\ commit' = [commit EXCEPT !.left = {s \in Servers : Has("stage", s)}]
    /\ UNCHANGED <<picks, dir, made, checks, logins, login, inbox, connect, probes, agent, outside>>

Committing(s, step) == ui.pc = "committing" /\ s \in commit.left /\ commit.step = step

\* commitServer: a name taken meanwhile is left alone.
CommitCheck(s) ==
    /\ Committing(s, "") /\ s = CHOOSE x \in commit.left : TRUE
    /\ commit' = IF Has("mini", s) THEN [commit EXCEPT !.left = @ \ {s}] ELSE [commit EXCEPT !.step = "forget"]
    /\ UNCHANGED <<ui, picks, dir, made, checks, logins, login, inbox, connect, probes, agent, outside>>

CommitForget_Keeps(s) ==
    /\ Committing(s, "forget") /\ s = CHOOSE x \in commit.left : TRUE
    /\ commit' = [commit EXCEPT !.step = "copy"]
    /\ UNCHANGED <<ui, picks, dir, made, checks, logins, login, inbox, connect, probes, agent, outside>>

\* ForgetServerState: what mini remembers of the name, whoever has it by now.
CommitForget(s) ==
    /\ Committing(s, "forget") /\ s = CHOOSE x \in commit.left : TRUE
    /\ commit' = [commit EXCEPT !.step = "copy"]
    /\ dir' = [dir EXCEPT !["mini"].login[s] = 0, !["mini"].found = @ \ {s}]
    /\ UNCHANGED <<ui, picks, made, checks, logins, login, inbox, connect, probes, agent, outside>>

\* copyState.
CommitCopy(s) ==
    /\ Committing(s, "copy") /\ s = CHOOSE x \in commit.left : TRUE
    /\ dir' = [dir EXCEPT !["mini"].login[s] = IF dir["stage"].login[s] # 0 THEN dir["stage"].login[s] ELSE @,
                          !["mini"].found = IF s \in dir["stage"].found THEN @ \cup {s} ELSE @]
    /\ commit' = [commit EXCEPT !.step = "create"]
    /\ UNCHANGED <<ui, picks, made, checks, logins, login, inbox, connect, probes, agent, outside>>

\* CreateServerFileData: created, never replaced.
CommitCreate(s) ==
    /\ Committing(s, "create") /\ s = CHOOSE x \in commit.left : TRUE
    /\ IF Has("mini", s)
       THEN commit' = [commit EXCEPT !.left = @ \ {s}, !.step = ""] /\ UNCHANGED dir
       ELSE /\ commit' = [commit EXCEPT !.left = @ \ {s}, !.step = "", !.ours = @ \cup {s}]
            /\ dir' = [dir EXCEPT !["mini"].srv[s] = dir["stage"].srv[s]]
    /\ UNCHANGED <<ui, picks, made, checks, logins, login, inbox, connect, probes, agent, outside>>

\* discardStage.
Discard ==
    /\ ui.pc = "committing" /\ commit.left = {}
    /\ ui' = [ui EXCEPT !.pc = "connecting"]
    /\ made' = FALSE
    /\ dir' = [dir EXCEPT !["stage"] = NoStage]
    /\ UNCHANGED <<picks, checks, logins, login, inbox, connect, probes, agent, commit, outside>>

Removals_Counted == connect.passed

\* removals: duplicates as they are now, whose server passed its check and which Connect counted.
Removals == IF ServedAfterEdit(agent.mini) THEN Duplicates({"mini"}) \cap connect.passed ELSE {}

\* apply and editedConfig: the agent's own mini entry stays, and one is added where there is none.
ConnectAgents ==
    LET removed == IF connect.chosen = "remove" THEN Removals ELSE {} IN
    /\ ui.pc = "connecting"
    /\ ui' = [ui EXCEPT !.pc = "done"]
    /\ IF connect.chosen = "later"
       THEN UNCHANGED <<agent, commit>>
       ELSE /\ agent' = [entry |-> [s \in Servers |-> IF s \in removed THEN 0 ELSE agent.entry[s]],
                         mini |-> IF agent.mini = "none" THEN "serves" ELSE agent.mini]
            /\ commit' = [commit EXCEPT !.removed = removed]
    /\ UNCHANGED <<picks, dir, made, checks, logins, login, inbox, connect, probes, outside>>

-----------------------------------------------------------------------------
(* Everything else on the machine *)

\* mini add of another process: a new server starts with no login.
OutsideAdds(s) ==
    /\ ui.pc # "done" /\ outside < MaxOutside /\ Spare /\ ~Has("mini", s)
    /\ dir' = [dir EXCEPT !["mini"].srv[s] = 1, !["mini"].login[s] = 0, !["mini"].found = @ \ {s}]
    /\ outside' = outside + 1
    /\ UNCHANGED <<ui, picks, made, checks, logins, login, inbox, connect, probes, agent, commit>>

\* The user edits the agent's configuration.
OutsideEdits ==
    /\ ui.pc # "done" /\ outside < MaxOutside /\ Spare
    /\ \/ \E s \in Servers : agent.entry[s] = 1 /\ agent' = [agent EXCEPT !.entry[s] = 3]
       \/ agent.mini = "none" /\ agent' = [agent EXCEPT !.mini = "inactive"]
    /\ outside' = outside + 1
    /\ UNCHANGED <<ui, picks, dir, made, checks, logins, login, inbox, connect, probes, commit>>

Done == ui.pc = "done" /\ UNCHANGED runVars

Keys ==
    \/ \E s \in Servers : TickImport(s) \/ TickCatalog(s) \/ StartLogin(s)
    \/ Continue \/ Back \/ CancelLogin
    \/ \E c \in {"later", "only", "remove"} : Choose(c)

LoginSteps == LoginStarts \/ LoginAnswered \/ LoginSaved \/ LoginFails
EndSteps == UIEnded \/ Close \/ BeginCommit \/ Discard \/ ConnectAgents
                \/ \E s \in Servers : CommitCheck(s) \/ CommitForget(s) \/ CommitCopy(s) \/ CommitCreate(s)

RunNext ==
    \/ Keys \/ UIEnds \/ LoadCatalog \/ Save \/ MoveOn \/ LoginLeft \/ ChecksChanged
    \/ \E t \in Dirs \X Servers : EndCheck(t)
    \/ LoginSteps \/ \E id \in 1 .. MaxLogins : LoginEvent(id)
    \/ \E id \in 1 .. MaxConnects : EndProbes(id) \/ ConnectChecked(id)
    \/ EndSteps
    \/ \E s \in Servers : OutsideAdds(s)
    \/ OutsideEdits
    \/ Done

RunSpec == RunInit /\ [][RunNext]_runVars

-----------------------------------------------------------------------------
(* Properties *)

\* Once the run is over nothing of it is left: no stage, no login that could still save a token,
\* no check or probe with its server process; and a run that did not finish changed neither mini
\* nor the agent.
NothingOutlivesTheRun ==
    ui.pc = "done" =>
        /\ ~made /\ checks.running = {}
        /\ login.phase \in {"none", "done"}
        /\ \A i \in 1 .. MaxConnects : probes[i].phase # "run"
        /\ ui.end # "finished" => commit.ours = {} /\ commit.removed = {}

\* A server becomes mini's with the login the user made for these settings, or with none: never
\* one left by an earlier server of its name.  And what Logins shows as logged in is, in the
\* settings now staged (a server somebody else added under the name aside).
LoginsAreKept ==
    /\ \A s \in commit.ours : dir["mini"].login[s] \in {0, dir["mini"].srv[s]}
    /\ made => \A s \in Servers : Has("stage", s) =>
                    /\ dir["stage"].login[s] \in {0, dir["stage"].srv[s]}
                    /\ logins.results[s] = "ok" /\ outside = 0 => LoggedIn("stage", s)

\* What ConnectAgents takes from the agent mini serves in its place: the same settings, through
\* a mini entry the agent ends up with, and, when this run added the server, with a login that
\* works.
RemovedIsServed ==
    [][\A s \in commit'.removed \ commit.removed :
            /\ dir["mini"].srv[s] = agent.entry[s]
            /\ agent'.mini = "serves"
            /\ s \in commit.ours => Works("mini", s)]_runVars

\* No check's end is lost on the Logins screen: while it shows a check that is not running, or does
\* not show one that is, the command that waits for a change is there and a change is to come.
ChecksAreSeen ==
    Free /\ ui.at = Logins /\ logins.checking # checks.checking =>
        logins.waiting /\ (checks.changed \/ checks.running # {})
=============================================================================
