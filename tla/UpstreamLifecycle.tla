-------------------------- MODULE UpstreamLifecycle --------------------------
(***************************************************************************)
(* How one configured server is connected, replaced, reconnected, logged   *)
(* in to, removed and kept equal to its file (internal/server:             *)
(* upstream_install.go, upstream_reconnect.go, upstream_connector.go,      *)
(* config_tool_servers.go, config_tool_auth.go, config_files.go,           *)
(* startup_state.go, server.go).                                           *)
(*                                                                         *)
(* All state is kept per server name and the names share only mutexes, so  *)
(* one name is modelled.  A critical section of serverOpMu is one action;  *)
(* dialling, listing tools, waiting for a browser login, backing off and   *)
(* reading or writing files are actions of their own, between which the    *)
(* other goroutines run.  The per-name lock (serverNames) is held by the   *)
(* single admin operation in progress.                                     *)
(***************************************************************************)
EXTENDS Naturals, FiniteSets

CONSTANTS
    Settings,    \* contents of the server file that need a reconnect to apply
    Flags,       \* values of its enabled field
    Conns,       \* connections open or referred to at one time
    Ups,         \* upstreamServer objects alive at one time
    None,        \* no file, record, connection or upstream
    Scenarios,   \* bound: how often each kind of outside event happens, one of these
    AuthUnrecorded  \* start_auth is called for servers that are not (yet) loaded

Events == {"edit", "cliLogin", "login", "add", "remove", "drop", "close"}

ASSUME LifecycleAssumption ==
    /\ None \notin Settings \cup Conns \cup Ups
    /\ TRUE \in Flags /\ Flags \subseteq BOOLEAN
    /\ Scenarios \subseteq [Events -> Nat]
    /\ \E most \in Scenarios : \A s \in Scenarios : s["login"] <= most["login"]
    /\ AuthUnrecorded \in BOOLEAN

VARIABLES
    file,      \* the server file: None or its settings and enabled flag
    token,     \* the saved login: 0, or the flow or CLI login that saved it
    savedAt,   \* the token file's time stamp
    removeGen,
    current,   \* upstreams[name]
    ups,       \* the upstreamServer objects
    registry,  \* None, or the connection whose tools the registry lists
    record,    \* configServers[name]
    ready,     \* startup.toolsReady[name]
    failure,   \* startup.failures[name]
    open,      \* open connections
    installs,  \* goroutines carrying out an upstreamInstall
    flow,      \* authFlows[name]: 0 or the number of the login
    admin,     \* the operation that holds the name lock
    closing,   \* progress of Server.Close
    removed,   \* remove_server, or add_server taking back what it saved, deleted the
               \* file and nothing has asked for the server since
    left       \* outside events still to come

disk == <<file, token, savedAt>>
serving == <<current, ups, registry, record, ready, failure, open, removeGen>>
vars == <<disk, serving, installs, flow, admin, closing, removed, left>>

Files == [settings: Settings, enabled: Flags] \cup {None}
Records == [settings: Settings, loginAt: Nat] \cup {None}

\* pc is "idle" unless the reconnect loop runs (the reconnecting flag); new is the
\* connection it has dialled.
Upstream == [cfg: Settings \cup {None}, conn: Conns \cup {None}, live: BOOLEAN,
             pc: {"idle", "dial", "list", "swap", "publish"}, new: Conns \cup {None}]
NoUpstream == [cfg |-> None, conn |-> None, live |-> FALSE, pc |-> "idle", new |-> None]

\* An upstreamInstall being carried out, by the startup connector, by add_server
\* or at the end of a login.  at is the login time read before recording a failure.
Install == [kind: {"startup", "add", "login"}, cfg: Settings, gen: Nat,
            pc: {"check", "dial", "list", "install", "backoff", "stat", "fail",
                 "wait", "commit", "record", "clear"},
            conn: Conns \cup {None}, flow: Nat, cancelled: BOOLEAN, at: Nat]

Admin == [op: {"none", "add", "rollback", "remove", "check"},
          pc: {"none", "detach", "change", "detachAgain", "connect", "connecting",
               "record", "lookup", "decide", "remove", "reconnect"},
          file: Files, ok: BOOLEAN]
NoAdmin == [op |-> "none", pc |-> "none", file |-> None, ok |-> TRUE]

TypeOK ==
    /\ file \in Files /\ token \in Nat /\ savedAt \in Nat
    /\ removeGen \in Nat
    /\ current \in Ups \cup {None}
    /\ ups \in [Ups -> Upstream]
    /\ registry \in Conns \cup {None}
    /\ record \in Records
    /\ ready \in BOOLEAN
    /\ failure \in {"none", "needsAuth", "other"}
    /\ open \subseteq Conns
    /\ installs \subseteq Install
    /\ flow \in Nat
    /\ admin \in Admin
    /\ closing \in {"open", "begun", "stopped", "drained", "closed"}
    /\ removed \in BOOLEAN
    /\ left \in [Events -> Nat]

\* Started with or without the server in its directory: ConnectUpstreams has
\* recorded an enabled one and its connector goroutine is about to begin.
StartupInstall(s) ==
    [kind |-> "startup", cfg |-> s, gen |-> removeGen, pc |-> "check", conn |-> None,
     flow |-> 0, cancelled |-> FALSE, at |-> 0]

Enabled(f) == f # None /\ f.enabled

Init ==
    /\ file \in Files
    /\ token = 0 /\ savedAt = 0 /\ removeGen = 0
    /\ current = None /\ ups = [u \in Ups |-> NoUpstream] /\ registry = None
    /\ ready = FALSE /\ failure = "none" /\ open = {}
    /\ IF Enabled(file)
       THEN /\ record = [settings |-> file.settings, loginAt |-> 0]
            /\ installs = {StartupInstall(file.settings)}
       ELSE record = None /\ installs = {}
    /\ flow = 0 /\ admin = NoAdmin /\ closing = "open"
    /\ removed = FALSE /\ left \in Scenarios

\* An event of the outside world happens once more.
Happens(e) == left[e] > 0 /\ left' = [left EXCEPT ![e] = @ - 1]

-----------------------------------------------------------------------------
(* The disk, written from outside: an editor and mini auth *)

EditFile(f) ==
    /\ Happens("edit")
    /\ file' = f /\ file' # file
    /\ removed' = FALSE
    /\ UNCHANGED <<token, savedAt, serving, installs, flow, admin, closing>>

\* mini auth in another process saves a login; 1 marks a login from outside.
CLILogin ==
    /\ Happens("cliLogin")
    /\ file # None
    /\ token' = 1 /\ savedAt' = savedAt + 1
    /\ UNCHANGED <<file, serving, installs, flow, admin, closing, removed>>

-----------------------------------------------------------------------------
(* Connections and upstreams *)

Referred == open \cup {registry} \cup {t.conn : t \in installs}
                 \cup {ups[u].conn : u \in Ups} \cup {ups[u].new : u \in Ups}

\* A dial gives a connection nothing refers to; which one does not matter.
Dialled == CHOOSE c \in Conns : c \notin Referred
CanDial == \E c \in Conns : c \notin Referred

\* Objects that are garbage: not registered, and no goroutine runs for them.
FreeUps == {u \in Ups : u # current /\ ~ups[u].live /\ ups[u].pc = "idle"}
NewUp == CHOOSE u \in FreeUps : TRUE

\* An object that is no longer referred to is forgotten.
Forget(us, u, cur) ==
    IF u \in Ups /\ u # cur /\ us[u].pc = "idle" /\ ~us[u].live
    THEN [us EXCEPT ![u] = NoUpstream] ELSE us

\* shutdownAndClose: the context first, then the last connection.
ShutDown(u) == [ups EXCEPT ![u].live = FALSE]

-----------------------------------------------------------------------------
(* detachAndCloseServer and reconnectConfigServer's variant *)

\* cancelExistingAuthFlow: the login of the current flow is closed and its
\* context cancelled.
Cancelled(ts) ==
    {IF t.kind = "login" /\ t.flow = flow THEN [t EXCEPT !.cancelled = TRUE] ELSE t : t \in ts}

\* Fault: the generation is left alone.
Detached_SameGen ==
    /\ removeGen' = removeGen
    /\ current' = None /\ registry' = None
    /\ IF current # None
       THEN /\ ups' = Forget(ShutDown(current), current, None)
            /\ open' = open \ {ups[current].conn}
       ELSE UNCHANGED <<ups, open>>
    /\ record' = None /\ ready' = FALSE /\ failure' = "none"

Detached ==
    /\ removeGen' = removeGen + 1
    /\ current' = None /\ registry' = None
    /\ IF current # None
       THEN /\ ups' = Forget(ShutDown(current), current, None)
            /\ open' = open \ {ups[current].conn}
       ELSE UNCHANGED <<ups, open>>
    /\ record' = None /\ ready' = FALSE /\ failure' = "none"

DetachAndCloseServer ==
    /\ installs' = Cancelled(installs)
    /\ flow' = 0
    /\ Detached

-----------------------------------------------------------------------------
(* Carrying out an install *)

Become(t, new) == installs' = (installs \ {t}) \cup {new}
At(t, pc) == [t EXCEPT !.pc = pc]

\* What the goroutine does after the dial, the listing or the install failed:
\* the connector backs off or, for a terminal error, records it; a login's flow
\* ends; add_server takes back what it saved.
Failed(t, terminal) ==
    CASE t.kind = "startup" ->
            /\ Become(t, [t EXCEPT !.pc = IF terminal THEN "stat" ELSE "backoff", !.conn = None])
            /\ admin' = admin
      [] t.kind = "login" ->
            /\ Become(t, [t EXCEPT !.pc = "clear", !.conn = None])
            /\ admin' = admin
      [] t.kind = "add" ->
            /\ installs' = installs \ {t}
            /\ admin' = [admin EXCEPT !.op = "rollback", !.pc = "detach"]

\* checkInstallLocked.
Superseded(t) == t.gen # removeGen
AlreadyRunning(t) == t.kind # "login" /\ current # None

\* connectAtStartup looks before it dials; a rejected startup install is given up.
Check(t) ==
    /\ t \in installs /\ t.pc = "check"
    /\ IF Superseded(t) \/ AlreadyRunning(t)
       THEN installs' = installs \ {t}
       ELSE Become(t, At(t, "dial"))
    /\ UNCHANGED <<disk, serving, flow, admin, closing, removed, left>>

Dial(t) ==
    /\ t \in installs /\ t.pc = "dial" /\ ~t.cancelled
    /\ CanDial
    /\ open' = open \cup {Dialled}
    /\ Become(t, [t EXCEPT !.pc = "list", !.conn = Dialled])
    /\ UNCHANGED <<disk, current, ups, registry, record, ready, failure, removeGen, flow,
                   admin, closing, removed, left>>

DialFails(t, terminal) ==
    /\ t \in installs /\ t.pc = "dial"
    /\ Failed(t, terminal)
    /\ UNCHANGED <<disk, serving, flow, closing, removed, left>>

ListTools(t) ==
    /\ t \in installs /\ t.pc = "list" /\ ~t.cancelled
    /\ Become(t, At(t, "install"))
    /\ UNCHANGED <<disk, serving, flow, admin, closing, removed, left>>

ListFails(t, terminal) ==
    /\ t \in installs /\ t.pc = "list"
    /\ open' = open \ {t.conn}
    /\ Failed(t, terminal)
    /\ UNCHANGED <<disk, current, ups, registry, record, ready, failure, removeGen, flow,
                   closing, removed, left>>

\* What the goroutine does once its upstream is registered.
Registered(t) ==
    CASE t.kind = "startup" -> installs' = installs \ {t} /\ admin' = admin
      [] t.kind = "login"   -> Become(t, [t EXCEPT !.pc = "record", !.conn = None]) /\ admin' = admin
      [] t.kind = "add"     -> installs' = installs \ {t} /\ admin' = [admin EXCEPT !.pc = "record"]

\* installUpstreamLocked: the new object replaces the old, which is shut down.
InstallUpstream(t, u) ==
    LET new == [cfg |-> t.cfg, conn |-> t.conn, live |-> TRUE, pc |-> "idle", new |-> None]
    IN  /\ current' = u
        /\ IF current # None
           THEN /\ ups' = [Forget(ShutDown(current), current, None) EXCEPT ![u] = new]
                /\ open' = open \ {ups[current].conn}
           ELSE /\ ups' = [ups EXCEPT ![u] = new]
                /\ open' = open
        /\ registry' = t.conn
        /\ ready' = TRUE

InstallChecked(t) ==
    /\ t \in installs /\ t.pc = "install"
    /\ ~Superseded(t) /\ ~AlreadyRunning(t)
    /\ FreeUps # {}
    /\ InstallUpstream(t, NewUp)
    /\ Registered(t)
    /\ UNCHANGED <<disk, record, failure, removeGen, flow, closing, removed, left>>

\* The connection of a rejected install is closed.
Rejected(t) == open \ {t.conn}

InstallRejected(t) ==
    /\ t \in installs /\ t.pc = "install"
    /\ Superseded(t) \/ AlreadyRunning(t)
    /\ open' = Rejected(t)
    /\ IF t.kind = "startup"
       THEN installs' = installs \ {t} /\ admin' = admin
       ELSE Failed(t, FALSE)
    /\ UNCHANGED <<disk, current, ups, registry, record, ready, failure, removeGen, flow,
                   closing, removed, left>>

-----------------------------------------------------------------------------
(* The startup connector's own steps *)

\* Fault: a stopped connector goes on retrying.
Backoff_IgnoresStop(t) ==
    /\ t \in installs /\ t.pc = "backoff"
    /\ Become(t, At(t, "check"))
    /\ UNCHANGED <<disk, serving, flow, admin, closing, removed, left>>

\* The backoff passes, or the connector was stopped.
Backoff(t) ==
    /\ t \in installs /\ t.pc = "backoff"
    /\ IF t.cancelled THEN installs' = installs \ {t} ELSE Become(t, At(t, "check"))
    /\ UNCHANGED <<disk, serving, flow, admin, closing, removed, left>>

\* recordStartupFailure first reads the login's time, then takes serverOpMu.
StatLogin(t) ==
    /\ t \in installs /\ t.pc = "stat"
    /\ Become(t, [t EXCEPT !.pc = "fail", !.at = savedAt])
    /\ UNCHANGED <<disk, serving, flow, admin, closing, removed, left>>

FailureRecord(t) == IF record = None THEN None ELSE [record EXCEPT !.loginAt = t.at]

RecordStartupFailure(t, why) ==
    /\ t \in installs /\ t.pc = "fail"
    /\ installs' = installs \ {t}
    /\ IF Superseded(t)
       THEN UNCHANGED <<failure, record>>
       ELSE /\ failure' = why
            /\ record' = FailureRecord(t)
    /\ UNCHANGED <<disk, current, ups, registry, ready, open, removeGen, flow, admin, closing,
                   removed, left>>

-----------------------------------------------------------------------------
(* Logins: handleStartAuth and runAuthFlow *)

MaxLogins == CHOOSE n \in {s["login"] : s \in Scenarios} : \A s \in Scenarios : s["login"] <= n
Flows == 2 .. (MaxLogins + 1)
NextFlow == MaxLogins - left["login"] + 2

LoginInstall ==
    [kind |-> "login", cfg |-> file.settings, gen |-> removeGen, pc |-> "wait", conn |-> None,
     flow |-> NextFlow, cancelled |-> FALSE, at |-> 0]

\* Takes the name lock for its whole run, replaces a login in progress.
StartAuth ==
    /\ closing = "open" /\ admin = NoAdmin
    /\ file # None
    /\ AuthUnrecorded \/ record # None
    /\ Happens("login")
    /\ flow' = NextFlow
    /\ installs' = Cancelled(installs) \cup {LoginInstall}
    /\ UNCHANGED <<disk, serving, admin, closing, removed>>

\* BeginLogin fails after the login in progress was cancelled.
StartAuthFails ==
    /\ closing = "open" /\ admin = NoAdmin
    /\ file # None /\ flow # 0
    /\ Happens("login")
    /\ flow' = 0
    /\ installs' = Cancelled(installs)
    /\ UNCHANGED <<disk, serving, admin, closing, removed>>

Authorize(t) ==
    /\ t \in installs /\ t.pc = "wait" /\ ~t.cancelled
    /\ Become(t, At(t, "commit"))
    /\ UNCHANGED <<disk, serving, flow, admin, closing, removed, left>>

\* Refused in the browser, timed out after 10 minutes, or cancelled.
WaitFails(t) ==
    /\ t \in installs /\ t.pc = "wait"
    /\ Become(t, At(t, "clear"))
    /\ UNCHANGED <<disk, serving, flow, admin, closing, removed, left>>

\* commitTokenUnlessRemoved; saving the token can fail.
CommitToken(t) ==
    /\ t \in installs /\ t.pc = "commit"
    /\ \/ /\ ~Superseded(t)
          /\ Become(t, At(t, "dial"))
          /\ token' = t.flow /\ savedAt' = savedAt + 1
       \/ /\ Become(t, At(t, "clear"))
          /\ UNCHANGED <<token, savedAt>>
    /\ UNCHANGED <<file, serving, flow, admin, closing, removed, left>>

\* Fault: the settings the login connected with are not recorded.
RecordLoginSettings_Skipped(t) ==
    /\ t \in installs /\ t.pc = "record"
    /\ Become(t, At(t, "clear"))
    /\ UNCHANGED <<disk, serving, flow, admin, closing, removed, left>>

\* recordLoginSettings: an edit or remove since the login began has its own record.
RecordLoginSettings(t) ==
    /\ t \in installs /\ t.pc = "record"
    /\ Become(t, At(t, "clear"))
    /\ record' = IF Superseded(t) \/ record = None THEN record
                 ELSE [record EXCEPT !.settings = t.cfg]
    /\ UNCHANGED <<disk, current, ups, registry, ready, failure, open, removeGen, flow, admin,
                   closing, removed, left>>

ClearAuthFlow(t) ==
    /\ t \in installs /\ t.pc = "clear"
    /\ installs' = installs \ {t}
    /\ flow' = IF flow = t.flow THEN 0 ELSE flow
    /\ UNCHANGED <<disk, serving, admin, closing, removed, left>>

-----------------------------------------------------------------------------
(* The reconnect loop of an upstreamServer *)

Now(u, pc) == [ups EXCEPT ![u].pc = pc]

\* The loop ends; the reconnecting flag is cleared.
Ends(us, u) == Forget([us EXCEPT ![u].pc = "idle", ![u].new = None], u, current)

\* maybeReconnect: a call or a refresh found the connection broken.
MaybeReconnect(u) ==
    /\ ups[u].live /\ ups[u].pc = "idle"
    /\ Happens("drop")
    /\ ups' = Now(u, "dial")
    /\ UNCHANGED <<disk, current, registry, record, ready, failure, open, removeGen, installs,
                   flow, admin, closing, removed>>

ReconnectDial(u) ==
    /\ ups[u].pc = "dial" /\ ups[u].live
    /\ CanDial
    /\ open' = open \cup {Dialled}
    /\ ups' = [ups EXCEPT ![u].pc = "list", ![u].new = Dialled]
    /\ UNCHANGED <<disk, current, registry, record, ready, failure, removeGen, installs, flow,
                   admin, closing, removed, left>>

\* The loop gives up: the context is done, or the upstream wants a login.  (A
\* transient dial error only goes round the loop again.)
ReconnectEnds(u) ==
    /\ ups[u].pc = "dial"
    /\ ups' = Ends(ups, u)
    /\ UNCHANGED <<disk, current, registry, record, ready, failure, open, removeGen, installs,
                   flow, admin, closing, removed, left>>

ReconnectLists(u) ==
    /\ ups[u].pc = "list" /\ ups[u].live
    /\ ups' = Now(u, "swap")
    /\ UNCHANGED <<disk, current, registry, record, ready, failure, open, removeGen, installs,
                   flow, admin, closing, removed, left>>

ReconnectListFails(u) ==
    /\ ups[u].pc = "list"
    /\ open' = open \ {ups[u].new}
    /\ ups' = [ups EXCEPT ![u].pc = "dial", ![u].new = None]
    /\ UNCHANGED <<disk, current, registry, record, ready, failure, removeGen, installs, flow,
                   admin, closing, removed, left>>

\* Fault: the new connection is taken though the upstream was shut down.
MaySwap_Always(u) == TRUE

\* swapReconnectConn looks at the context under u.mu.
MaySwap(u) == ups[u].live

\* swapConn up to publishing: the old connection is closed, or the new one when
\* the upstream was shut down meanwhile.
SwapConn(u) ==
    /\ ups[u].pc = "swap"
    /\ IF MaySwap(u)
       THEN /\ ups' = [ups EXCEPT ![u].conn = ups[u].new, ![u].pc = "publish"]
            /\ open' = open \ {ups[u].conn}
       ELSE /\ ups' = Ends(ups, u)
            /\ open' = open \ {ups[u].new}
    /\ UNCHANGED <<disk, current, registry, record, ready, failure, removeGen, installs, flow,
                   admin, closing, removed, left>>

\* Fault: the tools go into the registry whatever became of the upstream.
IsCurrentConn_Always(u) == TRUE

\* isCurrentUpstreamConn for the connection the loop has just installed.
IsCurrentConn(u) == ups[u].live /\ ups[u].conn = ups[u].new /\ current = u

PublishReconnected(u) ==
    /\ ups[u].pc = "publish"
    /\ registry' = IF IsCurrentConn(u) THEN ups[u].new ELSE registry
    /\ ups' = Ends(ups, u)
    /\ UNCHANGED <<disk, current, record, ready, failure, open, removeGen, installs, flow, admin,
                   closing, removed, left>>

-----------------------------------------------------------------------------
(* add_server and remove_server: changeSavedServer detaches, changes the files *)
(* and detaches again                                                         *)

Begin(op, pc) ==
    /\ closing = "open" /\ admin = NoAdmin
    /\ admin' = [NoAdmin EXCEPT !.op = op, !.pc = pc]

AddServer(s) ==
    /\ current = None /\ file = None
    /\ closing = "open" /\ admin = NoAdmin
    /\ Happens("add")
    /\ admin' = [op |-> "add", pc |-> "detach",
                 file |-> [settings |-> s, enabled |-> TRUE], ok |-> TRUE]
    /\ removed' = FALSE
    /\ UNCHANGED <<disk, serving, installs, flow, closing>>

RemoveServer ==
    /\ Happens("remove")
    /\ Begin("remove", "detach")
    /\ UNCHANGED <<disk, serving, installs, flow, closing, removed>>

DetachFirst ==
    /\ admin.pc = "detach"
    /\ DetachAndCloseServer
    /\ admin' = [admin EXCEPT !.pc = "change"]
    /\ UNCHANGED <<disk, closing, removed, left>>

\* ops.AddServer creates the file and forgets old credentials.
ChangeAdd ==
    /\ admin.pc = "change" /\ admin.op = "add"
    /\ \/ /\ file = None
          /\ file' = admin.file /\ token' = 0 /\ savedAt' = 0
          /\ admin' = [admin EXCEPT !.pc = "detachAgain"]
       \/ /\ admin' = [admin EXCEPT !.pc = "detachAgain", !.ok = FALSE]
          /\ UNCHANGED disk
    /\ UNCHANGED <<serving, installs, flow, closing, removed, left>>

\* ops.RemoveServer: credentials first, the file last; each can fail, and
\* without a file nothing is touched.
ChangeRemove ==
    /\ admin.pc = "change" /\ admin.op \in {"remove", "rollback"}
    /\ \/ /\ file # None
          /\ file' = None /\ token' = 0 /\ savedAt' = 0
          /\ removed' = TRUE
          /\ admin' = [admin EXCEPT !.pc = "detachAgain"]
       \/ /\ file # None
          /\ token' = 0 /\ savedAt' = 0
          /\ admin' = [admin EXCEPT !.pc = "detachAgain", !.ok = FALSE]
          /\ UNCHANGED <<file, removed>>
       \/ /\ admin' = [admin EXCEPT !.pc = "detachAgain", !.ok = FALSE]
          /\ UNCHANGED <<disk, removed>>
    /\ UNCHANGED <<serving, installs, flow, closing, left>>

DetachAgain ==
    /\ admin.pc = "detachAgain"
    /\ DetachAndCloseServer
    /\ admin' = IF admin.op = "add" /\ admin.ok THEN [admin EXCEPT !.pc = "connect"] ELSE NoAdmin
    /\ UNCHANGED <<disk, closing, removed, left>>

\* connectSaved loads what is saved now and installs it as a new server.
ConnectSaved ==
    /\ admin.pc = "connect" /\ admin.op = "add"
    /\ IF file = None
       THEN /\ admin' = [admin EXCEPT !.op = "rollback", !.pc = "detach"]
            /\ installs' = installs
       ELSE /\ admin' = [admin EXCEPT !.pc = "connecting", !.file = file]
            /\ installs' = installs \cup
                 {[kind |-> "add", cfg |-> file.settings, gen |-> removeGen, pc |-> "dial",
                   conn |-> None, flow |-> 0, cancelled |-> FALSE, at |-> 0]}
    /\ UNCHANGED <<disk, serving, flow, closing, removed, left>>

Recorded(f) == [settings |-> f.settings, loginAt |-> 0]

RecordAdded ==
    /\ admin.pc = "record"
    /\ record' = IF admin.file.enabled THEN Recorded(admin.file) ELSE record
    /\ admin' = NoAdmin
    /\ UNCHANGED <<disk, current, ups, registry, ready, failure, open, removeGen, installs, flow,
                   closing, removed, left>>

-----------------------------------------------------------------------------
(* The config check, every 5 seconds: applyServerFile *)

\* tryLock: the check is skipped while the name is busy.
StartCheck ==
    /\ Begin("check", "lookup")
    /\ UNCHANGED <<disk, serving, installs, flow, closing, removed, left>>

Lookup ==
    /\ admin.pc = "lookup"
    /\ admin' = [admin EXCEPT !.pc = "decide", !.file = file]
    /\ UNCHANGED <<disk, serving, installs, flow, closing, removed, left>>

LoginInFlightFor(f) == \E t \in installs : t.kind = "login" /\ t.flow = flow /\ t.cfg = f.settings

LoginSavedSinceAuthFailed ==
    /\ flow = 0 /\ record # None
    /\ ~ready /\ failure = "needsAuth"
    /\ savedAt > record.loginAt

\* What connectConfigServer and removeConfigServer decide to do.
Branch(f) ==
    CASE ~Enabled(f) -> IF record # None THEN "remove" ELSE "none"
      [] Enabled(f) /\ record = None /\ current = None -> "connect"
      [] Enabled(f) /\ record # None /\ record.settings # f.settings
           /\ ~LoginInFlightFor(f) -> "reconnect"
      [] Enabled(f) /\ LoginSavedSinceAuthFailed -> "reconnect"
      [] OTHER -> "none"

Decide ==
    /\ admin.pc = "decide"
    /\ admin' = LET b == Branch(admin.file)
                IN  IF b = "none" THEN NoAdmin ELSE [admin EXCEPT !.pc = b]
    /\ UNCHANGED <<disk, serving, installs, flow, closing, removed, left>>

RemoveConfigServer ==
    /\ admin.pc = "remove"
    /\ DetachAndCloseServer
    /\ admin' = NoAdmin
    /\ UNCHANGED <<disk, closing, removed, left>>

ReconnectConfigServer ==
    /\ admin.pc = "reconnect"
    /\ DetachAndCloseServer
    /\ admin' = [admin EXCEPT !.pc = "connect"]
    /\ UNCHANGED <<disk, closing, removed, left>>

\* ConnectUpstreams.  The connector is stopped only after this loop has ended.
ConnectUpstreams ==
    /\ admin.pc = "connect" /\ admin.op = "check"
    /\ record' = Recorded(admin.file)
    /\ installs' = installs \cup {StartupInstall(admin.file.settings)}
    /\ admin' = NoAdmin
    /\ UNCHANGED <<disk, current, ups, registry, ready, failure, open, removeGen, flow, closing,
                   removed, left>>

-----------------------------------------------------------------------------
(* Server.Close, once the requests being served have ended *)

CloseBegins ==
    /\ closing = "open" /\ admin.op \in {"none", "check"}
    /\ Happens("close")
    /\ closing' = "begun"
    /\ UNCHANGED <<disk, serving, installs, flow, admin, removed>>

\* The reload loop has ended; logins and the connector are cancelled.
CloseStops ==
    /\ closing = "begun" /\ admin = NoAdmin
    /\ closing' = "stopped"
    /\ flow' = 0
    /\ installs' = {[t EXCEPT !.cancelled = TRUE] : t \in installs}
    /\ UNCHANGED <<disk, serving, admin, removed, left>>

\* authWg and the connector have been waited for.
InstallsDone == installs = {}

CloseUpstreams ==
    /\ closing = "stopped" /\ InstallsDone
    /\ closing' = "drained"
    /\ IF current # None
       THEN ups' = ShutDown(current) /\ open' = open \ {ups[current].conn}
       ELSE UNCHANGED <<ups, open>>
    /\ UNCHANGED <<disk, current, registry, record, ready, failure, removeGen, installs, flow,
                   admin, removed, left>>

\* reconnectWg has been waited for.
CloseEnds ==
    /\ closing = "drained" /\ \A u \in Ups : ups[u].pc = "idle"
    /\ closing' = "closed"
    /\ UNCHANGED <<disk, serving, installs, flow, admin, removed, left>>

-----------------------------------------------------------------------------
InstallStep(t) ==
    \/ Check(t)
    \/ Dial(t)
    \/ \E terminal \in BOOLEAN : DialFails(t, terminal) \/ ListFails(t, terminal)
    \/ ListTools(t)
    \/ InstallChecked(t)
    \/ InstallRejected(t)
    \/ Backoff(t)
    \/ StatLogin(t)
    \/ \E why \in {"needsAuth", "other"} : RecordStartupFailure(t, why)
    \/ Authorize(t) \/ WaitFails(t) \/ CommitToken(t) \/ RecordLoginSettings(t)
    \/ ClearAuthFlow(t)

ReconnectStep(u) ==
    \/ ReconnectDial(u) \/ ReconnectEnds(u) \/ ReconnectLists(u) \/ ReconnectListFails(u)
    \/ SwapConn(u) \/ PublishReconnected(u)

AdminStep ==
    \/ DetachFirst \/ ChangeAdd \/ ChangeRemove \/ DetachAgain \/ ConnectSaved \/ RecordAdded
    \/ Lookup \/ Decide \/ RemoveConfigServer \/ ReconnectConfigServer \/ ConnectUpstreams

CloseStep == CloseStops \/ CloseUpstreams \/ CloseEnds

Next ==
    \/ \E f \in Files : EditFile(f)
    \/ CLILogin
    \/ StartAuth \/ StartAuthFails
    \/ \E t \in installs : InstallStep(t)
    \/ \E u \in Ups : MaybeReconnect(u) \/ ReconnectStep(u)
    \/ \E s \in Settings : AddServer(s)
    \/ RemoveServer \/ StartCheck \/ AdminStep
    \/ CloseBegins \/ CloseStep

Spec == Init /\ [][Next]_vars

\* Goroutines are scheduled, dials and listings end (each has a time limit), a
\* login ends after at most 10 minutes, and the config check comes round every
\* 5 seconds.  Nothing makes a dial or a login succeed, and nothing outside
\* (edits, agents, dropped connections, shutdown) is promised.
Fairness ==
    /\ \A k \in {"startup", "add"} : WF_vars(\E t \in installs : t.kind = k /\ InstallStep(t))
    /\ \A f \in Flows : WF_vars(\E t \in installs : t.flow = f /\ InstallStep(t))
    /\ \A u \in Ups : WF_vars(ReconnectStep(u))
    /\ WF_vars(StartCheck)
    /\ WF_vars(AdminStep)
    /\ WF_vars(CloseStep)

FairSpec == Spec /\ Fairness

-----------------------------------------------------------------------------
(* Properties *)

\* Connections that a goroutine or the registered upstream will close.
Owned == {ups[u].conn : u \in {v \in Ups : ups[v].live}}
             \cup {ups[u].new : u \in Ups} \cup {t.conn : t \in installs}

\* No connection is left open once nobody owns it: a rejected install, a reconnect
\* of an upstream that was shut down, a replaced or removed upstream all close
\* theirs.
NoLeakedConnection == open \subseteq Owned

\* Agents are served consistently: a server is registered, marked ready and has
\* tools in the registry together, its upstream is alive, and the registry lists
\* the tools of the connection in use except while a reconnect is between
\* swapping the connection and publishing its tools.
ServedConsistently ==
    closing \in {"open", "begun", "stopped"} =>
        /\ (current = None) <=> (registry = None)
        /\ ready <=> current # None
        /\ current # None =>
             /\ ups[current].live
             /\ ups[current].conn \in open
             /\ registry = ups[current].conn \/ ups[current].pc = "publish"

\* After remove_server has deleted a server, or add_server has taken back one
\* that would not connect, nothing started for it earlier (a startup retry, a
\* login, a reconnect) brings it or its login back.
RemovedStaysRemoved ==
    removed => current = None /\ registry = None /\ record = None /\ token = 0

\* When Close returns, no goroutine of the server is left and every connection
\* is closed.
ClosedMeansClosed == closing = "closed" => open = {} /\ installs = {}

\* The server is as its file says: it runs with the file's settings, or is being
\* connected with them, or stopped at a failure the user must resolve; a server
\* whose file is gone or disabled is not running.
AsFiled ==
    IF Enabled(file)
    THEN /\ current # None => ups[current].cfg = file.settings
         /\ \/ current # None \/ failure # "none"
            \/ \E t \in installs :
                 t.kind = "startup" /\ t.cfg = file.settings /\ ~Superseded(t)
    ELSE current = None

\* applyServerFiles "connects and removes servers to match servers/": once the
\* file is left alone, the server comes to be as filed and stays so, whatever
\* installs and logins for earlier settings were under way.
FollowsFile == <>[](closing = "open" => AsFiled)

\* Close returns: nothing it waits for waits for ever.
CloseReturns == closing = "begun" ~> closing = "closed"

\* Close does all it promises: it returns, and with everything closed.
CloseCompletes == CloseReturns /\ []ClosedMeansClosed
=============================================================================
