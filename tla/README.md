# A TLA+ model of mini

mini is one MCP server that stands in front of many: an agent speaks to a small
`mini` proxy process, all proxies of a config directory share one daemon, and
the daemon keeps connections to the configured upstream servers, lists their
tools, forwards calls, shrinks the answers and lets agents and users add, remove,
log in to and edit servers while everything is running. This directory holds TLA+
specifications of that program's concurrent parts and of the algorithms its
answers rest on, TLC configurations that check them on small instances, and TLAPS
proofs of their safety properties, for instances of any size, wherever the model has
state and the prover reaches it.

## Contents

1. [The system and its parts](#the-system-and-its-parts)
2. [Modules](#modules)
3. [How the modules correspond to the code](#how-the-modules-correspond-to-the-code)
4. [Runs, bounds and results](#runs-bounds-and-results)
5. [Fairness](#fairness)
6. [What is proved](#what-is-proved)
7. [What the models met in the code](#what-the-models-met-in-the-code)
8. [Not modelled, and assumptions](#not-modelled-and-assumptions)

`PROJECT.json` is the index: components, runs with their properties, a seeded
fault for each property, the source lines each definition stands for, the
hazards each property is aimed at, and the theorems.

## The system and its parts

```
 agent ── stdio ── proxy ──── HTTP over a Unix socket ──── daemon ── stdio/HTTP ── upstreams
                     │  spawn lock, socket file, token file   │
                     └────────── config directory ────────────┘── servers/*.yaml, tokens, responses
                                        │
                        mini add / auth / init ... (CLI, TUI)
```

| Part (source) | State | Operations | What is hard | What makes it correct |
|---|---|---|---|---|
| Daemon start-up (`internal/daemon`, `cmd/mini/daemon*.go`) | socket file, token file, flock | probe, lock, spawn, wait; listen, probe, remove, relisten, serve, unlink | several processes, no transaction over three files, kills | one reachable daemon; a token that outlives it; resolving returns |
| Proxy forwarding (`internal/proxy`) | link (generation, token), handshake flags, mutex across Resolve | forward, classify outcome, recover, replay handshake | many requests fail at once; a request may have run already | nothing runs twice; one respawn per death; next call recovers |
| Proxy notification stream (`internal/proxy/notification_stream.go`, `subscriptions.go`) | bound link, runner goroutine, current stream, listens | Bind, run, connect, consume, register, cancel, Close | replaced while it reads; signals coalesced in a channel of one | one stream, of the newest link; notices forwarded to every listen |
| Daemon sessions and outbox (`internal/server/session*.go`, `tools_changed.go`, `http_serve.go`) | Session objects, outbox flag, clientReady | create, initialize, publish, GET handler, evict | eviction in two steps; bounded queues that drop | a change a session was owed is pending somewhere until written |
| Per-session connections (`internal/server/dispatch.go`, `session.go`) | conns, dialMap, dialOnce | find, dial once, check, call, evict, remove | a dial outlives a removal; errors shared between calls | no leak; none to a removed server; own errors only |
| Upstream lifecycle (`internal/server/upstream_*.go`, `config_tool_*.go`, `config_files.go`, `startup_state.go`, `server.go`) | upstreams, records, auth flows, failures, file, token | connect at startup, add, remove, log in, reconnect, apply files, Close | six kinds of goroutine over one name; dials outside the lock | no leak; consistent serving; removed stays removed; follows the file; Close returns |
| Tool list refresher (`tool_list_refresher.go`, `upstream_refresh.go`, `transport/tools_changed_notifier.go`) | running, pending, done channel, freshness | request, refreshIfStale, next, published, stop | notices overtake passes; readers join a run | one worker; fresh means current; waits end |
| Start-up holds (`startup_state.go`, `startup_wait.go`, `startup_errors.go`) | windows, ready tools, failures, broadcast channel | record, open, install, fail, detach; hold a list, look a tool up | an arrival between the look and the wait | held no longer than the limit, never told "not found" of a server that is coming |
| stdio transport (`internal/transport/stdio*.go`) | child, write gate, pending map, subscription | negotiate, restart, call, write, cancel, read, close | a cancelled write tears a line; a probe kills old servers | a call returns once, with its own answer; a legacy server is served |
| HTTP transport (`internal/transport/http*.go`) | era, session id, credential, headers, listener, `setupMu` | probe, initialize, post, retry, refresh, reset, relisten | expiry learned by several calls at once; a listener awaited under the mutex | a request runs at most once; renewed sessions count as a change |
| Auth provider (`internal/auth/provider`, `token.go`, `challenge.go`) | saved login, challenge, providers by server | authorize, refresh, save, retire; browser login; the CLI's refresh | two processes rotate one token without a common lock | no needless login; a retired provider writes nothing |
| Login resolution (`internal/auth`: discover, resolve, oauth) | none: a function of settings, disk and network | discover, choose client and scopes, resume for a refresh | data from different times | a secret goes only where it belongs |
| Projection rules (`config_watch.go`, `config_tool_projection.go`, `projection_save.go`, `fileio`) | file, memory, aliases, fingerprints | edit, poll, reload, set_projection, seed, remove | three writers of one set of rules | memory and aliases follow the file |
| Names (`internal/registry`, `config/aliases.go`) | tools by server and visible name | register, replace, alias, hide, parse | aliases, real names and hidden tools in one namespace | every listed name reaches its tool |
| Results (`proxy_call.go`, `proxy_result*.go`, `proxy_toon.go`, `internal/projection`) | none: a function of call, rules and result | choose the rule, project, choose a carrier, encode | many shapes of results | nothing is trimmed in silence |
| Response store (`internal/response`, `ops/cleanup.go`) | files on disk, files and bytes in memory | write, evict, expire, clean up, load | removals outside the mutex that may fail; crashes | what is on disk is accounted for |
| Init (`cmd/mini/initcmd`, `tui`) | screens, stage, checks, login, probes, agent file | save, check, log in, connect, commit, end | goroutines beside a UI that may end at any time | nothing outlives the run; what leaves the agent is served |
| Import plan (`initcmd/import.go`, `setup.go`, `catalog.go`) | none: a function of agents, files and ticks | plan, name, write, report | equal names, unreadable files, failing writes | nothing twice, nothing left out without a word |
| Configuration, agents' files, CLI, TOON, catalog | files; text | load, edit, print, encode | | see [below](#not-modelled-and-assumptions) |

Components call each other directly inside a process. Between processes there
are the Unix socket (requests and the GET stream), the flock of the spawn lock and
the files of the config directory, which the daemon looks at every five seconds.
Callbacks run from a transport's reader goroutine (tool-change notices) into the
refresher and from the refresher through the server into every session's outbox.

The lock order that the models rely on: a server name's lock (`serverNames`) is
taken before `serverOpMu`, which is taken before `stateMu`. A server name's lock, a
`dialOnce`'s mutex, the proxy link's mutex, `setupMu` of an HTTP connection and a
token provider's mutex are held across network requests and waits.

## Modules

| Module | Models | Composes |
|---|---|---|
| `ToolListRefresher` | notices, passes, reads, lifetimes, stop | |
| `ReconnectRefresh` | reconnect loop over the refresher | extends `ToolListRefresher` |
| `UpstreamLifecycle` | one server name from file to connection and back | |
| `DaemonSpawn` | proxies and daemons over socket, token and lock | |
| `ProxyForwarding` | forwards, outcomes, recovery, handshake | takes Resolve's end from `DaemonSpawn` |
| `ToolChangeDelivery` | publish, outbox, stream, agent | takes new links as `ProxyForwarding` makes them |
| `SessionConns` | shared dials of a session | takes removals as `UpstreamLifecycle` makes them |
| `CallPromise` | abstract: what `Connection.Call` promises | |
| `StdioConn` | one child process and the calls that share it | implements `CallPromise` |
| `HTTPConn` | one HTTP connection and the calls that share it | implements `CallPromise` |
| `TokenProvider` | one server's credential in the daemon and the CLI | |
| `StartupHold` | what agents are told while servers start | |
| `ProjectionRules` | one server's rules in file, memory and aliases | |
| `ResponseStore` | stored responses and their eviction | |
| `InitRun` | a run of `mini init` from the first screen to the report | |
| `LoginResolution` | what a login is made of, and the refresh of its token | |
| `ImportPlan` | what `mini init` imports, writes and reports | |
| `ToolNames` | the registry's names of tools | |
| `Projection`, `ProxyResult` | algorithms as functions | `ProxyResult` extends `Projection` |
| `MCParts` | the parts without shared state, in one run | extends or instantiates ten of the above |
| `MCUpstreamLifecycle`, `MCToolChangeDelivery` | which outside events happen together in a run | |
| `MCStdioConn` | who calls which program | |
| `MCSessions` | the calls of a session and a run of `mini init`, in one run | extends `SessionConns` and `InitRun` |
| `*_proofs` | theorems (`Records_proofs` those of `ToolListRefresher`, `ReconnectRefresh`, `ResponseStore`, `LoginResolution`, `ToolNames` and `ImportPlan`, `Sessions_proofs` those of `SessionConns` and `InitRun`, `Parts_proofs` those of `StartupHold`, `TokenProvider`, `ProjectionRules` and `ToolChangeDelivery`) | extend what they prove about |

Of the invariants the runs check, all are proved but `NothingIsHidden`; it and liveness are left to TLC
(see "Model-checked only").

## How the modules correspond to the code

Each critical section of a mutex is one action. Everything that happens outside
one (a dial, a list call, a file operation, a wait) is an action of its own, so
that every other goroutine can run before and after it. A goroutine's position is a
`pc` field or, where it holds data, a record in a set. Code that is not mini's
(the upstream, the agent, the operating system) appears as actions that may
happen at any time, each counted against a bound.

**ToolListRefresher.** `running`, `pending`, `stopped` and the run number standing
for `done` are the fields of `toolListRefresher`; `freshness` is `expiresAt`
against the clock; `workers` are the goroutines of `runToolListRefresh`. `DeliverNotice`
ends in `request`, `StartRead` is `refreshIfStale`, which joins a run or starts
one, and a pass is `Next_` (the code's `next`), the list call, the publication under
`serverOpMu` and `Next_` again. `held` and `handlerSet` are the notifier's
hold-until-subscribed behaviour. Tool lists are the numbers of the versions
they come from: whether one is newer than another is all the properties ask.

**UpstreamLifecycle.** All state of the server is per name and names share only
locks, so one name is modelled. `current`, `registry`, `ready`, `record`, `failure`,
`flow` and `token` are the maps' entries for it; `ups` are the `upstreamServer`
objects with the position of their reconnect loop; `installs` are the goroutines
dialling for startup, for a login or for add_server; `admin` is the one add,
remove or config-check operation that holds the name's lock; `closing` is the
progress of `Server.Close`. A login is an `installs` record that waits for the
browser first. Settings are opaque values, equal or not.

**ReconnectRefresh.** Extends the refresher's state by the connection in use, the
one a pass has taken, the reconnect loop's position and the new connection's wire.
Every action of the refresher is taken over, with the pass's check of its
connection and context (`refreshTools`, `publishTools`) added.

**DaemonSpawn.** One action per system call. `path` names the daemon whose bind
made the socket file, so a file that its process has left, or that another process
removed and made again, is told apart. `proxy` is the position in
`ensureDaemonRunning` (`Start`, `waitForDaemon`); `token` and `tokenFile` hold the
daemon that minted a token, which is looked for and written in two steps. A killed daemon
leaves its file; a clean exit unlinks it by path, whoever's it is. `astray` is history: a
daemon was run by hand, or was still starting when its wait gave up.

**ProxyForwarding.** `fw` are the forwards in progress: the link and token they
took, their attempts, the outcome of `classifyForward` and friends. `gen`, `tok`, `mu` and
`resolveErr` are `daemonLink`. On the daemon's side there are, per incarnation,
the session's state and its client-ready flag, and `executed` counts the
dispatches that the daemon made of a request. The gate of `handleRequest`
(`awaitInitialization`, one second) opens or times out.

**ToolChangeDelivery.** The proxy's half has the bound link, the signal channel of
one, the runner's position, the streams it made, listens and the lock of the
subscriptions; the daemon's half has the sessions, their outboxes and GET handlers,
the publishing loop and the two steps of an eviction. Notices are
indistinguishable, so queues are lengths.

**SessionConns.** One session, one server. A call is at a position of
`getOrDialSessionConn`, `dialOnceFor`, `dialPerSessionConn`, `checkDialedConn` and
`callPerSession`. A call makes at most one connection and one `dialOnce`, which
therefore have its name. Removal runs in the three steps of `RemoveConn`.

**CallPromise, StdioConn, HTTPConn.** `CallPromise` is what the server relies on: a
call returns once, with an answer only if the upstream ran that request, with an error
only for a reason (its own context, a lost connection, an upstream that ran it), and
the upstream runs it at most once. Each transport instantiates it with a
refinement mapping of its own state (`Promise == INSTANCE CallPromise WITH ...`) and
TLC checks the abstract specification as a property of the detailed one
(`CallsKeepPromise`, `HTTPCallsKeepPromise`).

`StdioConn` has the child (what it read, whether it still reads, what it will print),
the write gate and the torn line it may leave, `pendingMap` and the channels in it,
the subscription and the progress of `NewStdioConnection`. A request has the name of who
sends it where the code counts `nextID`. `Kinds` are the programs a user may
configure: modern ones, legacy ones that refuse, ignore or die of the probe, and ones
that misbehave. `HTTPConn` has the fields of `HTTPConnection`, calls with what each
took from them before its request left (era, session, token, headers), the
`sessionListener` and an upstream that is redeployed. A caller that waits for `setupMu`
does not watch its context, as in the code.

**TokenProvider.** Tokens are numbered as the authorization server issues them.
`stored` is the login file, `prov` the providers made so far with their mutex and the
login each holds, `cli` a command that refreshes the same file without a lock,
`login` the browser logins of the daemon (`start_auth`) and of `mini auth`, `op` `serverOpMu` and
`removeGen`. A login that has saved its token looks at the challenge and removes it in two steps:
`challengeMu`, a mutex of the daemon, keeps the daemon's own calls out between them, not those of
another process, which may record a challenge at any time (`CliRecords`, `Rejected`); `overtaken` is
history, the logins this happened to. Answers may be lost,
saves may fail, and the authorization server may revoke a token (`TokenRevoked`). `doubt` is
history: the requests whose saved login could not have served them at some moment since
they began, or gave way to another login while they refreshed it (`GaveWay`).

**StartupHold.** `clock` counts time; a server goes from its file through recorded,
opened and installed to ready, failing or detached, each critical section of
`stateMu` a step, and a listing and a lookup look at the tracker in the steps the code
does. A broadcast wakes the listings that took the channel before it.

**ProjectionRules.** One server. `file`, `mem` and `reg` are its rules on disk, in
`s.projections` and as aliases in the registry; each reload and `set_projection` goes
through the steps between reading the file and publishing; `fileio`'s
compare-and-retry is there. A load may fail although the file is good (`LoadFails`); the poller's
fingerprint has then moved on, and `unread` says so until a load succeeds. `moved` marks the two situations a fingerprint cannot
see, which `RulesFollowFile` excepts. Rules are opaque; the marks for "no file", "does not
load", "no entry" and "published" are told apart from them by a shape that no rule has
(`Marks`, `RulesAssumption`).

**ResponseStore.** `disk` against `files` and `used`. A writer creates the file, then
takes the mutex, chooses what to evict, lets go and removes the chosen files, some
of which stay; a crash may happen anywhere and is followed by a load.

**InitRun.** The UI goroutine handles one message at a time; `ui.pc` is where a
handler waits. Checks of the session, the browser login and Connect's probes are
processes of their own. Server settings are a number for whose they are. The commit of a server checks that
its name is free, forgets what mini remembered of it, copies its state and creates it, each a step of its own.

**LoginResolution, ImportPlan, ToolNames.** Functions with the code's names and order of
cases, and a small state machine around them. A login is made of the settings, the disk
and the network as they are, then the settings may be edited, then its token is
refreshed. An import is planned of the agents that were read (`PlanSetup`), then some of
the candidates are ticked, some of the writes fail, and the rest is reported
(`SaveSetup`). The registry is given a server's tools, or loses them, up to `MaxTurns` times, from
what `Lists` allows for each turn. URLs are hosts, names of servers to import are a base and its
numbers. The names of tools are the sequences of characters they are, over the few characters that
matter, since what a listed name is cut into depends on where its underscores are.

**Projection, ProxyResult.** Functions without state, which `MCParts` applies to every
input of a small set; a string is a sequence over four classes of characters.

## Runs, bounds and results

| Run | Bounds | What it checks |
|---|---|---|
| `refresher` | 2 reads, 2 changes, 3 runs | `FreshListIsCurrent`; `AwaitedReadIsCurrent`; `RequestsAreMet` |
| `lifecycle` | 3 connections, 2 upstream objects, three scenarios of outside events | `NoLeakedConnection`; `ServedConsistently`; `RemovedStaysRemoved` |
| `lifecycle_live` | 2 settings, two scenarios | `FollowsFile`; `CloseCompletes` |
| `unrecorded_login` | as `lifecycle_live`, `AuthUnrecorded = TRUE` | `FollowsFile` is violated (see below) |
| `reconnect_overtaken` | 1 change, 1 reconnect | `SettledListIsCurrent` is violated (see below) |
| `spawn` | 2 proxies, 2 daemons, each spawned or run by hand, slow starts | `NoHerd`; `ServingIsReachable`; `ResolveReturns` |
| `forwarding` | 2 requests, the handshake, 1 death, 1 eviction, 3 attempts | `RunsAtMostOnce`; `RecoveryCompletes` |
| `delivery` | 1 listen, 2 binds, 2 streams, channel of 1, six scenarios | `OwedIsHeld`; `StreamKeepsUp` |
| `sessions` | calls: 3 of them, 1 removal, 1 failure; `init`: 1 server, 2 saves, 1 login, 2 visits to Connect, 1 outside change, no more than three before the last | `ConnsAreOwned`; `CallsAreAnswered`; `NothingOutlivesTheRun`; `LoginsAreKept`; `ChecksAreSeen`; `RemovedIsServed`; no deadlock of `init` |
| `stdio_conn` | six kinds of program, 2 callers of a faulty one, 1 change | `SubscribedIsTold`; `CallsKeepPromise` (refinement); `NoCallHangs`; `LegacyServed` |
| `http_conn` | 2 callers, 1 redeployment, 1 fault, 2 retries | `RenewalIsTold`; `LiveSessionIsKept`; `HTTPCallsKeepPromise` (refinement); `HTTPCallsReturn` |
| `parts` | per part, see below | `DiskIsTracked`; `RulesFollowFile`; `StartupIsTold`; `ReauthOnlyWhenNeeded`; `RetiredIsSilent`; `ChallengeWaits`; `ChangesSurviveReconnect`; `LoginIsBound`; `ImportIsSound`; `NothingIsHidden`; `NamesAreReachable` |

Run one with `tlc -config ToolListRefresher.cfg ToolListRefresher` (the module and
the file of each are in `PROJECT.json`). They take from seconds to three or four minutes; `parts`,
the largest, has 2.1 million distinct states.

Some properties join several statements that one run answers together; the parts keep
their names in the modules: `RequestsAreMet` is `RunsEnd` and `NoticeIsFollowed`;
`CloseCompletes` is `CloseReturns` and `ClosedMeansClosed`; `RecoveryCompletes` is
`RecoversOnNextCall`, `SettledSessionIsReady` and `ForwardsReturn`; `StreamKeepsUp` is
`NoticeArrives`, `FollowsNewestLink`, `StreamCloses` and `OneStream`; `ConnsAreOwned` is
`NoLeakedSessionConn` and `RemovedLeavesNoConn`; `CallsAreAnswered` is `CallsReturn` and
`OwnDialErrors`; `ChangesSurviveReconnect` includes `ListIsOfThisConnection`.

Why the bounds are enough to meet the hard cases:

- *refresher*: two changes allow a notice before the handler, one during a pass and
  one during its follow-up; two reads allow one to join a run that another started;
  three runs allow a run to be started by each.
- *lifecycle*: the scenarios (`Admins`, `Logins`, `CLILogins`, `Edits`, `Closes`)
  each spend a small number of outside events, since all at once cannot be
  explored. Each puts the operations together that share state: add, remove,
  login and drop; two logins replacing each other and a remove; a command-line login
  during another; two edits during an install and a login; Close against everything.
  Connections and upstream objects are reused once nothing refers to them, so their
  number bounds how many exist at once and not how many are made. `FirstSpec` begins
  `lifecycle_live` with one of the two settings, since exchanging them throughout a
  behaviour gives another one.
- *spawn*: two daemons allow one that leaves while the other binds and one that is
  spawned beside another; two proxies allow one to hold the lock while the other waits
  for it. The theorems cover any number of both.
- *forwarding*: two requests and the reader loop are enough for one to
  resolve, one to wait for the mutex and one to come later with the old link; a
  death and an eviction are enough to fail in the middle of the replayed
  handshake. `MaxAttempts` is the code's own number.
- *delivery*: capacity 1 makes the full channel happen at once (16 in the code);
  two generations and two sessions allow a stream of an old link, and an evicted
  session, to be read while their successors exist.
- *sessions*, the calls: three of them allow one that dials, one that waits for it and one
  that breaks the connection and forgets the `dialOnce` in between.
- *stdio_conn*: two callers of a faulty child allow a torn write by one and the next
  line by the other; one caller beside the subscription or the pings is enough for
  the programs that behave.
- *http_conn*: two callers and a redeployment allow both to learn of one expired session
  before and after its renewal; the redeployment may change the era.
- *sessions*, the run of `mini init`: two saves allow a check of the first to end after the second; two visits
  to Connect allow probes of the first to outlive it, and its second save to change
  the server they probe; once `MaxRounds` of these happened, logins and outside changes
  counted, only a last visit to Connect and the end of the run follow; one server suffices because
  servers share only the screen, the stage and the UI goroutine.
- *parts*: the store has two writers beside the cleaner, two sizes, a budget of two
  and one failed removal and one restart, so that an eviction fails while the other
  writer grows the count. The rules have two tools, one alias, two edits, one
  `set_projection` and one other operation beside poller and reload. The
  start-up has two servers, so that one is ready while the other still connects, and a
  hold of two ticks in three. The login has a challenge at first, two callers, a browser login of each process, two tokens, two
  providers and two events; its callers do the same things, so the run is symmetric in them. The
  reconnect has one reader, one change and one reconnect. A login meets every combination of the
  settings, the networks (`Networks`) and the edits (`Edits`) that `MCParts` defines for it. Names have three
  turns that give tools or take a server, then one that only takes (`MaxTurns = 4`), so that a server
  that changed its list or its hidden tools meets another whose names resemble its own, servers that
  end in an underscore or have two in a row among them. An import
  reads two agents (`AgentConfigs`), one of two entries and one of one or unreadable, beside up to two
  servers of mini (`MiniServers`) and one of the catalog (`CatalogPicks`). These sets, and the results that
  `ProxyResult` is computed on, are chosen so that every case of the functions is taken.

`CHECK_DEADLOCK FALSE` is set, except for `sessions`, because the systems may really
stop (in `sessions`, the calls, all answered, then stutter, and a run of `mini init` may only stop at its end): the bounded events are spent and every goroutine has returned. That nothing
waits for ever is stated by the liveness properties instead.

Every passing property has a seeded fault in `PROJECT.json` (`mutants`): a variant
of one definition, kept beside it in the module (`GetOrSetConn_Overwrites`,
`Unlock_Forgotten`, ...), with which TLC finds the property violated.

## Fairness

Weak fairness is put on the steps of a goroutine that has been started, and only
on them:

- dials, list calls and tool calls end because each has a deadline or a context that
  has one; nothing is assumed about *how* they end. Fairness is over the disjunction of
  an action's outcomes (`Step(p)`, `InstallStep`, `WorkerStep`), never over success;
- a login ends after ten minutes at most; the config check comes round every five
  seconds; probes end after two seconds and waiting for a daemon after three;
- a mutex or flock that is freed again and again goes to every waiter: strong
  fairness on `Acquire` (kernel queue of flock), `Lock` (Go mutexes hand over to a
  waiter that has starved for a millisecond) and `ForEachBegins` (the same, for the
  subscriptions' lock).

- in `StdioConn`, the set-up, the reader, writes and awaits go on, and the contexts
  that the code gives a deadline (probe, subscription, replies, a call that is being
  cancelled) end; a program answers only if it is of a kind that does. A call's own
  context is not assumed to end, so `NoCallHangs` is about calls whose connection is gone
  or whose answer has come. In `HTTPConn`, a call's step is its next request or
  lock, which its client's time-out bounds, and a cancelled listener ends.

Edits, calls, notices, deaths, evictions, removals and shutdown are never assumed
to happen. The upstream answering is assumed nowhere; where a property
needs a success it says so (`missed`, `lost`, `failure`). `parts` and the run of `mini init` check safety only.

## What is proved

TLAPS checks the theorems for every value of the constants, subject to the
assumptions that the modules name.

**Records_proofs** has five parts that share no state.

The tool list (`ConstantsAssumption`): `TypeCorrect`, `AtMostOneWorker`, `FreshMeansCurrent`,
`AwaitedReadsAreCurrent`, `ListsOnlyAdvance`. The property `FreshListIsCurrent` alone
is not inductive: whether a list may be marked fresh depends on what the running
pass asked for and on what is pending. The invariant adds that versions are bounded by
the upstream's (`Bounded`), that a fetched list is not older than the published one
(`Ahead`), that a list fetched by a pass that no notice has
overtaken has every announced change (`PassCovers`), that what was announced is
published, on its way or lost to a failed pass (`Followed`), that an outstanding request implies a run
(`PendingRuns`), that `stop` comes before cancellation (`StoppedFirst`), and, for
readers, that a read whose run is over finds what it needs and no later pass undoes
that (`ReadsCovered`).
For `ReconnectRefresh`, `OneWorkerAcrossReconnects`, `NoChangeIsLost` and
`CancelledUpstreamsAreSilent`. The newest list must be known to somebody at each step of the
loop: published or announced before the swap, announced over or fetched from the
new connection during it (`NewestIsKnown`); and a pass over the connection in use has nothing
older than what is published or about to be (`PassIsRecent`).

The response store (`StoreAssumption`): `BooksMatchTheDirectory`. The invariant says that no file
name is in two hands, be it the store's list, a writer that has just made the file or an
eviction under way (`NamesApart`); that a file on disk is in somebody's hands unless it was left by an
expired entry, and what somebody holds is on disk or had expired (`DiskIsKnown`); that sizes are
those on disk (`SizesAreTrue`); and that `used` is the sum over the store's list. It rests on
what sums and names become when a list is appended to, partitioned, put in front of another or sorted.

Login resolution (`LoginAssumption`): `LoginsAreBound`. The invariant is small (`LoginIInv`: a login is
of some settings and some environment); the work is in what `BeginLogin` and `Refresh` return for
all of them (`LoginBelongs`, `RefreshedBelongs`): where a client and its secret come from in
each case, and what the match with the settings before a refresh rules out.

The names of tools (`NamesAssumption`): `NamesReachTools`. The registry holds exactly the entries of the lists that
the servers were given last (`NamesInv`, `Holds`); a listed name is the string of the server's name, two
underscores and a name of the tool. It is cut after the server when nothing in the server's name, nor its
end with the first underscore behind it, is a separator (`EndsAtSeparator`), whatever the tool's own name has; of two
such servers no two tools are listed alike, nor of one server of any name. The theorem excepts the rest.

The import plan (`ImportAssumption`): `ImportsAreSound`. The invariant says that what was planned is
`PlanImport` of what was read (`ImportsAreOfThePlan`); what that plan is, is an induction over the
entries for each of the two passes. In the first every group of equal servers has a picked candidate
or waits, and if some agent has it switched on, because each of its names is taken (`Picking`,
`NextIsPicked`); in the second what the first picked stays and each group that waited is offered, or
has only names that are empty or mini's (`Offering`, `NextIsOffered`). From these every entry has its
place (`PlacesOfEntries`), and an entry left behind as a second config has its first among
the candidates (`SecondConfigsHaveAFirst`). A number that is free exists because a finite set of
names cannot hold one name with each of one more numbers than it has members (`ANumberIsFree`).

What the store, the names and the import compute is defined by recursion over a list (`SumSizes`, `EntriesOf`,
`Named`). The theorems about it hold for lists of every length: a counterexample has a least
length, and `LeastNat`, which follows from the well-foundedness of the order on numbers, gives it.

**UpstreamLifecycle_proofs** (assumes `LifecycleAssumption`): `NoConnectionLeaks`,
`ServingIsConsistent`, `RemovedServersStayRemoved`, `CloseLeavesNothing`. The invariant has two
halves. `Held`: every open connection is held by exactly one install or upstream
object (`InstallsHold`, `UpstreamsHold`, `InstallsDiffer`, `HeldApart`, `Accounted`) and only the
registered upstream is alive (`OneIsLive`). `Ordered`: the operation that holds the name's lock
is at a step of its own (`AdminFollows`), an install is never of a later generation than
`removeGen` (`GenerationsPast`), between the two detaches of an add or a removal whatever is under
way is superseded (`ChangeIsAlone`), after a removal that stays so, without a file to
connect it from (`RemovedIsGone`), and nothing begins once Close has stopped it
(`ClosingHolds`). `LifecycleAssumption` asks that some scenario allows as many logins as any other,
which a finite set of scenarios always does.

**DaemonSpawn_proofs** (assumes `SpawnAssumption`): `LockIsDisciplined`, always; and as long
as no daemon was run by hand and none was still starting when `waitForDaemon` gave
up on it (`~astray`), `LockedSpawnsMakeOneDaemon`, `ServingDaemonIsReachable` and
`TokenSurvivesRespawn`. The invariant says that a bound daemon owns the path
(`BoundOwnsPath`), that a starting daemon is awaited by the proxy that holds the lock
(`StartingIsAwaited`), and hence that a probe that fails under the lock means that no
daemon is alive at all (lemma `UnhealthyMeansNone`), and that a daemon which found no token
is the only one that can write it (`OneToken`). The condition is needed: without it two
daemons can serve (see below).

**ProxyForwarding_proofs**: `NoRequestRunsTwice`, `OneResolveAnswersADeath`. The
first rests on: a forward that may be sent again has an outcome that proves it
was not dispatched. The second on: a forward that has been refused with the
current generation's link is evidence of a death that no Resolve has answered
yet; a forward with an older generation takes the current link instead of resolving.

**Sessions_proofs** has two parts that share no state.
- Per-session connections (`ConnsAssumption`): `ConnectionsAreOwned`, from `NoSessionConnLeaks`
  and `RemovalClosesEverything`, and `DialErrorsAreOwn`. `RemovedLeavesNoConn` is a statement
  about quiet states; the invariant that implies it (`StoredIsChecked`) says that a connection
  stored after the removal passed is watched by a call that has not yet done its check.
- A run of `mini init` (`ConstantsAssumption`): `RunIsConsistent` is its invariant, and gives
  `RunLeavesNothing`, `RunKeepsLogins` and `RunSeesChecks`. It says which screen may keep what
  open (`ScreensFollow`, `LoginIsAwaited`, `EndsInOrder`), that the staging directory has the
  settings that were chosen and no other login (`StageIsKept`, `ShownAreStaged`), and what is
  committed and reported at which screen (`CommitIsClean`, `ScreenIsTold`).
  `RemovedServersAreServed` is an action property and needs a second invariant: saves happen
  before Logins, and a choice to remove is kept only at the end (`ScreensSave`); what
  Connect probed is of the servers now staged (`PassedWork`); a server this run added has the
  staged login, and works if its check passed (`OursWork`).

**StdioConn_proofs** (assumes `StdioAssumption`): `SubscribersAreTold`, and
`StdioCallsKeepPromise`: every behaviour of `Spec`, mapped by `Promise`, is one of `CallPromise`,
step by step. The invariant says that a request is read once, after it was written, and its
answer leaves the pending map with the delivery (`CallsInOrder`, `AnswersFollowRuns`), that the
listener owns the link (`ListenerLinks`), and that what the upstream ended or changed since its
acknowledgement is told or still to be read, in order (`EndIsSaid`, `ChangeIsSaid`).

**HTTPConn_proofs** (assumes `HTTPAssumption`): `RenewedSessionsAreTold`, `SessionsAreNotWasted`,
`CallsOverHTTPKeepPromise`. The invariant says who holds `setupMu` (`LockHeld`), that a session is made
only while there is none (`SessionMade`), that whoever was told that the session in use
expired was told so by an upstream without it (`ExpiredIsGone`), that a session the
upstream serves is in use or about to be (`ServedIsUsed`) and announced or about to be
(`SessionIsTold`), and that a request that may be sent again has not run
(`RanWhenAnswered`).

**Parts_proofs** has four parts that share no state.
- Start-up (`HoldAssumption`): `AgentsAreToldOfStartup`. A sleeping listing that was not woken watches
  a server that is tried until its window ends (`SleepIsWatched`), and what a listing owes is ready or
  still tried (`OwedIsComing`).
- The saved login (`ProviderAssumption`): `LoginsAreNotWasted`, `RetiredProvidersAreSilent`,
  `ChallengesWait`. A login at its last steps still holds `serverOpMu` and the provider it commits to
  (`LoginsHold`), and what it is about to remove is its own challenge unless it was overtaken
  (`RemovesItsOwn`). A provider that is not retired holds the refresh token it last saved or
  adopted, unless that one was used up (`ProviderIsSound`), and a request that nothing put in doubt
  refreshes the saved login under the mutex (`CallIsSound`).
- Projection rules (`RulesAssumption`): `RulesAreTheFiles`. `RulesFollowFile` is about quiet states.
  The invariant says what holds on the way there: once the poller has loaded the file as it is (`~unread`),
  so has every other reload, and a save has nothing else to write (`PollIsOfFile`,
  `OthersAreOfFile`), and then memory, and then the aliases, are the file's (`RulesApplied`).
- Tool-change delivery (`DeliveryAssumption`): `NoticesAreHeld`, `OneStreamAtATime`. The one stream that is
  read is the runner's (`StreamIsActive`), a stream that writes to the listens holds their
  lock (`WalkHoldsLock`), and what is owed is owed to registered listens, but for the one
  whose acknowledgement is about to be registered (`OwedAreListens`).

Each invariant was checked by TLC, whole or in the conjuncts that were new, on a small instance before its proof.

The theorems that state a property of a run are `FreshMeansCurrent`,
`AwaitedReadsAreCurrent`, `NoConnectionLeaks`, `ServingIsConsistent`, `RemovedServersStayRemoved`,
`LockedSpawnsMakeOneDaemon`, `ServingDaemonIsReachable`, `NoRequestRunsTwice`, `ConnectionsAreOwned`,
`SubscribersAreTold`, `StdioCallsKeepPromise`, `RenewedSessionsAreTold`, `SessionsAreNotWasted`,
`CallsOverHTTPKeepPromise`, `AgentsAreToldOfStartup`, `LoginsAreNotWasted`, `RetiredProvidersAreSilent`,
`ChallengesWait`, `RulesAreTheFiles`, `NoticesAreHeld`, `RunLeavesNothing`, `RunKeepsLogins`,
`RunSeesChecks`, `RemovedServersAreServed`, `NoChangeIsLost`, `BooksMatchTheDirectory`, `LoginsAreBound`,
`NamesReachTools` and `ImportsAreSound`.
The others (`AtMostOneWorker`, `ListsOnlyAdvance`, `LockIsDisciplined`, `TokenSurvivesRespawn`,
`OneResolveAnswersADeath`, `DialErrorsAreOwn`, `CloseLeavesNothing`, `OneStreamAtATime`, ...)
need no run beside the proof.

Proving changed the model where it was wrong or said less than it could:
- "A request is told to log in again only if its login could not serve it" is false once a
  third token is issued: the request's refresh may be overtaken by another login.
  `ReauthOnlyWhenNeeded` now has that case (`GaveWay`), and tokens can be revoked, without which
  a run of two tokens hardly needed the property.
- `RemovedStaysRemoved` relied on a history variable that a removal did not always set.
- `RulesFollowFile` had a condition that was not needed (that the poller knows the name): the
  invariant gives the rest without it. Its constants now say that the marks are no rules.
- The names of tools, logins and the import plan were functions that `MCParts` applied to inputs. They are state
  machines now: a registry that is given list after list, a login whose settings are edited
  before its refresh, an import whose writes fail. Their properties speak of what a behaviour
  reaches, and the theorems of every behaviour.
- The names of a plan come from entries with some name; that each has one (`IsName`), that the catalog
  has no name twice (`IsPick`) and that mini's servers are finitely many is now said (`ImportAssumption`).
- `LoginsAreKept` said nothing of staged logins once somebody else had added a server. Only its
  part on what Logins shows needs that exception.

Model-checked only:
- liveness (`RequestsAreMet`, `FollowsFile`, `CloseCompletes`, `ResolveReturns`,
  `RecoveryCompletes`, the rest of `StreamKeepsUp`, `CallsAreAnswered`, `NoCallHangs`,
  `LegacyServed`, `HTTPCallsReturn`), which the prover does not handle under fairness;
- `NothingIsHidden`, the property of a proxied result: `Projection` walks values of any depth with recursive
  operators, in whose modules the prover has no arithmetic or sets.

## What the models met in the code

Two runs are expected to fail. Their counterexamples are real behaviours of the code:

- `reconnect_overtaken`: a notice that arrives between `swapConn` and
  `publishReconnectedTools` can have its pass finished before the reconnect publishes its
  older list, which then counts as fresh until the next notice or the end of its lifetime.
- `unrecorded_login`: start_auth for a server that is disabled in its file, or that no config check has
  recorded yet, installs it, and stays unrecorded (config_tool_auth.go:175, `recordSettings` in
  config_files.go ignores an unrecorded name). A check looks only at recorded names and at files, so when
  the file is disabled or goes, the server keeps running, although config_files.go:53 speaks of connecting
  and removing servers to match the files. `lifecycle_live` checks `FollowsFile` with
  `AuthUnrecorded = FALSE`, where start_auth is called for recorded servers only.

Where another property holds only with an exception, the exception is a named constant,
a history variable or a conjunct, and this is what it leaves out:

- Binding the socket does not by itself exclude two daemons (docs/daemon.md:119 says it
  does): a stale file is removed after a probe and not atomically with it
  (daemon_socket.go:42). Daemons run by hand, or spawned ones slower than the three
  seconds that `waitForDaemon` waits, can end as two, one of them unreachable.
  `NoHerd` and `ServingIsReachable` are about behaviours in which neither has
  happened (`astray`). Two such daemons may also both mint a token.
- `reloadIfConfigChanged` keeps the new fingerprint also when `applyConfig` could not list
  the directory or read the file, and only warns (config_watch.go:91-104, config/servers.go:24-30). The
  edit is then not applied until a file changes again or somebody reloads, although config_watch.go:19
  speaks of applying edits on disk. `RulesFollowFile` excepts such an edit (`unread`).
- A tool is listed as server, two underscores, name (proxy_schema.go:28) and a call is cut at the
  first two underscores (proxy_call.go:234). `ValidServerName` (config/loader.go:16) allows names that end in an
  underscore or have two in a row: `x` of `s_` is called as `_x` of `s`, and `b` of `s__a` as `a__b` of `s`,
  which may be another tool, or listed alike. `NamesAreReachable` excepts such servers from what it says of
  calls, and from the difference of their names from other servers'.
- `clearConsumedChallenge` loads, compares and removes under a mutex of its process
  (challenge.go:92-105); a newer challenge that another process saves in between is removed, although
  `TestSuccessfulLoginConsumesOnlyItsChallenge` means it to stay. `ChallengeWaits` excepts this (`overtaken`).
- A file changed and changed back between two polls, or removed and added again with
  equal bytes, has an equal fingerprint; an add may seed rules it read before a later
  reload. Memory then differs from the file until its next change. `RulesFollowFile`
  excepts both (`moved`).
- `truncateAtBoundary` may cut at the limit itself, so that a string keeps one character
  more than the limit or the report says zero; markup that is stripped is not
  reported. `NothingIsHidden` is about what is trimmed.
- An expired file whose removal fails while the store is loaded is not counted; nor is
  one whose write failed and could not be removed. `DiskIsTracked` names the first (`left`); the
  second, a write that fails, is not in the model.
- `mini auth` that saves a login while the daemon refreshes the old one is overwritten
  by `persistRefreshedLogin`. One that saves a login between the upstream's 401 and the
  stat in `recordStartupFailure` looks older than the failure (startup_state.go:167).
- Between `checkUnchanged` and the rename in fileio/edit.go an edit by hand is lost.
- `ConnectUpstreams` records a server before it opens its window: for that moment the
  server is reported as delayed and a listing is not held. A lookup between the
  detach and the re-registration of `reconnectConfigServer` may say not found.
- Before a server is connected, `toolForAlias` resolves aliases from the rules alone,
  which can differ from the connected resolution when the rules do not name
  exactly the upstream's tools.
- A call keeps the `upstreamServer` it found across a removal and addition of the name
  (dispatch.go:98). `closeStream` drops what its channel holds (tools_changed.go:53);
  `OwedIsHeld` says so (`lost`). Nothing announces a tool list that changed across a
  daemon restart.
- `keepOnly` of an unattended init leaves out the line about a second configuration
  when the first one's write failed.

The HTTP connection is simpler than the code in two places that no property speaks of: the
tools/list that the header lookup makes (http_param_headers.go:38) is one step, without its own retries
under `modernListMu`; and the first legacy session counts as listed also after a modern era, where nobody
lists and nobody is told (http_setup.go:42), so that `RenewalIsTold` is about later sessions only.

A sentence no run is about: docs/auth.md:142 says that a running mini does
not reconnect after a file is edited or `mini auth` is run; `applyServerFiles` and
`connectConfigServer` (internal/server/config_files.go) do.

## Not modelled, and assumptions

- Requests are assumed to be drained before `Server.Close` (the HTTP server's
  shutdown does this), so Close races background goroutines only.
- A file is replaced in one step (it is renamed into place).
- The proxy's limit of 32 concurrent forwards only delays forwards; a proxy without a
  resolver (a remote URL) does not recover and is not modelled.
- The stdio server's own listens (`listen.go`) have the discipline of the HTTP
  ones without the stream and are not modelled separately.
- Parsing and printing: YAML and its defaults, the agents' JSON and TOML files, TOON, SSE
  and header syntax, HTML and Markdown stripping, JSON schemas of tools, the drawing of
  screens, the wording of messages. They are functions of text without state;
  where a decision depends on them the model has the decision.
- jq queries are a library's; the catalog is a download and a lookup; the address and
  redirect policies of HTTP requests are functions of an address.
- The OAuth callback server, PKCE and state values; the ticks of several agents and the
  filters of init's lists; metrics and logs.
- Linters, evaluations, conformance tests and test servers are not part of the program.
