---------------------------- MODULE TokenProvider ----------------------------
(***************************************************************************)
(* The OAuth credential of one server (internal/auth/provider, token.go,   *)
(* challenge.go, cmd/mini/auth.go): requests of the daemon share a         *)
(* tokenProvider, which refreshes the login it holds under its mutex,      *)
(* while a command of the CLI refreshes the same login file without any    *)
(* lock, logins are made in the browser, settings are edited and the       *)
(* server is removed.                                                      *)
(*                                                                         *)
(* A login is a pair of access and refresh token with the settings it was  *)
(* made for.  Tokens are numbered as the authorization server issues them; *)
(* 0 is none.  A file is read and replaced in single steps (ReplaceFile).  *)
(***************************************************************************)
EXTENDS Naturals, FiniteSets

CONSTANTS
    Callers,       \* requests of the daemon
    Logins,        \* browser logins: "start_auth" in the daemon, "mini_auth" in the CLI
    MaxTokens,     \* bound: tokens issued
    MaxProviders,  \* bound: providers the registry makes
    MaxEvents      \* bound: logins, removals, edits, lost answers, failed saves, challenges and commands of the CLI

ASSUME ProviderAssumption ==
    /\ Logins \subseteq {"start_auth", "mini_auth"}
    /\ Callers \cap {"noOne", "cli", "remover", "start_auth", "mini_auth"} = {}
    /\ {MaxTokens, MaxProviders, MaxEvents} \subseteq Nat

VARIABLES
    stored,   \* the saved login
    chal,     \* the saved challenge
    conf,     \* the server's settings in its file, and those the daemon runs it with
    latest,   \* the registry's provider of the server, 0 if none
    prov,     \* the tokenProviders made so far
    op,       \* serverOpMu and removeGen
    call,     \* the callers
    cli,      \* the CLI's command that injects a token
    login,    \* the browser logins
    rem,      \* the removal or the reload of the server
    authServer, \* the authorization server: tokens issued, refresh tokens it accepts
    age,      \* of each access token
    events,   \* so far
    overtaken, \* history: logins whose challenge another process replaced between their look and removal
    doubt     \* history: calls during which the saved login could not have served them, or gave way
              \* to another while they were refreshing it

tokenVars == <<stored, chal, conf, latest, prov, op, call, cli, login, rem, authServer, age, events, overtaken, doubt>>

Provs == 1 .. MaxProviders
NoLogin == [a |-> 0, r |-> 0, conf |-> 0]
NoOne == "noOne"
NewProv(c) == [made |-> TRUE, conf |-> c, login |-> NoLogin, persisted |-> NoLogin, dead |-> 0, backoff |-> FALSE,
               mu |-> NoOne, cancelled |-> FALSE, retired |-> FALSE]
NewCall == [pc |-> "idle", op |-> "auth", p |-> 0, token |-> 0, answer |-> NoLogin]

\* There is a login from the start, made for the settings in force, and perhaps a
\* challenge that came since.
TokenInit ==
    /\ stored = [a |-> 1, r |-> 1, conf |-> 1] /\ chal \in {0, 1}
    /\ conf = [file |-> 1, daemon |-> 1]
    /\ latest = 0 /\ prov = [p \in Provs |-> [NewProv(0) EXCEPT !.made = FALSE]]
    /\ op = [mu |-> NoOne, gen |-> 0]
    /\ call = [c \in Callers |-> NewCall]
    /\ cli = [pc |-> "idle", login |-> NoLogin]
    /\ login = [l \in Logins |-> [pc |-> "idle", conf |-> 0, chal |-> 0, gen |-> 0, p |-> 0, token |-> NoLogin]]
    /\ rem = [pc |-> "idle", p |-> 0, deletes |-> FALSE]
    /\ authServer = [issued |-> 1, valid |-> {1}]
    /\ age = [n \in 1 .. MaxTokens |-> "fresh"]
    /\ events = 0 /\ overtaken = {} /\ doubt = {}

Event == events < MaxEvents /\ events' = events + 1

-----------------------------------------------------------------------------
(* Authorization and RefreshAuthorization *)

\* shouldRefreshLocked.
ShouldRefresh(l) == l.r # 0 /\ age[l.a] # "fresh"
TokenExpired(l) == age[l.a] = "expired"

\* LoadLoginFor: the saved login, refused when it was made for other settings.
Loads(settings) == stored # NoLogin /\ stored.conf = settings

\* adoptLoginLocked.
Adopted(P, l) == [P EXCEPT !.login = l, !.persisted = l, !.dead = 0, !.backoff = FALSE]

At(c, pc) == call[c].pc = pc
P_(c) == prov[call[c].p]
Return(c, how, P) ==
    /\ call' = [call EXCEPT ![c].pc = how, ![c].token = P.login.a, ![c].answer = NoLogin]
    /\ prov' = [prov EXCEPT ![call[c].p] = [P EXCEPT !.mu = NoOne]]

unmoved == <<stored, chal, conf, latest, op, cli, login, rem, authServer, age, events>>

\* GetOrCreate, when a connection is made.
GetOrCreate(c) ==
    /\ At(c, "idle")
    /\ IF latest # 0 THEN call' = [call EXCEPT ![c].pc = "lock", ![c].p = latest] /\ UNCHANGED <<latest, prov>>
       ELSE \E p \in Provs :
              /\ ~prov[p].made /\ \A q \in 1 .. p - 1 : prov[q].made
              /\ latest' = p /\ prov' = [prov EXCEPT ![p] = NewProv(conf.daemon)]
              /\ call' = [call EXCEPT ![c].pc = "lock", ![c].p = p]
    /\ UNCHANGED <<stored, chal, conf, op, cli, login, rem, authServer, age, events>>

\* The mutex, ensureLoginLocked and the check whether a refresh is needed.
Lock(c) ==
    LET P == IF P_(c).login = NoLogin /\ ~P_(c).retired /\ Loads(P_(c).conf) THEN Adopted(P_(c), stored) ELSE P_(c) IN
    /\ At(c, "lock") /\ P.mu = NoOne
    /\ CASE P.retired -> Return(c, "retired", P)
         [] ~P.retired /\ P.login = NoLogin -> Return(c, "logIn", P)
         [] OTHER ->
              IF IF call[c].op = "auth" THEN ~ShouldRefresh(P.login) ELSE P.login.a # call[c].token
              THEN Return(c, "got", P)
              ELSE prov' = [prov EXCEPT ![call[c].p] = [P EXCEPT !.mu = c]] /\ call' = [call EXCEPT ![c].pc = "sync"]
    /\ UNCHANGED unmoved

\* A refresh failed: proactiveRefreshLocked serves a token that has not expired yet and
\* backs off; RefreshAuthorization returns the error.
RefreshFails(c, P, how) ==
    IF call[c].op = "auth" /\ ~TokenExpired(P.login) THEN Return(c, "got", [P EXCEPT !.backoff = TRUE])
    ELSE Return(c, how, P)

StillNeeded(c, P) ==
    IF call[c].op = "auth" THEN ShouldRefresh(P.login) /\ (P.backoff => TokenExpired(P.login))
    ELSE P.login.a = call[c].token

SyncWithSavedLogin_Not(P) == P

\* syncWithSavedLoginLocked adopts what another process saved since.
SyncWithSavedLogin(P) == IF stored # P.persisted THEN Adopted(P, stored) ELSE P

\* refreshLocked up to the request.
RefreshLocked(c) ==
    LET P == SyncWithSavedLogin(P_(c)) IN
    /\ At(c, "sync")
    /\ CASE ~Loads(P_(c).conf) -> RefreshFails(c, P_(c), "logIn")
         [] Loads(P_(c).conf) /\ ~StillNeeded(c, P) -> Return(c, "got", P)
         [] Loads(P_(c).conf) /\ StillNeeded(c, P) /\ P.login.r \in {0, P.dead} -> RefreshFails(c, P, "logIn")
         [] OTHER -> /\ prov' = [prov EXCEPT ![call[c].p] = P]
                     /\ call' = [call EXCEPT ![c].pc = "exchange"]
    /\ UNCHANGED unmoved

\* The authorization server's answer to refresh token r: the new login and the server
\* afterwards.  It may rotate the refresh token or keep it.
Issued(old) ==
    {[login |-> [old EXCEPT !.a = authServer.issued + 1, !.r = authServer.issued + 1],
      server |-> [issued |-> authServer.issued + 1, valid |-> (authServer.valid \ {old.r}) \cup {authServer.issued + 1}]],
     [login |-> [old EXCEPT !.a = authServer.issued + 1], server |-> [authServer EXCEPT !.issued = @ + 1]]}

Refused == [NoLogin EXCEPT !.conf = 1]

Exchange(c) ==
    LET old == P_(c).login IN
    /\ At(c, "exchange")
    /\ IF old.r \notin authServer.valid
       THEN call' = [call EXCEPT ![c].pc = "answer", ![c].answer = Refused] /\ UNCHANGED <<authServer, events>>
       ELSE authServer.issued < MaxTokens /\ \E new \in Issued(old) :
              /\ authServer' = new.server
              /\ \/ call' = [call EXCEPT ![c].pc = "answer", ![c].answer = new.login] /\ UNCHANGED events
                 \/ Event /\ call' = [call EXCEPT ![c].pc = "answer"]     \* the answer is lost
    /\ UNCHANGED <<stored, chal, conf, latest, prov, op, cli, login, rem, age>>

\* The request fails before the server acts on it: refreshTimeout, or the provider's
\* lifetime has ended.
ExchangeFails(c) ==
    /\ At(c, "exchange")
    /\ IF P_(c).cancelled \/ authServer.issued = MaxTokens THEN UNCHANGED events ELSE Event
    /\ call' = [call EXCEPT ![c].pc = "answer"]
    /\ UNCHANGED <<stored, chal, conf, latest, prov, op, cli, login, rem, authServer, age>>

\* The end of refreshLocked and refreshFailureLocked (refreshNeedsReauth).
TakeAnswer(c) ==
    LET P == P_(c) ans == call[c].answer IN
    /\ At(c, "answer")
    /\ CASE ans = Refused -> RefreshFails(c, [P EXCEPT !.dead = P.login.r], "logIn")
         [] ans = NoLogin -> RefreshFails(c, P, "transient")
         [] OTHER -> /\ prov' = [prov EXCEPT ![call[c].p] = [P EXCEPT !.login = ans, !.dead = 0, !.backoff = FALSE]]
                     /\ call' = [call EXCEPT ![c].pc = "persist"]
    /\ UNCHANGED unmoved

\* persistRefreshedLogin; a login that cannot be saved is used from memory.
Persist(c) ==
    /\ At(c, "persist")
    /\ \/ /\ stored' = P_(c).login /\ UNCHANGED events
          /\ Return(c, "got", [P_(c) EXCEPT !.persisted = P_(c).login])
       \/ Event /\ Return(c, "got", P_(c)) /\ UNCHANGED stored
    /\ UNCHANGED <<chal, conf, latest, op, cli, login, rem, authServer, age>>

\* challengeMu, which orders what the daemon's own goroutines do to the challenge.
ChallengeMuFree == "start_auth" \in Logins => login["start_auth"].pc # "remove"

\* The upstream rejects the token with a challenge, which the provider records unless that
\* fails, which only warns; a 401 is answered by one refresh (withAuthRetry).
Rejected(c) ==
    /\ At(c, "got") /\ call[c].op = "auth" /\ P_(c).mu = NoOne
    /\ Event
    /\ IF P_(c).retired THEN UNCHANGED chal ELSE ChallengeMuFree /\ chal' \in {chal, events + 2}
    /\ call' = [call EXCEPT ![c].pc = "lock", ![c].op = "renew"]
    /\ UNCHANGED <<stored, conf, latest, prov, op, cli, login, rem, authServer, age>>

-----------------------------------------------------------------------------
(* Commands of the CLI, each a process of its own *)

\* recordAuthorizationFailure: a call or a listing is rejected. Its challengeMu is not the daemon's.
CliRecords ==
    /\ Event
    /\ chal' = events + 2
    /\ UNCHANGED <<stored, conf, latest, prov, op, call, cli, login, rem, authServer, age>>

\* injectToken.

CliLoads ==
    /\ cli.pc = "idle" /\ Event
    /\ cli' = IF Loads(conf.file) /\ TokenExpired(stored) /\ stored.r # 0 THEN [pc |-> "exchange", login |-> stored]
              ELSE [pc |-> "done", login |-> NoLogin]
    /\ UNCHANGED <<stored, chal, conf, latest, prov, op, call, login, rem, authServer, age>>

CliRefreshes ==
    /\ cli.pc = "exchange"
    /\ IF cli.login.r \in authServer.valid /\ authServer.issued < MaxTokens
       THEN \E new \in Issued(cli.login) : cli' = [pc |-> "save", login |-> new.login] /\ authServer' = new.server
       ELSE cli' = [pc |-> "done", login |-> NoLogin] /\ UNCHANGED authServer
    /\ UNCHANGED <<stored, chal, conf, latest, prov, op, call, login, rem, age, events>>

CliSaves ==
    /\ cli.pc = "save"
    /\ stored' = cli.login /\ cli' = [pc |-> "done", login |-> NoLogin]
    /\ UNCHANGED <<chal, conf, latest, prov, op, call, login, rem, authServer, age, events>>

-----------------------------------------------------------------------------
(* Browser logins *)

LoginBegins(l) ==
    /\ login[l].pc = "idle" /\ Event
    /\ login' = [login EXCEPT ![l] = [@ EXCEPT !.pc = "browser", !.conf = conf.file, !.chal = chal, !.gen = op.gen]]
    /\ UNCHANGED <<stored, chal, conf, latest, prov, op, call, cli, rem, authServer, age>>

\* Wait returns: with a login, whose server may give no refresh token, or with an error.
LoginReturns(l) ==
    LET n == authServer.issued + 1 IN
    /\ login[l].pc = "browser"
    /\ \/ /\ n <= MaxTokens
          /\ \E r \in {0, n} :
               /\ login' = [login EXCEPT ![l].pc = "commit", ![l].token = [a |-> n, r |-> r, conf |-> login[l].conf]]
               /\ authServer' = [issued |-> n, valid |-> authServer.valid \cup ({r} \ {0})]
       \/ login' = [login EXCEPT ![l].pc = "done"] /\ UNCHANGED authServer
    /\ UNCHANGED <<stored, chal, conf, latest, prov, op, call, cli, rem, age, events>>

\* SaveLogin, up to clearConsumedChallenge.
SaveLogin(l) == stored' = login[l].token

\* commitTokenUnlessRemoved, under serverOpMu, and CommitAuthorizedToken up to the provider's
\* mutex; without a provider, and in mini auth, the login is saved at once.
CommitBegins(l) ==
    LET p == IF l = "mini_auth" THEN 0 ELSE latest IN
    /\ login[l].pc = "commit" /\ (l = "start_auth" => op.mu = NoOne)
    /\ IF l = "start_auth" /\ op.gen # login[l].gen
       THEN login' = [login EXCEPT ![l].pc = "done"] /\ UNCHANGED <<stored, op>>
       ELSE /\ IF p = 0 THEN SaveLogin(l) ELSE UNCHANGED stored
            /\ login' = [login EXCEPT ![l].pc = IF p = 0 THEN "clear" ELSE "lock", ![l].p = p]
            /\ op' = IF l = "start_auth" THEN [op EXCEPT !.mu = l] ELSE op
    /\ UNCHANGED <<chal, conf, latest, prov, call, cli, rem, authServer, age, events>>

Released(l) == IF l = "start_auth" THEN [op EXCEPT !.mu = NoOne] ELSE op

\* commitBrowserLogin takes the provider's mutex and saves the login.
CommitBrowserLogin(l) ==
    LET p == login[l].p IN
    /\ login[l].pc = "lock" /\ prov[p].mu = NoOne
    /\ IF prov[p].retired
       THEN login' = [login EXCEPT ![l].pc = "done"] /\ op' = Released(l) /\ UNCHANGED <<stored, prov>>
       ELSE /\ SaveLogin(l) /\ prov' = [prov EXCEPT ![p].mu = l]
            /\ login' = [login EXCEPT ![l].pc = "clear"] /\ UNCHANGED op
    /\ UNCHANGED <<chal, conf, latest, call, cli, rem, authServer, age, events>>

IsConsumed_Any(consumed) == consumed # 0

\* The comparison of clearConsumedChallenge: a challenge that arrived during the login stays.
IsConsumed(consumed) == consumed # 0 /\ chal = consumed

\* The end of SaveLogin, commitBrowserLogin and commitTokenUnlessRemoved.
LoginEnds(l) ==
    LET p == login[l].p IN
    /\ login' = [login EXCEPT ![l].pc = "done"] /\ op' = Released(l)
    /\ prov' = IF p = 0 THEN prov
               ELSE [prov EXCEPT ![p] = [Adopted(@, login[l].token) EXCEPT !.conf = login[l].conf, !.mu = NoOne]]

\* clearConsumedChallenge takes its process's challengeMu, loads the challenge and compares it.
LooksAtChallenge(l) ==
    /\ login[l].pc = "clear"
    /\ IF IsConsumed(login[l].chal) THEN login' = [login EXCEPT ![l].pc = "remove"] /\ UNCHANGED <<prov, op>>
       ELSE LoginEnds(l)
    /\ UNCHANGED <<stored, chal, conf, latest, call, cli, rem, authServer, age, events>>

\* It removes the file there is by then; a removal that fails only warns.
RemoveChallenge(l) ==
    /\ login[l].pc = "remove"
    /\ chal' \in {0, chal} /\ LoginEnds(l)
    /\ UNCHANGED <<stored, conf, latest, call, cli, rem, authServer, age, events>>

-----------------------------------------------------------------------------
(* Removal and reload *)

\* The user edits the server's settings.
Edit ==
    /\ conf.file = 1 /\ Event
    /\ conf' = [conf EXCEPT !.file = 2]
    /\ UNCHANGED <<stored, chal, latest, prov, op, call, cli, login, rem, authServer, age>>

\* detachAndCloseServer up to the wait in Forget: for remove_server, or for new settings.
Detach ==
    /\ rem.pc \in {"idle", "again"} /\ op.mu = NoOne
    /\ IF rem.pc = "idle" THEN Event ELSE UNCHANGED events
    /\ \E deletes \in BOOLEAN :
         /\ IF rem.pc = "again" THEN deletes = rem.deletes ELSE deletes \/ conf.file # conf.daemon
         /\ rem' = [pc |-> IF rem.pc = "idle" THEN "forget" ELSE "forgetAgain", p |-> latest, deletes |-> deletes]
    /\ op' = [mu |-> "remover", gen |-> op.gen + 1]
    /\ latest' = 0
    /\ prov' = IF latest = 0 THEN prov ELSE [prov EXCEPT ![latest].cancelled = TRUE]
    /\ UNCHANGED <<stored, chal, conf, call, cli, login, authServer, age>>

Retire_AtOnce ==
    /\ rem.pc \in {"forget", "forgetAgain"}
    /\ prov' = IF rem.p = 0 THEN prov ELSE [prov EXCEPT ![rem.p].retired = TRUE, ![rem.p].login = NoLogin]
    /\ rem' = [rem EXCEPT !.pc = IF rem.pc = "forget" /\ rem.deletes THEN "delete" ELSE "done"]
    /\ op' = [op EXCEPT !.mu = NoOne]
    /\ conf' = [conf EXCEPT !.daemon = conf.file]
    /\ UNCHANGED <<stored, chal, latest, call, cli, login, authServer, age, events>>

\* retire waits for the provider's mutex.
Retire ==
    /\ rem.pc \in {"forget", "forgetAgain"}
    /\ rem.p # 0 => prov[rem.p].mu = NoOne
    /\ prov' = IF rem.p = 0 THEN prov ELSE [prov EXCEPT ![rem.p].retired = TRUE, ![rem.p].login = NoLogin]
    /\ rem' = [rem EXCEPT !.pc = IF rem.pc = "forget" /\ rem.deletes THEN "delete" ELSE "done"]
    /\ op' = [op EXCEPT !.mu = NoOne]
    /\ conf' = [conf EXCEPT !.daemon = conf.file]
    /\ UNCHANGED <<stored, chal, latest, call, cli, login, authServer, age, events>>

\* DeleteCredentials.
DeleteCredentials ==
    /\ rem.pc = "delete"
    /\ stored' = NoLogin /\ chal' = 0
    /\ rem' = [rem EXCEPT !.pc = "again"]
    /\ UNCHANGED <<conf, latest, prov, op, call, cli, login, authServer, age, events>>

TokenAges ==
    /\ \E n \in 1 .. authServer.issued :
         /\ age[n] # "expired"
         /\ age' = [age EXCEPT ![n] = IF @ = "fresh" THEN "expiring" ELSE "expired"]
    /\ UNCHANGED <<stored, chal, conf, latest, prov, op, call, cli, login, rem, authServer, events>>

\* The authorization server revokes a refresh token.
TokenRevoked ==
    /\ Event
    /\ \E r \in authServer.valid : authServer' = [authServer EXCEPT !.valid = @ \ {r}]
    /\ UNCHANGED <<stored, chal, conf, latest, prov, op, call, cli, login, rem, age>>

\* proactiveRefreshBackoff has passed.
BackoffEnds ==
    /\ \E p \in Provs : prov[p].backoff /\ prov' = [prov EXCEPT ![p].backoff = FALSE]
    /\ UNCHANGED call /\ UNCHANGED unmoved

-----------------------------------------------------------------------------
Refreshing(c) == Lock(c) \/ RefreshLocked(c) \/ Exchange(c) \/ ExchangeFails(c) \/ TakeAnswer(c) \/ Persist(c)
RemovalStep == Detach \/ Retire \/ DeleteCredentials

Step ==
    \/ \E c \in Callers : GetOrCreate(c) \/ Refreshing(c) \/ Rejected(c)
    \/ CliRecords \/ CliLoads \/ CliRefreshes \/ CliSaves
    \/ \E l \in Logins :
         \/ LoginBegins(l) \/ LoginReturns(l) \/ CommitBegins(l) \/ CommitBrowserLogin(l)
         \/ LooksAtChallenge(l) \/ RemoveChallenge(l)
    \/ Edit \/ RemovalStep \/ TokenAges \/ TokenRevoked \/ BackoffEnds

\* The saved login could serve the call.
Good(c) == call[c].p = 0 \/ (Loads(P_(c).conf) /\ stored.r \in authServer.valid)

\* Another login takes its place while the call is refreshing it.
GaveWay(c) == call[c].pc \in {"exchange", "answer"} /\ stored' # stored

\* A challenge replaces the one a login of another process is about to remove: only the CLI does
\* so to start_auth, and anyone to mini auth.
Overtakes(l) ==
    /\ chal' \notin {0, chal} /\ login[l].pc = "remove"
    /\ l = "start_auth" => call' = call

Remember ==
    /\ overtaken' = overtaken \cup {l \in Logins : Overtakes(l)}
    /\ doubt' = {c \in Callers : call'[c].pc # "idle" /\ (c \in doubt \/ ~Good(c) \/ ~Good(c)' \/ GaveWay(c))}

TokenNext == Step /\ Remember

TokenSpec == TokenInit /\ [][TokenNext]_tokenVars

-----------------------------------------------------------------------------
\* A request is told to log in again only if, at some moment since it began, the saved login could
\* not have served it, or another login took its place while the request was refreshing it: another
\* process that rotated the refresh token before that does not cost a user a login.
ReauthOnlyWhenNeeded == \A c \in Callers : At(c, "logIn") => c \in doubt

\* Forget's comment: once a provider is retired no refresh and no login of it is under
\* way any more, so it never authorizes or saves a token again.
RetiredIsSilent ==
    \A p \in Provs : prov[p].retired =>
        /\ prov[p].mu = NoOne /\ prov[p].login = NoLogin
        /\ \A c \in Callers : call[c].p = p => call[c].pc \notin {"sync", "exchange", "answer", "persist"}

\* A challenge is dropped only by a removal, or by a login that was made to meet it: one that
\* arrives during the login waits for the next. Except for a login that looked at its challenge
\* while another process was about to replace it: challengeMu orders one process only, and the
\* login removes the newer challenge.
ChallengeWaits ==
    [][(chal # 0 /\ chal' = 0) =>
         rem.pc = "delete" \/ \E l \in Logins : login[l].pc = "remove" /\ (login[l].chal = chal \/ l \in overtaken)]_tokenVars
=============================================================================
