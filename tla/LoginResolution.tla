--------------------------- MODULE LoginResolution ---------------------------
(***************************************************************************)
(* How a browser login finds the authorization server, the client and the  *)
(* scopes it uses (internal/auth: discover, discover_prm, resolve, login,  *)
(* oauth, http_policy), as functions of what the network answers, and a    *)
(* login that is made and refreshed by them.                               *)
(*                                                                         *)
(* URLs are abstracted to the host that serves them; an authorization      *)
(* server is named by its issuer.  An environment w has                    *)
(*   cfg      the server's settings: url, client, secret, issuer, token    *)
(*            (the token endpoint), scopes, port                           *)
(*   private  the hosts on private networks                                *)
(*   agent    the server was added by an agent                             *)
(*   up       the MCP server answers                                       *)
(*   saved    the saved challenge; probe: what an unauthenticated request  *)
(*            is answered                                                  *)
(*   prm      the answers at the three places for resource metadata        *)
(*   meta     of each authorization server, the answers at its candidates  *)
(*   reg      the saved registration; registers: the answer to a new one   *)
(*   old      the saved login                                              *)
(***************************************************************************)
EXTENDS Naturals, Sequences, FiniteSets

CONSTANTS ServerSettings,   \* the settings a server may have
          Edits,            \* those a person may change them to
          Networks          \* what the network and the disk may hold: an environment without cfg

IsSettings(a) == a = [url |-> a.url, client |-> a.client, secret |-> a.secret, issuer |-> a.issuer,
                      token |-> a.token, scopes |-> a.scopes, port |-> a.port]
ASSUME LoginAssumption == \A a \in ServerSettings : IsSettings(a)

VARIABLE attempt    \* a server's login, and the settings as they are

None == [none |-> TRUE]
Failed == [failed |-> TRUE]

-----------------------------------------------------------------------------
(* Network policy *)

\* newOAuthHTTPFlow: a server of the user's on a private network pins its address.
PrivateOrigin(w) == w.cfg.url \in w.private /\ ~w.agent

\* oauthFlowTransport: other private hosts are reached only once the pinned server has
\* answered, which the first request of a discovery, its probe, decides.
Reaches(w, host) ==
    /\ host = w.cfg.url => w.up
    /\ host \in w.private => PrivateOrigin(w) /\ w.up

-----------------------------------------------------------------------------
(* Discovery *)

Ref(as, scopes, resource) == [as |-> as, scopes |-> scopes, required |-> {}, resource |-> resource]
NoRef == Ref("", {}, "")

WithRequiredScopes(ref, scopes) ==
    IF ref = Failed \/ scopes = {} THEN ref ELSE [ref EXCEPT !.scopes = scopes, !.required = scopes]

SavedChallenge(w) == IF w.saved # None /\ w.saved.url = w.cfg.url THEN w.saved ELSE None

\* needsFreshChallenge: on a private network the server itself must say where to go.
NeedsFreshChallenge(w) ==
    PrivateOrigin(w) \/ SavedChallenge(w) = None \/ SavedChallenge(w).rm = ""

\* probeAuthorizationChallenge.
ProbeAuthorizationChallenge(w) == IF Reaches(w, w.cfg.url) THEN w.probe ELSE None

\* validatePRMResource: the resource is the server's or a parent of it at the same origin.
ContainsServer(w, resource) == resource \in {w.cfg.url, "parent"}

\* fetchASURLFromPRM and decodePRM.  An answer is absent (404, another status, a page that is
\* not JSON, no authorization servers), an error, or a document.
FetchASURLFromPRM(w, at) ==
    LET doc == w.prm[at].doc IN
    IF ~Reaches(w, w.prm[at].host) \/ doc = Failed THEN Failed
    ELSE IF doc = None THEN NoRef
    ELSE IF ContainsServer(w, doc.resource) THEN Ref(doc.as, doc.scopes, doc.resource) ELSE Failed

\* probePRMCandidates: the first that names a server; an error is remembered; with none the
\* server's origin is its own authorization server.
FirstNamed(w, first, second) ==
    CASE first # Failed /\ first.as # "" -> first
      [] ~(first # Failed /\ first.as # "") /\ second # Failed /\ second.as # "" -> second
      [] OTHER -> IF Failed \in {first, second} THEN Failed ELSE Ref(w.cfg.url, {}, "")
ProbePRMCandidates(w) == FirstNamed(w, FetchASURLFromPRM(w, "path"), FetchASURLFromPRM(w, "root"))

\* asRefFromChallenge and discoverFromChallenge.
DirectOr(w, direct) == IF direct = Failed \/ direct.as # "" THEN direct ELSE ProbePRMCandidates(w)
DiscoverFromChallenge(w, c) ==
    IF c = None THEN ProbePRMCandidates(w)
    ELSE WithRequiredScopes(DirectOr(w, IF c.rm = "" THEN NoRef ELSE FetchASURLFromPRM(w, c.rm)), c.scopes)

\* discoverASURL: the scopes of the saved challenge are required whatever the fresh one says.
DiscoverASURL(w) ==
    LET saved == SavedChallenge(w)
        ref == DiscoverFromChallenge(w, IF NeedsFreshChallenge(w) THEN ProbeAuthorizationChallenge(w) ELSE saved)
    IN IF saved = None THEN ref ELSE WithRequiredScopes(ref, saved.scopes)

\* discoverASMeta: the first candidate that is not a 404 decides.  decodeASMeta wants PKCE and
\* requireIssuer the issuer itself; the fallback names no issuer.
DecodeASMeta(doc, as) == IF doc = Failed \/ ~doc.pkce \/ doc.issuer # as THEN Failed ELSE doc
DiscoverASMeta(w, as) ==
    LET found == SelectSeq(w.meta[as], LAMBDA answer : answer # None)
    IN IF Reaches(w, as) /\ found # << >> THEN DecodeASMeta(found[1], as) ELSE Failed

\* discoverMetadata: the endpoints, with preferScopes and the resource the challenge named.
MetadataOf(w, ref, doc) ==
    IF doc = Failed THEN Failed
       ELSE [issuer |-> doc.issuer, token |-> doc.token, registration |-> doc.registration, cimd |-> doc.cimd,
             scopes |-> IF ref.scopes = {} THEN doc.scopes ELSE ref.scopes, required |-> ref.required,
             resource |-> IF ref.resource = "" THEN w.cfg.url ELSE ref.resource]
ASMetadata(w, ref) == IF ref = Failed THEN Failed ELSE MetadataOf(w, ref, DiscoverASMeta(w, ref.as))
DiscoverMetadata(w) == ASMetadata(w, DiscoverASURL(w))

-----------------------------------------------------------------------------
(* The login's settings *)

\* clearSecretWithoutClientID: a configured secret belongs to a configured client.
ClearSecretWithoutClientID(a) == IF a.client = "" THEN [a EXCEPT !.secret = ""] ELSE a

\* applyDiscoveredEndpoints: configured endpoints win; a discovered one must be allowed.
ApplyDiscoveredEndpoints(w, a, meta) ==
    CASE a.token # "" -> a
      [] a.token = "" /\ meta.token \in w.private /\ ~(PrivateOrigin(w) /\ w.up) -> Failed
      [] OTHER -> [a EXCEPT !.token = meta.token]

\* applyDiscoveredScopes.
ApplyDiscoveredScopes(a, meta) ==
    [a EXCEPT !.scopes = IF a.scopes = {} THEN meta.scopes ELSE a.scopes \cup meta.required]

\* MatchesConfig: the saved login can be used with settings a.
MatchesConfig(l, a) ==
    /\ l.url = a.url
    /\ a.issuer \in {"", l.issuer}
    /\ a.client = l.client.id \/ (a.client = "" /\ ~l.client.configured)
    /\ a.token \in {"", l.token}

\* mergePreviousScopes: a 403 asks for more, so what the last login had is kept.
MergePreviousScopes(w, a, meta) ==
    IF /\ SavedChallenge(w) # None /\ SavedChallenge(w).status = 403
       /\ w.old # None /\ MatchesConfig(w.old, a)
       /\ w.old.issuer = meta.issuer /\ w.old.resource = meta.resource
    THEN [a EXCEPT !.scopes = a.scopes \cup w.old.scopes]
    ELSE a

-----------------------------------------------------------------------------
(* The client *)

Client(id, configured, secret) == [id |-> id, configured |-> configured, secret |-> secret]

\* validateConfiguredIssuer, with portableClientID for a metadata document of the user's own.
ConfiguredIssuerFits(a, meta) ==
    a.issuer = meta.issuer \/ (a.issuer = "" /\ meta.cimd /\ a.client = "document" /\ a.secret = "")

RegistrationUsable_AnyIssuer(reg, a, meta) == reg # None /\ reg.secret # "expired"

\* registrationUsable and secretApplies.
RegistrationUsable(reg, a, meta) ==
    reg # None /\ reg.issuer = meta.issuer /\ reg.token = a.token /\ reg.secret # "expired"

\* applyRegistration and validateRegistrationConsistency: a secret with a method that uses it,
\* which may be omitted, or neither.
ApplyRegistration(reg) ==
    IF reg.method \in IF reg.secret = "" THEN {"", "none"} ELSE {"", "client_secret_basic", "client_secret_post"}
    THEN Client(reg.id, FALSE, reg.secret) ELSE Failed

\* dynamicRegister, registrationURL, register and parseRegistrationResponse.
DynamicRegister(w, meta) ==
    IF meta.registration = "" \/ ~Reaches(w, meta.registration) \/ w.registers = Failed THEN Failed
    ELSE ApplyRegistration(w.registers)

\* resolveClient: the configured client, a saved registration, mini's metadata document on the
\* default port, a new registration.
ResolveClient(w, a, meta) ==
    CASE a.client # "" -> IF ConfiguredIssuerFits(a, meta) THEN Client(a.client, TRUE, "") ELSE Failed
      [] a.client = "" /\ RegistrationUsable(w.reg, a, meta) -> ApplyRegistration(w.reg)
      [] a.client = "" /\ ~RegistrationUsable(w.reg, a, meta) ->
            IF meta.cimd /\ a.port = "default" THEN Client("mini", FALSE, "") ELSE DynamicRegister(w, meta)

\* loginSnapshot: the login as it will be saved, with the secret its code exchange sends to
\* the token endpoint.
LoginSnapshot(w, meta, a, client) ==
    IF client = Failed THEN Failed
    ELSE [url |-> w.cfg.url, issuer |-> meta.issuer, resource |-> meta.resource, token |-> a.token,
          client |-> client, scopes |-> a.scopes,
          sends |-> IF client.configured THEN a.secret ELSE client.secret]

\* resolveLogin: metadata, endpoints, scopes and client, each step on what the last one found.
LoginOfClient(w, meta, a) == LoginSnapshot(w, meta, a, ResolveClient(w, a, meta))
LoginAt(w, meta, a) ==
    IF a = Failed THEN Failed ELSE LoginOfClient(w, meta, MergePreviousScopes(w, ApplyDiscoveredScopes(a, meta), meta))
LoginWith(w, meta) ==
    IF meta = Failed THEN Failed
    ELSE LoginAt(w, meta, ApplyDiscoveredEndpoints(w, ClearSecretWithoutClientID(w.cfg), meta))
ResolveLogin(w) == LoginWith(w, DiscoverMetadata(w))

-----------------------------------------------------------------------------
(* Refresh *)

\* validateRefreshBinding: on a private network the server must still name what the login names.
Names(w, meta, l) ==
    /\ meta # Failed /\ meta.issuer = l.issuer /\ meta.resource = l.resource
    /\ w.cfg.token = l.token \/ meta.token = l.token
RefreshBound(w, l) == PrivateOrigin(w) => Names(w, DiscoverMetadata([w EXCEPT !.saved = None]), l)

\* RefreshConfig: the endpoint and client of the login; only a configured client's secret is
\* read from the settings.
RefreshConfig(w, l) ==
    [token |-> l.token, issuer |-> l.issuer, client |-> l.client.id,
     secret |-> IF l.client.configured THEN w.cfg.secret ELSE l.client.secret]

\* Refresh.
Refresh(w, l) == IF MatchesConfig(l, w.cfg) /\ RefreshBound(w, l) THEN RefreshConfig(w, l) ELSE Failed

-----------------------------------------------------------------------------
(* A login and what becomes of its settings *)

World(settings, net) ==
    [cfg |-> settings, private |-> net.private, agent |-> net.agent, up |-> net.up, saved |-> net.saved,
     probe |-> net.probe, prm |-> net.prm, meta |-> net.meta, reg |-> net.reg, registers |-> net.registers,
     old |-> net.old]

LoginInit == attempt \in {[at |-> "settings", settings |-> a] : a \in ServerSettings}

AttemptLogin ==
    /\ attempt.at = "settings"
    /\ \E net \in Networks :
        attempt' = [at |-> "login", w |-> World(attempt.settings, net), edited |-> attempt.settings]

\* The settings a person changes to before the token is refreshed.
EditLogin ==
    /\ attempt.at = "login" /\ attempt.edited = attempt.w.cfg
    /\ \E e \in Edits : attempt' = [attempt EXCEPT !.edited = e]

LoginNext == AttemptLogin \/ EditLogin

-----------------------------------------------------------------------------
\* A secret is sent only where it belongs: the configured one only with the configured client and
\* to the issuer the settings name; a saved one only to the issuer and the token endpoint it was
\* registered at and while it is valid; or it is the one just registered.
SecretBelongs(w, l) ==
    \/ l.sends = ""
    \/ /\ l.client.configured /\ l.client.id = w.cfg.client
       /\ l.sends = w.cfg.secret /\ l.issuer = w.cfg.issuer
    \/ /\ ~l.client.configured /\ w.cfg.client = "" /\ w.reg # None
       /\ l.client.id = w.reg.id /\ l.sends = w.reg.secret /\ w.reg.method # "none"
       /\ w.reg.issuer = l.issuer /\ w.reg.token = l.token /\ w.reg.secret # "expired"
    \/ /\ ~l.client.configured /\ w.cfg.client = "" /\ w.registers # Failed
       /\ l.client.id = w.registers.id /\ l.sends = w.registers.secret /\ w.registers.method # "none"

\* The login fits its own settings, other than an issuer without a client, which says nothing.
FitsItsSettings(w, l) ==
    MatchesConfig(l, w.cfg) \/ (w.cfg.client = "" /\ w.cfg.issuer \notin {"", l.issuer})

\* It can do what the server asked for, and what the last login could when it asked for more.
KeepsScopes(w, l) ==
    LET c == SavedChallenge(w) IN
    c # None =>
        /\ c.scopes \subseteq l.scopes
        /\ c.status = 403 /\ w.old # None /\ MatchesConfig(w.old, w.cfg) /\ w.old.token = l.token
              /\ w.old.issuer = l.issuer /\ w.old.resource = l.resource => w.old.scopes \subseteq l.scopes

\* A host on a private network that nobody configured is trusted only by a server of the user's
\* on that network that answers.
TrustsPrivately(w, l) ==
    l.issuer \in w.private \/ (l.token \in w.private /\ w.cfg.token = "") => PrivateOrigin(w) /\ w.up

\* A refresh goes where the login went, under settings that still fit, and its secret is the
\* configured one of the same client or the login's own.
RefreshBelongs(edited, l, r) ==
    /\ r.token = l.token /\ r.client = l.client.id /\ edited.issuer \in {"", l.issuer}
    /\ \/ r.secret = ""
       \/ l.client.configured /\ r.secret = edited.secret /\ edited.client = l.client.id
       \/ ~l.client.configured /\ r.secret = l.sends /\ edited.client \in {"", l.client.id}

\* A login that is made goes to the authorization server the settings allow, with a secret only
\* where it belongs and the scopes that were asked for, and stays bound to it when it is
\* refreshed, whatever the settings, the disk and the network hold by then.
LoginIsBound ==
    attempt.at = "login" =>
        LET w == attempt.w IN
        \A l \in {ResolveLogin(w)} \ {Failed} :
            /\ SecretBelongs(w, l) /\ FitsItsSettings(w, l) /\ KeepsScopes(w, l) /\ TrustsPrivately(w, l)
            /\ \A r \in {Refresh([w EXCEPT !.cfg = attempt.edited], l)} \ {Failed} :
                    RefreshBelongs(attempt.edited, l, r)
=============================================================================
