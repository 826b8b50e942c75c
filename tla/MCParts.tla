------------------------------- MODULE MCParts ------------------------------
(***************************************************************************)
(* Parts of mini that share no state with each other: the response         *)
(* store, the projection rules, the start-up holds, the saved login and    *)
(* the tool list across a reconnect, login resolution, the names of tools  *)
(* and the import of mini init, each stepped as a state machine, and the   *)
(* proxied result, computed on every input of a small set.  A behaviour    *)
(* exercises one part.                                                     *)
(***************************************************************************)
EXTENDS ReconnectRefresh, ResponseStore, ProjectionRules, StartupHold, TokenProvider,
        LoginResolution, ImportPlan, ProxyResult, ToolNames

VARIABLES part,   \* the part this behaviour exercises
          input   \* of a computed part, its input

idleInput == [at |-> "none"]

\* One login: the settings first, then what the network and the disk hold.
LoginSettings ==
    [url : {"s"}, client : {"", "c", "document"}, secret : {"", "k"}, issuer : {"", "as1", "as2"},
     token : {"", "own"}, scopes : {{}, {"a"}}, port : {"default", "other"}]

Document(issuer, pkce, cimd) ==
    [issuer |-> issuer, pkce |-> pkce, token |-> "t1", registration |-> "as1", cimd |-> cimd,
     scopes |-> {"d"}]
Registered(issuer, endpoint, secret, method) ==
    [id |-> "reg", issuer |-> issuer, token |-> endpoint, secret |-> secret, method |-> method]
Challenge(status, scopes) == [url |-> "s", rm |-> "rm", scopes |-> scopes, status |-> status]
OldLogin == [url |-> "s", issuer |-> "as1", resource |-> "s", token |-> "t1",
             client |-> Client("c", TRUE, ""), scopes |-> {"old"}]
Metadata == [host |-> "s", doc |-> [as |-> "as1", scopes |-> {"m"}, resource |-> "s"]]
NoMetadata == [host |-> "s", doc |-> None]

LoginNetworks ==
    {[private |-> at.private, agent |-> at.agent, up |-> TRUE, saved |-> had.saved, old |-> had.old,
      probe |-> [rm |-> "", scopes |-> {}],
      prm |-> [place \in {"rm", "path", "root"} |-> IF place = "path" THEN NoMetadata ELSE Metadata],
      meta |-> [as \in {"s", "as1", "as2"} |-> IF as = "as1" THEN <<None, doc>> ELSE << >>],
      reg |-> client, registers |-> registers] :
       at \in {[private |-> {}, agent |-> FALSE],
               [private |-> {"s", "as1", "t1"}, agent |-> FALSE],
               [private |-> {"as1", "t1"}, agent |-> TRUE]},
       had \in {[saved |-> None, old |-> None],
                [saved |-> Challenge(401, {}), old |-> OldLogin],
                [saved |-> Challenge(403, {"b"}), old |-> None],
                [saved |-> Challenge(403, {"b"}), old |-> OldLogin]},
       doc \in {Document("as1", TRUE, TRUE), Document("as1", TRUE, FALSE), Document("as2", TRUE, TRUE),
                Document("as1", FALSE, TRUE)},
       client \in {None, Registered("as1", "t1", "rk", ""), Registered("as2", "t1", "rk", ""),
                Registered("as1", "t1", "expired", ""), Registered("as1", "own", "rk", "none")},
       registers \in {Failed, Registered("as1", "t1", "nk", "client_secret_basic")}}

LoginEdits ==
    {[url |-> "s", client |-> e[1], secret |-> e[2], issuer |-> e[3], token |-> "", scopes |-> {}, port |-> "default"] :
        e \in {<<"", "k2", "">>, <<"c", "k2", "">>, <<"c", "", "as2">>, <<"", "", "as2">>}}

-----------------------------------------------------------------------------
\* Contents of a server's file: no rule, or a rule of a tool.
OneRule(t) == [Empty EXCEPT ![t] = [shape |-> "s", alias |-> "x"]]
WrittenContents == {Empty} \cup {OneRule(t) : t \in Tools}

-----------------------------------------------------------------------------
ToolA == <<"a">>
ToolB == <<"b">>
ToolX == <<"x">>
UnderscoreX == <<Underscore, "x">>
Invalid == <<" ">>

\* The tools a server lists, a name repeated, in another case or invalid among them; its rules may
\* name tools it does not have. Other servers' tools have the same names.
ToolLists == UNION {[1 .. n -> {<<"A">>, ToolA, ToolB, Invalid}] : n \in 0 .. 3}
AliasRules == UNION {[ruled -> {Nothing, ToolB, ToolX, Invalid}] : ruled \in {{}, {ToolA}, {ToolB}, {ToolA, ToolB}, {ToolA, <<"z">>}}}
Parameters(server, defs, hidden, aliases) == [server |-> server, defs |-> defs, hidden |-> hidden, aliases |-> aliases]

\* Servers whose names the first two underscores cut, beside one whose tools are listed alike.
Cut == {<<"s", Underscore>>, <<"s", Underscore, Underscore, "a">>}
CutLists == {<<ToolA, ToolB>>, <<ToolX, UnderscoreX>>, <<<<"A">>, ToolA>>}
Longer == <<"a", Underscore, Underscore, "b">>

NameLists == [n \in 1 .. 3 |->
    CASE n = 1 -> {Parameters(<<"t">>, <<ToolA, ToolB>>, {ToolA}, [t \in {ToolB} |-> ToolX])}
      [] n = 2 -> {Parameters(<<"s">>, <<ToolA, ToolB, defs>>, {ToolB}, [t \in {ToolA} |-> ToolX]) : defs \in {UnderscoreX, Longer}}
      [] n = 3 -> {Parameters(<<"s">>, defs, hidden, aliases) :
                      defs \in ToolLists, hidden \in SUBSET {ToolA, ToolB}, aliases \in AliasRules}
                  \cup {Parameters(s, defs, {}, aliases) : s \in Cut, defs \in CutLists, aliases \in AliasRules}]

-----------------------------------------------------------------------------
Conn(url, key) == [url |-> url, token |-> key]
RawName(text, normal) == [text |-> text, normal |-> normal]
Empties == RawName("!", <<"">>)
UpperA == RawName("A", <<"a">>)
LowerA == RawName("a", <<"a">>)
NumberedA == RawName("a-2", <<"a", 2>>)

Agent(name, target, disabled, refs, mini) ==
    [name |-> name, conn |-> target, disabled |-> disabled, refs |-> refs, mini |-> mini]
Found(name) == {Agent(name, c, d, FALSE, FALSE) : c \in {Conn("u1", ""), Conn("u1", "k"), Conn("", "x")}, d \in BOOLEAN}
Odd == {Agent(LowerA, Conn("u1", ""), FALSE, TRUE, FALSE), Agent(LowerA, Conn("", "x"), FALSE, FALSE, TRUE)}
Single == {<<e>> : e \in Found(UpperA) \cup Found(LowerA) \cup Found(NumberedA) \cup Odd
                         \cup {Agent(Empties, Conn("u1", ""), FALSE, FALSE, FALSE)}}
Pair == {<<e, f>> : e \in Found(UpperA), f \in Found(LowerA) \cup Found(NumberedA) \cup Odd}
        \cup {<<e, f>> : e \in Found(LowerA), f \in Found(NumberedA)}

AgentsFound == {<<first, second>> : first \in Pair, second \in Single \cup {Unreadable}}
ServersOfMini == {{}, {[name |-> <<"a">>, conn |-> Conn("", "broken")]},
                  {[name |-> <<"b">>, conn |-> Conn("u1", "")], [name |-> <<"a", 2>>, conn |-> Conn("", "y")]}}
CatalogServers == {{}, {[name |-> <<"a">>, conn |-> Conn("u1", "")], [name |-> <<"c">>, conn |-> Conn("u9", "")]}}

-----------------------------------------------------------------------------
Text == {<<"x">>, <<"x", "x", "x">>, <<"x", "x", ".">>, <<"x", "<", " ", "x">>, <<"x", "x", " ", ".", "x">>}
Item == Obj([key \in {"id", "body"} |-> IF key = "id" THEN Number ELSE Str(<<"x", "x", ".">>)])
Values == {Str(s) : s \in Text} \cup {Number, Item, Arr(<<Item, Number, Item>>), Arr(<<Str(<<"x", "x", "x">>)>>),
    Obj([key \in {"items", "body"} |-> IF key = "items" THEN Arr(<<Item, Item>>) ELSE Item]),
    Obj([key \in {"__mini", "body"} |-> Str(<<"x", " ", "x", "x">>)]), Obj(<< >>)}
Limits(key, n) == [k \in {key} |-> n]
Config(include, exclude, arrays, strings, strip) ==
    [includeOnly |-> include, exclude |-> exclude, arrayLimits |-> arrays, stringLimits |-> strings, stripMarkup |-> strip]
Configs == {NoConfig,
    Config({}, {<<Field("body")>>}, << >>, << >>, FALSE),
    Config({"items"}, {<<Field("items"), ArrayStep, Field("body")>>, <<Field("items"), ArrayStep>>}, << >>, << >>, TRUE),
    Config({}, {<<ArrayStep, Field("id")>>}, Limits("default", 2), Limits("body", 1), FALSE),
    Config({}, {}, Limits("items", 1), Limits("body", 2), TRUE)}
Blocks == {JSONText(v) : v \in Values} \cup {PlainText(s) : s \in Text} \cup {Resource(<<"x", "x", "x">>), OtherBlock}

\* The defaults and the rest of a call: one of each that matters, and the ways it may go wrong.
ResultCall(structured) ==
    \E first \in {<< >>} \cup {<<b>> : b \in Blocks}, second \in {<< >>, <<JSONText(Item)>>, <<OtherBlock>>},
       cfg \in Configs, limit \in {0, 2},
       rest \in {[control |-> "absent", outcome |-> "ok", stores |-> TRUE, toon |-> TRUE],
                 [control |-> "default", outcome |-> "ok", stores |-> FALSE, toon |-> FALSE],
                 [control |-> "raw", outcome |-> "ok", stores |-> TRUE, toon |-> FALSE],
                 [control |-> "absent", outcome |-> "tool error", stores |-> TRUE, toon |-> TRUE],
                 [control |-> "unknown key", outcome |-> "ok", stores |-> TRUE, toon |-> FALSE]} :
        input' = [at |-> "result",
                  call |-> [control |-> rest.control, outcome |-> rest.outcome, stores |-> rest.stores, toon |-> rest.toon,
                            doc |-> [structured |-> structured, content |-> first \o second],
                            session |-> << >>, server |-> IF cfg = NoConfig THEN << >> ELSE [t \in {"*"} |-> cfg],
                            defaults |-> [stringLimit |-> limit, contentFields |-> {"body"}, autoStrip |-> 3]]]

\* Nothing an agent is sent was trimmed in silence.
NothingIsHidden == input.at = "result" => TrimmedIsTold(input.call)

-----------------------------------------------------------------------------
\* The requests are alike.
CallersAreAlike == Permutations(Callers)

partsVars == <<storeVars, rulesVars, startupVars, tokenVars, allVars, attempt, namesVars, import, part, input>>

PartsInit ==
    /\ StoreInit /\ RulesInit /\ StartupInit /\ TokenInit /\ InitR /\ LoginInit /\ NamesInit /\ ImportInit
    /\ part \in {"store", "rules", "startup", "tokens", "reconnect", "login", "names", "import", "computed"}
    /\ part # "rules" => file = Empty
    /\ chal = IF part = "tokens" THEN 1 ELSE 0
    /\ part # "reconnect" => freshness = "fresh"
    /\ part # "login" => attempt = [at |-> "settings", settings |-> CHOOSE a \in ServerSettings : TRUE]
    /\ input \in IF part # "computed" THEN {idleInput}
                 ELSE {[at |-> "doc", structured |-> v] : v \in Values \cup {Absent}}

Computed == input.at = "doc" /\ ResultCall(input.structured)

\* The part this behaviour exercises is p, and the others stand still.
Only(p) ==
    /\ part = p /\ UNCHANGED part
    /\ IF p = "computed" THEN TRUE ELSE UNCHANGED input
    /\ IF p = "store" THEN TRUE ELSE UNCHANGED storeVars
    /\ IF p = "rules" THEN TRUE ELSE UNCHANGED rulesVars
    /\ IF p = "startup" THEN TRUE ELSE UNCHANGED startupVars
    /\ IF p = "tokens" THEN TRUE ELSE UNCHANGED tokenVars
    /\ IF p = "reconnect" THEN TRUE ELSE UNCHANGED allVars
    /\ IF p = "login" THEN TRUE ELSE UNCHANGED attempt
    /\ IF p = "names" THEN TRUE ELSE UNCHANGED namesVars
    /\ IF p = "import" THEN TRUE ELSE UNCHANGED import

PartsNext ==
    \/ Only("computed") /\ Computed
    \/ Only("store") /\ StoreNext
    \/ Only("rules") /\ RulesNext
    \/ Only("startup") /\ StartupNext
    \/ Only("tokens") /\ TokenNext
    \/ Only("reconnect") /\ NextR
    \/ Only("login") /\ LoginNext
    \/ Only("names") /\ NamesNext
    \/ Only("import") /\ ImportNext

PartsSpec == PartsInit /\ [][PartsNext]_partsVars
=============================================================================
