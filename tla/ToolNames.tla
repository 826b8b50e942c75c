------------------------------ MODULE ToolNames ------------------------------
(***************************************************************************)
(* The names tools have for agents (internal/registry; the names of        *)
(* internal/server: proxy_schema, proxy_call, config_tool_projection;      *)
(* internal/config: aliases, permissions).                                 *)
(*                                                                         *)
(* A name is the sequence of its characters, of which underscores, dots,   *)
(* the case of letters and " ", for all that no name may have, matter.  A  *)
(* server's parameters p have its name, the tools it lists (defs), the     *)
(* tools its permissions hide and, by tool, the alias of its projection    *)
(* rule, Nothing for a rule without one.  The registry maps a server and a *)
(* visible name to the upstream's name of the tool; its keys are strings   *)
(* with a dot between the two, which no server's name has.                 *)
(***************************************************************************)
EXTENDS Naturals, Sequences

CONSTANTS Lists,     \* of each turn but the last, the parameters a server may be given
          MaxTurns   \* how often servers come, change or go

\* A character is a string; the underscore is spelled out.
Underscore == "underscore"
Characters == STRING \cup {Underscore}
Spelling == Seq(Characters)
Nothing == << >>

\* ValidServerName and ValidToolName.
ValidServerName(name) == name # Nothing /\ \A i \in DOMAIN name : name[i] \notin {" ", "."}
ValidToolName(name) == name # Nothing /\ \A i \in DOMAIN name : name[i] # " "

IsParameters(p) ==
    /\ p.server \in Spelling /\ ValidServerName(p.server)
    /\ p.defs \in Seq(Spelling) /\ p.hidden \subseteq Spelling
    /\ \A t \in DOMAIN p.aliases : p.aliases[t] \in Spelling
ASSUME NamesAssumption ==
    MaxTurns \in Nat /\ \A n \in 1 .. MaxTurns - 1 : \A p \in Lists[n] : IsParameters(p)

VARIABLES registered,   \* the registry
          given,        \* of each server that is there, the parameters it was given last
          turn

namesVars == <<registered, given, turn>>

\* strings.EqualFold, with one letter that has a case.
Fold(name) == [i \in DOMAIN name |-> IF name[i] = "A" THEN "a" ELSE name[i]]

\* Hides: permissions ignore case.
Hides(hidden, name) == \E h \in hidden : Fold(h) = Fold(name)

AliasOf(aliases, name) == IF name \in DOMAIN aliases THEN aliases[name] ELSE Nothing

\* buildAliasClaims: an alias that is a real name is not claimed. A tool listed twice claims twice.
Claimed(names, aliases, name) ==
    LET alias == AliasOf(aliases, name)
    IN IF alias # Nothing /\ ValidToolName(alias) /\ ~\E i \in DOMAIN names : names[i] = alias THEN alias ELSE name

VisibleName_FirstWins(names, aliases, name) == Claimed(names, aliases, name)

\* revertClashingAliases: of two claims on an alias neither wins.
VisibleName(names, aliases, name) ==
    LET claimed == Claimed(names, aliases, name)
        Claims == {i \in DOMAIN names : Claimed(names, aliases, names[i]) = claimed}
    IN IF \E i, j \in Claims : i # j THEN name ELSE claimed

-----------------------------------------------------------------------------
(* The registry *)

NoTools == [tools |-> << >>, hidden |-> << >>]

\* buildEntry: the name an entry has.
NameOf(p, i) == VisibleName(p.defs, p.aliases, p.defs[i])

\* addServerLocked: the tools that get an entry; invalid names and repeated ones are skipped.
Entries(p) ==
    {i \in DOMAIN p.defs :
        /\ ValidToolName(p.defs[i])
        /\ ~\E j \in 1 .. i - 1 : ValidToolName(p.defs[j]) /\ NameOf(p, j) = NameOf(p, i)}

\* insertEntryLocked, for those hidden and those not.
HiddenOf(p) == {i \in Entries(p) : Hides(p.hidden, p.defs[i])}
ToolsOf(p) == Entries(p) \ HiddenOf(p)
Insert(f, p, entries) ==
    LET At(key) == {i \in entries : key = <<p.server, NameOf(p, i)>>}
    IN [key \in DOMAIN f \cup {<<p.server, NameOf(p, i)>> : i \in entries} |->
            IF At(key) = {} THEN f[key] ELSE p.defs[CHOOSE i \in At(key) : TRUE]]

\* AddServer.
AddServer(reg0, p) ==
    [tools |-> Insert(reg0.tools, p, ToolsOf(p)), hidden |-> Insert(reg0.hidden, p, HiddenOf(p))]

\* removeServerLocked.
RemoveServer(reg0, server) ==
    LET Others(f) == [key \in {k \in DOMAIN f : k[1] # server} |-> f[key]]
    IN [tools |-> Others(reg0.tools), hidden |-> Others(reg0.hidden)]

\* ReplaceServer.
ReplaceServer(reg0, p) == AddServer(RemoveServer(reg0, p.server), p)

\* Lookup and LookupWithHidden: the upstream's name of the tool, NotFound if there is none.
NotFound == Nothing
Lookup(reg0, key) == IF key \in DOMAIN reg0.tools THEN reg0.tools[key] ELSE NotFound
LookupWithHidden(reg0, key) ==
    IF key \in DOMAIN reg0.tools THEN reg0.tools[key]
    ELSE IF key \in DOMAIN reg0.hidden THEN reg0.hidden[key] ELSE NotFound

-----------------------------------------------------------------------------
(* Names on the wire *)

Separator == <<Underscore, Underscore>>

\* proxyUpstreamToolSchema, for every tool of AllFull.
ListedName(key) == key[1] \o Separator \o key[2]

\* parseProxyToolName: the server ends where two underscores come first.
NotParsed == <<Nothing, Nothing>>
ParseProxyToolName(listed) ==
    LET Cuts == {i \in DOMAIN listed : i + 1 \in DOMAIN listed /\ listed[i] = Underscore /\ listed[i + 1] = Underscore}
        first == CHOOSE i \in Cuts : \A j \in Cuts : i <= j
        parsed == <<SubSeq(listed, 1, first - 1), SubSeq(listed, first + 2, Len(listed))>>
    IN IF Cuts = {} \/ parsed[1] = Nothing \/ parsed[2] = Nothing THEN NotParsed ELSE parsed

\* handleProxyCall: the server, and the upstream's name of its tool, a call under a listed name reaches.
Called(reg0, listed) ==
    LET parsed == ParseProxyToolName(listed) IN [server |-> parsed[1], tool |-> Lookup(reg0, parsed)]

\* upstreamToolName, toolForAlias and configuredAliases: whose rule get_projection and
\* set_projection mean. Without a connection only the rules' own aliases are known.
UpstreamToolName(reg0, connected, server, rules, name) ==
    LET known == LookupWithHidden(reg0, <<server, name>>)
        keys == [t \in DOMAIN rules |-> t]
        aliased == {t \in DOMAIN rules : VisibleName(keys, rules, t) = name /\ t # name}
    IN CASE known # NotFound -> known
         [] known = NotFound /\ ~connected /\ aliased # {} -> CHOOSE t \in aliased : TRUE
         [] OTHER -> name

-----------------------------------------------------------------------------
(* Servers come, list other tools and go *)

NamesInit == registered = NoTools /\ given = << >> /\ turn = 1

\* Installing a server, reconnecting it, and changes of its tools, its rules and its permissions:
\* a server that is there has its tools replaced.
GiveTools ==
    /\ turn < MaxTurns /\ turn' = turn + 1
    /\ \E p \in Lists[turn] :
        /\ registered' = IF p.server \in DOMAIN given THEN ReplaceServer(registered, p) ELSE AddServer(registered, p)
        /\ given' = [s \in DOMAIN given \cup {p.server} |-> IF s = p.server THEN p ELSE given[s]]

\* detachUpstream.
DropServer ==
    /\ turn <= MaxTurns /\ turn' = turn + 1
    /\ \E s \in DOMAIN given :
        /\ registered' = RemoveServer(registered, s)
        /\ given' = [t \in DOMAIN given \ {s} |-> given[t]]

NamesNext == GiveTools \/ DropServer

NamesSpec == NamesInit /\ [][NamesNext]_namesVars

-----------------------------------------------------------------------------
\* Two underscores come first where the server's name ends.
EndsAtSeparator(s) == ~\E i \in DOMAIN s : s[i] = Underscore /\ (i = Len(s) \/ s[i + 1] = Underscore)

\* A call under the name a tool is listed under reaches the tool.
ReachesItsTool(key) ==
    Called(registered, ListedName(key)) = [server |-> key[1], tool |-> registered.tools[key]]

\* The names of server s, with parameters p, are sound.
Own(f, s) == {key \in DOMAIN f : key[1] = s}
Real(p) == {p.defs[i] : i \in DOMAIN p.defs}
NamesAreSound(s, p) ==
    LET tools == Own(registered.tools, s)
        hidden == Own(registered.hidden, s)
        Means(key) == UpstreamToolName(registered, TRUE, s, p.aliases, key[2])
    IN /\ \A name \in Real(p) : ValidToolName(name) =>
            IF Hides(p.hidden, name) THEN \A key \in tools : registered.tools[key] # name
            ELSE \E key \in tools : /\ registered.tools[key] = name
                                    /\ \A other \in tools : registered.tools[other] = name => other = key
       /\ \A key \in tools : registered.tools[key] \in Real(p) /\ Means(key) = registered.tools[key]
       /\ \A key \in hidden : registered.hidden[key] \in Real(p) /\ Means(key) = registered.hidden[key]
       /\ EndsAtSeparator(s) => \A key \in tools : ReachesItsTool(key)
       /\ DOMAIN p.aliases = Real(p) =>
            \A key \in tools : UpstreamToolName(NoTools, FALSE, s, p.aliases, key[2]) = registered.tools[key]

\* However servers come, list other tools and go: every valid tool of a server is hidden or listed
\* under one name, and a call under a listed name reaches the tool it was listed for; no name
\* reaches a hidden tool, whatever aliases and letter case say; nothing is left of a list that was
\* replaced or of a server that is gone, and other servers' names stay; no two tools are listed
\* alike; and a rule saved under the name a tool is listed under is that tool's, before the server
\* is connected too if the rules name just the tools it has. Excepted from the calls, and from the
\* listing beside other servers, are servers with two underscores in their name or one at its end:
\* the first two underscores of what they list are not where their name ends.
NamesAreReachable ==
    /\ \A s \in DOMAIN given : NamesAreSound(s, given[s])
    /\ \A key \in DOMAIN registered.tools \cup DOMAIN registered.hidden : key[1] \in DOMAIN given
    /\ \A key, other \in DOMAIN registered.tools :
            key[1] = other[1] \/ (EndsAtSeparator(key[1]) /\ EndsAtSeparator(other[1])) =>
                (ListedName(key) = ListedName(other) => key = other)
=============================================================================
