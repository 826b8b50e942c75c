----------------------------- MODULE ImportPlan -----------------------------
(***************************************************************************)
(* What mini init imports from the agents and adds from the catalog, under *)
(* which names, and what its report says was left behind                   *)
(* (cmd/mini/initcmd: import, setup, catalog, written_servers;             *)
(* internal/agents/same_server).                                           *)
(*                                                                         *)
(* A normal name is a base and its numbers: <<"a">> is a, <<"a", 2>> a-2,  *)
(* and the base "" is a name with nothing usable in it.  An agent is       *)
(* Unreadable or the list of its entries in the order of their names: each *)
(* has a raw name, the connection (what SameServer compares), whether it   *)
(* is switched off, whether it holds references mini cannot expand and     *)
(* whether it runs mini itself.  Entries are known by their place in the   *)
(* list of all; what the code sorts for show is a set here.                *)
(***************************************************************************)
EXTENDS Naturals, Sequences, FiniteSets

CONSTANTS AgentConfigs,   \* what the agents may hold
          MiniServers,    \* the servers mini may have
          CatalogPicks    \* what may be added from the catalog

Unreadable == <<[unreadable |-> TRUE]>>
MiniKey == <<"mini">>

\* NormalizeName: the case is dropped, which is all that tells two raw names apart here.
NormalizeName(raw) == raw.normal

IsList(s) == Len(s) \in Nat /\ s = [i \in 1 .. Len(s) |-> s[i]]
IsName(name) == IsList(name) /\ Len(name) > 0
IsAgents(agents) ==
    /\ IsList(agents)
    /\ \A i \in DOMAIN agents : agents[i] # Unreadable =>
        IsList(agents[i]) /\ \A n \in DOMAIN agents[i] : IsName(NormalizeName(agents[i][n].name))
\* The catalog refuses a name it has twice.
IsPick(add) == \A s, t \in add : s.name = t.name => s = t
ASSUME ImportAssumption ==
    /\ \A agents \in AgentConfigs : IsAgents(agents)
    /\ \A written \in MiniServers : IsFiniteSet(written)
    /\ \A add \in CatalogPicks : IsPick(add)

VARIABLE import   \* what mini init has planned and done

\* SameServer and ConnectionDifferences compare connections: the URL, empty for a command, and
\* the rest, with its token. A server file that does not load is nobody's equal.
SameServer(a, b) == a.conn = b.conn

-----------------------------------------------------------------------------
(* Reading *)

\* readCandidates: entries in the order of agents and names; an unreadable agent has none.
EntriesOf(agents) ==
    LET Entry(i, e) == [agent |-> i, name |-> e.name, conn |-> e.conn, disabled |-> e.disabled,
                        refs |-> e.refs, mini |-> e.mini]
        At(i) == IF agents[i] = Unreadable THEN << >> ELSE [n \in 1 .. Len(agents[i]) |-> Entry(i, agents[i][n])]
        read[i \in 0 .. Len(agents)] == IF i = 0 THEN << >> ELSE read[i - 1] \o At(i)
    IN read[Len(agents)]

\* isMini and IsMiniEntry: mini is never imported into mini.
IsMini(e) == NormalizeName(e.name) = MiniKey \/ e.mini

\* candidatesIn: the entries mini already runs; those it cannot expand (Server.Candidate); the rest.
NotMini(entries) == {i \in DOMAIN entries : ~IsMini(entries[i])}
InMini(entries, written) == {i \in NotMini(entries) : \E w \in written : SameServer(w, entries[i])}
Unexpandable(entries, written) == {i \in NotMini(entries) \ InMini(entries, written) : entries[i].refs}
Candidates(entries, written) == {i \in NotMini(entries) \ InMini(entries, written) : ~entries[i].refs}

\* addToGroup: one server under several names is imported once. The group that begins at an entry
\* is empty if the entry joins another.
Groups(entries, written) ==
    LET Same(i) == {j \in Candidates(entries, written) : SameServer(entries[i], entries[j])}
    IN [i \in DOMAIN entries |-> IF i \in Same(i) /\ \A j \in Same(i) : i <= j THEN Same(i) ELSE {}]

Enabled(entries, g) == \E i \in g : ~entries[i].disabled

-----------------------------------------------------------------------------
(* Names *)

\* lowercaseNames.
TakenInMini(written) == {w.name : w \in written}

Usable(name, taken) == name[1] # "" /\ name \notin taken

Least(S) == CHOOSE i \in S : \A j \in S : i <= j

\* firstFree: the first name of the group nobody has; NoName is none.
NoName == <<"">>
FirstFree(entries, g, taken) ==
    LET free == {i \in g : Usable(NormalizeName(entries[i].name), taken)}
    IN IF free = {} THEN NoName ELSE NormalizeName(entries[Least(free)].name)

\* suffixed: the first name that is not mini's, with the first free number from 2.
Suffixed(entries, g, inMini, taken) ==
    LET own == {i \in g : Usable(NormalizeName(entries[i].name), inMini)}
        base == NormalizeName(entries[Least(own)].name)
        free == {n \in 2 .. 2 + Cardinality(taken) : Append(base, n) \notin taken}
    IN IF own = {} THEN NoName ELSE Append(base, Least(free))

\* addCandidate: the candidate takes the name.
AddCandidate(plan, g, name, picked) ==
    LET c == [name |-> name, conn |-> plan.entries[Least(g)].conn, from |-> {plan.entries[i] : i \in g}, picked |-> picked]
    IN [plan EXCEPT !.candidates = @ \cup {c}, !.taken = @ \cup {name}]

\* add: a group some agent has switched on takes its first free name.
AddStep(plan, g) ==
    LET name == IF Enabled(plan.entries, g) THEN FirstFree(plan.entries, g, plan.taken) ELSE NoName
    IN IF name = NoName THEN [plan EXCEPT !.unpicked = @ \cup {g}] ELSE AddCandidate(plan, g, name, TRUE)

\* offer: what was not picked is offered under a free name, if need be with a number.
OfferStep(plan, g) ==
    LET free == FirstFree(plan.entries, g, plan.taken)
        name == IF free = NoName THEN Suffixed(plan.entries, g, plan.inMini, plan.taken) ELSE free
    IN IF name = NoName THEN plan ELSE AddCandidate(plan, g, name, FALSE)

NoPlanYet(entries, written) ==
    [entries |-> entries, inMini |-> TakenInMini(written), taken |-> TakenInMini(written),
     candidates |-> {}, unpicked |-> {}]

Named_AsTheyCome(entries, written) ==
    LET groups == Groups(entries, written)
        plan[n \in 0 .. Len(entries)] ==
            IF n = 0 THEN NoPlanYet(entries, written)
            ELSE LET p == IF groups[n] = {} THEN plan[n - 1] ELSE AddStep(plan[n - 1], groups[n])
                 IN IF groups[n] \in p.unpicked THEN OfferStep(p, groups[n]) ELSE p
    IN plan[Len(entries)]

\* The two passes of PlanImport: every picked config has its name before one is offered.
Named(entries, written) ==
    LET groups == Groups(entries, written)
        picking[n \in 0 .. Len(entries)] ==
            IF n = 0 THEN NoPlanYet(entries, written)
            ELSE IF groups[n] = {} THEN picking[n - 1] ELSE AddStep(picking[n - 1], groups[n])
        picked == picking[Len(entries)]
        offering[n \in 0 .. Len(entries)] ==
            IF n = 0 THEN picked
            ELSE IF groups[n] \in picked.unpicked THEN OfferStep(offering[n - 1], groups[n]) ELSE offering[n - 1]
    IN offering[Len(entries)]

\* noFreeNameCause.
NoFreeNameCause(e, plan) ==
    LET name == NormalizeName(e.name) IN
    CASE name[1] = "" -> "empty name"
      [] name[1] # "" /\ name \in plan.inMini -> "name in mini"
      [] OTHER -> "second config"

Skip(e, cause) == [entry |-> e, cause |-> cause]

\* skipAll: why an entry stays in its agent.
SkippedOf(plan) ==
    UNION {{Skip(plan.entries[i], IF Enabled(plan.entries, g) THEN NoFreeNameCause(plan.entries[i], plan)
                                  ELSE "switched off") : i \in g} : g \in plan.unpicked}

\* PlanImport.
PlanImport(entries, written) ==
    LET plan == Named(entries, written)
    IN [candidates |-> plan.candidates,
        inMini |-> {entries[i] : i \in InMini(entries, written)},
        skipped |-> SkippedOf(plan)
            \cup {Skip(entries[i], "unexpandable") : i \in Unexpandable(entries, written)}]

-----------------------------------------------------------------------------
(* Writing and reporting *)

Picked(plan) == {c \in plan.candidates : c.picked}
Pick(plan, names) == [plan EXCEPT !.candidates = {[c EXCEPT !.picked = c.name \in names] : c \in @}]

\* NewConfiguredKeys and Has: a catalog server is matched by name or by URL.
Configured(entry, servers) == \E s \in servers : s.name = entry.name \/ s.conn.url = entry.conn.url

Server(c) == [name |-> c.name, conn |-> c.conn]

\* planAdds: the picked imports, then the catalog servers nothing covers.
PlanAdds(plan, add, written) ==
    LET imports == {Server(c) : c \in Picked(plan)}
    IN imports \cup {e \in add : ~Configured(e, written) /\ ~Configured(e, imports)}

\* importedOf: a name that was written is an import only if its candidate was picked.
ImportedOf(plan, added) == {c \in Picked(plan) : c.name \in added}

\* importsTheName.
ImportsTheName(imported, e) ==
    \E c \in imported : \E f \in c.from : NormalizeName(f.name) = NormalizeName(e.name)

\* keepOnly: the entries that were imported are not left behind, and a second config is only
\* mentioned beside the first.
KeepOnly(plan, imported) ==
    {s \in plan.skipped :
        /\ ~\E c \in imported : s.entry \in c.from
        /\ s.cause = "second config" => ImportsTheName(imported, s.entry)}

\* DropOfferedSkips, after init's screens, which showed them.
DropOfferedSkips(plan, skipped) == {s \in skipped : ~\E c \in plan.candidates : s.entry \in c.from}

-----------------------------------------------------------------------------
(* A run of mini init *)

ImportInit == import = [at |-> "start"]

\* Setup.Plan.
PlanSetup ==
    /\ import.at = "start"
    /\ \E agents \in AgentConfigs, written \in MiniServers :
        LET entries == EntriesOf(agents)
        IN import' = [at |-> "planned", entries |-> entries, written |-> written, plan |-> PlanImport(entries, written)]

\* Run.Save and Run.Finish: some of what the user picked cannot be written.
SaveSetup ==
    /\ import.at = "planned"
    /\ \E ticked \in SUBSET {c.name : c \in import.plan.candidates}, add \in CatalogPicks :
        LET plan == Pick(import.plan, ticked)
            writes == PlanAdds(plan, add, import.written)
            names == {s.name : s \in writes}
        IN \E fails \in SUBSET names :
            LET imported == ImportedOf(plan, names \ fails)
            IN import' = [at |-> "saved", written |-> import.written, plan |-> plan, writes |-> writes,
                          imported |-> imported, report |-> KeepOnly(plan, imported)]

ImportNext == PlanSetup \/ SaveSetup

-----------------------------------------------------------------------------
\* Every entry an agent has is mini's own, runs in mini already, is offered, or is left behind
\* with a cause. One that some agent has switched on is only not picked when its name is unusable,
\* mini's, or that of a picked one: an offer, or a number put after a name, never takes a name
\* another server needed.
AccountsForEntries(entries, written, plan) ==
    LET Taken == TakenInMini(written) \cup {c.name : c \in Picked(plan)} IN
    \A i \in DOMAIN entries :
        LET e == entries[i]
            offered == \E c \in plan.candidates : e \in c.from
            picked == \E c \in Picked(plan) : e \in c.from
            left == \E s \in plan.skipped : s.entry = e
        IN /\ IsMini(e) => e \notin plan.inMini /\ ~offered /\ ~left
           /\ ~IsMini(e) => /\ e \in plan.inMini <=> ~(offered \/ left)
                            /\ e \in plan.inMini \/ picked \/ left
                            /\ e \in plan.inMini \/ e.disabled \/ e.refs \/ picked
                                \/ ~Usable(NormalizeName(e.name), Taken)

\* No two servers offered share a name or a connection, and none takes a name of mini's.
OffersAreDistinct(written, plan) ==
    /\ \A c, d \in plan.candidates : c # d => c.name # d.name /\ c.conn # d.conn
    /\ \A c \in plan.candidates : Usable(c.name, TakenInMini(written))

\* Whatever was picked and failed to be written, what is written has distinct names that mini did
\* not have, and the report lists no entry that was imported and no second config without the
\* first; one that init's screens have shown, it does not list again.
ReportIsTrue(done) ==
    /\ \A s, t \in done.writes : s # t => s.name # t.name
    /\ \A s \in done.writes : s.name \notin TakenInMini(done.written)
    /\ \A s \in done.report : s.cause = "second config" => ImportsTheName(done.imported, s.entry)
    /\ \A c \in done.imported, s \in done.report : s.entry \notin c.from
    /\ \A s \in DropOfferedSkips(done.plan, done.report) : s.cause # "second config"

\* What mini init imports is sound: the plan accounts for every entry under names of their own,
\* and what is saved and reported follows it, whatever is picked and whichever writes fail.
ImportIsSound ==
    /\ import.at = "planned" =>
        /\ AccountsForEntries(import.entries, import.written, import.plan)
        /\ OffersAreDistinct(import.written, import.plan)
    /\ import.at = "saved" => ReportIsTrue(import)
=============================================================================
