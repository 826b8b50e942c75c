--------------------------- MODULE ProjectionRules ---------------------------
(***************************************************************************)
(* The projection rules of one server: what its file holds and what the    *)
(* daemon applies (internal/server: config_watch, config_tool_projection,  *)
(* upstream_install; internal/config/projection_save; internal/fileio).    *)
(*                                                                         *)
(* Three parties write: people edit the file, the config tool saves one    *)
(* tool's rule into file and memory, and a reload, the poller's or the     *)
(* config tool's, copies the file into memory.  persistMu orders the last  *)
(* two.  Removing the server drops its rules; a new connection may seed    *)
(* them.                                                                   *)
(***************************************************************************)
EXTENDS Naturals, FiniteSets

CONSTANTS Tools,
          Shapes,                       \* what rules say of results, "" for nothing
          Aliases,                      \* what rules call tools, "" for nothing
          Written,                      \* the contents that people and agents write
          EditAttempts,                 \* editAttempts of fileio
          MaxEdits, MaxSets, MaxOps     \* bounds on edits by hand, saves, other config calls

Rules == [shape : Shapes, alias : Aliases]
Contents == [Tools -> Rules]

\* What stands for no rules, or for a file without any, is no rule of a tool.
Marks == {"gone", "broken", "nil", "replaced"}

ASSUME RulesAssumption ==
    /\ EditAttempts \in Nat \ {0} /\ Tools # {}
    /\ "" \in Shapes /\ "" \in Aliases /\ Shapes \cap Marks = {}
    /\ Written \subseteq Contents

NoRule == [shape |-> "", alias |-> ""]
Empty == [t \in Tools |-> NoRule]
Mark(what) == [t \in Tools |-> [shape |-> what, alias |-> ""]]
Gone == Mark("gone")           \* there is no file
Broken == Mark("broken")       \* the file does not load
Nil == Mark("nil")             \* s.projections has no entry for the server
Replaced == Mark("replaced")   \* a reload that has published what it read
Free == "free"

Poller == "poller"
ReloadCall == "reload"
Setter == "set_projection"

VARIABLES file,      \* the server's file
          mem,       \* s.projections of the server
          reg,       \* the aliases the registry holds
          known,     \* the server is connected, or recorded as one of the files'
          inst,      \* the install in flight, or Nil
          persist,   \* who holds persistMu
          poll,      \* the poller: its step, and the fingerprint it read
          seen,      \* the fingerprint of the last reload
          loaded,    \* what a reload read
          set,       \* the set_projection in flight
          moved,     \* (history) the file was written, or rules seeded, since that fingerprint
          unread,    \* (history) the poller could not read the file, and no reload has since
          edits, sets, ops

rulesVars == <<file, mem, reg, known, inst, persist, poll, seen, loaded, set, moved, unread, edits, sets, ops>>

\* serverProjections: a file without rules gives no entry.
RulesOf(content) == IF content \in {Gone, Broken, Empty} THEN Nil ELSE content
Entry(m) == IF m = Nil THEN Empty ELSE m

\* AliasesFromProjections.
AliasesOf(m) == [t \in Tools |-> Entry(m)[t].alias]

NoInstall == [at |-> "none"]
SetIdle == [at |-> "idle"]

\* runConfigReload: startup read the file before the poller existed, so it applies once first.
RulesInit ==
    /\ file \in Written
    /\ mem = RulesOf(file) /\ reg = AliasesOf(mem)
    /\ known = TRUE /\ inst = NoInstall /\ persist = Free
    /\ poll = [at |-> "load", read |-> file] /\ seen = file
    /\ loaded = [a \in {Poller, ReloadCall} |-> Nil]
    /\ set = SetIdle /\ moved = FALSE /\ unread = FALSE
    /\ edits = 0 /\ sets = 0 /\ ops = 0

-----------------------------------------------------------------------------
(* Reloading *)

\* reloadIfConfigChanged: the fingerprint is read before the file is loaded, so an edit
\* between the two is seen again at the next tick.  Nothing changed, or the files could not be listed.
PollFingerprint ==
    /\ poll.at = "tick"
    /\ \/ poll' = [poll EXCEPT !.at = "files"] /\ UNCHANGED moved
       \/ file # seen /\ poll' = [at |-> "load", read |-> file] /\ moved' = FALSE
    /\ UNCHANGED <<file, mem, reg, known, inst, persist, seen, loaded, set, unread, edits, sets, ops>>

Reloads(a) == IF a = Poller THEN poll.at = "load" ELSE ops < MaxOps

ApplyLoad_Unlocked(a) ==
    /\ Reloads(a) /\ loaded[a] = Nil
    /\ \/ a = Poller /\ persist = Free /\ persist' = a
       \/ a = ReloadCall /\ UNCHANGED persist
    /\ loaded' = [loaded EXCEPT ![a] = file]
    /\ ops' = IF a = Poller THEN ops ELSE ops + 1
    /\ UNCHANGED <<file, mem, reg, known, inst, poll, seen, set, moved, unread, edits, sets>>

\* applyReload up to LoadServers, and reloadProjections, the config tool's reload.  The file may
\* fail to be read just now: its server is then among the broken ones.
ApplyLoad(a) ==
    /\ Reloads(a) /\ loaded[a] = Nil
    /\ persist = Free /\ persist' = a
    /\ \E read \in {file, Broken} :
        /\ loaded' = [loaded EXCEPT ![a] = read]
        /\ unread' = (unread \/ (a = Poller /\ read # file))
    /\ ops' = IF a = Poller THEN ops ELSE ops + 1
    /\ UNCHANGED <<file, mem, reg, known, inst, poll, seen, set, moved, edits, sets>>

\* LoadServers cannot list the files: applyReload returns its error and nothing is applied.
\* applyConfig only warns, and reloadIfConfigChanged keeps the fingerprint it read all the same.
LoadFails(a) ==
    /\ Reloads(a) /\ loaded[a] = Nil /\ persist = Free
    /\ IF a = Poller
       THEN poll' = [poll EXCEPT !.at = "files"] /\ seen' = poll.read /\ unread' = TRUE
       ELSE UNCHANGED <<poll, seen, unread>>
    /\ ops' = IF a = Poller THEN ops ELSE ops + 1
    /\ UNCHANGED <<file, mem, reg, known, inst, persist, loaded, set, moved, edits, sets>>

\* replaceProjections and keepsLiveProjections: a file that does not load keeps what is live.
ApplyReplace(a) ==
    /\ loaded[a] \notin {Nil, Replaced}
    /\ mem' = IF loaded[a] = Broken THEN mem ELSE RulesOf(loaded[a])
    /\ unread' = (unread /\ loaded[a] = Broken)
    /\ loaded' = [loaded EXCEPT ![a] = Replaced]
    /\ UNCHANGED <<file, reg, known, inst, persist, poll, seen, set, moved, edits, sets, ops>>

\* reapplyAliases; the poller then keeps the fingerprint it read and goes on to the files.
ApplyAliases(a) ==
    /\ loaded[a] = Replaced
    /\ reg' = AliasesOf(mem)
    /\ loaded' = [loaded EXCEPT ![a] = Nil]
    /\ persist' = IF persist = a THEN Free ELSE persist
    /\ IF a = Poller
       THEN poll' = [poll EXCEPT !.at = "files"] /\ seen' = poll.read
       ELSE UNCHANGED <<poll, seen>>
    /\ UNCHANGED <<file, mem, known, inst, set, moved, unread, edits, sets, ops>>

\* detachUpstream: nothing of the server is left, an install in flight is refused.
DetachRules ==
    /\ mem' = Nil /\ reg' = AliasesOf(Nil) /\ known' = FALSE /\ inst' = NoInstall

\* applyServerFiles: a server whose file went is removed, a new one connected with the rules
\* that are live when its install ends.  A name an agent is adding is skipped, and so is a file that
\* cannot be listed or read.
PollFiles ==
    /\ poll.at = "files"
    /\ poll' = [poll EXCEPT !.at = "tick"]
    /\ \/ /\ file = Gone /\ known /\ inst.at # "adding"
          /\ DetachRules
       \/ /\ file \notin {Gone, Broken} /\ ~known /\ inst.at # "adding"
          /\ known' = TRUE /\ inst' = [at |-> "connecting"]
          /\ UNCHANGED <<mem, reg>>
       \/ UNCHANGED <<mem, reg, known, inst>>
    /\ UNCHANGED <<file, persist, seen, loaded, set, moved, unread, edits, sets, ops>>

-----------------------------------------------------------------------------
(* Connecting *)

\* installChecked and seedProjectionsIfNone: an add by an agent brings the rules it saved.
Install ==
    /\ inst.at # "none"
    /\ LET seeds == inst.at = "adding" /\ mem = Nil /\ inst.rules # Nil IN
       /\ mem' = IF seeds THEN inst.rules ELSE mem
       /\ moved' = (moved \/ seeds)
    /\ reg' = AliasesOf(mem')
    /\ known' = TRUE /\ inst' = NoInstall
    /\ UNCHANGED <<file, persist, poll, seen, loaded, set, unread, edits, sets, ops>>

\* addServerFromAgent: under persistMu and the name's lock the file is written and whatever
\* runs for the name stopped; then the saved file is loaded and connected.
AddServerFromAgent(content) ==
    /\ ops < MaxOps /\ persist = Free /\ file = Gone /\ ~known /\ inst.at = "none"
    /\ file' = content
    /\ mem' = Nil /\ reg' = AliasesOf(Nil) /\ moved' = TRUE
    /\ inst' = [at |-> "adding", rules |-> RulesOf(content)]
    /\ ops' = ops + 1
    /\ UNCHANGED <<known, persist, poll, seen, loaded, set, unread, edits, sets>>

\* removeServerFromAgent: detached before and after the file goes, under both locks.
RemoveServerFromAgent ==
    /\ ops < MaxOps /\ persist = Free /\ inst.at # "adding"
    /\ file' = Gone /\ moved' = TRUE
    /\ DetachRules
    /\ ops' = ops + 1
    /\ UNCHANGED <<persist, poll, seen, loaded, set, unread, edits, sets>>

-----------------------------------------------------------------------------
(* set_projection *)

\* setServerProjection takes persistMu; EditFile reads the file, or cannot.
SetRead(t, r) ==
    /\ set = SetIdle /\ sets < MaxSets /\ persist = Free
    /\ sets' = sets + 1
    /\ \/ UNCHANGED <<set, persist>>
       \/ /\ file \notin {Gone, Broken}
          /\ persist' = Setter
          /\ set' = [at |-> "check", tool |-> t, rule |-> r, base |-> file, left |-> EditAttempts]
    /\ UNCHANGED <<file, mem, reg, known, inst, poll, seen, loaded, moved, unread, edits, ops>>

\* keepAlias: a request without an alias keeps the one the user wrote into the file.
KeepAlias(requested, saved) == IF requested.alias = "" THEN [requested EXCEPT !.alias = saved.alias] ELSE requested

Saved == KeepAlias(set.rule, set.base[set.tool])
Edited == [set.base EXCEPT ![set.tool] = Saved]

\* projectionEdit.apply and checkUnchanged: a file that changed meanwhile is edited again, a few
\* times; one that holds the rule already is not written.  Reading or writing it may fail.
SetCheck ==
    /\ set.at = "check"
    /\ \/ /\ Edited = set.base
          /\ set' = [set EXCEPT !.at = "publish"]
          /\ UNCHANGED persist
       \/ /\ Edited # set.base /\ file = set.base
          /\ set' = [set EXCEPT !.at = "rename"]
          /\ UNCHANGED persist
       \/ /\ Edited # set.base /\ file # set.base
          /\ set.left > 1 /\ file \notin {Gone, Broken}
          /\ set' = [set EXCEPT !.base = file, !.left = @ - 1]
          /\ UNCHANGED persist
       \/ /\ Edited # set.base
          /\ set' = SetIdle /\ persist' = Free
    /\ UNCHANGED <<file, mem, reg, known, inst, poll, seen, loaded, moved, unread, edits, sets, ops>>

\* ReplaceFile's rename: it replaces whatever the file holds by now.
SetRename ==
    /\ set.at = "rename"
    /\ file' = Edited /\ moved' = TRUE
    /\ set' = [set EXCEPT !.at = "publish"]
    /\ UNCHANGED <<mem, reg, known, inst, persist, poll, seen, loaded, unread, edits, sets, ops>>

\* publishServerProjection; a server without rules gets a map with this one, a rule removed
\* from the last place leaves an empty map.
SetPublish ==
    /\ set.at = "publish"
    /\ mem' = IF mem = Nil /\ Saved = NoRule THEN Nil ELSE [Entry(mem) EXCEPT ![set.tool] = Saved]
    /\ set' = SetIdle /\ persist' = Free
    /\ UNCHANGED <<file, reg, known, inst, poll, seen, loaded, moved, unread, edits, sets, ops>>

\* A person, or mini add and mini remove, changes the file at any moment.
EditByHand(content) ==
    /\ edits < MaxEdits /\ content # file
    /\ file' = content /\ moved' = TRUE
    /\ edits' = edits + 1
    /\ UNCHANGED <<mem, reg, known, inst, persist, poll, seen, loaded, set, unread, sets, ops>>

RulesNext ==
    \/ PollFingerprint \/ PollFiles \/ Install \/ RemoveServerFromAgent
    \/ \E a \in {Poller, ReloadCall} : ApplyLoad(a) \/ LoadFails(a) \/ ApplyReplace(a) \/ ApplyAliases(a)
    \/ \E t \in Tools, r \in Rules : SetRead(t, r)
    \/ SetCheck \/ SetRename \/ SetPublish
    \/ \E content \in Written : AddServerFromAgent(content)
    \/ \E content \in Written \cup {Gone, Broken} : EditByHand(content)

RulesSpec == RulesInit /\ [][RulesNext]_rulesVars

-----------------------------------------------------------------------------
Settled ==
    /\ poll.at = "tick" /\ seen = file
    /\ loaded[ReloadCall] = Nil /\ set = SetIdle /\ inst.at = "none"

\* The rules applied and the aliases registered are the file's.
FileIsApplied == Entry(mem) = Entry(RulesOf(file)) /\ reg = AliasesOf(mem)

\* Once the poller has seen the file as it is and no save, reload or connection is under way,
\* the file is applied: no save is undone by a reload that read the file before it, no reload
\* by a save, and no edit by hand is missed. Excepted is what a fingerprint cannot tell, a file
\* written between two polls that reads as before, and rules an add seeds after a reload; and
\* what the poller could not read when it loaded the file, until a reload can.
RulesFollowFile == Settled /\ ~moved /\ ~unread /\ file # Broken => FileIsApplied
=============================================================================
