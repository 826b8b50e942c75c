------------------------------ MODULE Projection ------------------------------
(***************************************************************************)
(* The projection of a JSON value (internal/projection: engine, merge,     *)
(* excluded, content; internal/jq/path; the paths of                       *)
(* internal/config/projection_validation).                                 *)
(*                                                                         *)
(* A value is a number, a string, an array or an object, tagged by k.  A   *)
(* string is a sequence of characters, of which "." ends a sentence, " " a *)
(* word and "<" stands for markup.  A path is a sequence of fields [f]     *)
(* and indexes [i]; an exclude rule is one of fields and ArrayStep.        *)
(***************************************************************************)
EXTENDS Integers, Sequences, FiniteSets, FiniteSetsExt

CONSTANTS SentenceWindow, WordWindow    \* how far truncateAtBoundary looks back: 100 and 50

Number == [k |-> "num"]
Str(s) == [k |-> "str", s |-> s]
Arr(a) == [k |-> "arr", a |-> a]
Obj(o) == [k |-> "obj", o |-> o]

Field(name) == [f |-> name]
Index(n) == [i |-> n]
ArrayStep == [array |-> TRUE]

\* CollapseIndex, and the steps that projCtx.child keeps beside the path.
Collapse(path) == [n \in DOMAIN path |-> IF "i" \in DOMAIN path[n] THEN ArrayStep ELSE path[n]]

-----------------------------------------------------------------------------
(* Settings *)

ValueOr(f, key, default) == IF key \in DOMAIN f THEN f[key] ELSE default

\* mergeWithDefaults, effectiveFromDefaults, applyProjectionConfig and prepareExclusions: a rule
\* that does not parse is skipped. A configuration has excludes, includeOnly, arrayLimits,
\* stringLimits and stripMarkup; NoConfig is none.
NoConfig == [none |-> TRUE]
ParsesAsExclude(rule) == rule # << >> /\ rule[Len(rule)] # ArrayStep
MergeWithDefaults(cfg, defaults) ==
    [includeOnly |-> IF cfg = NoConfig THEN {} ELSE cfg.includeOnly,
     exclude |-> IF cfg = NoConfig THEN {} ELSE {r \in cfg.exclude : ParsesAsExclude(r)},
     arrayLimits |-> IF cfg = NoConfig THEN << >> ELSE cfg.arrayLimits,
     stringLimits |-> IF cfg = NoConfig THEN << >> ELSE cfg.stringLimits,
     defaultArrayLimit |-> IF cfg = NoConfig THEN 0 ELSE ValueOr(cfg.arrayLimits, "default", 0),
     defaultStringLimit |-> defaults.stringLimit,
     stripContent |-> cfg # NoConfig /\ cfg.stripMarkup,
     contentFields |-> defaults.contentFields, autoStrip |-> defaults.autoStrip]

StringLimitFor(e, field) == ValueOr(e.stringLimits, field, e.defaultStringLimit)
ArrayLimitFor(e, field) ==
    IF field = "" THEN e.defaultArrayLimit ELSE ValueOr(e.arrayLimits, field, e.defaultArrayLimit)

-----------------------------------------------------------------------------
(* Strings *)

\* StripMarkup: what is left of HTML or Markdown once its markup is taken out.
StripMarkup(s) == SelectSeq(s, LAMBDA c : c # "<")

\* scanBackward, counting from 0 as the code does: the last match at limit or before it, within
\* the window and never at the very start; -1 is none.
ScanBackward(s, limit, window, match) ==
    LET hits == {i \in (limit - window + 1) .. limit : i > 0 /\ s[i + 1] \in match}
    IN IF hits = {} THEN -1 ELSE Max(hits)

\* truncateAtBoundary: after a sentence's end, before a word's, or at the limit.
TruncateAtBoundary(s, limit) ==
    LET sentence == ScanBackward(s, limit, SentenceWindow, {"."})
        word == ScanBackward(s, limit, WordWindow, {" "})
    IN IF limit >= Len(s) THEN s
       ELSE IF sentence >= 0 THEN SubSeq(s, 1, sentence + 1)
       ELSE IF word >= 0 THEN SubSeq(s, 1, word)
       ELSE SubSeq(s, 1, limit)

Projected(v, excluded, truncated) == [v |-> v, excluded |-> excluded, truncated |-> truncated]

\* projectString.
ProjectString(s, e, path, field) ==
    LET strips == e.stripContent \/ (e.autoStrip > 0 /\ Len(s) >= e.autoStrip /\ field \in e.contentFields)
        text == IF strips THEN StripMarkup(s) ELSE s
        limit == StringLimitFor(e, field)
        cut == TruncateAtBoundary(text, limit)
    IN IF limit > 0 /\ Len(text) > limit
       THEN Projected(Str(cut), {}, {[path |-> path, chars |-> Len(text) - Len(cut), items |-> 0]})
       ELSE Projected(Str(text), {}, {})

-----------------------------------------------------------------------------
(* Values *)

\* isExcluded: the rule that names exactly this place.
IsExcluded(key, path, rules) == Append(Collapse(path), Field(key)) \in rules

\* shouldSkipField: include_only looks at the top level only.
ShouldSkipField(key, e, path, depth) ==
    \/ IsExcluded(key, path, e.exclude)
    \/ depth = 0 /\ e.includeOnly # {} /\ key \notin e.includeOnly

\* truncateArray.
Kept(arr, limit) == IF limit > 0 /\ Len(arr) > limit THEN SubSeq(arr, 1, limit) ELSE arr

\* The report of projectNamedArray: how many items are missing.
TruncatedItems(arr, kept, path) ==
    IF Len(kept) < Len(arr) THEN {[path |-> path, chars |-> 0, items |-> Len(arr) - Len(kept)]} ELSE {}

RECURSIVE Project(_, _, _, _, _)

\* projectMap and projectMapValue: objects and arrays are one level deeper, strings are not.
ProjectMap(o, e, path, depth) ==
    LET kept == {key \in DOMAIN o : ~ShouldSkipField(key, e, path, depth)}
        At(key) == Append(path, Field(key))
        parts == [key \in kept |-> Project(o[key], e, At(key), depth + 1, key)]
    IN Projected(Obj([key \in kept |-> parts[key].v]),
                 {At(key) : key \in DOMAIN o \ kept} \cup UNION {parts[key].excluded : key \in kept},
                 UNION {parts[key].truncated : key \in kept})

\* projectNamedArray: items stay at the array's level.
ProjectNamedArray(arr, e, path, depth, field) ==
    LET kept == Kept(arr, ArrayLimitFor(e, field))
        parts == [n \in DOMAIN kept |-> Project(kept[n], e, Append(path, Index(n - 1)), depth, "")]
    IN Projected(Arr([n \in DOMAIN kept |-> parts[n].v]),
                 UNION {parts[n].excluded : n \in DOMAIN kept},
                 TruncatedItems(arr, kept, path) \cup UNION {parts[n].truncated : n \in DOMAIN kept})

\* project.
Project(v, e, path, depth, field) ==
    CASE v.k = "obj" -> ProjectMap(v.o, e, path, depth)
      [] v.k = "arr" -> ProjectNamedArray(v.a, e, path, depth, field)
      [] v.k = "str" -> ProjectString(v.s, e, path, field)
      [] v.k \in {"num", "notice"} -> Projected(v, {}, {})

\* Apply, with collapseExcluded.
Apply(v, cfg, defaults) ==
    LET r == Project(v, MergeWithDefaults(cfg, defaults), << >>, 0, "")
    IN [r EXCEPT !.excluded = {Collapse(p) : p \in r.excluded}]

-----------------------------------------------------------------------------
(* What a projection promises, said of the value before and after *)

RECURSIVE Nodes(_, _)

\* Every place in a value, with what is there.
Nodes(v, path) ==
    {[path |-> path, v |-> v]} \cup
    CASE v.k = "obj" -> UNION {Nodes(v.o[key], Append(path, Field(key))) : key \in DOMAIN v.o}
      [] v.k = "arr" -> UNION {Nodes(v.a[n], Append(path, Index(n - 1))) : n \in DOMAIN v.a}
      [] v.k \in {"str", "num", "notice", "absent"} -> {}

IsPrefixOf(p, q) == Len(p) <= Len(q) /\ SubSeq(q, 1, Len(p)) = p

\* The report r accounts for every difference between the places before and after.
ReportMatches(r, before, after, cfg) ==
    LET PastTheCut(path) ==
            \E t \in r.truncated, n \in before :
                /\ t.items > 0 /\ n.path = t.path /\ n.v.k = "arr"
                /\ Len(path) > Len(t.path) /\ IsPrefixOf(t.path, path)
                /\ path[Len(t.path) + 1].i >= Len(n.v.a) - t.items
        ReportedText(n, m) ==
            \/ m.v.s \in {n.v.s, StripMarkup(n.v.s)}
            \/ \E t \in r.truncated, s \in {n.v.s, StripMarkup(n.v.s)} :
                t.path = n.path /\ m.v.s = SubSeq(s, 1, Len(s) - t.chars)
        ReportedItems(n, m) ==
            \/ Len(m.v.a) = Len(n.v.a)
            \/ \E t \in r.truncated : t.path = n.path /\ t.items = Len(n.v.a) - Len(m.v.a)
    IN /\ \A m \in after : \E n \in before :
            /\ n.path = m.path /\ n.v.k = m.v.k
            /\ m.v.k = "str" => ReportedText(n, m)
            /\ m.v.k = "arr" => ReportedItems(n, m)
       /\ \A n \in before :
            \/ \E m \in after : m.path = n.path
            \/ \E i \in 1 .. Len(n.path) : Collapse(SubSeq(n.path, 1, i)) \in r.excluded
            \/ PastTheCut(n.path)
       /\ \A m \in after : Collapse(m.path) \notin r.excluded
       /\ cfg # NoConfig => \A m \in after : ~(ParsesAsExclude(Collapse(m.path)) /\ Collapse(m.path) \in cfg.exclude)

\* A place that is gone lies under an excluded field, or past the end of an array that is
\* reported as cut, by exactly the items it lost; a string that lost text other than markup is
\* reported with the characters it lost; and no excluded field is left anywhere.
DropsAreReported(v, cfg, defaults) ==
    \A r \in {Apply(v, cfg, defaults)} : ReportMatches(r, Nodes(v, << >>), Nodes(r.v, << >>), cfg)
=============================================================================
