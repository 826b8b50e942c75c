----------------------------- MODULE ProxyResult -----------------------------
(***************************************************************************)
(* A tool call through the proxy, from its arguments to the result the     *)
(* agent gets (internal/server: proxy_call, proxy_result,                  *)
(* proxy_result_doc, proxy_toon, mcp_result; internal/response).           *)
(*                                                                         *)
(* A result has structured content (a value, or Absent) and content        *)
(* blocks.  A text block holds JSON, with its value, or plain text; a      *)
(* resource block holds text; another block is passed on as it is.  What   *)
(* was left out is told in a notice with the name of the stored response.  *)
(***************************************************************************)
EXTENDS Projection, SequencesExt

Absent == [k |-> "absent"]
Notice == [k |-> "notice"]

JSONText(v) == [type |-> "json", v |-> v]
PlainText(s) == [type |-> "plain", v |-> Str(s)]
Resource(s) == [type |-> "resource", v |-> Str(s)]
OtherBlock == [type |-> "other", v |-> Absent]
NoticeBlock == [type |-> "notice", v |-> Notice]

-----------------------------------------------------------------------------
(* Arguments *)

\* parseProxyRequest, extractProxyControls and rejectUnknownControls: how __mini asks for the
\* result. A control that is not understood fails the call before it reaches the upstream.
ProjectionMode(control) ==
    CASE control \in {"absent", "default"} -> "default"
      [] control = "raw" -> "raw"
      [] control \in {"not an object", "unknown key", "bad projection"} -> "invalid"

\* resolveProjection: the session's rule, the tool's, the server's rule for every tool.
ResolveProjection(session, server, tool) ==
    CASE tool \in DOMAIN session -> session[tool]
      [] tool \notin DOMAIN session /\ tool \in DOMAIN server -> server[tool]
      [] OTHER -> ValueOr(server, "*", NoConfig)

-----------------------------------------------------------------------------
(* Units: the parts of a result that are projected *)

Unit(kind, block, v) == [kind |-> kind, block |-> block, v |-> v]

\* appendTextUnit: blocks that repeat the structured content follow it.
Mirrors(doc) ==
    {i \in DOMAIN doc.content : doc.structured # Absent /\ doc.content[i] = JSONText(doc.structured)}

\* collectUnits and appendBlockUnit.
CollectUnits(doc) ==
    LET structured == IF doc.structured = Absent THEN << >> ELSE <<Unit("structured", 0, doc.structured)>>
        blocks == [i \in DOMAIN doc.content |-> Unit(doc.content[i].type, i, doc.content[i].v)]
    IN structured \o SelectSeq(blocks, LAMBDA u : u.kind # "other" /\ u.block \notin Mirrors(doc))

\* projectUnit.project.
ProjectUnits(units, cfg, defaults) ==
    [i \in DOMAIN units |->
        LET r == Apply(units[i].v, cfg, defaults)
        IN [kind |-> units[i].kind, block |-> units[i].block, v |-> r.v, old |-> units[i].v,
            excluded |-> r.excluded, truncated |-> r.truncated, changed |-> r.v # units[i].v]]

\* reportedPaths.
Reported(units) == \E i \in DOMAIN units : units[i].excluded # {} \/ units[i].truncated # {}

IsMiniFreeObject(v) == v.k = "obj" /\ "__mini" \notin DOMAIN v.o

\* pickCarrier: the structured content if it can hold a notice, or the one JSON object among
\* the text blocks; 0 is nobody.
PickCarrier(units) ==
    LET objects == {i \in DOMAIN units : units[i].kind = "json" /\ IsMiniFreeObject(units[i].old)} IN
    CASE units # << >> /\ units[1].kind = "structured" ->
            IF units[1].old.k = "arr" \/ IsMiniFreeObject(units[1].old) THEN 1 ELSE 0
      [] ~(units # << >> /\ units[1].kind = "structured") ->
            IF Cardinality(objects) = 1 THEN CHOOSE i \in objects : TRUE ELSE 0

\* projectUnit.carry.
Carry(v) ==
    IF v.k = "obj" THEN Obj([key \in DOMAIN v.o \cup {"__mini"} |-> IF key = "__mini" THEN Notice ELSE v.o[key]])
    ELSE Arr(Append(v.a, Obj([key \in {"__mini"} |-> Notice])))

-----------------------------------------------------------------------------
(* The result *)

NoticeCarried_Always(units, carrier, mirrors) == carrier # 0

\* noticeCarried: a client that reads only the content must find it there.
NoticeCarried(units, carrier, mirrors) == carrier # 0 /\ (units[carrier].kind # "structured" \/ mirrors # {})

\* applyUnit, applyStructured and setText: what changed is written back, the rest keeps the
\* bytes it came with.
ApplyUnits(doc, units, mirrors) ==
    LET Of(i) == {n \in DOMAIN units : units[n].block = i /\ units[n].kind # "structured"}
        structured == IF units # << >> /\ units[1].kind = "structured" THEN units[1].v ELSE doc.structured
    IN [structured |-> structured,
        content |-> [i \in DOMAIN doc.content |->
            IF i \in mirrors THEN JSONText(structured)
            ELSE IF Of(i) # {} THEN [doc.content[i] EXCEPT !.v = units[CHOOSE n \in Of(i) : TRUE].v]
            ELSE doc.content[i]]]

\* buildProxyResult, proxyNotice and assemble: stores says whether the store took the response.
Assemble(doc, units, carrier, mirrors) ==
    LET carried == [i \in DOMAIN units |-> IF i = carrier THEN [units[i] EXCEPT !.v = Carry(@)] ELSE units[i]]
    IN ApplyUnits(doc, carried, mirrors)
WithNotice(doc, units, carrier, mirrors) ==
    IF NoticeCarried(units, carrier, mirrors) THEN Assemble(doc, units, carrier, mirrors)
    ELSE [Assemble(doc, units, carrier, mirrors) EXCEPT !.content = Append(@, NoticeBlock)]
ResultOf(doc, units, stores) ==
    IF ~Reported(units) THEN Assemble(doc, units, 0, Mirrors(doc))
    ELSE IF stores THEN WithNotice(doc, units, PickCarrier(units), Mirrors(doc)) ELSE [failed |-> TRUE]
BuildProxyResult(doc, cfg, defaults, stores) == ResultOf(doc, ProjectUnits(CollectUnits(doc), cfg, defaults), stores)

\* toonifyProxyResult: JSON text becomes TOON, except mini's notice and what the encoder
\* renders as nothing.
Toonify(doc) ==
    [doc EXCEPT !.content = [i \in DOMAIN @ |->
        IF @[i].type = "json" /\ @[i].v # Obj(<< >>) THEN [@[i] EXCEPT !.type = "toon"] ELSE @[i]]]

Encoded(built, toon) == IF toon /\ built # [failed |-> TRUE] THEN Toonify(built) ELSE built

\* proxyRespond, proxyResultBytes and proxyToolFailure: an upstream's own error and a request
\* for input are passed on whole, any other failure becomes an error of mini's.
ProxyCallUpstream(call) ==
    CASE ProjectionMode(call.control) = "invalid" -> [failed |-> TRUE]
      [] ProjectionMode(call.control) # "invalid" /\ call.outcome \in {"tool error", "input required"} -> call.doc
      [] ProjectionMode(call.control) # "invalid" /\ call.outcome = "failed" -> [failed |-> TRUE]
      [] ProjectionMode(call.control) = "raw" /\ call.outcome = "ok" -> call.doc
      [] ProjectionMode(call.control) = "default" /\ call.outcome = "ok" ->
            Encoded(BuildProxyResult(call.doc, ResolveProjection(call.session, call.server, "tool"),
                                     call.defaults, call.stores), call.toon)

-----------------------------------------------------------------------------
HasNotice(v) == \E n \in Nodes(v, << >>) : n.v = Notice
PartsOf(doc) == {doc.content[i].v : i \in DOMAIN doc.content} \cup {doc.structured}

\* Nothing an agent is sent was trimmed in silence: every field, item or text left out of a part
\* of the result is reported, and then a client that reads only the content finds a notice there,
\* and so does one that reads only the structured content if that is an array or an object
\* without a notice of its own. Without a report there is no notice. Blocks that repeated the
\* structured content still do, and other blocks are left alone.
TrimmedIsTold(call) ==
    LET Rule == ResolveProjection(call.session, call.server, "tool") IN
    call.outcome = "ok" /\ ProjectionMode(call.control) = "default" =>
       \A out \in {ProxyCallUpstream(call)}, cfg \in {Rule},
          told \in {Reported(ProjectUnits(CollectUnits(call.doc), Rule, call.defaults))} :
       /\ \A v \in PartsOf(call.doc) \ {Absent} : DropsAreReported(v, cfg, call.defaults)
       /\ (out = [failed |-> TRUE]) = (told /\ ~call.stores)
       /\ out # [failed |-> TRUE] =>
            /\ told = (\E i \in DOMAIN out.content : HasNotice(out.content[i].v))
            /\ told /\ (call.doc.structured.k = "arr" \/ IsMiniFreeObject(call.doc.structured)) => HasNotice(out.structured)
            /\ \A i \in DOMAIN call.doc.content :
                /\ call.doc.content[i] = JSONText(call.doc.structured) => out.content[i].v = out.structured
                /\ call.doc.content[i].type = "other" => out.content[i] = call.doc.content[i]
=============================================================================
