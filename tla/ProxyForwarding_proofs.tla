------------------------ MODULE ProxyForwarding_proofs ------------------------
(***************************************************************************)
(* Proofs about ProxyForwarding: a request runs at most once, and a dead   *)
(* daemon is resolved once, for any number of concurrent requests, deaths, *)
(* evictions and attempts.                                                 *)
(***************************************************************************)
EXTENDS ProxyForwarding, TLAPS

\* A forward that has been refused with the link it holds.
Refused(f) == fw[f].pc = "recover" \/ (fw[f].pc = "judge" /\ fw[f].out \in {"down", "unauthorized"})

\* Forwards hold links of the past or the current one with its token; a forward that
\* resolves holds the mutex and the current generation.
LinkHeld(f) ==
    /\ fw[f].gen <= gen
    /\ fw[f].gen = gen => fw[f].tok = tok \/ fw[f].pc \in {"idle", "done"}
    /\ fw[f].pc = "resolve" => mu = f /\ fw[f].gen = gen
    /\ mu = f => fw[f].pc = "resolve"

\* A death that no Resolve has answered yet.
Unanswered == resolves < deaths

\* Whatever can lead to a Resolve comes from such a death.
Due(f) ==
    /\ Refused(f) /\ fw[f].gen = gen => Unanswered
    /\ fw[f].pc = "resolve" => Unanswered

\* A request has been dispatched once, or is still to be sent.
Dispatched(r) ==
    /\ fw[r].kind = "other"
    /\ executed[r] \in {0, 1}
    /\ executed[r] = 1 =>
         fw[r].pc = "exec" \/ (fw[r].pc \in {"judge", "done"} /\ fw[r].out \in {"ok", "other"})

LinkInv ==
    /\ \A f \in Forwards : LinkHeld(f) /\ Due(f)
    /\ resolves <= deaths
    /\ ~up => Unanswered
    /\ tok # dtok => Unanswered

DispatchInv == \A r \in Requests : Dispatched(r)

IInv == TypeOK /\ LinkInv /\ DispatchInv

-----------------------------------------------------------------------------
(* The forward a step leaves behind, field by field *)

Pcs == {"idle", "send", "gate", "exec", "judge", "recover", "resolve", "handshake", "handshake2",
        "done"}

\* What the arguments below need of a forward y that a step makes of x.
Kept(x, y) == y \in Forward /\ y.kind = x.kind /\ y.gen = x.gen /\ y.tok = x.tok

\* The updates the actions make, under names that the provers leave closed.
Went(x, p) == [x EXCEPT !.pc = p]
Sent(x, p, d) == [x EXCEPT !.pc = p, !.at = d]
Judged(x, o) == [x EXCEPT !.pc = "judge", !.out = o]
Linked(x, g, t) == [x EXCEPT !.gen = g, !.tok = t]
Begun(k, g, t, n) == [Idle(k) EXCEPT !.pc = "send", !.gen = g, !.tok = t, !.since = n]

\* Go and the sends change where a forward is and which daemon has it.
LEMMA GoFields ==
  ASSUME NEW x \in Forward, NEW p \in Pcs
  PROVE  Kept(x, Went(x, p)) /\ Went(x, p).pc = p /\ Went(x, p).out = x.out
  BY DEF Forward, Pcs, Kept, Went

\* Handing the message to daemon d.
LEMMA SendFields ==
  ASSUME NEW x \in Forward, NEW p \in Pcs, NEW d \in Nat
  PROVE  Kept(x, Sent(x, p, d)) /\ Sent(x, p, d).pc = p /\ Sent(x, p, d).out = x.out
  BY DEF Forward, Pcs, Kept, Sent

\* Judge records what classifyForward made of the reply.
LEMMA JudgeFields ==
  ASSUME NEW x \in Forward, NEW o \in Outcomes
  PROVE  Kept(x, Judged(x, o)) /\ Judged(x, o).pc = "judge" /\ Judged(x, o).out = o
  BY DEF Forward, Kept, Judged

\* A message just read uses the link of that moment.
LEMMA BeginFields ==
  ASSUME NEW k \in {"initialize", "initialized", "other"},
         NEW g \in Nat, NEW t \in Nat, NEW n \in Nat
  PROVE  LET y == Begun(k, g, t, n)
         IN  y \in Forward /\ y.pc = "send" /\ y.kind = k /\ y.gen = g /\ y.tok = t
  BY DEF Forward, Idle, Outcomes, Begun

\* After a recovery the forward is sent once more, or gives up.
LEMMA AttemptedFields ==
  ASSUME NEW x \in Forward
  PROVE  Kept(x, Attempted(x)) /\ Attempted(x).pc \in {"send", "done"} /\ Attempted(x).out = x.out
<1>1. CASE x.attempt + 1 = MaxAttempts
  <2>1. Attempted(x) = Went(x, "done")
    BY <1>1 DEF Attempted, Went
  <2> QED
    BY <2>1, GoFields DEF Pcs
<1>2. CASE x.attempt + 1 # MaxAttempts
  <2>1. x.attempt + 1 \in Nat
    BY DEF Forward
  <2> DEFINE y == [x EXCEPT !.pc = "send", !.attempt = x.attempt + 1]
  <2>2. Kept(x, y) /\ y.pc = "send" /\ y.out = x.out
    BY <2>1 DEF Forward, Kept
  <2>3. Attempted(x) = y
    BY <1>2 DEF Attempted
  <2> QED
    BY <2>2, <2>3
<1> QED
  BY <1>1, <1>2

\* A recovered forward holds the link that it was given.
LEMMA RecoveredFields ==
  ASSUME NEW f, fw[f] \in Forward, NEW g \in Nat, NEW t \in Nat
  PROVE  LET y == Recovered(f, g, t)
         IN  /\ y \in Forward /\ y.kind = fw[f].kind /\ y.gen = g /\ y.tok = t
             /\ y.pc \in {"send", "done", "handshake"} /\ y.out = fw[f].out
<1> DEFINE x == Linked(fw[f], g, t)
<1>1. x \in Forward /\ x.kind = fw[f].kind /\ x.gen = g /\ x.tok = t /\ x.out = fw[f].out
  BY DEF Forward, Linked
<1>2. Recovered(f, g, t) = IF x.kind = "initialize" THEN Attempted(x) ELSE Went(x, "handshake")
  BY DEF Recovered, Linked, Went
<1> HIDE DEF x
<1>3. CASE x.kind = "initialize"
  BY <1>1, <1>2, <1>3, AttemptedFields DEF Kept
<1>4. CASE x.kind # "initialize"
  BY <1>1, <1>2, <1>4, GoFields DEF Kept, Pcs
<1> QED
  BY <1>3, <1>4

\* A step of one forward leaves the others alone.
LEMMA BecomeOne ==
  ASSUME NEW f \in Forwards, NEW y \in Forward, fw \in [Forwards -> Forward], Become(f, y)
  PROVE  /\ fw' \in [Forwards -> Forward] /\ fw'[f] = y
         /\ \A g \in Forwards : g # f => fw'[g] = fw[g]
  BY DEF Become

\* The shape of every step of forward f: where it goes (pc, out) and its link.
Moves(f, pcs, outs, g, t) ==
    /\ fw' \in [Forwards -> Forward]
    /\ fw'[f].pc \in pcs /\ fw'[f].out \in outs /\ fw'[f].gen = g /\ fw'[f].tok = t
    /\ fw'[f].kind = fw[f].kind
    /\ \A x \in Forwards : x # f => fw'[x] = fw[x]

\* What a Go step leaves behind.
LEMMA GoMoves ==
  ASSUME TypeOK, NEW f \in Forwards, NEW p \in Pcs, Go(f, p)
  PROVE  Moves(f, {p}, {fw[f].out}, fw[f].gen, fw[f].tok)
<1>1. fw \in [Forwards -> Forward] /\ fw[f] \in Forward
  BY DEF TypeOK
<1> DEFINE y == Went(fw[f], p)
<1>2. Kept(fw[f], y) /\ y.pc = p /\ y.out = fw[f].out
  BY <1>1, GoFields
<1>3. Become(f, y)
  BY DEF Go, Went
<1> HIDE DEF y
<1> QED
  BY <1>1, <1>2, <1>3, BecomeOne DEF Kept, Moves

\* What a send leaves behind.
LEMMA SendMoves ==
  ASSUME TypeOK, NEW f \in Forwards, NEW p \in Pcs,
         Become(f, [fw[f] EXCEPT !.pc = p, !.at = deaths])
  PROVE  Moves(f, {p}, {fw[f].out}, fw[f].gen, fw[f].tok)
<1>1. fw \in [Forwards -> Forward] /\ fw[f] \in Forward /\ deaths \in Nat
  BY ForwardingAssumption DEF TypeOK
<1> DEFINE y == Sent(fw[f], p, deaths)
<1>2. Kept(fw[f], y) /\ y.pc = p /\ y.out = fw[f].out
  BY <1>1, SendFields
<1>3. Become(f, y)
  BY DEF Sent
<1> HIDE DEF y
<1> QED
  BY <1>1, <1>2, <1>3, BecomeOne DEF Kept, Moves

\* What a reply, a refusal or a lost connection leaves behind.
LEMMA JudgeMoves ==
  ASSUME TypeOK, NEW f \in Forwards, NEW o \in Outcomes, Judge(f, o)
  PROVE  Moves(f, {"judge"}, {o}, fw[f].gen, fw[f].tok)
<1>1. fw \in [Forwards -> Forward] /\ fw[f] \in Forward
  BY DEF TypeOK
<1> DEFINE y == Judged(fw[f], o)
<1>2. Kept(fw[f], y) /\ y.pc = "judge" /\ y.out = o
  BY <1>1, JudgeFields
<1>3. Become(f, y)
  BY DEF Judge, Judged
<1> HIDE DEF y
<1> QED
  BY <1>1, <1>2, <1>3, BecomeOne DEF Kept, Moves

\* What the end of an attempt leaves behind.
LEMMA AttemptMoves ==
  ASSUME TypeOK, NEW f \in Forwards, Become(f, Attempted(fw[f]))
  PROVE  Moves(f, {"send", "done"}, {fw[f].out}, fw[f].gen, fw[f].tok)
<1>1. fw \in [Forwards -> Forward] /\ fw[f] \in Forward
  BY DEF TypeOK
<1> QED
  BY <1>1, AttemptedFields, BecomeOne DEF Kept, Moves

\* What taking a recovered link leaves behind.
LEMMA RecoverMoves ==
  ASSUME TypeOK, NEW f \in Forwards, NEW g \in Nat, NEW t \in Nat, Become(f, Recovered(f, g, t))
  PROVE  Moves(f, {"send", "done", "handshake"}, {fw[f].out}, g, t)
<1>1. fw \in [Forwards -> Forward] /\ fw[f] \in Forward
  BY DEF TypeOK
<1> QED
  BY <1>1, RecoveredFields, BecomeOne DEF Moves

\* What reading a message leaves behind.
LEMMA BeginMoves ==
  ASSUME TypeOK, NEW f \in Forwards, NEW k \in {"initialize", "initialized", "other"}, Begin(f, k)
  PROVE  /\ fw' \in [Forwards -> Forward]
         /\ fw'[f].pc = "send" /\ fw'[f].kind = k /\ fw'[f].gen = gen /\ fw'[f].tok = tok
         /\ \A x \in Forwards : x # f => fw'[x] = fw[x]
<1>1. fw \in [Forwards -> Forward] /\ gen \in Nat /\ tok \in Nat /\ Troubles \in Nat
  BY ForwardingAssumption DEF TypeOK, Troubles
<1> DEFINE y == Begun(k, gen, tok, Troubles)
<1>2. y \in Forward /\ y.pc = "send" /\ y.kind = k /\ y.gen = gen /\ y.tok = tok
  BY <1>1, BeginFields
<1>3. Become(f, y)
  BY DEF Begin, Begun
<1> HIDE DEF y
<1> QED
  BY <1>1, <1>2, <1>3, BecomeOne

-----------------------------------------------------------------------------
(* Every step keeps the invariant *)

\* The fields of a forward have their types.
LEMMA FieldTypes ==
  ASSUME NEW x \in Forward
  PROVE  x.gen \in Nat /\ x.tok \in Nat /\ x.at \in Nat /\ x.out \in Outcomes
  BY DEF Forward

\* A step that dispatches nothing keeps DispatchInv when it leaves a dispatched request
\* with an outcome that is not retried.
LEMMA DispatchKept ==
  ASSUME DispatchInv, NEW f, executed' = executed,
         \A x \in Forwards : x # f => fw'[x] = fw[x],
         fw'[f].kind = fw[f].kind,
         f \in Requests /\ executed[f] = 1 =>
           fw'[f].pc = "exec" \/ (fw'[f].pc \in {"judge", "done"} /\ fw'[f].out \in {"ok", "other"})
  PROVE  DispatchInv'
<1> SUFFICES ASSUME NEW r \in Requests PROVE Dispatched(r)'
  BY DEF DispatchInv
<1>1. Dispatched(r) /\ r \in Forwards
  BY DEF DispatchInv, Forwards
<1>2. CASE r = f
  BY <1>1, <1>2 DEF Dispatched
<1>3. CASE r # f
  <2>1. fw'[r] = fw[r]
    BY <1>1, <1>3
  <2> QED
    BY <1>1, <2>1 DEF Dispatched
<1> QED
  BY <1>2, <1>3

\* A request in another place than these has not been dispatched.
LEMMA NotDispatched ==
  ASSUME DispatchInv, NEW f \in Requests,
         ~(fw[f].pc = "exec" \/ (fw[f].pc \in {"judge", "done"} /\ fw[f].out \in {"ok", "other"}))
  PROVE  executed[f] = 0
  BY DEF DispatchInv, Dispatched

\* The proxy starts in the invariant: nothing is dispatched, no death is unanswered.
LEMMA InitInv == Init => IInv
<1> SUFFICES ASSUME Init PROVE IInv
  OBVIOUS
<1> DEFINE x == Idle("other")
<1>1. x \in Forward /\ x.pc = "idle" /\ x.kind = "other" /\ x.gen = 0 /\ x.tok = 0
  BY DEF Idle, Forward, Outcomes
<1> HIDE DEF x
<1>2. fw = [f \in Forwards |-> x]
  BY DEF Init, x
<1>3. TypeOK
  <2>1. fw \in [Forwards -> Forward]
    BY <1>1, <1>2
  <2>2. deaths \in 0 .. MaxDeaths /\ mu \in Forwards \cup {None}
    BY ForwardingAssumption DEF Init
  <2>3. /\ sess \in [0 .. MaxDeaths -> {"none", "new", "initialized"}]
        /\ ready \in [0 .. MaxDeaths -> BOOLEAN] /\ executed \in [Requests -> Nat]
    BY DEF Init
  <2> QED
    BY <2>1, <2>2, <2>3 DEF Init, TypeOK
<1>4. LinkInv
  BY <1>1, <1>2, ForwardingAssumption DEF Init, LinkInv, LinkHeld, Due, Refused, Unanswered,
     Forwards
<1>5. DispatchInv
  <2> SUFFICES ASSUME NEW r \in Requests PROVE Dispatched(r)
    BY DEF DispatchInv
  <2>1. fw[r] = x /\ executed[r] = 0
    BY <1>2 DEF Init, Forwards
  <2> QED
    BY <1>1, <2>1 DEF Dispatched
<1> QED
  BY <1>3, <1>4, <1>5 DEF IInv

\* A death is one more to answer.
LEMMA DiesKeeps ==
  ASSUME IInv, Dies
  PROVE  IInv'
<1>1. TypeOK'
  <2>1. deaths' \in 0 .. MaxDeaths
    BY ForwardingAssumption DEF IInv, TypeOK, Dies
  <2>2. up' \in BOOLEAN
    BY DEF Dies
  <2> QED
    BY <2>1, <2>2 DEF IInv, TypeOK, Dies, link, flags
<1>2. LinkInv'
  BY ForwardingAssumption, FieldTypes DEF IInv, TypeOK, LinkInv, LinkHeld, Due, Refused,
     Unanswered, Forwards, Dies, link, flags, daemon, counts
<1>3. DispatchInv'
  BY ForwardingAssumption, FieldTypes DEF IInv, TypeOK, DispatchInv, Dispatched, Forwards, Dies,
     link, flags, daemon, counts
<1> QED
  BY <1>1, <1>2, <1>3 DEF IInv

\* Another proxy respawns only after a death, which this link has not answered.
LEMMA SpawnedElsewhereKeeps ==
  ASSUME IInv, SpawnedElsewhere
  PROVE  IInv'
<1>1. TypeOK'
  BY ForwardingAssumption DEF IInv, TypeOK, Forwards, SpawnedElsewhere, Spawned, link, flags,
     daemon, counts
<1>2. LinkInv'
  BY ForwardingAssumption, FieldTypes DEF IInv, TypeOK, LinkInv, LinkHeld, Due, Refused,
     Unanswered, Forwards, SpawnedElsewhere, Spawned, link, flags, daemon, counts
<1>3. DispatchInv'
  BY ForwardingAssumption, FieldTypes DEF IInv, TypeOK, DispatchInv, Dispatched, Forwards,
     SpawnedElsewhere, Spawned, link, flags, daemon, counts
<1> QED
  BY <1>1, <1>2, <1>3 DEF IInv

\* Dropping an idle session touches neither links nor dispatched requests.
LEMMA EvictKeeps ==
  ASSUME IInv, Evict
  PROVE  IInv'
<1>1. TypeOK'
  BY ForwardingAssumption DEF IInv, TypeOK, Forwards, Evict, link, flags, daemon, counts
<1>2. LinkInv'
  BY ForwardingAssumption, FieldTypes DEF IInv, TypeOK, LinkInv, LinkHeld, Due, Refused,
     Unanswered, Forwards, Evict, link, flags, daemon, counts
<1>3. DispatchInv'
  BY ForwardingAssumption, FieldTypes DEF IInv, TypeOK, DispatchInv, Dispatched, Forwards, Evict,
     link, flags, daemon, counts
<1> QED
  BY <1>1, <1>2, <1>3 DEF IInv

\* A lifecycle message starts with the current link.
LEMMA StartLifecycleKeeps ==
  ASSUME IInv, StartLifecycle
  PROVE  IInv'
<1>1. fw' \in [Forwards -> Forward]
      /\ fw'[Life].pc = "send" /\ fw'[Life].gen = gen /\ fw'[Life].tok = tok
      /\ \A x \in Forwards : x # Life => fw'[x] = fw[x]
  BY BeginMoves DEF IInv, StartLifecycle, Forwards
<1>2. TypeOK'
  BY <1>1, ForwardingAssumption DEF IInv, TypeOK, Forwards, StartLifecycle, link, flags, daemon,
     counts
<1>3. LinkInv'
  BY <1>1, ForwardingAssumption, FieldTypes DEF IInv, TypeOK, LinkInv, LinkHeld, Due, Refused,
     Unanswered, Forwards, StartLifecycle, link, flags, daemon, counts
<1>4. DispatchInv'
  BY <1>1, ForwardingAssumption, FieldTypes DEF IInv, TypeOK, DispatchInv, Dispatched, Forwards,
     StartLifecycle, link, flags, daemon, counts
<1> QED
  BY <1>2, <1>3, <1>4 DEF IInv

\* A request starts with the current link and undispatched.
LEMMA StartForwardKeeps ==
  ASSUME IInv, NEW r \in Requests, StartForward(r)
  PROVE  IInv'
<1>1. fw' \in [Forwards -> Forward]
      /\ fw'[r].pc = "send" /\ fw'[r].kind = "other" /\ fw'[r].gen = gen /\ fw'[r].tok = tok
      /\ \A x \in Forwards : x # r => fw'[x] = fw[x]
  BY BeginMoves DEF IInv, StartForward, Forwards
<1>2. TypeOK'
  BY <1>1, ForwardingAssumption DEF IInv, TypeOK, Forwards, StartForward, link, flags, daemon,
     counts
<1>3. LinkInv'
  <2>1. r \in Forwards /\ mu # r
    BY DEF IInv, LinkInv, LinkHeld, StartForward, Forwards
  <2>2. ASSUME NEW x \in Forwards PROVE LinkHeld(x)' /\ Due(x)'
    <3>1. CASE x = r
      BY <1>1, <2>1, <3>1 DEF IInv, TypeOK, LinkHeld, Due, Refused, StartForward, link
    <3>2. CASE x # r
      BY <1>1, <3>2 DEF IInv, LinkInv, LinkHeld, Due, Refused, Unanswered, StartForward, link,
         counts
    <3> QED
      BY <3>1, <3>2
  <2> QED
    BY <2>2 DEF IInv, LinkInv, Unanswered, StartForward, link, daemon, counts
<1>4. DispatchInv'
  <2>1. executed' = executed /\ DispatchInv /\ executed[r] = 0
    BY NotDispatched DEF IInv, StartForward
  <2>2. fw'[r].kind = fw[r].kind
    BY <1>1 DEF IInv, DispatchInv, Dispatched
  <2> QED
    BY <1>1, <2>1, <2>2, DispatchKept
<1> QED
  BY <1>2, <1>3, <1>4 DEF IInv

\* A refusal with the link in use means that a death is unanswered.
LEMMA SendRefusedKeeps ==
  ASSUME IInv, NEW f \in Forwards, SendRefused(f)
  PROVE  IInv'
<1>1. Moves(f, {"judge"}, {"unauthorized", "down"}, fw[f].gen, fw[f].tok)
  BY JudgeMoves DEF IInv, SendRefused, Moves, Outcomes
<1>2. TypeOK'
  BY <1>1, ForwardingAssumption DEF IInv, TypeOK, Forwards, SendRefused, Accepts, Moves, link,
     flags, daemon, counts
<1>3. LinkInv'
  BY <1>1, ForwardingAssumption, FieldTypes DEF IInv, TypeOK, LinkInv, LinkHeld, Due, Refused,
     Unanswered, Forwards, SendRefused, Accepts, Moves, link, flags, daemon, counts
<1>4. DispatchInv'
  <2>1. executed' = executed /\ DispatchInv
    BY DEF IInv, SendRefused, link, flags, daemon, counts
  <2>2. f \in Requests /\ executed[f] = 1 =>
          fw'[f].pc = "exec" \/ (fw'[f].pc \in {"judge", "done"} /\ fw'[f].out \in {"ok", "other"})
    BY <1>1, <2>1, NotDispatched DEF SendRefused, Moves
  <2> QED
    BY <1>1, <2>1, <2>2, DispatchKept DEF Moves
<1> QED
  BY <1>2, <1>3, <1>4 DEF IInv

\* Lifecycle messages are not counted as dispatched.
LEMMA SendLifecycleKeeps ==
  ASSUME IInv, NEW f \in Forwards, SendLifecycle(f)
  PROVE  IInv'
<1>1. Moves(f, {"exec"}, {fw[f].out}, fw[f].gen, fw[f].tok)
  BY SendMoves DEF IInv, SendLifecycle, Pcs
<1>2. TypeOK'
  BY <1>1, ForwardingAssumption DEF IInv, TypeOK, Forwards, SendLifecycle, TakesInitialize,
     TakesInitialized, Moves, link, flags, daemon, counts
<1>3. LinkInv'
  BY <1>1, ForwardingAssumption, FieldTypes DEF IInv, TypeOK, LinkInv, LinkHeld, Due, Refused,
     Unanswered, Forwards, SendLifecycle, TakesInitialize, TakesInitialized, Moves, link, flags,
     daemon, counts
<1>4. DispatchInv'
  <2>1. executed' = executed /\ DispatchInv
    BY DEF IInv, SendLifecycle, link, flags, daemon, counts
  <2>2. f \in Requests /\ executed[f] = 1 =>
          fw'[f].pc = "exec" \/ (fw'[f].pc \in {"judge", "done"} /\ fw'[f].out \in {"ok", "other"})
    BY <1>1, <2>1, NotDispatched DEF SendLifecycle, Moves
  <2> QED
    BY <1>1, <2>1, <2>2, DispatchKept DEF Moves
<1> QED
  BY <1>2, <1>3, <1>4 DEF IInv

\* A request that is sent has not been dispatched.
LEMMA SendRequestKeeps ==
  ASSUME IInv, NEW f \in Forwards, SendRequest(f)
  PROVE  IInv'
<1>1. Moves(f, {IF Passes THEN "exec" ELSE "gate"}, {fw[f].out}, fw[f].gen, fw[f].tok)
  BY SendMoves DEF IInv, SendRequest, Pcs
<1>2. TypeOK'
  <2>1. executed' \in [Requests -> Nat]
    <3>1. executed \in [Requests -> Nat] /\ DOMAIN executed' = Requests
      BY DEF IInv, TypeOK, SendRequest
    <3>2. ASSUME NEW r \in Requests PROVE executed'[r] \in Nat
      BY <3>1 DEF SendRequest
    <3>3. executed' = [r \in Requests |-> executed'[r]]
      BY <3>1 DEF SendRequest
    <3> QED
      BY <3>2, <3>3
  <2>2. sess' \in [0 .. MaxDeaths -> {"none", "new", "initialized"}] /\ ready' = ready
    BY DEF IInv, TypeOK, SendRequest, TakesRequest
  <2> QED
    BY <1>1, <2>1, <2>2 DEF IInv, TypeOK, SendRequest, Moves, link, flags, counts
<1>3. LinkInv'
  BY <1>1, ForwardingAssumption, FieldTypes DEF IInv, TypeOK, LinkInv, LinkHeld, Due, Refused,
     Unanswered, Forwards, SendRequest, TakesRequest, Moves, link, flags, daemon, counts
<1>4. DispatchInv'
  <2> SUFFICES ASSUME NEW r \in Requests PROVE Dispatched(r)'
    BY DEF DispatchInv
  <2>1. Dispatched(r) /\ r \in Forwards
    BY DEF IInv, DispatchInv, Forwards
  <2>2. CASE r = f
    <3>1. executed[r] = 0
      BY <2>2, NotDispatched DEF IInv, SendRequest
    <3>2. executed'[r] \in {0, 1} /\ (executed'[r] = 1 => fw'[r].pc = "exec")
      BY <1>1, <2>2, <3>1 DEF IInv, TypeOK, SendRequest, Moves
    <3> QED
      BY <1>1, <2>1, <2>2, <3>2 DEF Dispatched, Moves
  <2>3. CASE r # f
    <3>1. executed'[r] = executed[r] /\ fw'[r] = fw[r]
      BY <1>1, <2>1, <2>3 DEF IInv, TypeOK, SendRequest, Moves
    <3> QED
      BY <2>1, <3>1 DEF Dispatched
  <2> QED
    BY <2>2, <2>3
<1> QED
  BY <1>2, <1>3, <1>4 DEF IInv

\* A request that waited at the gate has not been dispatched before.
LEMMA GateOpensKeeps ==
  ASSUME IInv, NEW f \in Forwards, GateOpens(f)
  PROVE  IInv'
<1>1. Moves(f, {"exec"}, {fw[f].out}, fw[f].gen, fw[f].tok)
  BY GoMoves DEF IInv, GateOpens, Pcs
<1>2. TypeOK'
  <2>1. executed' \in [Requests -> Nat]
    <3>1. executed \in [Requests -> Nat] /\ DOMAIN executed' = Requests
      BY DEF IInv, TypeOK, GateOpens
    <3>2. ASSUME NEW r \in Requests PROVE executed'[r] \in Nat
      BY <3>1 DEF GateOpens
    <3>3. executed' = [r \in Requests |-> executed'[r]]
      BY <3>1 DEF GateOpens
    <3> QED
      BY <3>2, <3>3
  <2> QED
    BY <1>1, <2>1 DEF IInv, TypeOK, GateOpens, Moves, link, flags, daemon, counts
<1>3. LinkInv'
  BY <1>1, ForwardingAssumption, FieldTypes DEF IInv, TypeOK, LinkInv, LinkHeld, Due, Refused,
     Unanswered, Forwards, GateOpens, Moves, link, flags, daemon, counts
<1>4. DispatchInv'
  <2> SUFFICES ASSUME NEW r \in Requests PROVE Dispatched(r)'
    BY DEF DispatchInv
  <2>1. Dispatched(r) /\ r \in Forwards
    BY DEF IInv, DispatchInv, Forwards
  <2>2. CASE r = f
    <3>1. executed[r] = 0
      BY <2>2, NotDispatched DEF IInv, GateOpens
    <3>2. executed'[r] \in {0, 1} /\ (executed'[r] = 1 => fw'[r].pc = "exec")
      BY <1>1, <2>2, <3>1 DEF IInv, TypeOK, GateOpens, Moves
    <3> QED
      BY <1>1, <2>1, <2>2, <3>2 DEF Dispatched, Moves
  <2>3. CASE r # f
    <3>1. executed'[r] = executed[r] /\ fw'[r] = fw[r]
      BY <1>1, <2>1, <2>3 DEF IInv, TypeOK, GateOpens, Moves
    <3> QED
      BY <2>1, <3>1 DEF Dispatched
  <2> QED
    BY <2>2, <2>3
<1> QED
  BY <1>2, <1>3, <1>4 DEF IInv

\* A request turned away at the gate was never dispatched.
LEMMA GateTimesOutKeeps ==
  ASSUME IInv, NEW f \in Forwards, GateTimesOut(f)
  PROVE  IInv'
<1>1. Moves(f, {"judge"}, {"notInitialized"}, fw[f].gen, fw[f].tok)
  BY JudgeMoves DEF IInv, GateTimesOut, Outcomes
<1>2. TypeOK'
  BY <1>1, ForwardingAssumption DEF IInv, TypeOK, Forwards, GateTimesOut, Moves, link, flags,
     daemon, counts
<1>3. LinkInv'
  BY <1>1, ForwardingAssumption, FieldTypes DEF IInv, TypeOK, LinkInv, LinkHeld, Due, Refused,
     Unanswered, Forwards, GateTimesOut, Moves, link, flags, daemon, counts
<1>4. DispatchInv'
  <2>1. executed' = executed /\ DispatchInv
    BY DEF IInv, GateTimesOut, link, flags, daemon, counts
  <2>2. f \in Requests /\ executed[f] = 1 =>
          fw'[f].pc = "exec" \/ (fw'[f].pc \in {"judge", "done"} /\ fw'[f].out \in {"ok", "other"})
    BY <1>1, <2>1, NotDispatched DEF GateTimesOut, Moves
  <2> QED
    BY <1>1, <2>1, <2>2, DispatchKept DEF Moves
<1> QED
  BY <1>2, <1>3, <1>4 DEF IInv

\* A reply is final.
LEMMA ReplyKeeps ==
  ASSUME IInv, NEW f \in Forwards, Reply(f)
  PROVE  IInv'
<1>1. Moves(f, {"judge"}, {"ok"}, fw[f].gen, fw[f].tok)
  BY JudgeMoves DEF IInv, Reply, Outcomes
<1>2. TypeOK'
  BY <1>1, ForwardingAssumption DEF IInv, TypeOK, Forwards, Reply, Moves, link, flags, daemon,
     counts
<1>3. LinkInv'
  BY <1>1, ForwardingAssumption, FieldTypes DEF IInv, TypeOK, LinkInv, LinkHeld, Due, Refused,
     Unanswered, Forwards, Reply, Moves, link, flags, daemon, counts
<1>4. DispatchInv'
  <2>1. executed' = executed /\ DispatchInv
    BY DEF IInv, Reply, link, flags, daemon, counts
  <2>2. f \in Requests /\ executed[f] = 1 =>
          fw'[f].pc = "exec" \/ (fw'[f].pc \in {"judge", "done"} /\ fw'[f].out \in {"ok", "other"})
    BY <1>1, <2>1, NotDispatched DEF Reply, Moves
  <2> QED
    BY <1>1, <2>1, <2>2, DispatchKept DEF Moves
<1> QED
  BY <1>2, <1>3, <1>4 DEF IInv

\* A connection lost after sending is never one that may be retried.
LEMMA LostKeeps ==
  ASSUME IInv, NEW f \in Forwards, Lost(f)
  PROVE  IInv'
<1>1. Moves(f, {"judge"}, {"other"}, fw[f].gen, fw[f].tok)
  BY JudgeMoves DEF IInv, Lost, LostOutcome, Outcomes
<1>2. TypeOK'
  BY <1>1, ForwardingAssumption DEF IInv, TypeOK, Forwards, Lost, Moves, link, flags, daemon,
     counts
<1>3. LinkInv'
  BY <1>1, ForwardingAssumption, FieldTypes DEF IInv, TypeOK, LinkInv, LinkHeld, Due, Refused,
     Unanswered, Forwards, Lost, Moves, link, flags, daemon, counts
<1>4. DispatchInv'
  <2>1. executed' = executed /\ DispatchInv
    BY DEF IInv, Lost, link, flags, daemon, counts
  <2>2. f \in Requests /\ executed[f] = 1 =>
          fw'[f].pc = "exec" \/ (fw'[f].pc \in {"judge", "done"} /\ fw'[f].out \in {"ok", "other"})
    BY <1>1, <2>1, NotDispatched DEF Lost, Moves
  <2> QED
    BY <1>1, <2>1, <2>2, DispatchKept DEF Moves
<1> QED
  BY <1>2, <1>3, <1>4 DEF IInv

\* forward returns on outcomes that are not retried.
LEMMA FinishKeeps ==
  ASSUME IInv, NEW f \in Forwards, Finish(f)
  PROVE  IInv'
<1>1. Moves(f, {"done"}, {fw[f].out}, fw[f].gen, fw[f].tok)
  BY GoMoves DEF IInv, Finish, Pcs
<1>2. TypeOK'
  BY <1>1, ForwardingAssumption DEF IInv, TypeOK, Forwards, Finish, Moves, link, flags, daemon,
     counts
<1>3. LinkInv'
  BY <1>1, ForwardingAssumption, FieldTypes DEF IInv, TypeOK, LinkInv, LinkHeld, Due, Refused,
     Unanswered, Forwards, Finish, Moves, link, flags, daemon, counts
<1>4. DispatchInv'
  <2>1. executed' = executed /\ DispatchInv
    BY DEF IInv, Finish, link, flags, daemon, counts
  <2>2. f \in Requests /\ executed[f] = 1 =>
          fw'[f].pc = "exec" \/ (fw'[f].pc \in {"judge", "done"} /\ fw'[f].out \in {"ok", "other"})
    BY <1>1, <2>1, NotDispatched DEF Finish, Moves
  <2> QED
    BY <1>1, <2>1, <2>2, DispatchKept DEF Moves
<1> QED
  BY <1>2, <1>3, <1>4 DEF IInv

\* Only an undispatched request is repeated after a handshake.
LEMMA SessionLostKeeps ==
  ASSUME IInv, NEW f \in Forwards, SessionLost(f)
  PROVE  IInv'
<1>1. Moves(f, {"handshake"}, {fw[f].out}, fw[f].gen, fw[f].tok)
  BY GoMoves DEF IInv, SessionLost, Pcs
<1>2. TypeOK'
  BY <1>1, ForwardingAssumption DEF IInv, TypeOK, Forwards, SessionLost, Moves, link, flags,
     daemon, counts
<1>3. LinkInv'
  BY <1>1, ForwardingAssumption, FieldTypes DEF IInv, TypeOK, LinkInv, LinkHeld, Due, Refused,
     Unanswered, Forwards, SessionLost, Moves, link, flags, daemon, counts
<1>4. DispatchInv'
  <2>1. executed' = executed /\ DispatchInv
    BY DEF IInv, SessionLost, link, flags, daemon, counts
  <2>2. f \in Requests /\ executed[f] = 1 =>
          fw'[f].pc = "exec" \/ (fw'[f].pc \in {"judge", "done"} /\ fw'[f].out \in {"ok", "other"})
    BY <1>1, <2>1, NotDispatched DEF SessionLost, Moves
  <2> QED
    BY <1>1, <2>1, <2>2, DispatchKept DEF Moves
<1> QED
  BY <1>2, <1>3, <1>4 DEF IInv

\* Only a refused forward asks the link to recover.
LEMMA LinkLostKeeps ==
  ASSUME IInv, NEW f \in Forwards, LinkLost(f)
  PROVE  IInv'
<1>1. Moves(f, {"recover"}, {fw[f].out}, fw[f].gen, fw[f].tok)
  BY GoMoves DEF IInv, LinkLost, Pcs
<1>2. TypeOK'
  BY <1>1, ForwardingAssumption DEF IInv, TypeOK, Forwards, LinkLost, Moves, link, flags, daemon,
     counts
<1>3. LinkInv'
  BY <1>1, ForwardingAssumption, FieldTypes DEF IInv, TypeOK, LinkInv, LinkHeld, Due, Refused,
     Unanswered, Forwards, LinkLost, Moves, link, flags, daemon, counts
<1>4. DispatchInv'
  <2>1. executed' = executed /\ DispatchInv
    BY DEF IInv, LinkLost, link, flags, daemon, counts
  <2>2. f \in Requests /\ executed[f] = 1 =>
          fw'[f].pc = "exec" \/ (fw'[f].pc \in {"judge", "done"} /\ fw'[f].out \in {"ok", "other"})
    BY <1>1, <2>1, NotDispatched DEF LinkLost, Moves
  <2> QED
    BY <1>1, <2>1, <2>2, DispatchKept DEF Moves
<1> QED
  BY <1>2, <1>3, <1>4 DEF IInv

\* Whoever finds a newer generation takes it, or gives up with its error.
LEMMA TakeRecoveredKeeps ==
  ASSUME IInv, NEW f \in Forwards, TakeRecovered(f)
  PROVE  IInv'
<1>1. /\ fw' \in [Forwards -> Forward] /\ fw'[f].kind = fw[f].kind
      /\ fw'[f].pc \in {"send", "done", "handshake"} /\ fw'[f].out = fw[f].out
      /\ \/ fw'[f].gen = gen /\ fw'[f].tok = tok
         \/ fw'[f].gen = fw[f].gen /\ fw'[f].tok = fw[f].tok
      /\ \A x \in Forwards : x # f => fw'[x] = fw[x]
  <2>1. CASE resolveErr
    <3>1. Go(f, "done")
      BY <2>1 DEF TakeRecovered, Go
    <3> QED
      BY <3>1, GoMoves DEF IInv, Pcs, Moves
  <2>2. CASE ~resolveErr
    BY <2>2, RecoverMoves DEF IInv, TypeOK, TakeRecovered, Moves
  <2> QED
    BY <2>1, <2>2
<1>2. TypeOK'
  BY <1>1, ForwardingAssumption DEF IInv, TypeOK, Forwards, TakeRecovered, link, flags, daemon,
     counts
<1>3. LinkInv'
  <2>1. ASSUME NEW x \in Forwards PROVE LinkHeld(x)' /\ Due(x)'
    <3>1. CASE x = f
      BY <1>1, <3>1 DEF IInv, TypeOK, LinkInv, LinkHeld, Due, Refused, TakeRecovered, link
    <3>2. CASE x # f
      BY <1>1, <3>2 DEF IInv, LinkInv, LinkHeld, Due, Refused, Unanswered, TakeRecovered, link,
         counts
    <3> QED
      BY <3>1, <3>2
  <2> QED
    BY <2>1 DEF IInv, LinkInv, Unanswered, TakeRecovered, link, daemon, counts
<1>4. DispatchInv'
  <2>1. executed' = executed /\ DispatchInv
    BY DEF IInv, TakeRecovered, link, flags, daemon, counts
  <2>2. f \in Requests /\ executed[f] = 1 =>
          fw'[f].pc = "exec" \/ (fw'[f].pc \in {"judge", "done"} /\ fw'[f].out \in {"ok", "other"})
    BY <1>1, <2>1, NotDispatched DEF TakeRecovered
  <2> QED
    BY <1>1, <2>1, <2>2, DispatchKept
<1> QED
  BY <1>2, <1>3, <1>4 DEF IInv

\* Only a forward whose generation is the current one resolves.
LEMMA StartResolveKeeps ==
  ASSUME IInv, NEW f \in Forwards, StartResolve(f)
  PROVE  IInv'
<1>1. Moves(f, {"resolve"}, {fw[f].out}, fw[f].gen, fw[f].tok)
  BY GoMoves DEF IInv, StartResolve, Pcs
<1>2. TypeOK'
  BY <1>1, ForwardingAssumption DEF IInv, TypeOK, Forwards, StartResolve, RecoveredAlready,
     ClearError, Moves, link, flags, daemon, counts
<1>3. LinkInv'
  BY <1>1, ForwardingAssumption, FieldTypes DEF IInv, TypeOK, LinkInv, LinkHeld, Due, Refused,
     Unanswered, Forwards, StartResolve, RecoveredAlready, ClearError, Moves, link, flags,
     daemon, counts
<1>4. DispatchInv'
  <2>1. executed' = executed /\ DispatchInv
    BY DEF IInv, StartResolve, link, flags, daemon, counts
  <2>2. f \in Requests /\ executed[f] = 1 =>
          fw'[f].pc = "exec" \/ (fw'[f].pc \in {"judge", "done"} /\ fw'[f].out \in {"ok", "other"})
    BY <1>1, <2>1, NotDispatched DEF StartResolve, Moves
  <2> QED
    BY <1>1, <2>1, <2>2, DispatchKept DEF Moves
<1> QED
  BY <1>2, <1>3, <1>4 DEF IInv

\* The Resolve answers a death, and leaves nobody refused with its generation.
LEMMA ResolveSucceedsKeeps ==
  ASSUME IInv, NEW f \in Forwards, ResolveSucceeds(f)
  PROVE  IInv'
<1>1. Moves(f, {"send", "done", "handshake"}, {fw[f].out}, gen', tok')
  BY RecoverMoves DEF IInv, TypeOK, ResolveSucceeds, Spawned
<1>2. TypeOK'
  BY <1>1, ForwardingAssumption DEF IInv, TypeOK, Forwards, ResolveSucceeds, Spawned, Moves,
     link, flags, daemon, counts
<1>3. LinkInv'
  <2>1. mu = f /\ resolves < deaths
    BY DEF IInv, LinkInv, LinkHeld, Due, Unanswered, ResolveSucceeds
  <2>2. /\ gen' = gen + 1 /\ tok' = dtok' /\ mu' = None /\ up' = TRUE
        /\ resolves' = resolves + 1 /\ deaths' = deaths
    BY DEF ResolveSucceeds, Spawned
  <2>3. /\ gen \in Nat /\ resolves \in Nat /\ deaths \in Nat /\ None \notin Forwards
        /\ \A x \in Forwards : fw[x].gen \in Nat
    BY ForwardingAssumption, FieldTypes DEF IInv, TypeOK
  <2>4. ASSUME NEW x \in Forwards PROVE LinkHeld(x)' /\ Due(x)'
    <3>1. CASE x = f
      BY <1>1, <2>2, <2>3, <3>1 DEF LinkHeld, Due, Refused, Moves
    <3>2. CASE x # f
      <4>1. fw'[x] = fw[x] /\ fw[x].gen <= gen /\ fw[x].pc # "resolve"
        BY <1>1, <2>1, <3>2 DEF IInv, LinkInv, LinkHeld, Moves
      <4> QED
        BY <2>2, <2>3, <4>1 DEF LinkHeld, Due
    <3> QED
      BY <3>1, <3>2
  <2> QED
    BY <2>1, <2>2, <2>3, <2>4 DEF LinkInv, Unanswered
<1>4. DispatchInv'
  <2>1. executed' = executed /\ DispatchInv
    BY DEF IInv, ResolveSucceeds, link, flags, daemon, counts
  <2>2. f \in Requests /\ executed[f] = 1 =>
          fw'[f].pc = "exec" \/ (fw'[f].pc \in {"judge", "done"} /\ fw'[f].out \in {"ok", "other"})
    BY <1>1, <2>1, NotDispatched DEF ResolveSucceeds, Moves
  <2> QED
    BY <1>1, <2>1, <2>2, DispatchKept DEF Moves
<1> QED
  BY <1>2, <1>3, <1>4 DEF IInv

\* A failed Resolve answers no death and ends its generation.
LEMMA ResolveFailsKeeps ==
  ASSUME IInv, NEW f \in Forwards, ResolveFails(f)
  PROVE  IInv'
<1>1. Moves(f, {"done"}, {fw[f].out}, fw[f].gen, fw[f].tok)
  BY GoMoves DEF IInv, ResolveFails, Pcs
<1>2. TypeOK'
  BY <1>1, ForwardingAssumption DEF IInv, TypeOK, Forwards, ResolveFails, Unlock, Moves, link,
     flags, daemon, counts
<1>3. LinkInv'
  BY <1>1, ForwardingAssumption, FieldTypes DEF IInv, TypeOK, LinkInv, LinkHeld, Due, Refused,
     Unanswered, Forwards, ResolveFails, Unlock, Moves, link, flags, daemon, counts
<1>4. DispatchInv'
  <2>1. executed' = executed /\ DispatchInv
    BY DEF IInv, ResolveFails, link, flags, daemon, counts
  <2>2. f \in Requests /\ executed[f] = 1 =>
          fw'[f].pc = "exec" \/ (fw'[f].pc \in {"judge", "done"} /\ fw'[f].out \in {"ok", "other"})
    BY <1>1, <2>1, NotDispatched DEF ResolveFails, Moves
  <2> QED
    BY <1>1, <2>1, <2>2, DispatchKept DEF Moves
<1> QED
  BY <1>2, <1>3, <1>4 DEF IInv

\* The handshake uses the link the forward holds.
LEMMA HandshakeInitializeKeeps ==
  ASSUME IInv, NEW f \in Forwards, HandshakeInitialize(f)
  PROVE  IInv'
<1>1. Moves(f, {"handshake2"}, {fw[f].out}, fw[f].gen, fw[f].tok)
  BY GoMoves DEF IInv, HandshakeInitialize, Pcs
<1>2. TypeOK'
  BY <1>1, ForwardingAssumption DEF IInv, TypeOK, Forwards, HandshakeInitialize, TakesInitialize,
     Moves, link, flags, daemon, counts
<1>3. LinkInv'
  BY <1>1, ForwardingAssumption, FieldTypes DEF IInv, TypeOK, LinkInv, LinkHeld, Due, Refused,
     Unanswered, Forwards, HandshakeInitialize, TakesInitialize, Moves, link, flags, daemon,
     counts
<1>4. DispatchInv'
  <2>1. executed' = executed /\ DispatchInv
    BY DEF IInv, HandshakeInitialize, link, flags, daemon, counts
  <2>2. f \in Requests /\ executed[f] = 1 =>
          fw'[f].pc = "exec" \/ (fw'[f].pc \in {"judge", "done"} /\ fw'[f].out \in {"ok", "other"})
    BY <1>1, <2>1, NotDispatched DEF HandshakeInitialize, Moves
  <2> QED
    BY <1>1, <2>1, <2>2, DispatchKept DEF Moves
<1> QED
  BY <1>2, <1>3, <1>4 DEF IInv

\* After the handshake the forward is sent again with the same link.
LEMMA HandshakeInitializedKeeps ==
  ASSUME IInv, NEW f \in Forwards, HandshakeInitialized(f)
  PROVE  IInv'
<1>1. Moves(f, {"send", "done"}, {fw[f].out}, fw[f].gen, fw[f].tok)
  BY AttemptMoves DEF IInv, HandshakeInitialized
<1>2. TypeOK'
  BY <1>1, ForwardingAssumption DEF IInv, TypeOK, Forwards, HandshakeInitialized,
     TakesInitialized, Moves, link, flags, daemon, counts
<1>3. LinkInv'
  BY <1>1, ForwardingAssumption, FieldTypes DEF IInv, TypeOK, LinkInv, LinkHeld, Due, Refused,
     Unanswered, Forwards, HandshakeInitialized, TakesInitialized, Moves, link, flags, daemon,
     counts
<1>4. DispatchInv'
  <2>1. executed' = executed /\ DispatchInv
    BY DEF IInv, HandshakeInitialized, link, flags, daemon, counts
  <2>2. f \in Requests /\ executed[f] = 1 =>
          fw'[f].pc = "exec" \/ (fw'[f].pc \in {"judge", "done"} /\ fw'[f].out \in {"ok", "other"})
    BY <1>1, <2>1, NotDispatched DEF HandshakeInitialized, Moves
  <2> QED
    BY <1>1, <2>1, <2>2, DispatchKept DEF Moves
<1> QED
  BY <1>2, <1>3, <1>4 DEF IInv

\* A stuttering step leaves every variable alone.
LEMMA StutterKeeps ==
  ASSUME IInv, UNCHANGED vars
  PROVE  IInv'
<1>1. TypeOK'
  BY DEF IInv, TypeOK, vars, link, flags, daemon, counts
<1>2. LinkInv'
  BY DEF IInv, LinkInv, LinkHeld, Due, Refused, Unanswered, vars, link, flags, daemon, counts
<1>3. DispatchInv'
  BY DEF IInv, DispatchInv, Dispatched, vars, link, flags, daemon, counts
<1> QED
  BY <1>1, <1>2, <1>3 DEF IInv

\* IInv is inductive.
THEOREM Inductive == Spec => []IInv
<1>1. IInv /\ [Next]_vars => IInv'
  <2> SUFFICES ASSUME IInv, [Next]_vars PROVE IInv'
    OBVIOUS
  <2>1. CASE UNCHANGED vars
    BY <2>1, StutterKeeps
  <2>2. ASSUME NEW f \in Forwards, Lock(f) PROVE IInv'
    BY <2>2, TakeRecoveredKeeps, StartResolveKeeps DEF Lock
  <2>3. ASSUME NEW f \in Forwards, Step(f) PROVE IInv'
    BY <2>3, SendRefusedKeeps, SendLifecycleKeeps, SendRequestKeeps, GateOpensKeeps,
       GateTimesOutKeeps, ReplyKeeps, LostKeeps, FinishKeeps, SessionLostKeeps, LinkLostKeeps,
       ResolveSucceedsKeeps, ResolveFailsKeeps, HandshakeInitializeKeeps,
       HandshakeInitializedKeeps DEF Step
  <2> QED
    BY <2>1, <2>2, <2>3, DiesKeeps, SpawnedElsewhereKeeps, EvictKeeps, StartLifecycleKeeps,
       StartForwardKeeps DEF Next
<1> QED
  BY <1>1, InitInv, PTL DEF Spec

\* The variables keep their types.
THEOREM TypeCorrect == Spec => []TypeOK
<1>1. IInv => TypeOK
  BY DEF IInv
<1> QED
  BY <1>1, Inductive, PTL

\* "We retry only when we can prove the request never ran" (docs/daemon.md), whatever
\* the number of requests, deaths, evictions and attempts: no retry loop of
\* recoverForwarding dispatches a request a second time.
THEOREM NoRequestRunsTwice == Spec => []RunsAtMostOnce
<1>1. IInv => RunsAtMostOnce
  <2> SUFFICES ASSUME DispatchInv, NEW r \in Requests
               PROVE  /\ executed[r] <= 1
                      /\ fw[r].pc = "done" /\ fw[r].out \notin {"ok", "other"} => executed[r] = 0
    BY DEF IInv, RunsAtMostOnce
  <2> QED
    BY NotDispatched DEF DispatchInv, Dispatched
<1> QED
  BY <1>1, Inductive, PTL

\* However many forwards fail together, daemonLink.recover resolves no more often than
\* daemons have died.
THEOREM OneResolveAnswersADeath == Spec => []OneResolvePerDeath
<1>1. IInv => OneResolvePerDeath
  BY DEF IInv, LinkInv, OneResolvePerDeath
<1> QED
  BY <1>1, Inductive, PTL
=============================================================================
