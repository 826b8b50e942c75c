----------------------- MODULE UpstreamLifecycle_proofs -----------------------
(***************************************************************************)
(* No connection is leaked, agents are served consistently and what was    *)
(* removed stays removed, for every number of connections, upstream        *)
(* objects, settings and outside events.                                   *)
(***************************************************************************)
EXTENDS UpstreamLifecycle, TLAPS

-----------------------------------------------------------------------------
(* The inductive invariant *)

\* An install holds a connection between its dial and its end.
Holding(t) == t.pc \in {"list", "install"}
InstallsHold == \A t \in installs : IF Holding(t) THEN t.conn \in open ELSE t.conn = None

\* So does a reconnect between its dial and the swap; a live upstream holds the one in use.
UpstreamsHold ==
    \A u \in Ups :
        /\ ups[u].live => ups[u].conn \in open
        /\ ups[u].pc \in {"idle", "dial"} => ups[u].new = None
        /\ ups[u].pc \in {"list", "swap"} => ups[u].new \in open
        /\ ups[u].pc = "publish" =>
             ups[u].new = ups[u].conn /\ (ups[u].live \/ ups[u].conn \notin open)

\* No connection is held twice.
InstallsDiffer ==
    \A s, t \in installs : s.conn = t.conn /\ s.conn # None => s = t

HeldApart ==
    /\ \A t \in installs : t.conn # None => \A u \in Ups : t.conn \notin {ups[u].conn, ups[u].new}
    /\ \A u, v \in Ups : u # v /\ ups[u].new # None => ups[u].new \notin {ups[v].conn, ups[v].new}
    /\ \A u \in Ups : ups[u].pc \in {"list", "swap"} => ups[u].new # ups[u].conn

\* Every open connection is held.
Accounted ==
    \A c \in open :
        \/ \E u \in Ups : (ups[u].live /\ ups[u].conn = c) \/ ups[u].new = c
        \/ \E t \in installs : t.conn = c

\* Only the registered upstream is alive.
OneIsLive == \A u \in Ups : ups[u].live => current = u

Held ==
    /\ InstallsHold /\ UpstreamsHold /\ InstallsDiffer /\ HeldApart /\ Accounted /\ OneIsLive
    /\ ServedConsistently

\* The steps of each operation that holds the name lock; an add_server waits for its install.
Steps(op) ==
    CASE op = "none"   -> {"none"}
      [] op = "add"    -> {"detach", "change", "detachAgain", "connect", "connecting", "record"}
      [] op = "check"  -> {"lookup", "decide", "remove", "reconnect", "connect"}
      [] OTHER         -> {"detach", "change", "detachAgain"}

AdminFollows ==
    /\ admin.pc \in Steps(admin.op)
    /\ \A t \in installs : t.kind = "add" => admin.op = "add" /\ admin.pc = "connecting"
    /\ \A s, t \in installs : s.kind = "add" /\ t.kind = "add" => s = t

\* add_server installs, and the config check connects, a file that it has read.
AdminHasFile ==
    (\/ admin.op = "add" /\ admin.pc \in {"connecting", "record"}
     \/ admin.op = "check" /\ admin.pc \in {"reconnect", "connect"})
    => admin.file # None

\* After Close has stopped what it waits for, nothing begins.
ClosingHolds ==
    /\ closing \notin {"open", "begun"} => admin.op = "none"
    /\ closing \in {"drained", "closed"} => installs = {} /\ \A u \in Ups : ~ups[u].live
    /\ closing = "closed" => \A u \in Ups : ups[u].pc = "idle"

\* Nothing serves or is recorded, and every install under way is for an earlier generation.
Gone ==
    /\ current = None /\ registry = None /\ record = None
    /\ \A t \in installs : Superseded(t)

GenerationsPast == \A t \in installs : t.gen <= removeGen

\* Between the two detaches of add_server and remove_server.
ChangeIsAlone == admin.pc \in {"change", "detachAgain"} => Gone

\* A removed server has no file to connect it from, and the config check does not look at an older one.
RemovedIsGone ==
    removed =>
        /\ Gone /\ file = None /\ token = 0
        /\ admin.op # "add"
        /\ admin.op = "check" =>
             admin.pc = "lookup" \/ (admin.pc = "decide" /\ admin.file = None)

\* What add_server, remove_server, the config check and Close rely on.
Ordered ==
    /\ AdminFollows /\ AdminHasFile /\ ClosingHolds
    /\ GenerationsPast /\ ChangeIsAlone /\ RemovedIsGone

LoginsLeft == left["login"] <= MaxLogins

IInv == TypeOK /\ LoginsLeft /\ Held /\ Ordered
-----------------------------------------------------------------------------
(* Helpers *)

\* A dial gives a connection that nothing refers to.
LEMMA DialIsFresh ==
  ASSUME TypeOK, CanDial
  PROVE  /\ Dialled \in Conns /\ Dialled # None /\ Dialled \notin open /\ Dialled # registry
         /\ \A t \in installs : t.conn # Dialled
         /\ \A u \in Ups : ups[u].conn # Dialled /\ ups[u].new # Dialled
<1>1. Dialled \in Conns /\ Dialled \notin Referred
  BY DEF CanDial, Dialled
<1> QED
  BY <1>1, LifecycleAssumption DEF Referred

\* Forgetting the current upstream, once shut down, leaves the others alone.
LEMMA ShutDownEffect ==
  ASSUME TypeOK, current # None, NEW us, us = Forget(ShutDown(current), current, None)
  PROVE  /\ us \in [Ups -> Upstream]
         /\ \A u \in Ups : u # current => us[u] = ups[u]
         /\ ups[current].pc = "idle" => us[current] = NoUpstream
         /\ ups[current].pc # "idle" => us[current] = [ups[current] EXCEPT !.live = FALSE]
<1>1. current \in Ups /\ current # None /\ ups \in [Ups -> Upstream] /\ ups[current] \in Upstream
  BY DEF TypeOK
<1>2. NoUpstream \in Upstream /\ [ups[current] EXCEPT !.live = FALSE] \in Upstream
  BY <1>1 DEF Upstream, NoUpstream
<1>3. /\ ShutDown(current) \in [Ups -> Upstream]
      /\ ShutDown(current)[current] = [ups[current] EXCEPT !.live = FALSE]
      /\ \A u \in Ups : u # current => ShutDown(current)[u] = ups[u]
  BY <1>1, <1>2 DEF ShutDown
<1>4. [ups[current] EXCEPT !.live = FALSE].pc = ups[current].pc
      /\ [ups[current] EXCEPT !.live = FALSE].live = FALSE
  BY <1>1 DEF Upstream
<1>5. us = IF ups[current].pc = "idle" THEN [ShutDown(current) EXCEPT ![current] = NoUpstream]
           ELSE ShutDown(current)
  BY <1>1, <1>3, <1>4 DEF Forget
<1> QED
  BY <1>1, <1>2, <1>3, <1>5

\* A reconnect loop that ends leaves the other upstreams alone, and none of a dead one.
LEMMA EndsEffect ==
  ASSUME TypeOK, NEW u \in Ups, NEW us, us = Ends(ups, u)
  PROVE  /\ us \in [Ups -> Upstream]
         /\ \A v \in Ups : v # u => us[v] = ups[v]
         /\ us[u].pc = "idle" /\ us[u].new = None /\ us[u].live = ups[u].live
         /\ us[u].live => us[u].conn = ups[u].conn
         /\ us[u].conn \in {ups[u].conn, None}
<1> DEFINE ended == [ups[u] EXCEPT !.pc = "idle", !.new = None]
           u1 == [ups EXCEPT ![u].pc = "idle", ![u].new = None]
<1>1. ups[u] \in Upstream /\ ups \in [Ups -> Upstream]
  BY DEF TypeOK
<1>2. ended \in Upstream /\ NoUpstream \in Upstream
  BY <1>1 DEF Upstream, NoUpstream
<1>3. /\ ended.pc = "idle" /\ ended.new = None /\ ended.live = ups[u].live /\ ended.conn = ups[u].conn
      /\ ups[u].live \in BOOLEAN
  BY <1>1 DEF Upstream
<1>4. u1 = [ups EXCEPT ![u] = ended]
  BY <1>1 DEF Upstream
<1>5. us = IF u # current /\ ~ups[u].live THEN [u1 EXCEPT ![u] = NoUpstream] ELSE u1
  BY <1>1, <1>2, <1>3, <1>4 DEF Ends, Forget
<1> HIDE DEF ended, u1
<1>6. CASE u # current /\ ~ups[u].live
  <2>1. ups[u].live = FALSE
    BY <1>3, <1>6
  <2>2. us = [ups EXCEPT ![u] = NoUpstream]
    BY <1>1, <1>2, <1>4, <1>5, <1>6
  <2>3. /\ us \in [Ups -> Upstream] /\ us[u] = NoUpstream
        /\ \A v \in Ups : v # u => us[v] = ups[v]
    BY <1>1, <1>2, <2>2
  <2>4. /\ NoUpstream.pc = "idle" /\ NoUpstream.new = None
        /\ NoUpstream.live = FALSE /\ NoUpstream.conn = None
    BY DEF NoUpstream
  <2> QED
    BY <2>1, <2>3, <2>4
<1>7. CASE ~(u # current /\ ~ups[u].live)
  BY <1>1, <1>2, <1>3, <1>4, <1>5, <1>7
<1> QED
  BY <1>6, <1>7

\* Installs that hold the same connections as before, none of them twice.
SameHolds ==
    /\ \A s \in installs' : IF Holding(s) THEN \E t \in installs : Holding(t) /\ s.conn = t.conn
                                          ELSE s.conn = None
    /\ \A t \in installs : Holding(t) => \E s \in installs' : s.conn = t.conn
    /\ \A s, t \in installs' : s.conn = t.conn /\ s.conn # None => s = t

\* A step that only moves installs on, keeping what each holds, keeps connections held.
LEMMA QuietHeld ==
  ASSUME TypeOK, Held, UNCHANGED <<open, ups, current, registry, ready>>, SameHolds,
         closing' \in {"open", "begun", "stopped"} => closing \in {"open", "begun", "stopped"}
  PROVE  Held'
<1>1. None \notin open
  BY LifecycleAssumption DEF TypeOK
<1>2. InstallsHold' /\ InstallsDiffer'
  BY DEF Held, InstallsHold, InstallsDiffer, Holding, SameHolds
<1>3. UpstreamsHold' /\ OneIsLive' /\ ServedConsistently'
  BY DEF Held, UpstreamsHold, OneIsLive, ServedConsistently
<1>4. HeldApart'
  BY DEF Held, HeldApart, SameHolds
<1>5. Accounted'
  BY <1>1 DEF Held, Accounted, InstallsHold, SameHolds
<1> QED
  BY <1>2, <1>3, <1>4, <1>5 DEF Held

\* An install that goes on with the connection it holds, or without one, keeps what is held.
LEMMA MovesOn ==
  ASSUME TypeOK, Held, NEW t \in installs, NEW new, Become(t, new),
         new.conn = t.conn, Holding(new) <=> Holding(t)
  PROVE  SameHolds
  BY DEF Become, Held, InstallsHold, InstallsDiffer, SameHolds

\* An install that ends without a connection.
LEMMA EndsBare ==
  ASSUME TypeOK, Held, NEW t \in installs, ~Holding(t), installs' = installs \ {t}
  PROVE  SameHolds
  BY DEF Held, InstallsHold, InstallsDiffer, SameHolds

\* Some installs are cancelled, and others begin, which have no connection yet.
CancelOrBegin(kept, more) ==
    /\ \A t \in installs : kept[t] = t \/ kept[t] = [t EXCEPT !.cancelled = TRUE]
    /\ \A s \in more : ~Holding(s) /\ s.conn = None
    /\ installs' = {kept[t] : t \in installs} \cup more

\* Cancelling the login of a flow, or everything at shutdown, closes nothing by itself.
LEMMA CancelOrBeginHolds ==
  ASSUME TypeOK, Held, NEW kept, NEW more, CancelOrBegin(kept, more)
  PROVE  SameHolds
<1>1. \A t \in installs : t \in Install
  BY DEF TypeOK
<1>2. \A t \in installs : kept[t].conn = t.conn /\ kept[t].pc = t.pc
  BY <1>1 DEF Install, CancelOrBegin
<1>3. \A s \in installs' : s \in more \/ \E t \in installs : s = kept[t]
  BY DEF CancelOrBegin
<1>4. \A t \in installs : kept[t] \in installs'
  BY DEF CancelOrBegin
<1>5. \A s \in more : ~Holding(s) /\ s.conn = None
  BY DEF CancelOrBegin
<1> QED
  BY <1>2, <1>3, <1>4, <1>5 DEF Held, InstallsHold, InstallsDiffer, SameHolds, Holding

\* The login of a flow is cancelled, and perhaps another begins.
LEMMA CancelledHolds ==
  ASSUME TypeOK, Held, NEW more, \A s \in more : ~Holding(s) /\ s.conn = None,
         installs' = Cancelled(installs) \cup more
  PROVE  SameHolds
<1> DEFINE kept == [t \in installs |-> IF t.kind = "login" /\ t.flow = flow
                                       THEN [t EXCEPT !.cancelled = TRUE] ELSE t]
<1>1. CancelOrBegin(kept, more)
  BY DEF Cancelled, CancelOrBegin
<1> QED
  BY <1>1, CancelOrBeginHolds

\* An install whose connection is closed, because it failed or was rejected, holds none afterwards.
LEMMA ClosesHeld ==
  ASSUME TypeOK, Held, NEW t \in installs, Holding(t), open' = open \ {t.conn},
         \/ installs' = installs \ {t}
         \/ \E new : Become(t, new) /\ ~Holding(new) /\ new.conn = None,
         UNCHANGED <<ups, current, registry, ready, closing>>
  PROVE  Held'
<1>1. None \notin open /\ t.conn \in open /\ t.conn # None
  BY LifecycleAssumption DEF TypeOK, Held, InstallsHold
<1>2. \A s \in installs' : (s.conn = None /\ ~Holding(s)) \/ s \in installs \ {t}
  BY DEF Become
<1>3. \A s \in installs \ {t} : s \in installs'
  BY DEF Become
<1>4. \A s \in installs \ {t} : s.conn # t.conn
  BY <1>1 DEF Held, InstallsDiffer
<1>5. \A u \in Ups : t.conn \notin {ups[u].conn, ups[u].new}
  BY <1>1 DEF Held, HeldApart
<1>6. InstallsHold'
  BY <1>2, <1>4 DEF Held, InstallsHold, Holding
<1>7. InstallsDiffer'
  BY <1>2 DEF Held, InstallsDiffer
<1>8. UpstreamsHold'
  BY <1>5 DEF Held, UpstreamsHold
<1>9. HeldApart'
  BY <1>2 DEF Held, HeldApart
<1>10. Accounted'
  BY <1>3 DEF Held, Accounted
<1>11. OneIsLive' /\ ServedConsistently'
  BY <1>5 DEF Held, OneIsLive, ServedConsistently, TypeOK
<1> QED
  BY <1>6, <1>7, <1>8, <1>9, <1>10, <1>11 DEF Held

\* A dialled connection is the install's own.
LEMMA DialHeld ==
  ASSUME TypeOK, Held, NEW t \in installs, Dial(t)
  PROVE  Held'
<1> DEFINE new == [t EXCEPT !.pc = "list", !.conn = Dialled]
<1>1. /\ Dialled \in Conns /\ Dialled # None /\ Dialled \notin open
      /\ \A s \in installs : s.conn # Dialled
      /\ \A u \in Ups : ups[u].conn # Dialled /\ ups[u].new # Dialled
  BY DialIsFresh DEF Dial
<1>2. /\ installs' = (installs \ {t}) \cup {new} /\ open' = open \cup {Dialled}
      /\ UNCHANGED <<ups, current, registry, ready, closing>>
  BY DEF Dial, Become
<1>3. new.conn = Dialled /\ new.pc = "list" /\ t.conn = None /\ ~Holding(t)
  BY DEF TypeOK, Install, Dial, Held, InstallsHold, Holding
<1>4. None \notin open
  BY LifecycleAssumption DEF TypeOK
<1> HIDE DEF new
<1>5. InstallsHold'
  BY <1>1, <1>2, <1>3 DEF Held, InstallsHold, Holding
<1>6. InstallsDiffer'
  BY <1>1, <1>2, <1>3 DEF Held, InstallsDiffer
<1>7. UpstreamsHold'
  BY <1>1, <1>2 DEF Held, UpstreamsHold
<1>8. HeldApart'
  BY <1>1, <1>2, <1>3 DEF Held, HeldApart
<1>9. Accounted'
  BY <1>2, <1>3, <1>4 DEF Held, Accounted
<1>10. OneIsLive' /\ ServedConsistently'
  BY <1>2 DEF Held, OneIsLive, ServedConsistently
<1> QED
  BY <1>5, <1>6, <1>7, <1>8, <1>9, <1>10 DEF Held

Serves == closing \in {"open", "begun", "stopped"}

\* What is left of the upstreams and the open connections once the current upstream is shut down:
\* nothing is alive, and reconnects and installs still hold theirs.
Cleared(us, rest) ==
    /\ us \in [Ups -> Upstream]
    /\ \A u \in Ups :
         /\ ~us[u].live /\ us[u].pc = ups[u].pc /\ us[u].new = ups[u].new
         /\ us[u].conn \in {ups[u].conn, None}
         /\ us[u].pc \in {"list", "swap"} => us[u].new \in rest /\ us[u].new # us[u].conn
         /\ us[u].pc = "publish" => us[u].new = us[u].conn /\ us[u].conn \notin rest
    /\ \A c \in rest : (\E u \in Ups : us[u].new = c) \/ (\E t \in installs : t.conn = c)
    /\ \A t \in installs : Holding(t) => t.conn \in rest
    /\ rest \subseteq open

\* Shutting the current upstream down closes the connection in use and no other.
LEMMA CurrentCloses ==
  ASSUME TypeOK, Held, Serves, current # None, NEW us, NEW rest,
         us = Forget(ShutDown(current), current, None) \/ us = ShutDown(current),
         rest = open \ {ups[current].conn}
  PROVE  Cleared(us, rest)
<1>1. /\ current \in Ups /\ ups \in [Ups -> Upstream] /\ \A u \in Ups : ups[u] \in Upstream
      /\ None \notin open
  BY LifecycleAssumption DEF TypeOK
<1>2. /\ ups[current].live /\ ups[current].conn \in open
      /\ \A u \in Ups : u # current => ~ups[u].live
  BY <1>1 DEF Held, ServedConsistently, OneIsLive, Serves
<1>3. /\ ShutDown(current) \in [Ups -> Upstream]
      /\ ShutDown(current)[current] = [ups[current] EXCEPT !.live = FALSE]
      /\ \A u \in Ups : u # current => ShutDown(current)[u] = ups[u]
  <2>1. [ups[current] EXCEPT !.live = FALSE] \in Upstream
    BY <1>1 DEF Upstream
  <2> QED
    BY <1>1, <2>1 DEF ShutDown
<1>4. /\ us \in [Ups -> Upstream]
      /\ \A u \in Ups : u # current => us[u] = ups[u]
      /\ \/ ups[current].pc = "idle" /\ us[current] = NoUpstream
         \/ us[current] = [ups[current] EXCEPT !.live = FALSE]
  BY <1>3, ShutDownEffect
<1>5. \A u \in Ups : ups[u].pc = "idle" => ups[u].new = None
  BY DEF Held, UpstreamsHold
<1>6. /\ ~us[current].live /\ us[current].pc = ups[current].pc /\ us[current].new = ups[current].new
      /\ us[current].conn \in {ups[current].conn, None}
      /\ us[current].pc # "idle" => us[current].conn = ups[current].conn
  <2>1. CASE ups[current].pc = "idle" /\ us[current] = NoUpstream
    BY <1>1, <1>5, <2>1 DEF NoUpstream
  <2>2. CASE us[current] = [ups[current] EXCEPT !.live = FALSE]
    BY <1>1, <2>2 DEF Upstream
  <2> QED
    BY <1>4, <2>1, <2>2
<1>7. \A u \in Ups :
              /\ ~us[u].live /\ us[u].pc = ups[u].pc /\ us[u].new = ups[u].new
              /\ us[u].conn \in {ups[u].conn, None}
              /\ us[u].pc # "idle" => us[u].conn = ups[u].conn
  BY <1>2, <1>4, <1>6
<1>8. ASSUME NEW u \in Ups, us[u].pc \in {"list", "swap"}
      PROVE  us[u].new \in rest /\ us[u].new # us[u].conn
  <2>1. ups[u].new \in open /\ ups[u].new # ups[u].conn /\ us[u].conn = ups[u].conn
    BY <1>7, <1>8 DEF Held, UpstreamsHold, HeldApart
  <2>2. ups[u].new # ups[current].conn
    BY <1>1, <2>1 DEF Held, HeldApart
  <2> QED
    BY <1>7, <2>1, <2>2
<1>9. ASSUME NEW u \in Ups, us[u].pc = "publish"
      PROVE  us[u].new = us[u].conn /\ us[u].conn \notin rest
  <2>1. ups[u].new = ups[u].conn /\ us[u].conn = ups[u].conn
    BY <1>7, <1>9 DEF Held, UpstreamsHold
  <2>2. u # current => ups[u].conn \notin open
    BY <1>2, <1>7, <1>9 DEF Held, UpstreamsHold
  <2> QED
    BY <1>7, <2>1, <2>2
<1>10. ASSUME NEW c \in rest
       PROVE  \/ \E u \in Ups : us[u].new = c
              \/ \E t \in installs : t.conn = c
  BY <1>1, <1>2, <1>7, <1>10 DEF Held, Accounted
<1>11. ASSUME NEW t \in installs, Holding(t)
       PROVE  t.conn \in rest
  BY <1>1, <1>11 DEF Held, InstallsHold, HeldApart
<1> QED
  BY <1>4, <1>7, <1>8, <1>9, <1>10, <1>11 DEF Cleared

\* Without a current upstream nothing is alive either.
LEMMA NothingServes ==
  ASSUME TypeOK, Held, current = None
  PROVE  Cleared(ups, open)
<1>1. \A u \in Ups : ~ups[u].live
  BY LifecycleAssumption DEF Held, OneIsLive
<1>2. \A u \in Ups :
         /\ ups[u].pc \in {"list", "swap"} => ups[u].new \in open /\ ups[u].new # ups[u].conn
         /\ ups[u].pc = "publish" => ups[u].new = ups[u].conn /\ ups[u].conn \notin open
  BY <1>1 DEF Held, UpstreamsHold, HeldApart
<1>3. /\ \A c \in open : (\E u \in Ups : ups[u].new = c) \/ (\E t \in installs : t.conn = c)
      /\ \A t \in installs : Holding(t) => t.conn \in open
  BY <1>1 DEF Held, Accounted, InstallsHold
<1> QED
  BY <1>1, <1>2, <1>3 DEF Cleared, TypeOK

\* detachAndCloseServer: nothing serves, and the login in progress is cancelled.
LEMMA DetachHeld ==
  ASSUME TypeOK, Held, Serves, DetachAndCloseServer, closing' = closing
  PROVE  Held' /\ ups' \in [Ups -> Upstream]
<1> DEFINE begun == {}
<1>1. SameHolds
  <2>1. installs' = Cancelled(installs) \cup begun /\ \A s \in begun : ~Holding(s) /\ s.conn = None
    BY DEF DetachAndCloseServer
  <2> HIDE DEF begun
  <2> QED
    BY <2>1, CancelledHolds
<1>2. current' = None /\ registry' = None /\ ready' = FALSE
  BY DEF DetachAndCloseServer, Detached
<1>3. None \notin open
  BY LifecycleAssumption DEF TypeOK
<1>4. Cleared(ups', open')
  <2>1. CASE current = None
    <3>1. ups' = ups /\ open' = open
      BY <2>1 DEF DetachAndCloseServer, Detached
    <3> QED
      BY <2>1, <3>1, NothingServes
  <2>2. CASE current # None
    <3>1. /\ ups' = Forget(ShutDown(current), current, None)
          /\ open' = open \ {ups[current].conn}
      BY <2>2 DEF DetachAndCloseServer, Detached
    <3> QED
      BY <2>2, <3>1, CurrentCloses
  <2> QED
    BY <2>1, <2>2
<1>5. InstallsHold' /\ InstallsDiffer'
  BY <1>1, <1>4 DEF Cleared, InstallsHold, InstallsDiffer, SameHolds, Holding
<1>6. UpstreamsHold'
  BY <1>4 DEF Cleared, Held, UpstreamsHold
<1>7. HeldApart'
  <2>1. ASSUME NEW t \in installs', t.conn # None, NEW u \in Ups
        PROVE  t.conn \notin {ups'[u].conn, ups'[u].new}
    <3>1. PICK s \in installs : s.conn = t.conn
      BY <1>1, <2>1 DEF SameHolds
    <3> QED
      BY <1>4, <2>1, <3>1 DEF Cleared, Held, HeldApart
  <2>2. ASSUME NEW u \in Ups, NEW v \in Ups, u # v, ups'[u].new # None
        PROVE  ups'[u].new \notin {ups'[v].conn, ups'[v].new}
    BY <1>4, <2>2 DEF Cleared, Held, HeldApart
  <2> QED
    BY <1>4, <2>1, <2>2 DEF Cleared, HeldApart
<1>8. Accounted'
  <2>1. ASSUME NEW c \in open', NEW t \in installs, t.conn = c
        PROVE  \E s \in installs' : s.conn = c
    BY <1>1, <1>3, <1>4, <2>1 DEF Cleared, Held, InstallsHold, SameHolds
  <2> QED
    BY <1>4, <2>1 DEF Cleared, Accounted
<1>9. OneIsLive' /\ ServedConsistently'
  BY <1>2, <1>4 DEF Cleared, OneIsLive, ServedConsistently
<1> QED
  BY <1>4, <1>5, <1>6, <1>7, <1>8, <1>9 DEF Held, Cleared

\* A registered upstream takes over the connection its install held.
LEMMA InstallHeld ==
  ASSUME TypeOK, Held, Serves, NEW t \in installs, InstallChecked(t)
  PROVE  Held' /\ ups' \in [Ups -> Upstream]
<1> DEFINE u == NewUp
           new == [cfg |-> t.cfg, conn |-> t.conn, live |-> TRUE, pc |-> "idle", new |-> None]
           us == IF current # None THEN Forget(ShutDown(current), current, None) ELSE ups
<1>1. u \in Ups /\ u # current /\ u # None /\ ~ups[u].live /\ ups[u].pc = "idle"
  <2>1. FreeUps # {}
    BY DEF InstallChecked
  <2> QED
    BY <2>1, LifecycleAssumption DEF NewUp, FreeUps
<1>2. /\ current' = u /\ registry' = t.conn /\ ready' = TRUE /\ closing' = closing
      /\ ups' = [us EXCEPT ![u] = new]
      /\ open' = IF current # None THEN open \ {ups[current].conn} ELSE open
  BY DEF InstallChecked, InstallUpstream
<1>3. t \in Install /\ Holding(t) /\ t.conn \in open /\ t.conn \in Conns /\ None \notin open
      /\ t.conn # None
  BY LifecycleAssumption DEF TypeOK, InstallChecked, Held, InstallsHold, Holding
<1>4. Cleared(us, open')
  <2>1. CASE current = None
    <3>1. us = ups /\ open' = open
      BY <1>2, <2>1
    <3> QED
      BY <2>1, <3>1, NothingServes
  <2>2. CASE current # None
    BY <1>2, <2>2, CurrentCloses
  <2> QED
    BY <2>1, <2>2
<1> HIDE DEF u, us
<1>5. /\ ups' \in [Ups -> Upstream] /\ \A v \in Ups : v # u => ups'[v] = us[v]
      /\ ups'[u].conn = t.conn /\ ups'[u].live = TRUE /\ ups'[u].pc = "idle" /\ ups'[u].new = None
  <2>1. new \in Upstream
    BY <1>3 DEF Upstream, Install
  <2>2. ups' \in [Ups -> Upstream] /\ ups'[u] = new /\ \A v \in Ups : v # u => ups'[v] = us[v]
    BY <1>1, <1>2, <1>4, <2>1 DEF Cleared
  <2> QED
    BY <2>2
<1>6. /\ \A s \in installs' : (s.conn = None /\ ~Holding(s)) \/ s \in installs \ {t}
      /\ \A s \in installs \ {t} : s \in installs'
  <2>1. CASE t.kind = "login"
    <3>1. installs' = (installs \ {t}) \cup {[t EXCEPT !.pc = "record", !.conn = None]}
      BY <2>1 DEF InstallChecked, Registered, Become
    <3>2. [t EXCEPT !.pc = "record", !.conn = None].conn = None
          /\ [t EXCEPT !.pc = "record", !.conn = None].pc = "record"
      BY <1>3 DEF Install
    <3> QED
      BY <3>1, <3>2 DEF Holding
  <2>2. CASE t.kind # "login"
    <3>1. installs' = installs \ {t}
      BY <1>3, <2>2 DEF InstallChecked, Registered, Install
    <3> QED
      BY <3>1
  <2> QED
    BY <2>1, <2>2
<1>7. \A s \in installs \ {t} : s.conn # t.conn
  BY <1>3 DEF Held, InstallsDiffer
<1>8. \A v \in Ups : t.conn \notin {ups[v].conn, ups[v].new}
  BY <1>3 DEF Held, HeldApart
<1>9. t.conn \in open'
  BY <1>3, <1>4 DEF Cleared
<1>10. InstallsHold' /\ InstallsDiffer'
  BY <1>4, <1>6 DEF Held, InstallsHold, InstallsDiffer, Cleared, Holding
<1>11. UpstreamsHold'
  BY <1>4, <1>5, <1>9 DEF Held, UpstreamsHold, Cleared
<1>12. HeldApart'
  <2>1. ASSUME NEW s \in installs', s.conn # None, NEW v \in Ups
        PROVE  s.conn \notin {ups'[v].conn, ups'[v].new}
    BY <1>4, <1>5, <1>6, <1>7, <2>1 DEF Held, HeldApart, Cleared
  <2>2. ASSUME NEW v \in Ups, NEW w \in Ups, v # w, ups'[v].new # None
        PROVE  ups'[v].new \notin {ups'[w].conn, ups'[w].new}
    BY <1>4, <1>5, <1>8, <2>2 DEF Held, HeldApart, Cleared
  <2>3. \A v \in Ups : ups'[v].pc \in {"list", "swap"} => ups'[v].new # ups'[v].conn
    BY <1>4, <1>5 DEF Cleared
  <2> QED
    BY <2>1, <2>2, <2>3 DEF HeldApart
<1>13. Accounted'
  <2>1. ASSUME NEW v \in Ups, us[v].new # None
        PROVE  ups'[v].new = us[v].new
    BY <1>1, <1>4, <1>5, <2>1 DEF Held, UpstreamsHold, Cleared
  <2>2. None \notin open'
    BY <1>3, <1>4 DEF Cleared
  <2> QED
    BY <1>1, <1>4, <1>5, <1>6, <2>1, <2>2 DEF Accounted, Cleared
<1>14. OneIsLive' /\ ServedConsistently'
  BY <1>1, <1>2, <1>3, <1>4, <1>5, <1>9 DEF OneIsLive, ServedConsistently, Cleared
<1> QED
  BY <1>5, <1>10, <1>11, <1>12, <1>13, <1>14 DEF Held

\* Server.Close shuts the registered upstream down.
LEMMA CloseHeld ==
  ASSUME TypeOK, Held, CloseUpstreams
  PROVE  Held' /\ ups' \in [Ups -> Upstream] /\ \A u \in Ups : ~ups'[u].live
<1>1. Serves /\ closing' = "drained" /\ UNCHANGED <<installs, current>> /\ None \notin open
  BY LifecycleAssumption DEF CloseUpstreams, Serves, TypeOK
<1>2. Cleared(ups', open')
  <2>1. CASE current = None
    <3>1. ups' = ups /\ open' = open
      BY <2>1 DEF CloseUpstreams
    <3> QED
      BY <2>1, <3>1, NothingServes
  <2>2. CASE current # None
    <3>1. ups' = ShutDown(current) /\ open' = open \ {ups[current].conn}
      BY <2>2 DEF CloseUpstreams
    <3> QED
      BY <1>1, <2>2, <3>1, CurrentCloses
  <2> QED
    BY <2>1, <2>2
<1>3. InstallsHold' /\ InstallsDiffer'
  BY <1>1, <1>2 DEF Held, InstallsHold, InstallsDiffer, Cleared, Holding
<1>4. UpstreamsHold'
  BY <1>2 DEF Held, UpstreamsHold, Cleared
<1>5. HeldApart'
  BY <1>1, <1>2 DEF Held, HeldApart, Cleared
<1>6. Accounted'
  BY <1>1, <1>2 DEF Accounted, Cleared
<1>7. OneIsLive' /\ ServedConsistently' /\ \A u \in Ups : ~ups'[u].live
  BY <1>1, <1>2 DEF OneIsLive, ServedConsistently, Cleared
<1> QED
  BY <1>2, <1>3, <1>4, <1>5, <1>6, <1>7 DEF Held, Cleared

\* The upstreams whose reconnect loops take no step.
OthersSame(u) ==
    /\ ups' \in [Ups -> Upstream]
    /\ \A v \in Ups : v # u => ups'[v] = ups[v]
    /\ UNCHANGED <<installs, current, ready, closing>>

\* What a reconnect loop's step has to show of its own upstream.
LoopHolds(u) ==
    /\ ups'[u].live = ups[u].live
    /\ ups'[u].live => ups'[u].conn \in open'
    /\ ups'[u].pc \in {"idle", "dial"} => ups'[u].new = None
    /\ ups'[u].pc \in {"list", "swap"} => ups'[u].new \in open' /\ ups'[u].new # ups'[u].conn
    /\ ups'[u].pc = "publish" =>
         ups'[u].new = ups'[u].conn /\ (ups'[u].live \/ ups'[u].conn \notin open')

\* The connections of the loop's upstream are those it had, or new ones; only those are closed or opened.
LoopOwns(u) ==
    /\ ups'[u].conn \in {ups[u].conn, ups[u].new, None}
    /\ ups'[u].new \in {ups[u].new, None} \/ ups'[u].new \notin Referred
    /\ \A c \in open \ open' : c = ups[u].new \/ (c = ups[u].conn /\ ups[u].live)
    /\ \A c \in open' : \/ c \in open /\ c \notin {ups[u].conn, ups[u].new}
                        \/ (ups'[u].live /\ ups'[u].conn = c) \/ ups'[u].new = c
                        \/ c \in open /\ c # ups[u].new /\ ~ups[u].live
    /\ \A c \in open' \ open : c \notin Referred

LoopKeeps ==
    Held' /\ ups' \in [Ups -> Upstream] /\ \A v \in Ups : ups'[v].live = ups[v].live

\* A step of a reconnect loop keeps connections held, when it does so for its own upstream.
LEMMA LoopHeld ==
  ASSUME TypeOK, Held, NEW u \in Ups, OthersSame(u), LoopHolds(u), LoopOwns(u),
         ServedConsistently'
  PROVE  LoopKeeps
<1>1. \A c : c \notin Referred =>
         /\ \A t \in installs : t.conn # c
         /\ \A v \in Ups : ups[v].conn # c /\ ups[v].new # c
         /\ c \notin open
  BY DEF Referred
<1>2. \A c \in open \ open' : /\ \A v \in Ups : v # u /\ ups[v].live => ups[v].conn # c
                              /\ \A v \in Ups : v # u => ups[v].new # c
                              /\ \A t \in installs : t.conn # c
  <2>1. ASSUME NEW c \in open \ open'
        PROVE  /\ \A v \in Ups : v # u /\ ups[v].live => ups[v].conn # c
               /\ \A v \in Ups : v # u => ups[v].new # c
               /\ \A t \in installs : t.conn # c
    <3>1. c # None
      BY LifecycleAssumption DEF TypeOK
    <3>2. CASE c = ups[u].new
      BY <3>1, <3>2 DEF Held, HeldApart
    <3>3. CASE c = ups[u].conn /\ ups[u].live
      BY <3>1, <3>3 DEF Held, HeldApart, OneIsLive
    <3> QED
      BY <2>1, <3>2, <3>3 DEF LoopOwns
  <2> QED
    BY <2>1
<1>3. InstallsHold' /\ InstallsDiffer'
  BY <1>2 DEF Held, InstallsHold, InstallsDiffer, OthersSame, Holding
<1>4. UpstreamsHold'
  <2>1. ASSUME NEW v \in Ups, v # u
        PROVE  /\ ups'[v].live => ups'[v].conn \in open'
               /\ ups'[v].pc \in {"idle", "dial"} => ups'[v].new = None
               /\ ups'[v].pc \in {"list", "swap"} => ups'[v].new \in open'
               /\ ups'[v].pc = "publish" =>
                    ups'[v].new = ups'[v].conn /\ (ups'[v].live \/ ups'[v].conn \notin open')
    <3>1. ups'[v] = ups[v]
      BY <2>1 DEF OthersSame
    <3>2. /\ ups[v].live => ups[v].conn \in open
          /\ ups[v].pc \in {"idle", "dial"} => ups[v].new = None
          /\ ups[v].pc \in {"list", "swap"} => ups[v].new \in open
          /\ ups[v].pc = "publish" => ups[v].new = ups[v].conn /\ (ups[v].live \/ ups[v].conn \notin open)
      BY DEF Held, UpstreamsHold
    <3>3. ups[v].conn \notin open' \ open
      BY <1>1 DEF LoopOwns
    <3> QED
      BY <1>2, <2>1, <3>1, <3>2, <3>3
  <2> QED
    BY <2>1 DEF UpstreamsHold, LoopHolds
<1>5. HeldApart'
  <2>1. ASSUME NEW t \in installs', t.conn # None, NEW v \in Ups
        PROVE  t.conn \notin {ups'[v].conn, ups'[v].new}
    BY <1>1, <2>1 DEF Held, HeldApart, OthersSame, LoopOwns
  <2>2. ASSUME NEW v \in Ups, NEW w \in Ups, v # w, ups'[v].new # None
        PROVE  ups'[v].new \notin {ups'[w].conn, ups'[w].new}
    BY <1>1, <2>2 DEF Held, HeldApart, OthersSame, LoopOwns
  <2>3. \A v \in Ups : ups'[v].pc \in {"list", "swap"} => ups'[v].new # ups'[v].conn
    BY DEF Held, HeldApart, OthersSame, LoopHolds
  <2> QED
    BY <2>1, <2>2, <2>3 DEF HeldApart
<1>6. OneIsLive'
  BY DEF Held, OneIsLive, OthersSame, LoopHolds
<1>7. Accounted'
  <2>1. ASSUME NEW c \in open'
        PROVE  \/ \E v \in Ups : (ups'[v].live /\ ups'[v].conn = c) \/ ups'[v].new = c
               \/ \E t \in installs' : t.conn = c
    <3>1. CASE c \in open /\ c \notin {ups[u].conn, ups[u].new}
      BY <3>1 DEF Held, Accounted, OthersSame
    <3>2. CASE (ups'[u].live /\ ups'[u].conn = c) \/ ups'[u].new = c
      BY <3>2
    <3>3. CASE c \in open /\ c # ups[u].new /\ ~ups[u].live
      BY <3>3 DEF Held, Accounted, OthersSame
    <3> QED
      BY <3>1, <3>2, <3>3 DEF LoopOwns
  <2> QED
    BY <2>1 DEF Accounted
<1> QED
  BY <1>3, <1>4, <1>5, <1>6, <1>7 DEF Held, OthersSame, LoopHolds, LoopKeeps

\* A step that leaves the registry and the connection in use alone keeps the server served consistently.
LEMMA LoopServes ==
  ASSUME TypeOK, Held, NEW u \in Ups, OthersSame(u), LoopHolds(u), LoopOwns(u),
         registry' = registry, ups[u].pc # "publish", ups'[u].conn = ups[u].conn
  PROVE  ServedConsistently'
<1>1. SUFFICES ASSUME Serves, current # None
               PROVE  /\ ups'[current].live /\ ups'[current].conn \in open'
                      /\ registry = ups'[current].conn \/ ups'[current].pc = "publish"
  <2>1. closing' = closing /\ current' = current /\ ready' = ready /\ registry' = registry
    BY DEF OthersSame
  <2> QED
    BY <2>1 DEF Held, ServedConsistently, Serves
<1>2. /\ current \in Ups /\ ups[current].live /\ ups[current].conn \in open
      /\ registry = ups[current].conn \/ ups[current].pc = "publish"
  BY <1>1 DEF Held, ServedConsistently, Serves, TypeOK
<1>3. CASE current = u
  BY <1>2, <1>3 DEF LoopHolds
<1>4. CASE current # u
  <2>1. ups'[current] = ups[current] /\ ~ups[u].live
    BY <1>2, <1>4 DEF OthersSame, Held, OneIsLive
  <2>2. ups[current].conn # ups[u].new
    BY <1>2, <1>4, LifecycleAssumption DEF Held, HeldApart, TypeOK
  <2> QED
    BY <1>2, <2>1, <2>2 DEF LoopOwns
<1> QED
  BY <1>3, <1>4

\* The fields of an upstream whose reconnect loop takes a step.
LEMMA UpStep ==
  ASSUME TypeOK, NEW u \in Ups, NEW up \in Upstream, ups' = [ups EXCEPT ![u] = up],
         UNCHANGED <<installs, current, ready, closing>>
  PROVE  OthersSame(u) /\ ups'[u] = up
  BY DEF TypeOK, OthersSame

\* The reconnect loop, up to the listing of the new connection's tools.
LEMMA LoopDialHeld ==
  ASSUME TypeOK, Held, NEW u \in Ups, ReconnectDial(u)
  PROVE  LoopKeeps
<1> DEFINE up == [ups[u] EXCEPT !.pc = "list", !.new = Dialled]
<1>1. Dialled \in Conns /\ Dialled # None /\ Dialled \notin Referred
  BY LifecycleAssumption DEF ReconnectDial, CanDial, Dialled
<1>2. ups \in [Ups -> Upstream] /\ ups[u] \in Upstream /\ ups[u].live /\ ups[u].pc = "dial"
  BY DEF TypeOK, ReconnectDial
<1>3. /\ up \in Upstream /\ up.pc = "list" /\ up.new = Dialled
      /\ up.conn = ups[u].conn /\ up.live = ups[u].live
  BY <1>1, <1>2 DEF Upstream
<1>4. ups' = [ups EXCEPT ![u] = up]
  BY <1>2 DEF ReconnectDial, Upstream
<1>5. open' = open \cup {Dialled} /\ UNCHANGED <<installs, current, ready, closing, registry>>
  BY DEF ReconnectDial
<1> HIDE DEF up
<1>6. OthersSame(u) /\ ups'[u] = up
  BY <1>3, <1>4, <1>5, UpStep
<1>7. ups[u].new = None /\ ups[u].conn \in open /\ ups[u].conn # Dialled /\ None \notin open
  BY <1>1, <1>2, LifecycleAssumption DEF Held, UpstreamsHold, Referred, TypeOK
<1>8. LoopHolds(u) /\ LoopOwns(u)
  BY <1>1, <1>2, <1>3, <1>5, <1>6, <1>7 DEF LoopHolds, LoopOwns
<1>9. ServedConsistently'
  BY <1>2, <1>3, <1>5, <1>6, <1>8, LoopServes
<1> QED
  BY <1>6, <1>8, <1>9, LoopHeld

\* A reconnect that begins, or has listed the new connection's tools, holds what it held.
LEMMA LoopListsHeld ==
  ASSUME TypeOK, Held, NEW u \in Ups, MaybeReconnect(u) \/ ReconnectLists(u)
  PROVE  LoopKeeps
<1> DEFINE up == [ups[u] EXCEPT !.pc = IF ups[u].pc = "idle" THEN "dial" ELSE "swap"]
<1>1. ups \in [Ups -> Upstream] /\ ups[u] \in Upstream /\ ups[u].live /\ ups[u].pc \in {"idle", "list"}
  BY DEF TypeOK, MaybeReconnect, ReconnectLists
<1>2. /\ up \in Upstream /\ up.pc = (IF ups[u].pc = "idle" THEN "dial" ELSE "swap")
      /\ up.new = ups[u].new /\ up.conn = ups[u].conn /\ up.live = ups[u].live
  BY <1>1 DEF Upstream
<1>3. ups' = [ups EXCEPT ![u] = up]
  BY <1>1 DEF MaybeReconnect, ReconnectLists, Now, Upstream
<1>4. UNCHANGED <<open, installs, current, ready, closing, registry>>
  BY DEF MaybeReconnect, ReconnectLists
<1> HIDE DEF up
<1>5. OthersSame(u) /\ ups'[u] = up
  BY <1>2, <1>3, <1>4, UpStep
<1>6. LoopHolds(u) /\ LoopOwns(u)
  BY <1>1, <1>2, <1>4, <1>5 DEF Held, UpstreamsHold, HeldApart, LoopHolds, LoopOwns
<1>7. ServedConsistently'
  BY <1>1, <1>2, <1>4, <1>5, <1>6, LoopServes
<1> QED
  BY <1>5, <1>6, <1>7, LoopHeld

\* A new connection whose tools cannot be listed is closed.
LEMMA LoopListFailsHeld ==
  ASSUME TypeOK, Held, NEW u \in Ups, ReconnectListFails(u)
  PROVE  LoopKeeps
<1> DEFINE up == [ups[u] EXCEPT !.pc = "dial", !.new = None]
<1>1. ups \in [Ups -> Upstream] /\ ups[u] \in Upstream /\ ups[u].pc = "list"
  BY DEF TypeOK, ReconnectListFails
<1>2. /\ up \in Upstream /\ up.pc = "dial" /\ up.new = None
      /\ up.conn = ups[u].conn /\ up.live = ups[u].live
  BY <1>1 DEF Upstream
<1>3. ups' = [ups EXCEPT ![u] = up]
  BY <1>1 DEF ReconnectListFails, Upstream
<1>4. open' = open \ {ups[u].new} /\ UNCHANGED <<installs, current, ready, closing, registry>>
  BY DEF ReconnectListFails
<1> HIDE DEF up
<1>5. OthersSame(u) /\ ups'[u] = up
  BY <1>2, <1>3, <1>4, UpStep
<1>6. ups[u].new \in open /\ ups[u].new # ups[u].conn
  BY <1>1 DEF Held, UpstreamsHold, HeldApart
<1>7. LoopHolds(u) /\ LoopOwns(u)
  BY <1>1, <1>2, <1>4, <1>5, <1>6 DEF LoopHolds, LoopOwns, Held, UpstreamsHold, HeldApart
<1>8. ServedConsistently'
  BY <1>1, <1>2, <1>4, <1>5, <1>7, LoopServes
<1> QED
  BY <1>5, <1>7, <1>8, LoopHeld

\* The loop gives up before it has dialled.
LEMMA LoopEndsHeld ==
  ASSUME TypeOK, Held, NEW u \in Ups, ReconnectEnds(u)
  PROVE  LoopKeeps
<1>1. ups[u].pc = "dial" /\ ups' = Ends(ups, u)
      /\ UNCHANGED <<open, installs, current, ready, closing, registry>>
  BY DEF ReconnectEnds
<1>2. /\ ups' \in [Ups -> Upstream] /\ \A v \in Ups : v # u => ups'[v] = ups[v]
      /\ ups'[u].pc = "idle" /\ ups'[u].new = None /\ ups'[u].live = ups[u].live
      /\ ups'[u].live => ups'[u].conn = ups[u].conn
      /\ ups'[u].conn \in {ups[u].conn, None}
  BY <1>1, EndsEffect
<1>3. OthersSame(u)
  BY <1>1, <1>2 DEF OthersSame
<1>4. LoopHolds(u) /\ LoopOwns(u)
  BY <1>1, <1>2 DEF LoopHolds, LoopOwns, Held, UpstreamsHold
<1>5. ServedConsistently'
  BY <1>1, <1>2, <1>3 DEF Held, ServedConsistently, TypeOK
<1> QED
  BY <1>3, <1>4, <1>5, LoopHeld

\* swapConn: a live upstream's old connection is closed, or the new one of one that was shut down.
LEMMA LoopSwapHeld ==
  ASSUME TypeOK, Held, NEW u \in Ups, SwapConn(u)
  PROVE  LoopKeeps
<1>1. ups \in [Ups -> Upstream] /\ ups[u] \in Upstream /\ ups[u].pc = "swap"
      /\ UNCHANGED <<installs, current, ready, closing, registry>>
  BY DEF TypeOK, SwapConn
<1>2. ups[u].new \in open /\ ups[u].new # ups[u].conn /\ ups[u].new # None
      /\ (ups[u].live => ups[u].conn \in open)
  BY <1>1, LifecycleAssumption DEF Held, UpstreamsHold, HeldApart, TypeOK
<1>3. \A v \in Ups : v # u => ups[v].conn # ups[u].new
  BY <1>2 DEF Held, HeldApart
<1>4. CASE ups[u].live
  <2> DEFINE up == [ups[u] EXCEPT !.conn = ups[u].new, !.pc = "publish"]
  <2>1. /\ up \in Upstream /\ up.pc = "publish" /\ up.new = ups[u].new
        /\ up.conn = ups[u].new /\ up.live = ups[u].live
    BY <1>1 DEF Upstream
  <2>2. ups' = [ups EXCEPT ![u] = up] /\ open' = open \ {ups[u].conn}
    BY <1>1, <1>4 DEF SwapConn, MaySwap, Upstream
  <2> HIDE DEF up
  <2>3. OthersSame(u) /\ ups'[u] = up
    BY <1>1, <2>1, <2>2, UpStep
  <2>4. LoopHolds(u)
    <3>1. /\ ups'[u].live = ups[u].live /\ ups'[u].pc = "publish"
          /\ ups'[u].new = ups[u].new /\ ups'[u].conn = ups[u].new
      BY <2>1, <2>3
    <3>2. ups'[u].live /\ ups[u].new \in open'
      BY <1>2, <1>4, <2>2, <3>1
    <3> QED
      BY <3>1, <3>2 DEF LoopHolds
  <2>5. LoopOwns(u)
    BY <1>2, <1>4, <2>1, <2>2, <2>3 DEF LoopOwns
  <2>6. ServedConsistently'
    <3>1. current = u
      BY <1>4 DEF Held, OneIsLive
    <3> QED
      BY <1>1, <1>2, <1>4, <2>1, <2>2, <2>3, <3>1 DEF Held, ServedConsistently
  <2> QED
    BY <2>3, <2>4, <2>5, <2>6, LoopHeld
<1>5. CASE ~ups[u].live
  <2>1. ups' = Ends(ups, u) /\ open' = open \ {ups[u].new}
    BY <1>1, <1>5 DEF SwapConn, MaySwap
  <2>2. /\ ups' \in [Ups -> Upstream] /\ \A v \in Ups : v # u => ups'[v] = ups[v]
        /\ ups'[u].pc = "idle" /\ ups'[u].new = None /\ ups'[u].live = ups[u].live
        /\ ups'[u].conn \in {ups[u].conn, None}
    BY <2>1, EndsEffect
  <2>3. OthersSame(u)
    BY <1>1, <2>2 DEF OthersSame
  <2>4. LoopHolds(u)
    BY <1>5, <2>1, <2>2 DEF LoopHolds
  <2>5. LoopOwns(u)
    BY <1>2, <1>5, <2>1, <2>2 DEF LoopOwns
  <2>6. ServedConsistently'
    BY <1>1, <1>3, <1>5, <2>1, <2>2 DEF Held, ServedConsistently, TypeOK
  <2> QED
    BY <2>3, <2>4, <2>5, <2>6, LoopHeld
<1> QED
  BY <1>4, <1>5

\* The new connection's tools are published for the upstream that still serves with it.
LEMMA LoopPublishHeld ==
  ASSUME TypeOK, Held, NEW u \in Ups, PublishReconnected(u)
  PROVE  LoopKeeps
<1>1. /\ ups[u].pc = "publish" /\ ups' = Ends(ups, u)
      /\ registry' = IF IsCurrentConn(u) THEN ups[u].new ELSE registry
      /\ UNCHANGED <<open, installs, current, ready, closing>>
  BY DEF PublishReconnected
<1>2. /\ ups' \in [Ups -> Upstream] /\ \A v \in Ups : v # u => ups'[v] = ups[v]
      /\ ups'[u].pc = "idle" /\ ups'[u].new = None /\ ups'[u].live = ups[u].live
      /\ ups'[u].live => ups'[u].conn = ups[u].conn
      /\ ups'[u].conn \in {ups[u].conn, None}
  BY <1>1, EndsEffect
<1>3. ups[u].new = ups[u].conn /\ (ups[u].live => ups[u].conn \in open)
      /\ (ups[u].live \/ ups[u].conn \notin open)
  BY <1>1 DEF Held, UpstreamsHold
<1>4. OthersSame(u)
  BY <1>1, <1>2 DEF OthersSame
<1>5. LoopHolds(u) /\ LoopOwns(u)
  BY <1>1, <1>2, <1>3 DEF LoopHolds, LoopOwns
<1>6. ServedConsistently'
  <2>1. SUFFICES ASSUME Serves
                 PROVE  /\ (current = None) <=> (registry' = None)
                        /\ current # None =>
                             /\ ups'[current].live /\ ups'[current].conn \in open
                             /\ registry' = ups'[current].conn \/ ups'[current].pc = "publish"
    BY <1>1 DEF Held, ServedConsistently, Serves
  <2>2. CASE current = u /\ u # None
    BY <1>1, <1>2, <1>3, <2>1, <2>2, LifecycleAssumption
    DEF Held, ServedConsistently, Serves, IsCurrentConn, TypeOK
  <2>3. CASE current # u
    BY <1>1, <1>2, <2>1, <2>3 DEF Held, ServedConsistently, Serves, IsCurrentConn, TypeOK
  <2> QED
    BY <2>2, <2>3, LifecycleAssumption
<1> QED
  BY <1>4, <1>5, <1>6, LoopHeld

-----------------------------------------------------------------------------
(* The steps of an install *)

\* An install goes on, or ends; add_server waits for the end of its own.
GoesOn(t, new) ==
    new \in Install /\ Become(t, new) /\ new.kind = t.kind /\ new.gen = t.gen /\ admin' = admin

Ended(t) ==
    /\ installs' = installs \ {t}
    /\ \/ admin' = admin
       \/ t.kind = "add" /\ admin' = [admin EXCEPT !.op = "rollback", !.pc = "detach"]
       \/ t.kind = "add" /\ admin' = [admin EXCEPT !.pc = "record"]

InstallMoves(t) == Ended(t) \/ \E new : GoesOn(t, new)

\* A failed install holds no connection.
LEMMA FailedEffect ==
  ASSUME TypeOK, NEW t \in installs, NEW terminal \in BOOLEAN, Failed(t, terminal)
  PROVE  Ended(t) \/ \E new : GoesOn(t, new) /\ new.conn = None /\ ~Holding(new)
<1>1. t \in Install /\ t.kind \in {"startup", "add", "login"}
  BY DEF TypeOK, Install
<1>2. CASE t.kind = "startup"
  <2> DEFINE new == [t EXCEPT !.pc = IF terminal THEN "stat" ELSE "backoff", !.conn = None]
  <2>1. Become(t, new) /\ admin' = admin
    BY <1>2 DEF Failed
  <2>2. new \in Install /\ new.pc \in {"stat", "backoff"} /\ new.conn = None /\ new.kind = t.kind
        /\ new.gen = t.gen
    BY <1>1 DEF Install
  <2> HIDE DEF new
  <2> QED
    BY <2>1, <2>2 DEF GoesOn, Holding
<1>3. CASE t.kind = "login"
  <2> DEFINE new == [t EXCEPT !.pc = "clear", !.conn = None]
  <2>1. Become(t, new) /\ admin' = admin
    BY <1>3 DEF Failed
  <2>2. new \in Install /\ new.pc = "clear" /\ new.conn = None /\ new.kind = t.kind
        /\ new.gen = t.gen
    BY <1>1 DEF Install
  <2> HIDE DEF new
  <2> QED
    BY <2>1, <2>2 DEF GoesOn, Holding
<1>4. CASE t.kind = "add"
  BY <1>4 DEF Failed, Ended
<1> QED
  BY <1>1, <1>2, <1>3, <1>4

\* What most steps of an install leave alone.
Quiet == UNCHANGED <<open, ups, current, registry, ready, closing>>

\* An install that goes on with what it holds.
LEMMA GoesOnHeld ==
  ASSUME TypeOK, Held, Quiet, NEW t \in installs, NEW new, GoesOn(t, new),
         new.conn = t.conn, Holding(new) <=> Holding(t)
  PROVE  Held' /\ InstallMoves(t)
<1>1. SameHolds
  BY MovesOn DEF GoesOn
<1> QED
  BY <1>1, QuietHeld DEF Quiet, InstallMoves

\* An install of which only the place where it is changes.
LEMMA AtHeld ==
  ASSUME TypeOK, Held, Quiet, admin' = admin, NEW t \in installs,
         NEW pc \in {"check", "dial", "list", "install", "backoff", "stat", "fail",
                     "wait", "commit", "record", "clear"},
         Become(t, At(t, pc)), Holding(t) <=> pc \in {"list", "install"}
  PROVE  Held' /\ InstallMoves(t)
<1>1. t \in Install
  BY DEF TypeOK
<1>2. /\ At(t, pc) \in Install /\ At(t, pc).pc = pc /\ At(t, pc).conn = t.conn
      /\ At(t, pc).kind = t.kind /\ At(t, pc).gen = t.gen
  BY <1>1 DEF At, Install
<1>3. GoesOn(t, At(t, pc))
  BY <1>2 DEF GoesOn
<1> QED
  BY <1>2, <1>3, GoesOnHeld DEF Holding

\* An install that ends holding nothing.
LEMMA EndedHeld ==
  ASSUME TypeOK, Held, Quiet, NEW t \in installs, Ended(t), ~Holding(t)
  PROVE  Held' /\ InstallMoves(t)
<1>1. SameHolds
  BY EndsBare DEF Ended
<1> QED
  BY <1>1, QuietHeld DEF Quiet, InstallMoves

\* Every step of an install keeps connections held, and moves it on or ends it.
LEMMA InstallStepHeld ==
  ASSUME TypeOK, Held, Serves, NEW t \in installs, InstallStep(t)
  PROVE  Held' /\ InstallMoves(t) /\ ups' \in [Ups -> Upstream]
<1>1. t \in Install /\ ups \in [Ups -> Upstream] /\ savedAt \in Nat
  BY DEF TypeOK
<1>2. CASE Check(t)
  <2>1. Quiet /\ t.pc = "check" /\ admin' = admin
    BY <1>2 DEF Check, Quiet, serving
  <2>2. CASE installs' = installs \ {t}
    BY <1>1, <2>1, <2>2, EndedHeld DEF Ended, Holding, Quiet
  <2>3. CASE Become(t, At(t, "dial"))
    BY <1>1, <2>1, <2>3, AtHeld DEF Holding, Quiet
  <2> QED
    BY <1>2, <2>2, <2>3 DEF Check
<1>3. CASE Dial(t)
  <2> DEFINE new == [t EXCEPT !.pc = "list", !.conn = Dialled]
  <2>1. Dialled \in Conns
    BY <1>3, DialIsFresh DEF Dial
  <2>2. new \in Install /\ new.kind = t.kind /\ new.gen = t.gen
    BY <1>1, <2>1 DEF Install
  <2>3. Become(t, new) /\ UNCHANGED <<admin, ups>>
    BY <1>3 DEF Dial
  <2>4. GoesOn(t, new)
    BY <2>2, <2>3 DEF GoesOn
  <2> QED
    BY <1>1, <1>3, <2>3, <2>4, DialHeld DEF InstallMoves
<1>4. ASSUME NEW terminal \in BOOLEAN, DialFails(t, terminal)
      PROVE  Held' /\ InstallMoves(t) /\ ups' \in [Ups -> Upstream]
  <2>1. Quiet /\ t.pc = "dial" /\ ~Holding(t) /\ t.conn = None
    BY <1>4 DEF DialFails, Quiet, serving, Holding, Held, InstallsHold
  <2>2. CASE Ended(t)
    BY <1>1, <2>1, <2>2, EndedHeld DEF Quiet
  <2>3. ASSUME NEW new, GoesOn(t, new), new.conn = None, ~Holding(new)
        PROVE  Held' /\ InstallMoves(t)
    BY <2>1, <2>3, GoesOnHeld
  <2> QED
    BY <1>1, <1>4, <2>1, <2>2, <2>3, FailedEffect DEF DialFails, Quiet
<1>5. ASSUME NEW terminal \in BOOLEAN, ListFails(t, terminal)
      PROVE  Held' /\ InstallMoves(t) /\ ups' \in [Ups -> Upstream]
  <2>1. /\ Holding(t) /\ open' = open \ {t.conn} /\ UNCHANGED <<ups, current, registry, ready, closing>>
        /\ Failed(t, terminal)
    BY <1>5 DEF ListFails, Holding
  <2>2. \/ Ended(t)
        \/ \E new : GoesOn(t, new) /\ new.conn = None /\ ~Holding(new)
    BY <2>1, FailedEffect
  <2>3. \/ installs' = installs \ {t}
        \/ \E new : Become(t, new) /\ ~Holding(new) /\ new.conn = None
    BY <2>2 DEF Ended, GoesOn
  <2> QED
    BY <1>1, <2>1, <2>2, <2>3, ClosesHeld DEF InstallMoves
<1>6. CASE ListTools(t)
  <2>1. Quiet /\ t.pc = "list" /\ admin' = admin /\ Become(t, At(t, "install"))
    BY <1>6 DEF ListTools, Quiet, serving
  <2> QED
    BY <1>1, <2>1, AtHeld DEF Holding, Quiet
<1>7. CASE InstallChecked(t)
  <2>1. InstallMoves(t)
    <3>1. CASE t.kind = "login"
      <4> DEFINE new == [t EXCEPT !.pc = "record", !.conn = None]
      <4>1. Become(t, new) /\ admin' = admin
        BY <1>7, <3>1 DEF InstallChecked, Registered
      <4>2. new \in Install /\ new.kind = t.kind /\ new.gen = t.gen
        BY <1>1 DEF Install
      <4> QED
        BY <4>1, <4>2 DEF InstallMoves, GoesOn
    <3>2. CASE t.kind # "login"
      <4>1. Ended(t)
        BY <1>1, <1>7, <3>2 DEF InstallChecked, Registered, Ended, Install
      <4> QED
        BY <4>1 DEF InstallMoves
    <3> QED
      BY <3>1, <3>2
  <2> QED
    BY <1>7, <2>1, InstallHeld
<1>8. CASE InstallRejected(t)
  <2>1. /\ Holding(t) /\ open' = open \ {t.conn} /\ UNCHANGED <<ups, current, registry, ready, closing>>
    BY <1>8 DEF InstallRejected, Rejected, Holding
  <2>2. \/ Ended(t)
        \/ \E new : GoesOn(t, new) /\ new.conn = None /\ ~Holding(new)
    <3>1. CASE t.kind = "startup"
      BY <1>8, <3>1 DEF InstallRejected, Ended
    <3>2. CASE t.kind # "startup"
      BY <1>8, <3>2, FailedEffect DEF InstallRejected
    <3> QED
      BY <3>1, <3>2
  <2>3. \/ installs' = installs \ {t}
        \/ \E new : Become(t, new) /\ ~Holding(new) /\ new.conn = None
    BY <2>2 DEF Ended, GoesOn
  <2> QED
    BY <1>1, <2>1, <2>2, <2>3, ClosesHeld DEF InstallMoves
<1>9. CASE Backoff(t)
  <2>1. Quiet /\ t.pc = "backoff" /\ admin' = admin
    BY <1>9 DEF Backoff, Quiet, serving
  <2>2. CASE installs' = installs \ {t}
    BY <1>1, <2>1, <2>2, EndedHeld DEF Ended, Holding, Quiet
  <2>3. CASE Become(t, At(t, "check"))
    BY <1>1, <2>1, <2>3, AtHeld DEF Holding, Quiet
  <2> QED
    BY <1>9, <2>2, <2>3 DEF Backoff
<1>10. CASE StatLogin(t)
  <2> DEFINE new == [t EXCEPT !.pc = "fail", !.at = savedAt]
  <2>1. Quiet /\ t.pc = "stat" /\ admin' = admin /\ Become(t, new)
    BY <1>10 DEF StatLogin, Quiet, serving
  <2>2. /\ new \in Install /\ new.pc = "fail" /\ new.conn = t.conn /\ new.kind = t.kind
        /\ new.gen = t.gen
    BY <1>1 DEF Install
  <2> HIDE DEF new
  <2>3. GoesOn(t, new)
    BY <2>1, <2>2 DEF GoesOn
  <2> QED
    BY <1>1, <2>1, <2>2, <2>3, GoesOnHeld DEF Holding, Quiet
<1>11. ASSUME NEW why \in {"needsAuth", "other"}, RecordStartupFailure(t, why)
       PROVE  Held' /\ InstallMoves(t) /\ ups' \in [Ups -> Upstream]
  BY <1>1, <1>11, EndedHeld DEF RecordStartupFailure, Quiet, Ended, Holding
<1>12. CASE Authorize(t) \/ WaitFails(t) \/ CommitToken(t) \/ RecordLoginSettings(t)
  <2>1. /\ Quiet /\ t.pc \in {"wait", "commit", "record"} /\ admin' = admin
        /\ \E pc \in {"commit", "clear", "dial"} : Become(t, At(t, pc))
    BY <1>12 DEF Authorize, WaitFails, CommitToken, RecordLoginSettings, Quiet, serving
  <2>2. PICK pc \in {"commit", "clear", "dial"} : Become(t, At(t, pc))
    BY <2>1
  <2> QED
    BY <1>1, <2>1, <2>2, AtHeld DEF Holding, Quiet
<1>13. CASE ClearAuthFlow(t)
  BY <1>1, <1>13, EndedHeld DEF ClearAuthFlow, Quiet, serving, Ended, Holding
<1> QED
  BY <1>2, <1>3, <1>4, <1>5, <1>6, <1>7, <1>8, <1>9, <1>10, <1>11, <1>12, <1>13 DEF InstallStep

\* What a step of an install leaves alone, and what it leaves alone when it was superseded.
LEMMA InstallStepEffect ==
  ASSUME TypeOK, NEW t \in installs, InstallStep(t)
  PROVE  /\ UNCHANGED <<file, removeGen, closing, removed, left>>
         /\ Superseded(t) => UNCHANGED <<current, registry, record, token>>
         /\ token' \in Nat /\ savedAt' \in Nat /\ flow' \in Nat
         /\ current' \in Ups \cup {None} /\ registry' \in Conns \cup {None}
         /\ record' \in Records /\ ready' \in BOOLEAN /\ failure' \in {"none", "needsAuth", "other"}
         /\ open' \subseteq Conns
<1> DEFINE Effect ==
         /\ UNCHANGED <<file, removeGen, closing, removed, left>>
         /\ Superseded(t) => UNCHANGED <<current, registry, record, token>>
         /\ token' \in Nat /\ savedAt' \in Nat /\ flow' \in Nat
         /\ current' \in Ups \cup {None} /\ registry' \in Conns \cup {None}
         /\ record' \in Records /\ ready' \in BOOLEAN /\ failure' \in {"none", "needsAuth", "other"}
         /\ open' \subseteq Conns
<1>1. CASE Check(t) \/ ListTools(t) \/ Backoff(t) \/ StatLogin(t) \/ Authorize(t) \/ WaitFails(t)
           \/ ClearAuthFlow(t)
  <2>1. UNCHANGED <<disk, serving, closing, removed, left>> /\ flow' \in {flow, 0}
    BY <1>1 DEF Check, ListTools, Backoff, StatLogin, Authorize, WaitFails, ClearAuthFlow
  <2> QED
    BY <2>1 DEF TypeOK, disk, serving
<1>2. CASE Dial(t)
  <2>1. Dialled \in Conns
    BY <1>2, DialIsFresh DEF Dial
  <2> QED
    BY <1>2, <2>1 DEF Dial, TypeOK, disk
<1>3. ASSUME NEW terminal \in BOOLEAN, DialFails(t, terminal) \/ ListFails(t, terminal)
      PROVE  Effect
  BY <1>3 DEF DialFails, ListFails, TypeOK, disk, serving
<1>4. CASE InstallChecked(t)
  <2>1. /\ UNCHANGED <<disk, record, failure, removeGen, flow, closing, removed, left>>
        /\ ~Superseded(t) /\ FreeUps # {} /\ current' = NewUp /\ registry' = t.conn /\ ready' = TRUE
        /\ open' \subseteq open
    BY <1>4 DEF InstallChecked, InstallUpstream
  <2>2. NewUp \in Ups
    BY <2>1 DEF NewUp, FreeUps
  <2>3. t.conn \in Conns \cup {None}
    BY DEF TypeOK, Install
  <2> QED
    BY <2>1, <2>2, <2>3 DEF TypeOK, disk
<1>5. CASE InstallRejected(t)
  BY <1>5 DEF InstallRejected, Rejected, TypeOK, disk
<1>6. ASSUME NEW why \in {"needsAuth", "other"}, RecordStartupFailure(t, why)
      PROVE  Effect
  <2>1. t.at \in Nat /\ record \in Records
    BY DEF TypeOK, Install
  <2>2. FailureRecord(t) \in Records
    BY <2>1 DEF FailureRecord, Records
  <2> QED
    BY <1>6, <2>2 DEF RecordStartupFailure, TypeOK, disk
<1>7. CASE CommitToken(t)
  <2>1. t.flow \in Nat /\ savedAt + 1 \in Nat
    BY DEF TypeOK, Install
  <2> QED
    BY <1>7, <2>1 DEF CommitToken, TypeOK, serving
<1>8. CASE RecordLoginSettings(t)
  <2>1. t.cfg \in Settings /\ record \in Records
    BY DEF TypeOK, Install
  <2>2. record # None => [record EXCEPT !.settings = t.cfg] \in Records
    BY <2>1 DEF Records
  <2> QED
    BY <1>8, <2>2 DEF RecordLoginSettings, TypeOK, disk
<1> QED
  BY <1>1, <1>2, <1>3, <1>4, <1>5, <1>6, <1>7, <1>8 DEF InstallStep

\* Close does not wait while installs are under way.
LEMMA InstallsServe ==
  ASSUME IInv, installs # {}
  PROVE  Serves
  BY DEF IInv, TypeOK, Ordered, ClosingHolds, Serves

\* A step of an install, superseded or not, keeps the whole invariant.
LEMMA InstallStepKeeps ==
  ASSUME IInv, NEW t \in installs, InstallStep(t)
  PROVE  IInv'
<1>1. TypeOK /\ Held /\ Serves
  BY InstallsServe DEF IInv
<1>2. Held' /\ InstallMoves(t) /\ ups' \in [Ups -> Upstream]
  BY <1>1, InstallStepHeld
<1>3. /\ UNCHANGED <<file, removeGen, closing, removed, left>>
      /\ Superseded(t) => UNCHANGED <<current, registry, record, token>>
  BY <1>1, InstallStepEffect
<1>4. /\ \A s \in installs' : s \in Install /\ \E r \in installs : s.kind = r.kind /\ s.gen = r.gen
      /\ \A s \in installs' : s.kind = "add" =>
            /\ admin' = admin
            /\ s \in installs \/ (t.kind = "add" /\ s \notin installs)
      /\ \/ admin' = admin
         \/ t.kind = "add" /\ admin' = [admin EXCEPT !.op = "rollback", !.pc = "detach"]
         \/ t.kind = "add" /\ admin' = [admin EXCEPT !.pc = "record"]
  <2>1. CASE Ended(t)
    BY <1>1, <2>1 DEF Ended, TypeOK, IInv, Ordered, AdminFollows
  <2>2. ASSUME NEW new, GoesOn(t, new)
        PROVE  /\ \A s \in installs' : s \in Install /\ \E r \in installs : s.kind = r.kind /\ s.gen = r.gen
               /\ \A s \in installs' : s.kind = "add" =>
                     admin' = admin /\ (s \in installs \/ (t.kind = "add" /\ s \notin installs))
               /\ admin' = admin
    BY <1>1, <2>2 DEF GoesOn, Become, TypeOK
  <2> QED
    BY <1>2, <2>1, <2>2 DEF InstallMoves
<1>5. \A r, s \in installs' : r.kind = "add" /\ s.kind = "add" => r = s
  BY <1>2 DEF IInv, Ordered, AdminFollows, InstallMoves, Ended, GoesOn, Become
<1>6. admin \in Admin /\ (t.kind = "add" => admin.op = "add" /\ admin.pc = "connecting")
  BY <1>1 DEF TypeOK, IInv, Ordered, AdminFollows
<1>7. TypeOK'
  <2>1. admin' \in Admin
    BY <1>4, <1>6 DEF Admin
  <2> QED
    BY <1>1, <1>2, <1>3, <1>4, <2>1, InstallStepEffect DEF TypeOK
<1>8. AdminFollows'
  <2>1. admin'.pc \in Steps(admin'.op)
    BY <1>4, <1>6 DEF Admin, Steps, IInv, Ordered, AdminFollows
  <2> QED
    BY <1>4, <1>5, <2>1 DEF IInv, Ordered, AdminFollows
<1>9. AdminHasFile'
  BY <1>4, <1>6 DEF IInv, Ordered, AdminHasFile, Admin
<1>10. ClosingHolds'
  BY <1>1, <1>3, <1>4, <1>6 DEF IInv, Ordered, ClosingHolds, Serves
<1>11. GenerationsPast'
  BY <1>3, <1>4 DEF IInv, Ordered, GenerationsPast
<1>12. Gone => Gone' /\ UNCHANGED token
  BY <1>3, <1>4 DEF Gone, Superseded
<1>13. ChangeIsAlone'
  BY <1>4, <1>6, <1>12 DEF IInv, Ordered, ChangeIsAlone, Admin
<1>14. RemovedIsGone'
  BY <1>3, <1>4, <1>6, <1>12 DEF IInv, Ordered, RemovedIsGone
<1> QED
  BY <1>2, <1>3, <1>7, <1>8, <1>10, <1>11, <1>13, <1>14, <1>9 DEF IInv, Ordered, LoginsLeft

-----------------------------------------------------------------------------
(* What happens outside, and the steps of the reconnect loop *)

\* MaxLogins is a bound of every scenario.
LEMMA LoginsAreBounded ==
  MaxLogins \in Nat /\ \A s \in Scenarios : s["login"] <= MaxLogins
<1>1. PICK most \in Scenarios : \A s \in Scenarios : s["login"] <= most["login"]
  BY LifecycleAssumption
<1>2. most["login"] \in {s["login"] : s \in Scenarios}
  BY <1>1
<1>3. \A n \in {s["login"] : s \in Scenarios} : n \in Nat
  BY LifecycleAssumption DEF Events
<1>4. \E n \in {s["login"] : s \in Scenarios} : \A s \in Scenarios : s["login"] <= n
  BY <1>1, <1>2
<1> QED
  BY <1>3, <1>4 DEF MaxLogins

\* An event uses up one of those still to come.
LEMMA HappensEffect ==
  ASSUME TypeOK, LoginsLeft, NEW e \in Events, Happens(e)
  PROVE  left' \in [Events -> Nat] /\ LoginsLeft'
<1>1. /\ left \in [Events -> Nat] /\ left[e] \in Nat /\ left[e] > 0 /\ "login" \in Events
      /\ left' = [left EXCEPT ![e] = left[e] - 1]
  BY DEF TypeOK, Happens, Events
<1>2. left[e] - 1 \in Nat /\ left[e] - 1 <= left[e]
  BY <1>1
<1>3. left' \in [Events -> Nat] /\ left'["login"] <= left["login"]
  BY <1>1, <1>2
<1>4. left["login"] \in Nat /\ left'["login"] \in Nat /\ MaxLogins \in Nat
  BY <1>1, <1>3, LoginsAreBounded
<1> QED
  BY <1>3, <1>4 DEF LoginsLeft

\* A step of a reconnect loop publishes only for the upstream that serves.
LEMMA LoopStepKeeps ==
  ASSUME IInv, NEW u \in Ups, MaybeReconnect(u) \/ ReconnectStep(u)
  PROVE  IInv'
<1>1. TypeOK /\ Held /\ LoginsLeft
  BY DEF IInv
<1>2. Held' /\ ups' \in [Ups -> Upstream] /\ \A v \in Ups : ups'[v].live = ups[v].live
  BY <1>1, LoopDialHeld, LoopListsHeld, LoopListFailsHeld, LoopEndsHeld, LoopSwapHeld, LoopPublishHeld
  DEF ReconnectStep, LoopKeeps
<1>3. /\ UNCHANGED <<disk, current, record, ready, failure, removeGen, installs, flow, admin, closing,
                     removed>>
      /\ registry' = registry \/ (current = u /\ registry' = ups[u].new)
      /\ left' \in [Events -> Nat] /\ LoginsLeft'
  <2>1. CASE MaybeReconnect(u)
    <3>1. Happens("drop") /\ "drop" \in Events
      BY <2>1 DEF MaybeReconnect, Events
    <3> QED
      BY <1>1, <2>1, <3>1, HappensEffect DEF MaybeReconnect
  <2>2. CASE ReconnectStep(u)
    <3>1. /\ UNCHANGED <<disk, current, record, ready, failure, removeGen, installs, flow, admin, closing,
                     removed, left>>
          /\ registry' = registry \/ (current = u /\ registry' = ups[u].new)
      BY <2>2 DEF ReconnectStep, ReconnectDial, ReconnectEnds, ReconnectLists, ReconnectListFails,
                  SwapConn, PublishReconnected, IsCurrentConn
    <3> QED
      BY <1>1, <3>1 DEF TypeOK, LoginsLeft
  <2> QED
    BY <2>1, <2>2
<1>4. open' \subseteq Conns
  <2>1. ReconnectDial(u) => Dialled \in Conns
    BY <1>1, DialIsFresh DEF ReconnectDial
  <2> QED
    BY <1>1, <2>1 DEF MaybeReconnect, ReconnectStep, ReconnectDial, ReconnectEnds, ReconnectLists,
                      ReconnectListFails, SwapConn, PublishReconnected, TypeOK
<1>5. TypeOK'
  <2>1. registry' \in Conns \cup {None}
    BY <1>1, <1>3 DEF TypeOK, Upstream
  <2> QED
    BY <1>1, <1>2, <1>3, <1>4, <2>1 DEF TypeOK, disk
<1>6. Gone => Gone'
  BY <1>3, LifecycleAssumption DEF Gone, Superseded
<1>7. ups[u].pc # "idle" \/ ups[u].live
  BY DEF MaybeReconnect, ReconnectStep, ReconnectDial, ReconnectEnds, ReconnectLists,
         ReconnectListFails, SwapConn, PublishReconnected
<1>8. ClosingHolds'
  BY <1>2, <1>3, <1>7 DEF IInv, Ordered, ClosingHolds
<1>9. AdminFollows' /\ AdminHasFile' /\ GenerationsPast'
  BY <1>3 DEF IInv, Ordered, AdminFollows, AdminHasFile, GenerationsPast
<1>10. ChangeIsAlone' /\ RemovedIsGone'
  BY <1>3, <1>6 DEF IInv, Ordered, ChangeIsAlone, RemovedIsGone, disk
<1> QED
  BY <1>2, <1>3, <1>5, <1>8, <1>9, <1>10 DEF IInv, Ordered

\* A step that leaves connections, upstreams and installs alone.
Apart == UNCHANGED <<open, ups, current, registry, ready, installs>>

\* It keeps what is held.
LEMMA ApartHeld ==
  ASSUME TypeOK, Held, Apart, closing' = closing \/ closing' \notin {"open", "begun", "stopped"} \/ Serves
  PROVE  Held'
<1>1. InstallsHold' /\ InstallsDiffer' /\ UpstreamsHold'
  BY DEF Held, Apart, InstallsHold, InstallsDiffer, UpstreamsHold, Holding
<1>2. HeldApart' /\ Accounted' /\ OneIsLive'
  BY DEF Held, Apart, HeldApart, Accounted, OneIsLive
<1>3. ServedConsistently'
  BY DEF Held, Apart, ServedConsistently, Serves
<1> QED
  BY <1>1, <1>2, <1>3 DEF Held

\* Editors and mini auth change only the disk.
LEMMA OutsideKeeps ==
  ASSUME IInv, CLILogin \/ \E f \in Files : EditFile(f)
  PROVE  IInv'
<1>1. TypeOK /\ LoginsLeft /\ Held
  BY DEF IInv
<1>2. /\ UNCHANGED <<serving, installs, flow, admin, closing>>
      /\ (removed' = FALSE \/ (removed' = removed /\ file # None))
      /\ file' \in Files /\ token' \in Nat /\ savedAt' \in Nat
      /\ (Happens("edit") \/ Happens("cliLogin"))
  BY <1>1 DEF CLILogin, EditFile, TypeOK
<1>3. left' \in [Events -> Nat] /\ LoginsLeft'
  <2>1. {"edit", "cliLogin"} \subseteq Events
    BY DEF Events
  <2> QED
    BY <1>1, <1>2, <2>1, HappensEffect
<1>4. TypeOK'
  BY <1>1, <1>2, <1>3 DEF TypeOK, serving
<1>5. Held'
  BY <1>1, <1>2, ApartHeld DEF Apart, serving
<1>6. ~removed'
  BY <1>2 DEF IInv, Ordered, RemovedIsGone
<1>7. AdminFollows' /\ AdminHasFile' /\ GenerationsPast' /\ ChangeIsAlone' /\ ClosingHolds'
  BY <1>2 DEF IInv, Ordered, AdminFollows, AdminHasFile, GenerationsPast, ChangeIsAlone, ClosingHolds, Gone,
              Superseded, serving
<1> QED
  BY <1>3, <1>4, <1>5, <1>6, <1>7 DEF IInv, Ordered, RemovedIsGone

-----------------------------------------------------------------------------
(* Logins, and detaching *)

\* Cancelling keeps what an install is.
LEMMA CancelledEffect ==
  ASSUME TypeOK
  PROVE  \A s \in Cancelled(installs) : s \in Install /\ \E t \in installs : s.kind = t.kind /\ s.gen = t.gen
<1>1. ASSUME NEW t \in Install
      PROVE  /\ [t EXCEPT !.cancelled = TRUE] \in Install
             /\ [t EXCEPT !.cancelled = TRUE].kind = t.kind /\ [t EXCEPT !.cancelled = TRUE].gen = t.gen
  BY DEF Install
<1>2. \A s \in Cancelled(installs) : \E t \in installs : s = t \/ s = [t EXCEPT !.cancelled = TRUE]
  BY DEF Cancelled
<1> QED
  BY <1>1, <1>2 DEF TypeOK

\* A login begins while nothing else holds the name.
LEMMA StartAuthKeeps ==
  ASSUME IInv, StartAuth \/ StartAuthFails
  PROVE  IInv'
<1>1. TypeOK /\ LoginsLeft /\ Held
  BY DEF IInv
<1>2. /\ UNCHANGED <<disk, serving, admin, closing, removed>> /\ file # None
      /\ Happens("login") /\ "login" \in Events /\ admin = NoAdmin /\ closing = "open"
  BY DEF StartAuth, StartAuthFails, Events
<1>3. left' \in [Events -> Nat] /\ LoginsLeft'
  BY <1>1, <1>2, HappensEffect
<1>4. NextFlow \in Nat
  <2>1. left["login"] \in Nat /\ left["login"] <= MaxLogins /\ MaxLogins \in Nat
    BY <1>1, LoginsAreBounded DEF TypeOK, LoginsLeft, Events
  <2> QED
    BY <2>1 DEF NextFlow
<1>5. LoginInstall \in Install /\ ~Holding(LoginInstall) /\ LoginInstall.conn = None
      /\ LoginInstall.kind = "login" /\ LoginInstall.gen = removeGen
  BY <1>1, <1>2, <1>4 DEF LoginInstall, Install, Holding, TypeOK, Files
<1> DEFINE more == installs' \ Cancelled(installs)
<1>6. /\ installs' = Cancelled(installs) \cup more /\ flow' \in Nat
      /\ \A s \in more : s = LoginInstall
  BY <1>4 DEF StartAuth, StartAuthFails
<1> HIDE DEF more
<1>7. SameHolds
  BY <1>1, <1>5, <1>6, CancelledHolds
<1>8. Held'
  BY <1>1, <1>2, <1>7, QuietHeld DEF serving
<1>9. \A s \in installs' : /\ s \in Install
                           /\ \/ \E t \in installs : s.kind = t.kind /\ s.gen = t.gen
                              \/ s.kind = "login" /\ s.gen = removeGen
  BY <1>1, <1>5, <1>6, CancelledEffect
<1>10. TypeOK'
  BY <1>1, <1>2, <1>3, <1>6, <1>9 DEF TypeOK, disk, serving
<1>11. ~removed'
  BY <1>2 DEF IInv, Ordered, RemovedIsGone
<1>12. \A t \in installs : t.kind # "add"
  BY <1>2 DEF IInv, Ordered, AdminFollows, NoAdmin
<1>13. AdminFollows' /\ AdminHasFile' /\ ChangeIsAlone' /\ ClosingHolds'
  BY <1>2, <1>9, <1>12
  DEF IInv, Ordered, AdminFollows, AdminHasFile, ChangeIsAlone, ClosingHolds, NoAdmin, serving
<1>14. GenerationsPast'
  BY <1>1, <1>2, <1>9 DEF IInv, Ordered, GenerationsPast, serving, TypeOK
<1> QED
  BY <1>3, <1>8, <1>10, <1>11, <1>13, <1>14 DEF IInv, Ordered, RemovedIsGone

\* Detaching leaves nothing that serves, and makes every install under way one of the past.
LEMMA DetachEffect ==
  ASSUME IInv, admin.pc # "connecting", admin.op # "none", DetachAndCloseServer,
         UNCHANGED <<file, token, savedAt, closing, removed, left>>, admin' \in Admin
  PROVE  /\ TypeOK' /\ Held' /\ Gone' /\ GenerationsPast'
         /\ \A t \in installs' : t.kind # "add"
         /\ Serves /\ closing \in {"open", "begun"}
<1>1. TypeOK /\ Held
  BY DEF IInv
<1>2. Serves /\ closing \in {"open", "begun"}
  BY DEF IInv, Ordered, ClosingHolds, Serves
<1>3. Held' /\ ups' \in [Ups -> Upstream]
  BY <1>1, <1>2, DetachHeld
<1>4. /\ current' = None /\ registry' = None /\ record' = None /\ removeGen' = removeGen + 1
      /\ ready' = FALSE /\ failure' = "none" /\ open' \subseteq open /\ flow' = 0
      /\ installs' = Cancelled(installs)
  BY DEF DetachAndCloseServer, Detached
<1>5. \A s \in installs' : s \in Install /\ \E t \in installs : s.kind = t.kind /\ s.gen = t.gen
  BY <1>1, <1>4, CancelledEffect
<1>6. /\ removeGen \in Nat /\ \A t \in installs : t.gen \in Nat /\ t.gen <= removeGen /\ t.kind # "add"
  BY <1>1 DEF TypeOK, Install, IInv, Ordered, GenerationsPast, AdminFollows
<1>7. \A s \in installs' : s.gen \in Nat /\ s.gen <= removeGen /\ s.kind # "add"
  BY <1>5, <1>6
<1>8. Gone'
  BY <1>4, <1>6, <1>7 DEF Gone, Superseded
<1>9. GenerationsPast'
  BY <1>4, <1>6, <1>7 DEF GenerationsPast
<1>10. TypeOK'
  <2>1. record' \in Records /\ removeGen' \in Nat /\ registry' \in Conns \cup {None}
    BY <1>4, <1>6 DEF Records
  <2> QED
    BY <1>1, <1>3, <1>4, <1>5, <2>1 DEF TypeOK
<1> QED
  BY <1>2, <1>3, <1>7, <1>8, <1>9, <1>10

\* The first and the second detach of a change, and those of the config check.
LEMMA DetachKeeps ==
  ASSUME IInv, DetachFirst \/ DetachAgain \/ RemoveConfigServer \/ ReconnectConfigServer
  PROVE  IInv'
<1>1. TypeOK /\ LoginsLeft /\ Held /\ admin \in Admin /\ admin.pc \in Steps(admin.op)
  BY DEF IInv, TypeOK, Ordered, AdminFollows
<1>2. /\ DetachAndCloseServer /\ UNCHANGED <<file, token, savedAt, closing, removed, left>>
      /\ admin.pc \in {"detach", "detachAgain", "remove", "reconnect"}
  BY DEF DetachFirst, DetachAgain, RemoveConfigServer, ReconnectConfigServer, disk
<1>3. admin.op # "none"
  BY <1>1, <1>2 DEF Steps
<1>4. NoAdmin \in Admin /\ NoAdmin.op = "none" /\ NoAdmin.pc = "none"
  BY DEF NoAdmin, Admin, Files
<1>5. /\ admin' \in Admin /\ admin'.pc \in Steps(admin'.op)
      /\ admin'.pc # "connecting"
      /\ removed => admin'.op \notin {"add", "check"}
      /\ AdminHasFile'
  <2>1. removed => admin.op # "add" /\ admin.pc # "reconnect"
    BY <1>1, <1>2 DEF IInv, Ordered, RemovedIsGone, Steps
  <2>2. CASE DetachFirst
    <3>1. admin' = [admin EXCEPT !.pc = "change"] /\ admin.pc = "detach"
      BY <2>2 DEF DetachFirst
    <3>2. admin' \in Admin /\ admin'.op = admin.op /\ admin'.pc = "change" /\ admin'.file = admin.file
      BY <1>1, <3>1 DEF Admin
    <3> QED
      BY <1>1, <2>1, <3>1, <3>2 DEF Steps, Admin, IInv, Ordered, AdminHasFile
  <2>3. CASE DetachAgain /\ admin.op = "add" /\ admin.ok
    <3>1. admin' = [admin EXCEPT !.pc = "connect"]
      BY <2>3 DEF DetachAgain
    <3>2. admin' \in Admin /\ admin'.op = "add" /\ admin'.pc = "connect" /\ admin'.file = admin.file
      BY <1>1, <2>3, <3>1 DEF Admin
    <3> QED
      BY <2>1, <2>3, <3>2 DEF Steps, IInv, Ordered, AdminHasFile
  <2>4. CASE admin' = NoAdmin
    BY <1>4, <2>4 DEF Steps, AdminHasFile
  <2>5. CASE ReconnectConfigServer
    <3>1. admin' = [admin EXCEPT !.pc = "connect"] /\ admin.pc = "reconnect"
      BY <2>5 DEF ReconnectConfigServer
    <3>2. admin.op = "check"
      BY <1>1, <3>1 DEF Steps, Admin
    <3>3. admin' \in Admin /\ admin'.op = "check" /\ admin'.pc = "connect" /\ admin'.file = admin.file
      BY <1>1, <3>1, <3>2 DEF Admin
    <3> QED
      BY <2>1, <3>1, <3>2, <3>3 DEF Steps, IInv, Ordered, AdminHasFile
  <2> QED
    BY <2>2, <2>3, <2>4, <2>5 DEF DetachAgain, RemoveConfigServer
<1>6. /\ TypeOK' /\ Held' /\ Gone' /\ GenerationsPast'
      /\ \A t \in installs' : t.kind # "add"
      /\ closing \in {"open", "begun"}
  BY <1>2, <1>3, <1>5, DetachEffect
<1>7. AdminFollows' /\ ClosingHolds' /\ ChangeIsAlone'
  BY <1>2, <1>5, <1>6 DEF AdminFollows, ClosingHolds, ChangeIsAlone
<1>8. RemovedIsGone'
  BY <1>2, <1>5, <1>6 DEF IInv, Ordered, RemovedIsGone
<1> QED
  BY <1>1, <1>2, <1>5, <1>6, <1>7, <1>8 DEF IInv, Ordered, LoginsLeft

-----------------------------------------------------------------------------
(* The other steps of the admin operations *)

\* No operation in progress.
LEMMA NoAdminEffect ==
  NoAdmin \in Admin /\ NoAdmin.op = "none" /\ NoAdmin.pc = "none"
  BY DEF NoAdmin, Admin, Files

\* Between the detaches the files change: what is added is created, what is removed is deleted.
LEMMA ChangeKeeps ==
  ASSUME IInv, ChangeAdd \/ ChangeRemove
  PROVE  IInv'
<1>1. TypeOK /\ LoginsLeft /\ Held /\ admin \in Admin
  BY DEF IInv, TypeOK
<1>2. /\ UNCHANGED <<serving, installs, flow, closing, left>> /\ admin.pc = "change"
      /\ admin.op \in {"add", "remove", "rollback"}
  BY DEF ChangeAdd, ChangeRemove
<1>3. /\ file' \in {file, None, admin.file} /\ token' \in {token, 0} /\ savedAt' \in {savedAt, 0}
      /\ removed' \in {removed, TRUE}
      /\ \/ admin' = [admin EXCEPT !.pc = "detachAgain"]
         \/ admin' = [admin EXCEPT !.pc = "detachAgain", !.ok = FALSE]
  BY DEF ChangeAdd, ChangeRemove, disk
<1>4. admin' \in Admin /\ admin'.pc = "detachAgain" /\ admin'.op = admin.op
      /\ admin'.file = admin.file /\ admin.file \in Files
  BY <1>1, <1>3 DEF Admin
<1>5. Gone /\ Gone'
  BY <1>2 DEF IInv, Ordered, ChangeIsAlone, Gone, Superseded, serving
<1>6. TypeOK'
  <2>1. file' \in Files /\ token' \in Nat /\ savedAt' \in Nat /\ removed' \in BOOLEAN
    <3>1. None \in Files /\ file \in Files /\ token \in Nat /\ savedAt \in Nat
      BY <1>1 DEF TypeOK, Files
    <3>2. removed' \in BOOLEAN
      BY <1>1, <1>3 DEF TypeOK
    <3> QED
      BY <1>3, <1>4, <3>1, <3>2
  <2> QED
    BY <1>1, <1>2, <1>4, <2>1 DEF TypeOK, serving
<1>7. Held'
  BY <1>1, <1>2, ApartHeld DEF Apart, serving
<1>8. \A t \in installs : t.kind # "add"
  BY <1>2 DEF IInv, Ordered, AdminFollows
<1>9. AdminFollows' /\ AdminHasFile'
  BY <1>2, <1>4, <1>8 DEF IInv, Ordered, AdminFollows, AdminHasFile, Steps
<1>10. ClosingHolds' /\ GenerationsPast' /\ ChangeIsAlone'
  BY <1>2, <1>4, <1>5 DEF IInv, Ordered, ClosingHolds, GenerationsPast, ChangeIsAlone, serving
<1>11. RemovedIsGone'
  <2>1. removed' => file' = None /\ token' = 0 /\ admin.op # "add"
    BY DEF ChangeAdd, ChangeRemove, IInv, Ordered, RemovedIsGone, disk
  <2> QED
    BY <1>2, <1>4, <1>5, <2>1 DEF RemovedIsGone
<1> QED
  BY <1>1, <1>2, <1>6, <1>7, <1>9, <1>10, <1>11 DEF IInv, Ordered, LoginsLeft

\* Beginning an operation, looking at the file and deciding change nothing else.
LEMMA LookKeeps ==
  ASSUME IInv,
         RemoveServer \/ StartCheck \/ Lookup \/ Decide \/ \E s \in Settings : AddServer(s)
  PROVE  IInv'
<1>1. TypeOK /\ LoginsLeft /\ Held /\ admin \in Admin /\ file \in Files
  BY DEF IInv, TypeOK
<1>2. UNCHANGED <<disk, serving, installs, flow, closing>>
  BY DEF RemoveServer, StartCheck, Lookup, Decide, AddServer
<1>3. left' \in [Events -> Nat] /\ LoginsLeft'
  <2>1. {"add", "remove"} \subseteq Events
    BY DEF Events
  <2>2. left' = left \/ Happens("add") \/ Happens("remove")
    BY DEF RemoveServer, StartCheck, Lookup, Decide, AddServer
  <2> QED
    BY <1>1, <2>1, <2>2, HappensEffect DEF TypeOK, LoginsLeft
<1>4. /\ admin' \in Admin /\ admin'.pc \in Steps(admin'.op)
      /\ admin'.pc \notin {"change", "detachAgain", "connecting"}
      /\ admin.pc # "connecting"
      /\ closing = "open" \/ admin'.op \in {"none", admin.op}
      /\ removed' => /\ removed /\ admin'.op # "add"
                     /\ admin'.op = "check" =>
                          admin'.pc = "lookup" \/ (admin'.pc = "decide" /\ admin'.file = None)
      /\ removed' \in BOOLEAN /\ AdminHasFile'
  <2>1. CASE RemoveServer \/ StartCheck
    <3>1. /\ closing = "open" /\ admin = NoAdmin /\ removed' = removed
          /\ \/ admin' = [NoAdmin EXCEPT !.op = "remove", !.pc = "detach"]
             \/ admin' = [NoAdmin EXCEPT !.op = "check", !.pc = "lookup"]
      BY <2>1 DEF RemoveServer, StartCheck, Begin
    <3>2. /\ admin' \in Admin /\ admin.pc = "none"
          /\ \/ admin'.op = "remove" /\ admin'.pc = "detach"
             \/ admin'.op = "check" /\ admin'.pc = "lookup"
      BY <3>1, NoAdminEffect DEF Admin
    <3> QED
      BY <1>1, <3>1, <3>2 DEF Steps, TypeOK, AdminHasFile
  <2>2. ASSUME NEW s \in Settings, AddServer(s)
        PROVE  /\ closing = "open" /\ removed' = FALSE /\ admin.pc = "none"
               /\ admin' \in Admin /\ admin'.pc = "detach" /\ admin'.op = "add"
    <3>1. /\ closing = "open" /\ admin = NoAdmin /\ removed' = FALSE
          /\ admin' = [op |-> "add", pc |-> "detach",
                       file |-> [settings |-> s, enabled |-> TRUE], ok |-> TRUE]
      BY <2>2 DEF AddServer
    <3>2. [settings |-> s, enabled |-> TRUE] \in Files
      BY LifecycleAssumption DEF Files
    <3> QED
      BY <3>1, <3>2, NoAdminEffect DEF Admin
  <2>3. CASE Lookup
    <3>1. admin.pc = "lookup" /\ admin' = [admin EXCEPT !.pc = "decide", !.file = file]
          /\ removed' = removed
      BY <2>3 DEF Lookup
    <3>2. admin' \in Admin /\ admin'.op = admin.op /\ admin'.pc = "decide" /\ admin'.file = file
      BY <1>1, <3>1 DEF Admin
    <3>3. admin.op = "check"
      BY <1>1, <3>1 DEF IInv, Ordered, AdminFollows, Steps, Admin
    <3> QED
      BY <1>1, <3>1, <3>2, <3>3 DEF Steps, IInv, Ordered, RemovedIsGone, TypeOK, AdminHasFile
  <2>4. CASE Decide
    <3>1. /\ admin.pc = "decide" /\ removed' = removed
          /\ \/ Branch(admin.file) = "none" /\ admin' = NoAdmin
             \/ /\ Branch(admin.file) # "none"
                /\ admin' = [admin EXCEPT !.pc = Branch(admin.file)]
      BY <2>4 DEF Decide
    <3>2. Branch(admin.file) \in {"none", "remove", "connect", "reconnect"}
      BY DEF Branch, Enabled
    <3>3. admin.op = "check"
      BY <1>1, <3>1 DEF IInv, Ordered, AdminFollows, Steps, Admin
    <3>4. removed => Branch(admin.file) = "none"
      <4>1. removed => admin.file = None /\ record = None
        BY <3>1, <3>3 DEF IInv, Ordered, RemovedIsGone, Gone
      <4> QED
        BY <4>1 DEF Branch, Enabled
    <3>5. CASE Branch(admin.file) = "none"
      BY <1>1, <3>1, <3>5, NoAdminEffect DEF Steps, TypeOK, AdminHasFile
    <3>6. CASE Branch(admin.file) # "none"
      <4>1. admin' \in Admin /\ admin'.op = "check" /\ admin'.pc \in {"remove", "connect", "reconnect"}
            /\ admin'.file = admin.file /\ admin'.pc = Branch(admin.file)
        BY <1>1, <3>1, <3>2, <3>3, <3>6 DEF Admin
      <4>2. Branch(admin.file) \in {"connect", "reconnect"} => admin.file # None
        BY DEF Branch, Enabled
      <4> QED
        BY <1>1, <3>1, <3>3, <3>4, <3>6, <4>1, <4>2 DEF Steps, TypeOK, AdminHasFile
    <3> QED
      BY <3>5, <3>6
  <2> QED
    BY <2>1, <2>2, <2>3, <2>4 DEF Steps, AdminHasFile
<1>5. TypeOK'
  BY <1>1, <1>2, <1>3, <1>4 DEF TypeOK, disk, serving
<1>6. Held'
  BY <1>1, <1>2, ApartHeld DEF Apart, serving
<1>7. \A t \in installs : t.kind # "add"
  BY <1>4 DEF IInv, Ordered, AdminFollows
<1>8. AdminFollows' /\ ChangeIsAlone'
  BY <1>2, <1>4, <1>7 DEF AdminFollows, ChangeIsAlone
<1>9. ClosingHolds' /\ GenerationsPast'
  BY <1>2, <1>4 DEF IInv, Ordered, ClosingHolds, GenerationsPast, serving
<1>10. RemovedIsGone'
  BY <1>2, <1>4 DEF IInv, Ordered, RemovedIsGone, Gone, Superseded, disk, serving
<1> QED
  BY <1>3, <1>4, <1>5, <1>6, <1>8, <1>9, <1>10 DEF IInv, Ordered

\* An install begins when add_server, or the config check, connects the server.
LEMMA ConnectKeeps ==
  ASSUME IInv, ConnectSaved \/ ConnectUpstreams
  PROVE  IInv'
<1>1. TypeOK /\ LoginsLeft /\ Held /\ admin \in Admin /\ file \in Files /\ removeGen \in Nat
  BY DEF IInv, TypeOK
<1>2. /\ UNCHANGED <<disk, current, ups, registry, ready, failure, open, removeGen, flow, closing,
                     removed, left>>
      /\ admin.pc = "connect" /\ admin.op \in {"add", "check"}
  BY DEF ConnectSaved, ConnectUpstreams, serving
<1>3. \A t \in installs : t.kind # "add"
  BY <1>2 DEF IInv, Ordered, AdminFollows
<1>4. ~removed /\ ~removed' /\ closing \in {"open", "begun"}
  BY <1>2 DEF IInv, Ordered, RemovedIsGone, ClosingHolds, TypeOK
<1> DEFINE Begins(new) ==
             /\ installs' = installs \cup {new}
             /\ new \in Install /\ ~Holding(new) /\ new.conn = None /\ new.gen = removeGen
             /\ new.kind = "add" => admin'.op = "add" /\ admin'.pc = "connecting"
<1>5. /\ admin' \in Admin /\ record' \in Records
      /\ AdminHasFile' /\ admin'.pc \in Steps(admin'.op) /\ admin'.pc \notin {"change", "detachAgain"}
      /\ installs' = installs \/ \E new : Begins(new)
  <2>1. CASE ConnectSaved /\ file = None
    <3>1. /\ admin' = [admin EXCEPT !.op = "rollback", !.pc = "detach"] /\ installs' = installs
          /\ record' = record
      BY <2>1 DEF ConnectSaved, serving
    <3>2. admin' \in Admin /\ admin'.op = "rollback" /\ admin'.pc = "detach"
      BY <1>1, <3>1 DEF Admin
    <3> QED
      BY <1>1, <3>1, <3>2 DEF Steps, TypeOK, AdminHasFile
  <2>2. CASE ConnectSaved /\ file # None
    <3> DEFINE new == [kind |-> "add", cfg |-> file.settings, gen |-> removeGen, pc |-> "dial",
                       conn |-> None, flow |-> 0, cancelled |-> FALSE, at |-> 0]
    <3>1. /\ admin' = [admin EXCEPT !.pc = "connecting", !.file = file]
          /\ installs' = installs \cup {new} /\ record' = record /\ admin.op = "add"
      BY <2>2 DEF ConnectSaved, serving
    <3>2. admin' \in Admin /\ admin'.op = "add" /\ admin'.pc = "connecting" /\ admin'.file = file
      BY <1>1, <3>1 DEF Admin
    <3>3. new \in Install /\ ~Holding(new) /\ new.conn = None /\ new.gen = removeGen
      BY <1>1, <2>2 DEF Install, Files, Holding
    <3>4. Begins(new)
      BY <3>1, <3>2, <3>3
    <3>5. \E n : Begins(n)
      BY <3>4
    <3>6. record' \in Records
      BY <1>1, <3>1 DEF TypeOK
    <3> QED
      BY <2>2, <3>2, <3>5, <3>6 DEF Steps, AdminHasFile
  <2>3. CASE ConnectUpstreams
    <3> DEFINE new == StartupInstall(admin.file.settings)
    <3>1. /\ admin' = NoAdmin /\ installs' = installs \cup {new}
          /\ record' = Recorded(admin.file)
      BY <2>3 DEF ConnectUpstreams
    <3>2. admin.file # None
      BY <2>3 DEF IInv, Ordered, AdminHasFile, ConnectUpstreams
    <3>3. admin.file.settings \in Settings
      BY <1>1, <3>2 DEF Admin, Files
    <3>4. new \in Install /\ ~Holding(new) /\ new.conn = None /\ new.gen = removeGen
          /\ new.kind = "startup"
      BY <1>1, <3>3 DEF StartupInstall, Install, Holding
    <3>5. Recorded(admin.file) \in Records
      BY <3>3 DEF Recorded, Records
    <3>6. Begins(new)
      BY <3>1, <3>4
    <3> QED
      BY <3>1, <3>5, <3>6, NoAdminEffect DEF Steps, AdminHasFile
  <2> QED
    BY <2>1, <2>2, <2>3
<1>6. SameHolds
  <2>1. CASE installs' = installs
    BY <1>1, <2>1 DEF SameHolds, Held, InstallsHold, InstallsDiffer
  <2>2. ASSUME NEW new, Begins(new)
        PROVE  SameHolds
    BY <1>1, <2>2 DEF SameHolds, Held, InstallsHold, InstallsDiffer
  <2> QED
    BY <1>5, <2>1, <2>2
<1>7. Held'
  BY <1>1, <1>2, <1>6, QuietHeld
<1>8. TypeOK'
  BY <1>1, <1>2, <1>5 DEF TypeOK, disk
<1>9. AdminFollows'
  BY <1>3, <1>5 DEF AdminFollows
<1>10. ClosingHolds' /\ ChangeIsAlone' /\ RemovedIsGone'
  BY <1>2, <1>4, <1>5 DEF ClosingHolds, ChangeIsAlone, RemovedIsGone
<1>11. GenerationsPast'
  BY <1>1, <1>2, <1>5 DEF IInv, Ordered, GenerationsPast
<1> QED
  BY <1>1, <1>2, <1>5, <1>7, <1>8, <1>9, <1>10, <1>11 DEF IInv, Ordered, LoginsLeft

\* add_server records what it has installed.
LEMMA RecordKeeps ==
  ASSUME IInv, RecordAdded
  PROVE  IInv'
<1>1. TypeOK /\ LoginsLeft /\ Held /\ admin \in Admin /\ admin.pc = "record" /\ admin.op = "add"
  BY DEF IInv, TypeOK, RecordAdded, Ordered, AdminFollows, Steps, Admin
<1>2. /\ UNCHANGED <<disk, current, ups, registry, ready, failure, open, removeGen, installs, flow,
                     closing, removed, left>>
      /\ admin' = NoAdmin /\ record' \in {record, Recorded(admin.file)}
  BY DEF RecordAdded
<1>3. NoAdmin \in Admin /\ NoAdmin.op = "none" /\ NoAdmin.pc = "none"
  BY NoAdminEffect
<1>4. record' \in Records
  <2>1. admin.file # None
    BY <1>1 DEF IInv, Ordered, AdminHasFile
  <2>2. Recorded(admin.file) \in Records
    BY <1>1, <2>1 DEF Recorded, Records, Admin, Files
  <2> QED
    BY <1>1, <1>2, <2>2 DEF TypeOK
<1>5. Held'
  BY <1>1, <1>2, ApartHeld DEF Apart
<1>6. TypeOK'
  BY <1>1, <1>2, <1>3, <1>4 DEF TypeOK, disk
<1>7. ~removed /\ \A t \in installs : t.kind # "add"
  BY <1>1 DEF IInv, Ordered, AdminFollows, RemovedIsGone
<1>8. AdminFollows' /\ AdminHasFile' /\ ClosingHolds' /\ ChangeIsAlone' /\ RemovedIsGone'
  BY <1>2, <1>3, <1>7 DEF IInv, Ordered, AdminFollows, AdminHasFile, ClosingHolds, ChangeIsAlone,
                          RemovedIsGone, Steps
<1>9. GenerationsPast'
  BY <1>2 DEF IInv, Ordered, GenerationsPast
<1> QED
  BY <1>1, <1>2, <1>5, <1>6, <1>8, <1>9 DEF IInv, Ordered, LoginsLeft

-----------------------------------------------------------------------------
(* Closing *)

\* Each step of Close keeps the invariant; the last upstream is shut down once no install is left.
LEMMA CloseKeeps ==
  ASSUME IInv, CloseBegins \/ CloseStep
  PROVE  IInv'
<1>1. TypeOK /\ LoginsLeft /\ Held
  BY DEF IInv
<1>2. UNCHANGED <<disk, current, registry, record, ready, failure, removeGen, admin, removed>>
  BY DEF CloseBegins, CloseStep, CloseStops, CloseUpstreams, CloseEnds, serving
<1>3. left' \in [Events -> Nat] /\ LoginsLeft'
  <2>1. left' = left \/ (Happens("close") /\ "close" \in Events)
    BY DEF CloseBegins, CloseStep, CloseStops, CloseUpstreams, CloseEnds, Events
  <2> QED
    BY <1>1, <2>1, HappensEffect DEF TypeOK, LoginsLeft
<1>4. CASE CloseBegins \/ CloseEnds
  <2>1. /\ UNCHANGED <<open, ups, installs, flow>>
        /\ \/ closing = "open" /\ closing' = "begun"
           \/ closing = "drained" /\ closing' = "closed" /\ \A u \in Ups : ups[u].pc = "idle"
    BY <1>4 DEF CloseBegins, CloseEnds, serving
  <2>2. Held'
    BY <1>1, <1>2, <2>1, ApartHeld DEF Apart, Serves
  <2>3. TypeOK'
    BY <1>1, <1>2, <1>3, <2>1 DEF TypeOK, disk
  <2>4. Ordered'
    BY <1>2, <2>1 DEF IInv, Ordered, AdminFollows, AdminHasFile, ClosingHolds, GenerationsPast,
                      ChangeIsAlone, RemovedIsGone, Gone, Superseded, disk
  <2> QED
    BY <1>3, <2>2, <2>3, <2>4 DEF IInv
<1>5. CASE CloseStops
  <2> DEFINE kept == [t \in installs |-> [t EXCEPT !.cancelled = TRUE]]
  <2>1. /\ UNCHANGED <<open, ups>> /\ flow' = 0 /\ closing = "begun" /\ closing' = "stopped"
        /\ admin = NoAdmin /\ installs' = {[t EXCEPT !.cancelled = TRUE] : t \in installs}
    BY <1>5 DEF CloseStops, serving
  <2>2. CancelOrBegin(kept, {})
    BY <2>1 DEF CancelOrBegin
  <2>3. \A t \in Install : /\ [t EXCEPT !.cancelled = TRUE] \in Install
                           /\ [t EXCEPT !.cancelled = TRUE].kind = t.kind
                           /\ [t EXCEPT !.cancelled = TRUE].gen = t.gen
    BY DEF Install
  <2>4. \A s \in installs' : s \in Install /\ \E t \in installs : s.kind = t.kind /\ s.gen = t.gen
    <3>1. \A s \in installs' : \E t \in installs : s = [t EXCEPT !.cancelled = TRUE]
      BY <2>1
    <3>2. installs \subseteq Install
      BY <1>1 DEF TypeOK
    <3> QED
      BY <2>3, <3>1, <3>2
  <2> HIDE DEF kept
  <2>5. Held'
    BY <1>1, <1>2, <2>1, <2>2, CancelOrBeginHolds, QuietHeld
  <2>6. TypeOK'
    BY <1>1, <1>2, <1>3, <2>1, <2>4 DEF TypeOK, disk
  <2>7. \A t \in installs : t.kind # "add"
    BY <2>1, NoAdminEffect DEF IInv, Ordered, AdminFollows
  <2>8. AdminFollows' /\ AdminHasFile' /\ ClosingHolds' /\ ChangeIsAlone'
    BY <1>2, <2>1, <2>4, <2>7, NoAdminEffect
    DEF IInv, Ordered, AdminFollows, AdminHasFile, ClosingHolds, ChangeIsAlone
  <2>9. GenerationsPast' /\ (Gone => Gone')
    BY <1>2, <2>4 DEF IInv, Ordered, GenerationsPast, Gone, Superseded
  <2>10. RemovedIsGone'
    BY <1>2, <2>9 DEF IInv, Ordered, RemovedIsGone, disk
  <2> QED
    BY <1>3, <2>5, <2>6, <2>8, <2>9, <2>10 DEF IInv, Ordered
<1>6. CASE CloseUpstreams
  <2>1. /\ UNCHANGED <<installs, flow>> /\ closing = "stopped" /\ closing' = "drained" /\ installs = {}
        /\ open' \subseteq open
    BY <1>6 DEF CloseUpstreams, InstallsDone
  <2>2. Held' /\ ups' \in [Ups -> Upstream] /\ \A u \in Ups : ~ups'[u].live
    BY <1>1, <1>6, CloseHeld
  <2>3. TypeOK'
    BY <1>1, <1>2, <1>3, <2>1, <2>2 DEF TypeOK, disk
  <2>4. Ordered'
    BY <1>2, <2>1, <2>2 DEF IInv, Ordered, AdminFollows, AdminHasFile, ClosingHolds, GenerationsPast,
                            ChangeIsAlone, RemovedIsGone, Gone, Superseded, disk
  <2> QED
    BY <1>3, <2>2, <2>3, <2>4 DEF IInv
<1> QED
  BY <1>4, <1>5, <1>6 DEF CloseStep

-----------------------------------------------------------------------------
(* The theorems *)

\* Starting up, the server's connector is the only install, and nothing is connected.
LEMMA InitHolds == Init => IInv
<1> SUFFICES ASSUME Init PROVE IInv
  OBVIOUS
<1>1. file # None /\ file \in Files => file.settings \in Settings
  BY DEF Files
<1>2. \A t \in installs : /\ t \in Install /\ ~Holding(t) /\ t.conn = None /\ t.kind = "startup"
                          /\ t.gen = removeGen
  <2>1. \A s \in Settings : LET t == StartupInstall(s) IN
           /\ t \in Install /\ ~Holding(t) /\ t.conn = None /\ t.kind = "startup" /\ t.gen = removeGen
    BY DEF Init, StartupInstall, Install, Holding
  <2> QED
    BY <1>1, <2>1 DEF Init, Enabled
<1>3. record \in Records
  BY <1>1 DEF Init, Enabled, Records
<1>4. NoUpstream \in Upstream
  BY DEF NoUpstream, Upstream
<1>5. \A u \in Ups : ups[u] = NoUpstream
  BY DEF Init
<1>6. TypeOK
  BY <1>2, <1>3, <1>4, NoAdminEffect, LifecycleAssumption DEF Init, TypeOK
<1>7. LoginsLeft
  BY LoginsAreBounded DEF Init, LoginsLeft
<1>8. \A u \in Ups : /\ ~ups[u].live /\ ups[u].pc = "idle" /\ ups[u].new = None /\ ups[u].conn = None
  BY <1>5 DEF NoUpstream
<1>9. Held
  BY <1>2, <1>8 DEF Init, Held, InstallsHold, UpstreamsHold, InstallsDiffer, HeldApart, Accounted,
                    OneIsLive, ServedConsistently
<1>10. Ordered
  <2>1. admin.op = "none" /\ admin.pc = "none"
    BY NoAdminEffect DEF Init
  <2> QED
    BY <1>2, <2>1 DEF Init, Ordered, AdminFollows, Steps, AdminHasFile, ClosingHolds, GenerationsPast,
                      ChangeIsAlone, RemovedIsGone, TypeOK
<1> QED
  BY <1>6, <1>7, <1>9, <1>10 DEF IInv

\* Every step of the server and of what surrounds it keeps the invariant.
LEMMA StepKeeps == IInv /\ [Next]_vars => IInv'
<1> SUFFICES ASSUME IInv, [Next]_vars PROVE IInv'
  OBVIOUS
<1>1. CASE UNCHANGED vars
  <2>1. UNCHANGED <<file, token, savedAt, removeGen, current, ups, registry, record, ready, failure,
                    open, installs, flow, admin, closing, removed, left>>
    BY <1>1 DEF vars, disk, serving
  <2>2. Held'
    BY <2>1, ApartHeld DEF IInv, Apart
  <2>3. TypeOK' /\ LoginsLeft'
    BY <2>1 DEF IInv, TypeOK, LoginsLeft
  <2>4. Ordered'
    BY <2>1 DEF IInv, Ordered, AdminFollows, AdminHasFile, ClosingHolds, GenerationsPast,
                ChangeIsAlone, RemovedIsGone, Gone, Superseded
  <2> QED
    BY <2>2, <2>3, <2>4 DEF IInv
<1>2. CASE AdminStep
  BY <1>2, DetachKeeps, ChangeKeeps, LookKeeps, ConnectKeeps, RecordKeeps DEF AdminStep
<1> QED
  BY <1>1, <1>2, OutsideKeeps, StartAuthKeeps, InstallStepKeeps, LoopStepKeeps, LookKeeps, CloseKeeps
  DEF Next

\* The invariant holds in every state the server reaches.
LEMMA Invariance == Spec => []IInv
  BY InitHolds, StepKeeps, PTL DEF Spec

\* The program's state stays what it may be.
THEOREM TypeCorrect == Spec => []TypeOK
<1>1. IInv => TypeOK
  BY DEF IInv
<1> QED
  BY <1>1, Invariance, PTL

\* No connection is left open once nobody owns it, however many installs, reconnects and upstreams
\* there are: rejected, replaced and removed ones close theirs.
THEOREM NoConnectionLeaks == Spec => []NoLeakedConnection
<1>1. IInv => NoLeakedConnection
  BY DEF IInv, Held, Accounted, NoLeakedConnection, Owned
<1> QED
  BY <1>1, Invariance, PTL

\* A server is registered, ready and listed together, and the registry lists the connection in use
\* except between a reconnect's swap and its publishing.
THEOREM ServingIsConsistent == Spec => []ServedConsistently
<1>1. IInv => ServedConsistently
  BY DEF IInv, Held
<1> QED
  BY <1>1, Invariance, PTL

\* Nothing started for a server before it was removed brings it or its login back.
THEOREM RemovedServersStayRemoved == Spec => []RemovedStaysRemoved
<1>1. IInv => RemovedStaysRemoved
  BY DEF IInv, Ordered, RemovedIsGone, Gone, RemovedStaysRemoved
<1> QED
  BY <1>1, Invariance, PTL

\* When Close returns, no install is under way and every connection is closed.
THEOREM CloseLeavesNothing == Spec => []ClosedMeansClosed
<1>1. IInv => ClosedMeansClosed
  <2> SUFFICES ASSUME IInv, closing = "closed" PROVE open = {} /\ installs = {}
    BY DEF ClosedMeansClosed
  <2>1. installs = {} /\ \A u \in Ups : ~ups[u].live /\ ups[u].pc = "idle"
    BY DEF IInv, Ordered, ClosingHolds
  <2>2. \A u \in Ups : ups[u].new = None
    BY <2>1 DEF IInv, Held, UpstreamsHold
  <2>3. None \notin open
    BY LifecycleAssumption DEF IInv, TypeOK
  <2> QED
    BY <2>1, <2>2, <2>3 DEF IInv, Held, Accounted
<1> QED
  BY <1>1, Invariance, PTL
=============================================================================
