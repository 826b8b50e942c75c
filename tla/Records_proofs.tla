---------------------------- MODULE Records_proofs ----------------------------
(***************************************************************************)
(* What mini keeps, and what it hands out of it: the list of an upstream's *)
(* tools (ToolListRefresher, and ReconnectRefresh with its connection      *)
(* replaced), the full responses (ResponseStore), logins                   *)
(* (LoginResolution), the names of tools (ToolNames) and what mini init    *)
(* imports (ImportPlan).                                                   *)
(***************************************************************************)
EXTENDS ReconnectRefresh, ResponseStore, LoginResolution, ToolNames, ImportPlan,
        FiniteSetTheorems, SequenceTheorems, WellFoundedInduction, TLAPS

-----------------------------------------------------------------------------
(* The inductive invariant *)

\* Nothing is announced, listed or published before the upstream has it.
Bounded ==
    /\ \A v \in wire : v <= version
    /\ held <= version /\ heard <= version /\ published <= version
    /\ \A w \in workers : w.got <= version

\* A listed version is never older than the published one.
Ahead == \A w \in workers : w.pc = "publish" => published <= w.got

\* shutdown stops the refresher before it cancels the context.
StoppedFirst == ctxDone => stopped

\* A request outstanding is a run going on.
PendingRuns == ~stopped /\ pending => running

\* A pass that no notice has overtaken listed what has been announced.
PassCovers ==
    ~stopped /\ ~pending => \A w \in workers : w.pc = "publish" => w.got >= heard

\* What has been announced is published, about to be listed or published, or lost
\* to a failed pass.
Followed ==
    ~stopped /\ ~pending /\ ~missed /\ (\A w \in workers : w.pc = "next")
        => published >= heard

\* A read whose run is over finds what it needs, and no pass will undo that.
ReadCovered(r) ==
    /\ reader[r].done <= runs
    /\ reader[r].need <= heard
    /\ ~stopped /\ reader[r].pc = "waiting" /\ Closed(reader[r].done) =>
         /\ missed \/ published >= reader[r].need
         /\ \A w \in workers : w.pc = "publish" => w.got >= reader[r].need

ReadsCovered == \A r \in Readers : ReadCovered(r)

IInv ==
    /\ TypeOK
    /\ OneWorker
    /\ Bounded
    /\ Ahead
    /\ StoppedFirst
    /\ PendingRuns
    /\ PassCovers
    /\ Followed
    /\ FreshListIsCurrent
    /\ ReadsCovered
    /\ AwaitedReadIsCurrent

-----------------------------------------------------------------------------
\* A new refresher, idle and with no request, satisfies the invariant.
LEMMA InitIInv == Init => IInv
<1> SUFFICES ASSUME Init PROVE IInv
  OBVIOUS
<1> USE ConstantsAssumption DEF Init
<1>1. TypeOK
  <2>1. 0 \in Versions
    BY DEF Versions
  <2>2. IdleReader \in Reader
    BY <2>1 DEF IdleReader, Reader
  <2> QED
    BY <2>1, <2>2 DEF TypeOK
<1>2. OneWorker /\ Bounded /\ Ahead /\ StoppedFirst /\ PendingRuns /\ PassCovers /\ Followed
  BY DEF OneWorker, Bounded, Ahead, StoppedFirst, PendingRuns, PassCovers, Followed
<1>3. FreshListIsCurrent /\ ReadsCovered /\ AwaitedReadIsCurrent
  BY DEF FreshListIsCurrent, ReadsCovered, ReadCovered, AwaitedReadIsCurrent, IdleReader
<1> QED
  BY <1>1, <1>2, <1>3 DEF IInv

\* A live worker is the only one, and it is the current run's.
LEMMA OnlyWorker ==
  ASSUME IInv, NEW w \in workers
  PROVE  workers = {w} /\ running /\ w.run = runs
  BY DEF IInv, OneWorker

\* What a request for a pass does to the refresher.
LEMMA RequestEffect ==
  ASSUME IInv, requestToolRefresh
  PROVE  \/ stopped /\ UNCHANGED <<freshness, pending, running, runs, workers>>
         \/ /\ ~stopped
            /\ freshness' = Expire(freshness)
            /\ pending' = TRUE /\ running' = TRUE
            /\ \/ running /\ UNCHANGED <<runs, workers>>
               \/ ~running /\ runs' = runs + 1 /\ workers' = {NewWorker}
  BY DEF IInv, OneWorker, StoppedFirst, requestToolRefresh, request, startLocked

\* A notice keeps the invariant, whichever version it announces: DeliverNotice
\* and SetHandler differ only in where the notice was waiting.
LEMMA NoticeIInv ==
  ASSUME IInv, NEW v \in Versions, v <= version,
         requestToolRefresh,
         heard' = Newer(heard, v),
         wire' \subseteq wire, held' \in {0, held}, handlerSet' \in BOOLEAN,
         UNCHANGED <<version, stopped, published, ctxDone, reader, missed>>
  PROVE  IInv'
<1>a. \/ stopped /\ UNCHANGED <<freshness, pending, running, runs, workers>>
      \/ /\ ~stopped
         /\ freshness' = Expire(freshness)
         /\ pending' = TRUE /\ running' = TRUE
         /\ \/ running /\ UNCHANGED <<runs, workers>>
            \/ ~running /\ runs' = runs + 1 /\ workers' = {NewWorker}
  BY RequestEffect
<1>b. NewWorker.run = runs + 1 /\ NewWorker.pc = "next" /\ NewWorker.got = 0
  BY DEF NewWorker
<1>1. TypeOK'
  <2>1. NewWorker \in Worker
    BY ConstantsAssumption DEF NewWorker, Worker, Versions, IInv, TypeOK
  <2>2. runs' \in Nat /\ workers' \subseteq Worker
    BY <1>a, <2>1 DEF IInv, TypeOK
  <2>3. heard' \in Versions /\ held' \in Versions
    BY ConstantsAssumption DEF IInv, TypeOK, Newer, Versions
  <2>4. freshness' \in ListedFreshness
    BY <1>a DEF IInv, TypeOK, ListedFreshness, Expire
  <2>5. pending' \in BOOLEAN /\ running' \in BOOLEAN
    BY <1>a DEF IInv, TypeOK
  <2> QED
    BY <2>2, <2>3, <2>4, <2>5 DEF IInv, TypeOK
<1>2. heard' >= heard /\ heard' \in Versions /\ heard' <= version
  BY DEF IInv, Bounded, TypeOK, Versions, Newer
<1>3. OneWorker'
  BY <1>a, <1>b DEF IInv, OneWorker
<1>4. Bounded'
  BY <1>a, <1>b, <1>2 DEF IInv, Bounded, TypeOK, Versions
<1>5. Ahead'
  BY <1>a, <1>b DEF IInv, Ahead
<1>6. StoppedFirst' /\ PendingRuns' /\ PassCovers' /\ Followed'
  BY <1>a DEF IInv, StoppedFirst, PendingRuns, PassCovers, Followed
<1>7. FreshListIsCurrent'
  BY <1>a DEF IInv, FreshListIsCurrent, Expire
<1>8. ReadsCovered'
  <2> SUFFICES ASSUME NEW r \in Readers PROVE ReadCovered(r)'
    BY DEF ReadsCovered
  <2>1. ReadCovered(r)
    BY DEF IInv, ReadsCovered
  <2>2. reader[r].done \in Nat /\ reader[r].need \in Versions /\ runs \in Nat /\ heard \in Versions
    BY DEF IInv, TypeOK, Reader
  <2>3. CASE UNCHANGED <<running, runs, workers>>
    BY <1>2, <2>1, <2>2, <2>3 DEF ReadCovered, Closed, Versions
  <2>4. CASE ~running /\ runs' = runs + 1 /\ workers' = {NewWorker}
    BY <1>2, <1>b, <2>1, <2>2, <2>4 DEF ReadCovered, Closed, Versions
  <2>5. CASE stopped
    BY <1>a, <1>2, <1>b, <2>1, <2>2, <2>5 DEF ReadCovered, Closed, Versions
  <2> QED
    BY <1>a, <2>3, <2>4, <2>5 DEF IInv, TypeOK
<1>9. AwaitedReadIsCurrent'
  BY DEF IInv, AwaitedReadIsCurrent
<1> QED
  BY <1>1, <1>3, <1>4, <1>5, <1>6, <1>7, <1>8, <1>9 DEF IInv

\* No step of a worker, a caller or the connection breaks it.
LEMMA NextIInv == IInv /\ [Next]_vars => IInv'
<1> SUFFICES ASSUME IInv, [Next]_vars PROVE IInv'
  OBVIOUS
<1> USE ConstantsAssumption
<1>1. CASE UpstreamChanges
  <2>1. TypeOK'
    BY <1>1 DEF IInv, UpstreamChanges, TypeOK, Versions
  <2>2. Bounded'
    BY <1>1 DEF IInv, UpstreamChanges, Bounded, TypeOK, Versions, Worker
  <2>3. OneWorker' /\ Ahead' /\ StoppedFirst' /\ PendingRuns' /\ PassCovers' /\ Followed'
    BY <1>1 DEF IInv, UpstreamChanges, OneWorker, Ahead, StoppedFirst, PendingRuns, PassCovers, Followed
  <2>4. FreshListIsCurrent' /\ AwaitedReadIsCurrent'
    BY <1>1 DEF IInv, UpstreamChanges, FreshListIsCurrent, AwaitedReadIsCurrent
  <2>5. ReadsCovered'
    BY <1>1 DEF IInv, UpstreamChanges, ReadsCovered, ReadCovered, Closed
  <2> QED
    BY <2>1, <2>2, <2>3, <2>4, <2>5 DEF IInv
<1>2. CASE LifetimeEnds
  <2>1. TypeOK'
    BY <1>2 DEF IInv, LifetimeEnds, TypeOK, ListedFreshness
  <2>2. OneWorker' /\ Bounded' /\ Ahead' /\ StoppedFirst' /\ PendingRuns' /\ PassCovers' /\ Followed'
    BY <1>2 DEF IInv, LifetimeEnds, OneWorker, Bounded, Ahead, StoppedFirst, PendingRuns, PassCovers, Followed
  <2>3. FreshListIsCurrent' /\ AwaitedReadIsCurrent'
    BY <1>2 DEF IInv, LifetimeEnds, FreshListIsCurrent, AwaitedReadIsCurrent
  <2>4. ReadsCovered'
    BY <1>2 DEF IInv, LifetimeEnds, ReadsCovered, ReadCovered, Closed
  <2> QED
    BY <2>1, <2>2, <2>3, <2>4 DEF IInv
<1>3. ASSUME NEW v \in wire, DeliverNotice(v)
      PROVE  IInv'
  <2>1. v \in Versions /\ v <= version
    BY DEF IInv, TypeOK, Bounded
  <2>2. CASE handlerSet
    BY <1>3, <2>1, <2>2, NoticeIInv DEF DeliverNotice, IInv, TypeOK
  <2>3. CASE ~handlerSet
    <3>1. held' \in Versions /\ held' <= version
      BY <1>3, <2>1, <2>3 DEF DeliverNotice, Newer, IInv, TypeOK, Bounded
    <3>2. UNCHANGED <<version, handlerSet, stopped, running, pending, freshness, runs, workers,
                     published, ctxDone, reader, heard, missed>> /\ wire' \subseteq wire
      BY <1>3, <2>3 DEF DeliverNotice
    <3>3. TypeOK' /\ Bounded'
      BY <3>1, <3>2 DEF IInv, TypeOK, Bounded
    <3>4. OneWorker' /\ Ahead' /\ StoppedFirst' /\ PendingRuns' /\ PassCovers' /\ Followed'
      BY <3>2 DEF IInv, OneWorker, Ahead, StoppedFirst, PendingRuns, PassCovers, Followed
    <3>5. FreshListIsCurrent' /\ AwaitedReadIsCurrent' /\ ReadsCovered'
      BY <3>2 DEF IInv, FreshListIsCurrent, AwaitedReadIsCurrent, ReadsCovered, ReadCovered, Closed
    <3> QED
      BY <3>3, <3>4, <3>5 DEF IInv
  <2> QED
    BY <2>2, <2>3
<1>4. CASE SetHandler
  <2>1. CASE held # 0
    BY <1>4, <2>1, NoticeIInv DEF SetHandler, IInv, TypeOK, Bounded
  <2>2. CASE held = 0
    <3>1. UNCHANGED <<version, wire, stopped, running, pending, freshness, runs, workers,
                     published, ctxDone, reader, heard, missed>> /\ held' = held /\ handlerSet' = TRUE
      BY <1>4, <2>2 DEF SetHandler
    <3>2. TypeOK' /\ Bounded'
      BY <3>1 DEF IInv, TypeOK, Bounded
    <3>3. OneWorker' /\ Ahead' /\ StoppedFirst' /\ PendingRuns' /\ PassCovers' /\ Followed'
      BY <3>1 DEF IInv, OneWorker, Ahead, StoppedFirst, PendingRuns, PassCovers, Followed
    <3>4. FreshListIsCurrent' /\ AwaitedReadIsCurrent' /\ ReadsCovered'
      BY <3>1 DEF IInv, FreshListIsCurrent, AwaitedReadIsCurrent, ReadsCovered, ReadCovered, Closed
    <3> QED
      BY <3>2, <3>3, <3>4 DEF IInv
  <2> QED
    BY <2>1, <2>2
<1>5. ASSUME NEW w \in workers, Next_(w)
      PROVE  IInv'
  <2>1. workers = {w} /\ running /\ w.run = runs
    BY OnlyWorker
  <2>2. w \in Worker /\ w.got <= version
    BY DEF IInv, TypeOK, Bounded
  <2>3. UNCHANGED <<version, wire, handlerSet, held, stopped, freshness, runs, published, ctxDone, reader, heard, missed>>
    BY <1>5 DEF Next_
  <2>4. \/ /\ ~pending \/ stopped
           /\ running' = FALSE /\ workers' = {} /\ pending' = pending
        \/ /\ pending /\ ~stopped
           /\ running' = TRUE /\ pending' = FALSE
           /\ workers' = {[w EXCEPT !.pc = "list"]}
    BY <1>5, <2>1 DEF Next_, Becomes
  <2>5. TypeOK'
    BY <2>2, <2>3, <2>4 DEF IInv, TypeOK, Worker
  <2>6. OneWorker'
    BY <2>1, <2>2, <2>3, <2>4 DEF OneWorker, Worker
  <2>6a. Bounded' /\ Ahead'
    BY <2>1, <2>2, <2>3, <2>4 DEF IInv, Bounded, Ahead, Worker
  <2>7. StoppedFirst' /\ PendingRuns' /\ PassCovers'
    BY <2>1, <2>2, <2>3, <2>4 DEF IInv, StoppedFirst, PendingRuns, PassCovers, Worker
  <2>8. Followed'
    BY <1>5, <2>1, <2>2, <2>3, <2>4 DEF IInv, Next_, Followed, Worker
  <2>9. FreshListIsCurrent' /\ AwaitedReadIsCurrent'
    BY <2>3 DEF IInv, FreshListIsCurrent, AwaitedReadIsCurrent
  <2>10. ReadsCovered'
    BY <1>5, <2>1, <2>2, <2>3, <2>4 DEF IInv, Next_, ReadsCovered, ReadCovered, Closed, Followed, TypeOK, Versions, Reader, Worker
  <2> QED
    BY <2>6a, <2>5, <2>6, <2>7, <2>8, <2>9, <2>10 DEF IInv
<1>6. ASSUME NEW w \in workers, ListAnswered(w)
      PROVE  IInv'
  <2>1. workers = {w} /\ running /\ w.run = runs
    BY OnlyWorker
  <2>2. w \in Worker /\ w.got <= version
    BY DEF IInv, TypeOK, Bounded
  <2>3. UNCHANGED <<version, wire, handlerSet, held, stopped, running, pending, freshness, runs, published, ctxDone, reader, heard, missed>>
    BY <1>6 DEF ListAnswered
  <2>4. workers' = {[w EXCEPT !.pc = "publish", !.got = version]}
    BY <1>6, <2>1 DEF ListAnswered, Becomes
  <2>5. TypeOK'
    BY <2>2, <2>3, <2>4 DEF IInv, TypeOK, Worker
  <2>6. OneWorker' /\ Bounded' /\ Ahead'
    BY <2>1, <2>2, <2>3, <2>4 DEF IInv, OneWorker, Bounded, Ahead, Worker, TypeOK, Versions
  <2>7. StoppedFirst' /\ PendingRuns' /\ PassCovers' /\ Followed'
    BY <2>1, <2>2, <2>3, <2>4 DEF IInv, StoppedFirst, PendingRuns, PassCovers, Followed, Bounded, Worker, TypeOK, Versions
  <2>8. FreshListIsCurrent' /\ AwaitedReadIsCurrent'
    BY <2>3 DEF IInv, FreshListIsCurrent, AwaitedReadIsCurrent
  <2>9. ReadsCovered'
    BY <2>2, <2>3, <2>4 DEF IInv, ReadsCovered, ReadCovered, Closed, Bounded, TypeOK, Versions, Reader, Worker
  <2> QED
    BY <2>5, <2>6, <2>7, <2>8, <2>9 DEF IInv
<1>7. ASSUME NEW w \in workers, ListingFails(w)
      PROVE  IInv'
  <2>1. workers = {w} /\ running /\ w.run = runs
    BY OnlyWorker
  <2>2. w \in Worker /\ w.got <= version
    BY DEF IInv, TypeOK, Bounded
  <2>3. UNCHANGED <<version, wire, handlerSet, held, stopped, running, pending, freshness, runs, published, ctxDone, reader, heard>> /\ missed' = TRUE
    BY <1>7 DEF ListingFails
  <2>4. workers' = {[w EXCEPT !.pc = "next"]}
    BY <1>7, <2>1 DEF ListingFails, Becomes
  <2>5. TypeOK'
    BY <2>2, <2>3, <2>4 DEF IInv, TypeOK, Worker
  <2>6. OneWorker' /\ Bounded' /\ Ahead'
    BY <2>1, <2>2, <2>3, <2>4 DEF IInv, OneWorker, Bounded, Ahead, Worker
  <2>7. StoppedFirst' /\ PendingRuns' /\ PassCovers' /\ Followed'
    BY <2>1, <2>2, <2>3, <2>4 DEF IInv, StoppedFirst, PendingRuns, PassCovers, Followed, Worker
  <2>8. FreshListIsCurrent' /\ AwaitedReadIsCurrent'
    BY <2>3 DEF IInv, FreshListIsCurrent, AwaitedReadIsCurrent
  <2>9. ReadsCovered'
    BY <2>2, <2>3, <2>4 DEF IInv, ReadsCovered, ReadCovered, Closed, Worker
  <2> QED
    BY <2>5, <2>6, <2>7, <2>8, <2>9 DEF IInv
<1>8. ASSUME NEW w \in workers, Publish(w)
      PROVE  IInv'
  <2>1. workers = {w} /\ running /\ w.run = runs
    BY OnlyWorker
  <2>2. w \in Worker /\ w.got <= version
    BY DEF IInv, TypeOK, Bounded
  <2>3. UNCHANGED <<version, wire, handlerSet, held, stopped, running, pending, runs, ctxDone, reader, heard>> /\ w.pc = "publish"
    BY <1>8 DEF Publish
  <2>4. workers' = {[w EXCEPT !.pc = "next"]}
    BY <1>8, <2>1 DEF Publish, Becomes
  <2>5. \/ /\ ctxDone /\ stopped /\ missed' = TRUE
           /\ UNCHANGED <<published, freshness>>
        \/ /\ ~ctxDone /\ missed' = FALSE /\ published' = w.got
           /\ freshness' \in ListedFreshness
           /\ pending => freshness' = freshness
    BY <1>8 DEF IInv, StoppedFirst, Publish, publishedFreshness, TypeOK
  <2>6. TypeOK'
    BY <2>2, <2>3, <2>4, <2>5 DEF IInv, TypeOK, Worker
  <2>7. OneWorker' /\ Bounded' /\ Ahead'
    BY <2>1, <2>2, <2>3, <2>4, <2>5 DEF IInv, OneWorker, Bounded, Ahead, Worker
  <2>8. StoppedFirst' /\ PendingRuns' /\ PassCovers' /\ Followed'
    BY <2>1, <2>2, <2>3, <2>4, <2>5 DEF IInv, StoppedFirst, PendingRuns, PassCovers, Followed, Worker
  <2>9. FreshListIsCurrent' /\ AwaitedReadIsCurrent'
    BY <2>1, <2>2, <2>3, <2>5 DEF IInv, FreshListIsCurrent, AwaitedReadIsCurrent, PassCovers, Ahead, TypeOK, Versions, Worker
  <2>10. ReadsCovered'
    BY <2>1, <2>2, <2>3, <2>4, <2>5 DEF IInv, ReadsCovered, ReadCovered, Closed, Worker
  <2> QED
    BY <2>6, <2>7, <2>8, <2>9, <2>10 DEF IInv
<1>9. ASSUME NEW q \in Readers, StartRead(q)
      PROVE  IInv'
  <2>1. UNCHANGED <<version, wire, handlerSet, held, stopped, freshness, published, ctxDone, heard, missed>>
    BY <1>9 DEF StartRead
  <2>2. \/ /\ ~stopped /\ ~running /\ freshness = "expired"
           /\ pending' = TRUE /\ running' = TRUE /\ runs' = runs + 1 /\ workers' = {NewWorker}
        \/ UNCHANGED <<pending, running, runs, workers>>
    BY <1>9 DEF IInv, OneWorker, StartRead, startLocked, Stale
  <2>3. /\ reader' = [reader EXCEPT ![q] = reader'[q]]
        /\ reader'[q] = [pc |-> "waiting", done |-> IF stopped THEN 0 ELSE runs',
                         need |-> heard, saw |-> 0, excused |-> FALSE]
    BY <1>9 DEF StartRead, IInv, TypeOK
  <2>3a. NewWorker.run = runs + 1 /\ NewWorker.pc = "next" /\ NewWorker.got = 0
    BY DEF NewWorker
  <2>4. TypeOK'
    <3>1. NewWorker \in Worker
      BY DEF NewWorker, Worker, Versions, IInv, TypeOK
    <3>2. runs' \in Nat /\ workers' \subseteq Worker
      BY <2>2, <3>1 DEF IInv, TypeOK
    <3>3. pending' \in BOOLEAN /\ running' \in BOOLEAN
      BY <2>2 DEF IInv, TypeOK
    <3>4. (IF stopped THEN 0 ELSE runs') \in Nat /\ heard \in Versions /\ 0 \in Versions
      BY <3>2 DEF IInv, TypeOK, Versions
    <3>5. reader'[q] \in Reader
      BY <2>3, <3>4 DEF Reader
    <3>6. reader' \in [Readers -> Reader]
      BY <2>3, <3>5 DEF IInv, TypeOK
    <3> QED
      BY <2>1, <3>2, <3>3, <3>6 DEF IInv, TypeOK
  <2>5. OneWorker' /\ Bounded' /\ Ahead'
    <3>1. OneWorker'
      BY <2>2, <2>3a DEF IInv, OneWorker
    <3>2. Bounded' /\ Ahead'
      BY <2>1, <2>2, <2>3a DEF IInv, Bounded, Ahead, TypeOK, Versions
    <3> QED
      BY <3>1, <3>2
  <2>6. StoppedFirst' /\ PendingRuns' /\ PassCovers' /\ Followed' /\ FreshListIsCurrent'
    BY <2>1, <2>2
    DEF IInv, StoppedFirst, PendingRuns, PassCovers, Followed, FreshListIsCurrent, NewWorker
  <2>7. ASSUME NEW r \in Readers PROVE ReadCovered(r)'
    <3>1. CASE r = q
      <4>1. reader'[q].done \in {0, runs'} /\ reader'[q].need = heard
        BY <2>3
      <4>2. ~stopped /\ ~running /\ running' = FALSE => (missed \/ published >= heard) /\ workers' = {}
        BY <2>1, <2>2 DEF IInv, OneWorker, PendingRuns, Followed
      <4>3. ~stopped => reader'[q].done = runs'
        BY <2>3
      <4>4. running => running'
        BY <2>2
      <4> QED
        BY <2>1, <2>4, <3>1, <4>1, <4>2, <4>3, <4>4
        DEF IInv, ReadCovered, Closed, TypeOK, Versions
    <3>2. CASE r # q
      <4>1. reader'[r] = reader[r] /\ reader[r] \in Reader
        BY <2>3, <3>2 DEF IInv, TypeOK
      <4>2. ReadCovered(r)
        BY DEF IInv, ReadsCovered
      <4> QED
        BY <2>1, <2>2, <4>1, <4>2
        DEF IInv, ReadCovered, Closed, NewWorker, TypeOK, Versions, Reader
    <3> QED
      BY <3>1, <3>2
  <2>8. AwaitedReadIsCurrent'
    BY <2>3 DEF IInv, AwaitedReadIsCurrent, TypeOK
  <2> QED
    BY <2>4, <2>5, <2>6, <2>7, <2>8 DEF IInv, ReadsCovered
<1>10. ASSUME NEW q \in Readers, ReadAwaited(q) \/ ReadGivesUp(q)
       PROVE  IInv'
  <2>1. UNCHANGED <<version, wire, handlerSet, held, stopped, running, pending, freshness, runs,
                    workers, published, ctxDone, heard, missed>>
    BY <1>10 DEF ReadAwaited, ReadGivesUp, Serve
  <2>2. PICK excuse \in BOOLEAN :
          /\ reader[q].pc = "waiting"
          /\ reader' = [reader EXCEPT ![q].pc = "served", ![q].saw = published, ![q].excused = excuse]
          /\ ~excuse => Closed(reader[q].done) /\ ~missed /\ ~stopped
    BY <1>10 DEF ReadAwaited, ReadGivesUp, Serve, IInv, TypeOK
  <2>3. TypeOK'
    <3>1. reader[q] \in Reader /\ published \in Versions
      BY DEF IInv, TypeOK
    <3>2. [reader[q] EXCEPT !.pc = "served", !.saw = published, !.excused = excuse] \in Reader
      BY <3>1, <2>2 DEF Reader
    <3>3. reader' \in [Readers -> Reader]
      BY <2>2, <3>2 DEF IInv, TypeOK
    <3> QED
      BY <2>1, <3>3 DEF IInv, TypeOK
  <2>4. OneWorker' /\ Bounded' /\ Ahead' /\ StoppedFirst' /\ PendingRuns'
    BY <2>1 DEF IInv, OneWorker, Bounded, Ahead, StoppedFirst, PendingRuns
  <2>5. PassCovers' /\ Followed' /\ FreshListIsCurrent'
    BY <2>1 DEF IInv, PassCovers, Followed, FreshListIsCurrent
  <2>6. ReadsCovered'
    BY <2>1, <2>2 DEF IInv, ReadsCovered, ReadCovered, Closed, TypeOK, Reader
  <2>7. AwaitedReadIsCurrent'
    BY <2>1, <2>2 DEF IInv, ReadsCovered, ReadCovered, AwaitedReadIsCurrent, TypeOK, Reader
  <2> QED
    BY <2>3, <2>4, <2>5, <2>6, <2>7 DEF IInv
<1>11. CASE Stop
  <2>1. TypeOK'
    BY <1>11 DEF IInv, Stop, TypeOK
  <2>2. OneWorker' /\ Bounded' /\ Ahead' /\ StoppedFirst' /\ PendingRuns' /\ PassCovers' /\ Followed'
    BY <1>11 DEF IInv, Stop, OneWorker, Bounded, Ahead, StoppedFirst, PendingRuns, PassCovers, Followed
  <2>3. FreshListIsCurrent' /\ AwaitedReadIsCurrent' /\ ReadsCovered'
    BY <1>11 DEF IInv, Stop, FreshListIsCurrent, AwaitedReadIsCurrent, ReadsCovered, ReadCovered, Closed
  <2> QED
    BY <2>1, <2>2, <2>3 DEF IInv
<1>12. CASE Cancel
  <2>1. TypeOK'
    BY <1>12 DEF IInv, Cancel, TypeOK
  <2>2. OneWorker' /\ Bounded' /\ Ahead' /\ StoppedFirst' /\ PendingRuns' /\ PassCovers' /\ Followed'
    BY <1>12 DEF IInv, Cancel, OneWorker, Bounded, Ahead, StoppedFirst, PendingRuns, PassCovers, Followed
  <2>3. FreshListIsCurrent' /\ AwaitedReadIsCurrent' /\ ReadsCovered'
    BY <1>12 DEF IInv, Cancel, FreshListIsCurrent, AwaitedReadIsCurrent, ReadsCovered, ReadCovered, Closed
  <2> QED
    BY <2>1, <2>2, <2>3 DEF IInv
<1>13. CASE UNCHANGED vars
  BY <1>13 DEF vars, IInv, TypeOK, OneWorker, Bounded, Ahead, StoppedFirst, PendingRuns, PassCovers,
     Followed, FreshListIsCurrent, AwaitedReadIsCurrent, ReadsCovered, ReadCovered, Closed
<1> QED
  BY <1>1, <1>2, <1>3, <1>4, <1>5, <1>6, <1>7, <1>8, <1>9, <1>10, <1>11, <1>12, <1>13
  DEF Next, WorkerStep

-----------------------------------------------------------------------------
(* The refresher's theorems *)

\* The invariant holds in every reachable state.
LEMMA Invariance == Spec => []IInv
  BY InitIInv, NextIInv, PTL DEF Spec

\* The refresher's state stays well formed; a list with a lifetime never turns
\* into one without, nor the reverse.
THEOREM TypeCorrect == Spec => []TypeOK
<1>1. IInv => TypeOK
  BY DEF IInv
<1> QED
  BY <1>1, Invariance, PTL

\* startLocked and next() never let two workers of one upstream live together,
\* and the running flag never outlives its worker.
THEOREM AtMostOneWorker == Spec => []OneWorker
<1>1. IInv => OneWorker
  BY DEF IInv
<1> QED
  BY <1>1, Invariance, PTL

\* published() never marks fresh a list that predates an announced change.
THEOREM FreshMeansCurrent == Spec => []FreshListIsCurrent
<1>1. IInv => FreshListIsCurrent
  BY DEF IInv
<1> QED
  BY <1>1, Invariance, PTL

\* A discovery read that waits for its done channel serves every change
\* announced before it began.
THEOREM AwaitedReadsAreCurrent == Spec => []AwaitedReadIsCurrent
<1>1. IInv => AwaitedReadIsCurrent
  BY DEF IInv
<1> QED
  BY <1>1, Invariance, PTL

\* No pass publishes an older list over a newer one.
THEOREM ListsOnlyAdvance == Spec => ListNeverGoesBack
<1>1. ASSUME IInv, [Next]_vars PROVE [published' >= published]_vars
  <2>1. CASE UNCHANGED published
    BY <1>1, <2>1 DEF IInv, TypeOK, Versions
  <2>2. ASSUME NEW w \in workers, Publish(w) PROVE published' >= published
    BY <1>1, <2>2 DEF Publish, IInv, TypeOK, Versions, Worker, Ahead
  <2> QED
    BY <1>1, <2>1, <2>2
    DEF Next, WorkerStep, vars, UpstreamChanges, LifetimeEnds, DeliverNotice, SetHandler, Next_,
        ListAnswered, ListingFails, StartRead, ReadAwaited, ReadGivesUp, Serve, Stop, Cancel
<1> QED
  BY <1>1, Invariance, PTL DEF Spec, ListNeverGoesBack

-----------------------------------------------------------------------------
(* Across reconnects: the inductive invariant *)

Loops == {"idle", "dial", "list", "swap", "attach", "publish"}

LinkTypeOK ==
    /\ conn \in Nat \ {0} /\ passConn \in Nat /\ from \in Nat /\ loop \in Loops
    /\ fetched \in Versions /\ newWire \subseteq Versions /\ newHeld \in Versions

\* Nothing is fetched or announced over either connection before the upstream has it, and a pass took
\* a connection there was.
LinkBounded ==
    /\ fetched <= version /\ newHeld <= version /\ (\A v \in newWire : v <= version)
    /\ passConn <= conn
    /\ handlerSet => held = 0

\* Announced over the connection in use.
Announced == version \in wire \cup {held, heard}

\* The newest list is published or announced; while a new connection is about to be swapped in, it was
\* fetched or is announced over that one, and after the swap it is fetched or announced.
NewestIsKnown ==
    ~ctxDone =>
        /\ loop \in {"idle", "dial", "list"} => Announced \/ published = version
        /\ loop = "swap" => version \in newWire \cup {newHeld, fetched}
        /\ loop \in {"attach", "publish"} => Announced \/ fetched = version

\* A pass over the connection in use listed nothing older than what is published or about to be.
PassIsRecent ==
    \A w \in workers :
        w.pc = "publish" /\ PassIsCurrent =>
            w.got >= published /\ (loop \in {"attach", "publish"} => w.got >= fetched)

IInvR ==
    /\ TypeOK /\ OneWorker /\ Bounded /\ LinkTypeOK /\ LinkBounded
    /\ NewestIsKnown /\ PassIsRecent /\ ListIsOfThisConnection

-----------------------------------------------------------------------------
(* What the refresher's own steps keep, whatever connection they use *)

Base == TypeOK /\ OneWorker /\ Bounded

\* The worker that is alive is the only one.
LEMMA SoleWorker ==
  ASSUME Base, NEW w \in workers
  PROVE  workers = {w} /\ running /\ w.run = runs /\ w \in Worker /\ w.got <= version
  BY DEF Base, OneWorker, TypeOK, Bounded

\* A request for a pass starts a worker that has listed nothing, or changes no worker.
LEMMA RequestKeeps ==
  ASSUME Base, requestToolRefresh
  PROVE  /\ freshness' \in ListedFreshness /\ pending' \in BOOLEAN /\ running' \in BOOLEAN
         /\ runs' \in Nat /\ workers' \subseteq Worker
         /\ workers' \in {workers, {NewWorker}}
         /\ OneWorker'
<1>1. \/ UNCHANGED <<freshness, pending, running, runs, workers>>
      \/ /\ freshness' = Expire(freshness) /\ pending' = TRUE /\ running' = TRUE
         /\ \/ running /\ UNCHANGED <<runs, workers>>
            \/ ~running /\ runs' = runs + 1 /\ workers' = {NewWorker}
  BY DEF Base, OneWorker, requestToolRefresh, request, startLocked
<1>2. NewWorker \in Worker /\ NewWorker.run = runs + 1
  BY ConstantsAssumption DEF NewWorker, Worker, Versions, Base, TypeOK
<1>3. freshness' \in ListedFreshness
  BY <1>1 DEF Base, TypeOK, ListedFreshness, Expire
<1>4. /\ pending' \in BOOLEAN /\ running' \in BOOLEAN /\ runs' \in Nat
      /\ workers' \subseteq Worker /\ workers' \in {workers, {NewWorker}}
  <2>1. pending' \in BOOLEAN /\ running' \in BOOLEAN
    BY <1>1 DEF Base, TypeOK
  <2>2. runs' \in Nat /\ (workers' = workers \/ workers' = {NewWorker})
    BY <1>1 DEF Base, TypeOK
  <2>3. workers' \subseteq Worker
    BY <1>2, <2>2 DEF Base, TypeOK
  <2> QED
    BY <2>1, <2>2, <2>3
<1>5. OneWorker'
  BY <1>1, <1>2 DEF Base, OneWorker
<1> QED
  BY <1>3, <1>4, <1>5

\* A notice handed to the refresher keeps its state well formed and bounded.
LEMMA NoticeKeeps ==
  ASSUME Base, NEW v \in Versions, v <= version, requestToolRefresh, heard' = Newer(heard, v),
         wire' \subseteq wire, held' \in {0, held}, handlerSet' \in BOOLEAN,
         UNCHANGED <<version, stopped, published, ctxDone, reader, missed>>
  PROVE  Base'
<1>1. heard' \in Versions /\ heard' <= version /\ held' \in Versions /\ held' <= version
  BY ConstantsAssumption DEF Base, TypeOK, Bounded, Newer, Versions
<1>2. TypeOK'
  BY <1>1, RequestKeeps DEF Base, TypeOK
<1>3. NewWorker.got = 0 /\ 0 <= version
  BY ConstantsAssumption DEF NewWorker, Base, TypeOK, Versions
<1>4. Bounded'
  BY <1>1, <1>3, RequestKeeps DEF Base, Bounded
<1> QED
  BY <1>2, <1>4, RequestKeeps DEF Base

\* One version announced over the connection in use arrives, or the handler is attached.
LEMMA NoticesKeep ==
  ASSUME Base, (\E v \in wire : DeliverNotice(v)) \/ SetHandler
  PROVE  Base'
<1>1. ASSUME NEW v \in wire, DeliverNotice(v)
      PROVE  Base'
  <2>1. v \in Versions /\ v <= version
    BY DEF Base, TypeOK, Bounded
  <2>2. CASE handlerSet
    BY <1>1, <2>1, <2>2, NoticeKeeps DEF DeliverNotice, Base, TypeOK
  <2>3. CASE ~handlerSet
    <3>1. held' \in Versions /\ held' <= version
      BY <1>1, <2>1, <2>3 DEF DeliverNotice, Newer, Base, TypeOK, Bounded
    <3> QED
      BY <1>1, <2>3, <3>1 DEF DeliverNotice, Base, TypeOK, OneWorker, Bounded
  <2> QED
    BY <2>2, <2>3
<1>2. CASE SetHandler
  <2>1. CASE held # 0
    <3>1. held \in Versions /\ held <= version
      BY DEF Base, TypeOK, Bounded
    <3> QED
      BY <1>2, <2>1, <3>1, NoticeKeeps DEF SetHandler
  <2>2. CASE held = 0
    BY <1>2, <2>2 DEF SetHandler, Base, TypeOK, OneWorker, Bounded
  <2> QED
    BY <2>1, <2>2
<1> QED
  BY <1>1, <1>2

\* The worker's steps, the version it is about to publish being one the upstream had.
LEMMA WorkerKeeps ==
  ASSUME Base, NEW w \in workers, WorkerStep(w)
  PROVE  Base'
<1>1. workers = {w} /\ running /\ w.run = runs /\ w \in Worker /\ w.got <= version
  BY SoleWorker
<1>2. CASE Next_(w)
  <2>1. \/ running' = FALSE /\ workers' = {} /\ pending' = pending
        \/ running' = TRUE /\ pending' = FALSE /\ workers' = {[w EXCEPT !.pc = "list"]}
    BY <1>1, <1>2 DEF Next_, Becomes
  <2>2. UNCHANGED <<version, wire, handlerSet, held, stopped, freshness, runs, published, ctxDone,
                    reader, heard, missed>>
    BY <1>2 DEF Next_
  <2>3. TypeOK'
    BY <1>1, <2>1, <2>2 DEF Base, TypeOK, Worker
  <2>4. OneWorker'
    <3>1. CASE workers' = {}
      BY <2>1, <3>1 DEF OneWorker
    <3>2. CASE workers' = {[w EXCEPT !.pc = "list"]}
      <4>1. [w EXCEPT !.pc = "list"].run = runs'
        BY <1>1, <2>2 DEF Worker
      <4> QED
        BY <2>1, <3>2, <4>1 DEF OneWorker
    <3> QED
      BY <2>1, <3>1, <3>2
  <2>5. Bounded'
    BY <1>1, <2>1, <2>2 DEF Base, Bounded, Worker
  <2> QED
    BY <2>3, <2>4, <2>5 DEF Base
<1>3. CASE ListAnswered(w)
  <2>1. workers' = {[w EXCEPT !.pc = "publish", !.got = version]}
    BY <1>1, <1>3 DEF ListAnswered, Becomes
  <2>2. UNCHANGED <<version, wire, handlerSet, held, stopped, running, pending, freshness, runs,
                    published, ctxDone, reader, heard, missed>>
    BY <1>3 DEF ListAnswered
  <2>3. TypeOK'
    BY <1>1, <2>1, <2>2 DEF Base, TypeOK, Worker
  <2>4. OneWorker'
    BY <1>1, <2>1, <2>2 DEF Base, OneWorker, Worker
  <2>5. version <= version
    BY ConstantsAssumption DEF Base, TypeOK, Versions
  <2>6. Bounded'
    BY <1>1, <2>1, <2>2, <2>5 DEF Base, Bounded, Worker
  <2> QED
    BY <2>3, <2>4, <2>6 DEF Base
<1>4. CASE ListingFails(w)
  <2>1. workers' = {[w EXCEPT !.pc = "next"]}
    BY <1>1, <1>4 DEF ListingFails, Becomes
  <2> QED
    BY <1>1, <1>4, <2>1 DEF ListingFails, Base, TypeOK, OneWorker, Bounded, Worker
<1>5. CASE Publish(w)
  <2>1. workers' = {[w EXCEPT !.pc = "next"]}
    BY <1>1, <1>5 DEF Publish, Becomes
  <2>2. published' \in {published, w.got} /\ freshness' \in ListedFreshness /\ missed' \in BOOLEAN
    BY <1>5 DEF Publish, publishedFreshness, Base, TypeOK
  <2> QED
    BY <1>1, <1>5, <2>1, <2>2 DEF Publish, Base, TypeOK, OneWorker, Bounded, Worker
<1> QED
  BY <1>2, <1>3, <1>4, <1>5 DEF WorkerStep

\* A discovery read starts a worker that has listed nothing, or none.
LEMMA ReadKeeps ==
  ASSUME Base, NEW r \in Readers, StartRead(r) \/ ReadAwaited(r) \/ ReadGivesUp(r)
  PROVE  Base'
<1>1. reader[r] \in Reader /\ published \in Versions /\ heard \in Versions /\ 0 \in Versions
  BY ConstantsAssumption DEF Base, TypeOK, Versions
<1>2. CASE StartRead(r)
  <2>1. NewWorker \in Worker /\ NewWorker.run = runs + 1 /\ NewWorker.got = 0 /\ 0 <= version
    BY <1>1 DEF NewWorker, Worker, Versions, Base, TypeOK
  <2>2. \/ /\ pending' = TRUE /\ running' = TRUE /\ runs' = runs + 1 /\ workers' = {NewWorker}
           /\ ~running
        \/ UNCHANGED <<pending, running, runs, workers>>
    BY <1>2 DEF StartRead, startLocked, Base, OneWorker
  <2>3. runs' \in Nat /\ workers' \subseteq Worker /\ pending' \in BOOLEAN /\ running' \in BOOLEAN
    <3>1. runs' \in Nat /\ workers' \subseteq Worker
      BY <2>1, <2>2 DEF Base, TypeOK
    <3>2. pending' \in BOOLEAN /\ running' \in BOOLEAN
      BY <2>2 DEF Base, TypeOK
    <3> QED
      BY <3>1, <3>2
  <2>4. [pc |-> "waiting", done |-> IF stopped THEN 0 ELSE runs',
         need |-> heard, saw |-> 0, excused |-> FALSE] \in Reader
    BY <1>1, <2>3 DEF Reader
  <2>5. reader' \in [Readers -> Reader]
    BY <1>2, <2>4 DEF StartRead, Base, TypeOK
  <2>6. TypeOK'
    BY <1>2, <2>3, <2>5 DEF StartRead, Base, TypeOK
  <2>7. OneWorker'
    BY <2>1, <2>2 DEF Base, OneWorker
  <2>8. Bounded'
    BY <1>2, <2>1, <2>2 DEF StartRead, Base, Bounded
  <2> QED
    BY <2>6, <2>7, <2>8 DEF Base
<1>3. CASE ReadAwaited(r) \/ ReadGivesUp(r)
  <2>1. PICK excuse \in BOOLEAN : Serve(r, excuse)
    BY <1>3 DEF ReadAwaited, ReadGivesUp, Base, TypeOK
  <2>2. [reader[r] EXCEPT !.pc = "served", !.saw = published, !.excused = excuse] \in Reader
    BY <1>1 DEF Reader
  <2>3. reader' \in [Readers -> Reader]
    BY <2>1, <2>2 DEF Serve, Base, TypeOK
  <2> QED
    BY <2>1, <2>3 DEF Serve, Base, TypeOK, OneWorker, Bounded
<1> QED
  BY <1>2, <1>3

-----------------------------------------------------------------------------
(* The steps that replace the connection *)

\* Initially nothing is under way on the one connection there is.
LEMMA InitIInvR == InitR => IInvR
<1> SUFFICES ASSUME InitR PROVE IInvR
  OBVIOUS
<1>1. TypeOK /\ OneWorker /\ Bounded
  BY InitIInv DEF InitR, IInv
<1>2. LinkTypeOK
  BY ConstantsAssumption DEF InitR, LinkTypeOK, Loops, Versions
<1>3. LinkBounded /\ NewestIsKnown /\ PassIsRecent /\ ListIsOfThisConnection
  BY DEF InitR, Init, LinkBounded, NewestIsKnown, Announced, PassIsRecent, ListIsOfThisConnection
<1> QED
  BY <1>1, <1>2, <1>3 DEF IInvR

\* The upstream announces a change over both connections.
LEMMA ChangesIInvR == IInvR /\ Changes => IInvR'
<1> SUFFICES ASSUME IInvR, Changes PROVE IInvR'
  OBVIOUS
<1>1. /\ version' = version + 1 /\ version' \in Versions /\ wire' = wire \cup {version'}
      /\ UNCHANGED <<handlerSet, held, stopped, running, pending, freshness, runs,
                     workers, published, ctxDone, reader, heard, missed>>
      /\ UNCHANGED <<conn, passConn, loop, fetched, newHeld, from>>
  BY ConstantsAssumption DEF Changes, UpstreamChanges, IInvR, TypeOK, Versions
<1>2. newWire' \subseteq Versions /\ (loop = "swap" => version' \in newWire')
  BY <1>1 DEF Changes, IInvR, LinkTypeOK
<1>3. TypeOK' /\ OneWorker'
  BY <1>1 DEF IInvR, TypeOK, OneWorker
<1>4. Bounded' /\ LinkBounded'
  <2>1. \A v \in Nat : v <= version => v <= version'
    BY <1>1, ConstantsAssumption DEF IInvR, TypeOK, Versions
  <2>2. version' <= version' /\ \A v \in Versions : v \in Nat
    BY <1>1, ConstantsAssumption DEF Versions
  <2>3. Bounded'
    BY <1>1, <2>1, <2>2 DEF IInvR, Bounded, TypeOK, Worker
  <2>4. newWire' \subseteq newWire \cup {version'}
    BY DEF Changes
  <2>5. LinkBounded'
    BY <1>1, <2>1, <2>2, <2>4 DEF IInvR, LinkBounded, LinkTypeOK
  <2> QED
    BY <2>3, <2>5
<1>5. LinkTypeOK'
  BY <1>1, <1>2 DEF IInvR, LinkTypeOK
<1>6. NewestIsKnown'
  BY <1>1, <1>2 DEF NewestIsKnown, Announced
<1>7. PassIsRecent' /\ ListIsOfThisConnection'
  BY <1>1 DEF IInvR, PassIsRecent, PassIsCurrent, ListIsOfThisConnection
<1> QED
  BY <1>3, <1>4, <1>5, <1>6, <1>7 DEF IInvR

\* What the refresher hears, by whichever step, stays announced; a worker a notice starts has
\* listed nothing.
LEMMA HeardIInvR ==
  ASSUME IInvR, Base', UNCHANGED link, UNCHANGED <<version, published, ctxDone>>,
         Announced => Announced', handlerSet' => held' = 0,
         workers' \in {workers, {NewWorker}}
  PROVE  IInvR'
<1>1. LinkTypeOK' /\ LinkBounded' /\ ListIsOfThisConnection'
  BY DEF link, IInvR, LinkTypeOK, LinkBounded, ListIsOfThisConnection
<1>2. NewestIsKnown'
  BY DEF link, IInvR, NewestIsKnown
<1>3. PassIsRecent'
  BY DEF link, IInvR, PassIsRecent, PassIsCurrent, NewWorker
<1> QED
  BY <1>1, <1>2, <1>3 DEF IInvR, Base

\* A notice is delivered over the connection in use, or its handler is attached.
LEMMA AnnouncedStays ==
  ASSUME Base, handlerSet => held = 0, (\E v \in wire : DeliverNotice(v)) \/ SetHandler
  PROVE  /\ Announced => Announced'
         /\ handlerSet' => held' = 0
         /\ UNCHANGED <<version, published, ctxDone>>
         /\ workers' \in {workers, {NewWorker}}
<1>1. version \in Versions /\ heard \in Versions /\ held \in Versions /\ heard <= version /\ held <= version
  BY DEF Base, TypeOK, Bounded
<1>2. ASSUME NEW v \in wire, DeliverNotice(v)
      PROVE  /\ Announced => Announced'
             /\ handlerSet' => held' = 0
             /\ UNCHANGED <<version, published, ctxDone>>
             /\ workers' \in {workers, {NewWorker}}
  <2>1. v \in Versions /\ v <= version /\ wire' = wire \ {v}
    BY <1>2 DEF Base, TypeOK, Bounded, DeliverNotice
  <2>2. UNCHANGED <<version, handlerSet, published, ctxDone>>
    BY <1>2 DEF DeliverNotice
  <2>3. CASE handlerSet
    <3>1. heard' = Newer(heard, v) /\ held' = held
      BY <1>2, <2>3 DEF DeliverNotice
    <3>2. workers' \in {workers, {NewWorker}}
      BY <1>2, <2>3, RequestKeeps DEF DeliverNotice
    <3>3. Announced => Announced'
      BY <1>1, <2>1, <2>2, <3>1 DEF Announced, Newer, Versions
    <3> QED
      BY <2>2, <2>3, <3>1, <3>2, <3>3
  <2>4. CASE ~handlerSet
    <3>1. held' = Newer(held, v) /\ UNCHANGED <<heard, workers>>
      BY <1>2, <2>4 DEF DeliverNotice
    <3>2. Announced => Announced'
      BY <1>1, <2>1, <2>2, <3>1 DEF Announced, Newer, Versions
    <3> QED
      BY <2>2, <2>4, <3>1, <3>2
  <2> QED
    BY <2>3, <2>4
<1>3. CASE SetHandler
  <2>1. UNCHANGED <<version, wire, published, ctxDone>> /\ held' = 0
    BY <1>3 DEF SetHandler
  <2>2. workers' \in {workers, {NewWorker}}
    BY <1>3, RequestKeeps DEF SetHandler
  <2>3. heard' = IF held # 0 THEN Newer(heard, held) ELSE heard
    BY <1>3 DEF SetHandler
  <2>4. Announced => Announced'
    BY <1>1, <2>1, <2>3 DEF Announced, Newer, Versions
  <2> QED
    BY <2>1, <2>2, <2>4
<1> QED
  BY <1>2, <1>3

\* Notices, discovery reads, an ended lifetime and shutdown leave the connection alone.
LEMMA QuietStepsIInvR == IInvR /\ (Notices \/ Others) => IInvR'
<1> SUFFICES ASSUME IInvR, Notices \/ Others PROVE IInvR'
  OBVIOUS
<1>1. Base /\ (handlerSet => held = 0) /\ UNCHANGED link
  BY DEF IInvR, Base, LinkBounded, Notices, Others
<1>2. CASE Notices
  <2>1. (\E v \in wire : DeliverNotice(v)) \/ SetHandler
    BY <1>2 DEF Notices
  <2> QED
    BY <1>1, <2>1, NoticesKeep, AnnouncedStays, HeardIInvR
<1>3. CASE LifetimeEnds
  <2>1. Base'
    BY <1>1, <1>3 DEF LifetimeEnds, Base, TypeOK, OneWorker, Bounded, ListedFreshness
  <2> QED
    BY <1>1, <1>3, <2>1, HeardIInvR DEF LifetimeEnds, Announced
<1>4. ASSUME NEW r \in Readers, StartRead(r) \/ ReadAwaited(r) \/ ReadGivesUp(r)
      PROVE  IInvR'
  <2>1. Base'
    BY <1>1, <1>4, ReadKeeps
  <2>2. UNCHANGED <<version, wire, handlerSet, held, published, ctxDone, heard>>
    BY <1>4 DEF StartRead, ReadAwaited, ReadGivesUp, Serve
  <2>3. workers' \in {workers, {NewWorker}}
    BY <1>1, <1>4 DEF StartRead, startLocked, ReadAwaited, ReadGivesUp, Serve, Base, OneWorker
  <2> QED
    BY <1>1, <2>1, <2>2, <2>3, HeardIInvR DEF Announced
<1>5. CASE Stop
  <2>1. Base'
    BY <1>1, <1>5 DEF Stop, Base, TypeOK, OneWorker, Bounded
  <2> QED
    BY <1>1, <1>5, <2>1, HeardIInvR DEF Stop, Announced
<1>6. CASE Cancel
  BY <1>1, <1>6 DEF Cancel, link, IInvR, TypeOK, OneWorker, Bounded, LinkTypeOK, LinkBounded,
     NewestIsKnown, PassIsRecent, PassIsCurrent, ListIsOfThisConnection
<1> QED
  BY <1>2, <1>3, <1>4, <1>5, <1>6 DEF Others

\* A pass takes the connection in use, and lists what is newest then.
LEMMA PassIInvR == IInvR /\ (TakePass \/ TakeConn \/ ListPass \/ ListPassFails) => IInvR'
<1> SUFFICES ASSUME IInvR, TakePass \/ TakeConn \/ ListPass \/ ListPassFails PROVE IInvR'
  OBVIOUS
<1>1. Base
  BY DEF IInvR, Base
<1>2. /\ UNCHANGED <<version, wire, handlerSet, held, published, ctxDone, heard>>
      /\ UNCHANGED <<conn, loop, fetched, newWire, newHeld, from>>
      /\ passConn' \in {0, passConn, conn}
  BY DEF TakePass, TakeConn, ListPass, ListPassFails, Next_, ListAnswered, ListingFails, link, vars
<1>3. LinkTypeOK' /\ LinkBounded' /\ NewestIsKnown' /\ ListIsOfThisConnection'
  BY <1>2 DEF IInvR, LinkTypeOK, LinkBounded, NewestIsKnown, Announced, ListIsOfThisConnection
<1>4. /\ fetched <= version /\ published <= version /\ conn # 0
      /\ version \in Nat /\ published \in Nat /\ fetched \in Nat
  BY DEF IInvR, LinkBounded, LinkTypeOK, Bounded, TypeOK, Versions
<1>5. CASE TakePass
  <2>1. Base'
    BY <1>1, <1>5, WorkerKeeps DEF TakePass, WorkerStep
  <2>2. PassIsRecent'
    BY <1>2, <1>4, <1>5 DEF TakePass, PassIsRecent, PassIsCurrent
  <2> QED
    BY <1>3, <2>1, <2>2 DEF IInvR, Base
<1>6. CASE TakeConn
  <2>1. UNCHANGED vars
    BY <1>6 DEF TakeConn
  <2>2. Base'
    BY <1>1, <2>1 DEF vars, Base, TypeOK, OneWorker, Bounded
  <2>3. \A w \in workers : w.pc = "list"
    BY <1>1, <1>6, SoleWorker DEF TakeConn
  <2>4. PassIsRecent'
    BY <2>1, <2>3 DEF vars, PassIsRecent
  <2> QED
    BY <1>3, <2>2, <2>4 DEF IInvR, Base
<1>7. CASE ListPass
  <2>1. PICK w \in workers : ListAnswered(w)
    BY <1>7 DEF ListPass
  <2>2. Base'
    BY <1>1, <2>1, WorkerKeeps DEF WorkerStep
  <2>3. workers' = {[w EXCEPT !.pc = "publish", !.got = version]} /\ w \in Worker
    BY <1>1, <2>1, SoleWorker DEF ListAnswered, Becomes
  <2>4. PassIsRecent'
    BY <1>2, <1>4, <2>3 DEF PassIsRecent, Worker
  <2> QED
    BY <1>3, <2>2, <2>4 DEF IInvR, Base
<1>8. CASE ListPassFails
  <2>1. PICK w \in workers : ListingFails(w)
    BY <1>8 DEF ListPassFails
  <2>2. Base'
    BY <1>1, <2>1, WorkerKeeps DEF WorkerStep
  <2>3. workers' = {[w EXCEPT !.pc = "next"]} /\ w \in Worker
    BY <1>1, <2>1, SoleWorker DEF ListingFails, Becomes
  <2>4. PassIsRecent'
    BY <2>3 DEF PassIsRecent, Worker
  <2> QED
    BY <1>3, <2>2, <2>4 DEF IInvR, Base
<1> QED
  BY <1>5, <1>6, <1>7, <1>8

\* A pass over the connection in use publishes what it listed there, any other publishes nothing.
LEMMA PublishPassIInvR == IInvR /\ PublishPass => IInvR'
<1> SUFFICES ASSUME IInvR, PublishPass PROVE IInvR'
  OBVIOUS
<1>1. Base
  BY DEF IInvR, Base
<1>2. PICK w \in workers :
        IF PassIsCurrent
        THEN Publish(w)
        ELSE /\ w.pc = "publish"
             /\ Becomes(w, [w EXCEPT !.pc = "next"])
             /\ missed' = TRUE
             /\ UNCHANGED <<version, wire, handlerSet, held, stopped, running, pending,
                            freshness, runs, published, ctxDone, reader, heard>>
  BY DEF PublishPass
<1>3. workers = {w} /\ running /\ w.run = runs /\ w \in Worker /\ w.got <= version
  BY <1>1, SoleWorker
<1>4. /\ workers' = {[w EXCEPT !.pc = "next"]} /\ w.pc = "publish"
      /\ UNCHANGED <<version, wire, handlerSet, held, stopped, running, pending, runs, ctxDone,
                     reader, heard>>
  BY <1>2, <1>3 DEF Publish, Becomes
<1>5. UNCHANGED <<conn, passConn, loop, fetched, newWire, newHeld>>
  BY DEF PublishPass
<1>6. published' = IF PassIsCurrent /\ ~ctxDone THEN w.got ELSE published
  BY <1>2 DEF Publish
<1>7. from' = IF PassIsCurrent /\ ~ctxDone THEN conn ELSE from
  BY DEF PublishPass, PassIsCurrent
<1>8. PassIsCurrent =>
        /\ w.got >= published
        /\ loop \in {"attach", "publish"} => w.got >= fetched
  BY <1>4 DEF IInvR, PassIsRecent
<1>9. Base'
  <2>1. CASE PassIsCurrent
    BY <1>1, <1>2, <2>1, WorkerKeeps DEF WorkerStep
  <2>2. CASE ~PassIsCurrent
    BY <1>1, <1>2, <1>3, <1>4, <2>2 DEF Base, TypeOK, OneWorker, Bounded, Worker
  <2> QED
    BY <2>1, <2>2
<1>10. LinkTypeOK' /\ LinkBounded' /\ ListIsOfThisConnection'
  BY <1>4, <1>5, <1>7 DEF IInvR, LinkTypeOK, LinkBounded, ListIsOfThisConnection
<1>11. NewestIsKnown'
  <2>1. published = version => published' = version
    BY <1>3, <1>6, <1>8 DEF IInvR, TypeOK, Versions, Worker
  <2> QED
    BY <1>4, <1>5, <2>1 DEF IInvR, NewestIsKnown, Announced
<1>12. PassIsRecent'
  BY <1>3, <1>4 DEF PassIsRecent, Worker
<1> QED
  BY <1>9, <1>10, <1>11, <1>12 DEF IInvR, Base

\* The loop's steps that neither swap a connection in nor publish leave the refresher alone.
LEMMA DialingIInvR ==
  IInvR /\ (\/ MaybeReconnect \/ ReconnectDial \/ ReconnectLists \/ ReconnectListFails
            \/ ReconnectEnds \/ \E v \in newWire : DeliverNew(v))
    => IInvR'
<1> SUFFICES ASSUME IInvR,
                    \/ MaybeReconnect \/ ReconnectDial \/ ReconnectLists \/ ReconnectListFails
                    \/ ReconnectEnds \/ \E v \in newWire : DeliverNew(v)
             PROVE IInvR'
  OBVIOUS
<1>1. UNCHANGED vars /\ UNCHANGED <<conn, passConn, from>>
  BY DEF MaybeReconnect, ReconnectDial, ReconnectLists, ReconnectListFails, ReconnectEnds, DeliverNew
<1>2. TypeOK' /\ OneWorker' /\ Bounded'
  BY <1>1 DEF vars, IInvR, TypeOK, OneWorker, Bounded
<1>3. /\ loop' \in Loops /\ fetched' \in {fetched, version}
      /\ loop \notin {"attach", "publish"} /\ loop' \notin {"attach", "publish"}
    \/ /\ loop' = loop /\ fetched' = fetched
  BY DEF MaybeReconnect, ReconnectDial, ReconnectLists, ReconnectListFails, ReconnectEnds,
         DeliverNew, Loops
<1>4. version \in Versions /\ 0 \in Versions
  BY ConstantsAssumption DEF IInvR, TypeOK, Versions
<1>5. newWire' \subseteq Versions /\ newHeld' \in Versions
  BY <1>4 DEF IInvR, LinkTypeOK, Newer,
     MaybeReconnect, ReconnectDial, ReconnectLists, ReconnectListFails, ReconnectEnds, DeliverNew
<1>6. LinkTypeOK'
  BY <1>1, <1>3, <1>4, <1>5 DEF IInvR, LinkTypeOK
<1>7. LinkBounded'
  <2>1. newHeld' <= version /\ newWire' \subseteq newWire
    BY <1>4 DEF IInvR, LinkTypeOK, LinkBounded, Newer, Versions,
       MaybeReconnect, ReconnectDial, ReconnectLists, ReconnectListFails, ReconnectEnds, DeliverNew
  <2> QED
    BY <1>1, <1>3, <1>4, <2>1 DEF vars, IInvR, LinkBounded, Versions
<1>8. PassIsRecent' /\ ListIsOfThisConnection'
  BY <1>1, <1>3 DEF vars, IInvR, PassIsRecent, PassIsCurrent, ListIsOfThisConnection
<1>9. NewestIsKnown'
  <2>1. UNCHANGED <<ctxDone, version, published>> /\ Announced' = Announced
    BY <1>1 DEF vars, Announced
  <2>2. CASE \/ MaybeReconnect \/ ReconnectDial \/ ReconnectLists \/ ReconnectListFails \/ ReconnectEnds
    BY <2>1, <2>2 DEF IInvR, NewestIsKnown,
       MaybeReconnect, ReconnectDial, ReconnectLists, ReconnectListFails, ReconnectEnds
  <2>3. ASSUME NEW v \in newWire, DeliverNew(v)
        PROVE  NewestIsKnown'
    <3>1. UNCHANGED <<loop, fetched>> /\ newWire' = newWire \ {v} /\ newHeld' = Newer(newHeld, v)
      BY <2>3 DEF DeliverNew
    <3>2. newHeld <= version /\ v <= version /\ newHeld \in Nat /\ v \in Nat /\ version \in Nat
      BY <1>4 DEF IInvR, LinkTypeOK, LinkBounded, Versions
    <3>3. version \in newWire \cup {newHeld} => version \in newWire' \cup {newHeld'}
      BY <3>1, <3>2 DEF Newer
    <3> QED
      BY <2>1, <3>1, <3>3 DEF IInvR, NewestIsKnown
  <2> QED
    BY <2>2, <2>3
<1> QED
  BY <1>2, <1>6, <1>7, <1>8, <1>9 DEF IInvR

\* The swap makes the new connection's notices those of the connection in use; no pass took it yet.
LEMMA SwapIInvR == IInvR /\ SwapConn => IInvR'
<1> SUFFICES ASSUME IInvR, SwapConn PROVE IInvR'
  OBVIOUS
<1>1. /\ UNCHANGED <<version, stopped, running, pending, freshness, runs, workers, published,
                     ctxDone, reader, heard, missed, passConn, fetched, from>>
      /\ newWire' = {} /\ newHeld' = 0 /\ 0 \in Versions /\ 0 <= version /\ loop = "swap"
  BY ConstantsAssumption DEF SwapConn, Versions, IInvR, TypeOK
<1>2. CASE ctxDone
  <2>1. loop' = "idle" /\ UNCHANGED <<conn, wire, handlerSet, held>>
    BY <1>2 DEF SwapConn
  <2>2. TypeOK' /\ OneWorker' /\ Bounded'
    BY <1>1, <2>1 DEF IInvR, TypeOK, OneWorker, Bounded
  <2>3. LinkTypeOK' /\ LinkBounded'
    BY <1>1, <2>1 DEF IInvR, LinkTypeOK, Loops, LinkBounded
  <2>4. NewestIsKnown' /\ PassIsRecent' /\ ListIsOfThisConnection'
    BY <1>1, <1>2, <2>1 DEF IInvR, NewestIsKnown, PassIsRecent, PassIsCurrent, ListIsOfThisConnection
  <2> QED
    BY <2>2, <2>3, <2>4 DEF IInvR
<1>3. CASE ~ctxDone
  <2>1. /\ loop' = "attach" /\ conn' = conn + 1
        /\ wire' = newWire /\ handlerSet' = FALSE /\ held' = newHeld
    BY <1>3 DEF SwapConn, Inherited
  <2>2. TypeOK' /\ OneWorker'
    BY <1>1, <2>1 DEF IInvR, TypeOK, OneWorker, LinkTypeOK
  <2>3. Bounded'
    BY <1>1, <2>1 DEF IInvR, Bounded, LinkBounded
  <2>4. LinkTypeOK' /\ LinkBounded'
    <3>1. conn' \in Nat \ {0} /\ passConn <= conn'
      BY <2>1 DEF IInvR, LinkTypeOK, LinkBounded
    <3>2. LinkTypeOK'
      BY <1>1, <2>1, <3>1 DEF IInvR, LinkTypeOK, Loops
    <3>3. LinkBounded'
      BY <1>1, <2>1, <3>1 DEF IInvR, LinkBounded
    <3> QED
      BY <3>2, <3>3
  <2>5. NewestIsKnown'
    BY <1>1, <1>3, <2>1 DEF IInvR, NewestIsKnown, Announced
  <2>6. PassIsRecent'
    BY <1>1, <2>1 DEF IInvR, PassIsRecent, PassIsCurrent, LinkTypeOK, LinkBounded
  <2>7. ListIsOfThisConnection'
    BY <2>1 DEF ListIsOfThisConnection
  <2> QED
    BY <2>2, <2>3, <2>4, <2>5, <2>6, <2>7 DEF IInvR
<1> QED
  BY <1>2, <1>3

\* The handler is attached to the new connection, then its list is published.
LEMMA AttachIInvR == IInvR /\ AttachNotificationHandler => IInvR'
<1> SUFFICES ASSUME IInvR, AttachNotificationHandler PROVE IInvR'
  OBVIOUS
<1>1. Base /\ (handlerSet => held = 0) /\ SetHandler
  BY DEF IInvR, Base, LinkBounded, AttachNotificationHandler
<1>2. Base'
  BY <1>1, NoticesKeep
<1>3. /\ Announced => Announced'
      /\ handlerSet' => held' = 0
      /\ UNCHANGED <<version, published, ctxDone>>
      /\ workers' \in {workers, {NewWorker}}
  BY <1>1, AnnouncedStays
<1>4. loop = "attach" /\ loop' = "publish" /\ UNCHANGED <<conn, passConn, fetched, newWire, newHeld, from>>
  BY DEF AttachNotificationHandler
<1>5. LinkTypeOK' /\ LinkBounded' /\ ListIsOfThisConnection'
  BY <1>3, <1>4 DEF IInvR, LinkTypeOK, Loops, LinkBounded, ListIsOfThisConnection
<1>6. NewestIsKnown' /\ PassIsRecent'
  BY <1>3, <1>4 DEF IInvR, NewestIsKnown, PassIsRecent, PassIsCurrent, NewWorker
<1> QED
  BY <1>2, <1>5, <1>6 DEF IInvR, Base

\* The reconnect's own list is the newest the registry can have, unless a newer one is announced.
LEMMA PublishReconnectedIInvR == IInvR /\ PublishReconnectedTools => IInvR'
<1> SUFFICES ASSUME IInvR, PublishReconnectedTools PROVE IInvR'
  OBVIOUS
<1>1. /\ UNCHANGED <<version, wire, handlerSet, held, stopped, running, pending, runs, workers,
                     ctxDone, reader, heard, missed, conn, passConn, fetched, newWire, newHeld>>
      /\ loop = "publish" /\ loop' = "idle"
  BY DEF PublishReconnectedTools
<1>2. /\ ctxDone => published' = published /\ from' = from
      /\ ~ctxDone => published' = fetched /\ from' = conn
      /\ freshness' \in ListedFreshness
  BY DEF PublishReconnectedTools, IsCurrentUpstreamConn, publishedFreshness, IInvR, TypeOK
<1>3. TypeOK' /\ OneWorker' /\ Bounded'
  BY <1>1, <1>2 DEF IInvR, TypeOK, OneWorker, Bounded, LinkTypeOK, LinkBounded
<1>4. LinkTypeOK' /\ LinkBounded' /\ ListIsOfThisConnection'
  BY <1>1, <1>2 DEF IInvR, LinkTypeOK, Loops, LinkBounded, ListIsOfThisConnection
<1>5. NewestIsKnown' /\ PassIsRecent'
  BY <1>1, <1>2 DEF IInvR, NewestIsKnown, Announced, PassIsRecent, PassIsCurrent
<1> QED
  BY <1>3, <1>4, <1>5 DEF IInvR

\* No step of the refresher, the upstream or the reconnect loop breaks the invariant.
LEMMA NextIInvR == IInvR /\ [NextR]_allVars => IInvR'
<1> SUFFICES ASSUME IInvR, [NextR]_allVars PROVE IInvR'
  OBVIOUS
<1>1. CASE RefresherStep
  BY <1>1, ChangesIInvR, QuietStepsIInvR, PassIInvR, PublishPassIInvR DEF RefresherStep
<1>2. CASE MaybeReconnect \/ ReconnectStep
  BY <1>2, DialingIInvR, SwapIInvR, AttachIInvR, PublishReconnectedIInvR DEF ReconnectStep
<1>3. CASE UNCHANGED allVars
  BY <1>3 DEF allVars, vars, link, IInvR, TypeOK, OneWorker, Bounded, LinkTypeOK, LinkBounded,
     NewestIsKnown, Announced, PassIsRecent, PassIsCurrent, ListIsOfThisConnection
<1> QED
  BY <1>1, <1>2, <1>3 DEF NextR

\* The invariant holds in every reachable state of the composition.
LEMMA InvarianceR == SpecR => []IInvR
  BY InitIInvR, NextIInvR, PTL DEF SpecR

\* Even while its connection is replaced, an upstream has one refresh worker.
THEOREM OneWorkerAcrossReconnects == SpecR => [](TypeOK /\ OneWorker)
<1>1. IInvR => TypeOK /\ OneWorker
  BY DEF IInvR
<1> QED
  BY <1>1, InvarianceR, PTL

\* A change made while the connection was replaced is in the list fetched over the new one or has
\* been announced over it: reconnect fetches the list before the swap, and the new connection's
\* notifier holds what comes before attachNotificationHandler.  And no pass over the old connection
\* publishes once the new one is swapped in.
THEOREM NoChangeIsLost == SpecR => []ChangesSurviveReconnect
<1>1. ASSUME IInvR PROVE ChangesSurviveReconnect
  <2> SUFFICES ASSUME Quiet, ~ctxDone PROVE Newer(heard, published) = version
    BY <1>1 DEF ChangesSurviveReconnect, IInvR
  <2>1. version \in {0, heard} \/ published = version
    BY <1>1 DEF Quiet, IInvR, LinkBounded, NewestIsKnown, Announced
  <2> QED
    BY <1>1, <2>1 DEF IInvR, TypeOK, Bounded, Versions, Newer
<1> QED
  BY <1>1, InvarianceR, PTL

\* Neither publishRefreshedTools nor publishReconnectedTools changes the registry once the
\* upstream's context is cancelled.
THEOREM CancelledUpstreamsAreSilent == SpecR => CancelledPublishesNothing
<1>1. ASSUME [NextR]_allVars PROVE [ctxDone => published' = published]_allVars
  <2>1. CASE UNCHANGED published
    BY <2>1
  <2>2. CASE PublishPass
    BY <2>2 DEF PublishPass, Publish
  <2>3. CASE PublishReconnectedTools
    BY <2>3 DEF PublishReconnectedTools, IsCurrentUpstreamConn
  <2>4. CASE Changes \/ Notices \/ TakePass \/ TakeConn \/ ListPass \/ ListPassFails \/ Others
    BY <2>1, <2>4 DEF Changes, UpstreamChanges, Notices, DeliverNotice, SetHandler, TakePass, Next_,
       TakeConn, vars, ListPass, ListAnswered, ListPassFails, ListingFails, Others, LifetimeEnds, Stop,
       Cancel, StartRead, ReadAwaited, ReadGivesUp, Serve
  <2>5. CASE MaybeReconnect \/ (ReconnectStep /\ ~PublishReconnectedTools)
    BY <2>1, <2>5 DEF MaybeReconnect, ReconnectStep, ReconnectDial, ReconnectLists,
       ReconnectListFails, ReconnectEnds, SwapConn, AttachNotificationHandler, SetHandler,
       DeliverNew, vars
  <2>6. CASE UNCHANGED allVars
    BY <2>1, <2>6 DEF allVars, vars
  <2> QED
    BY <1>1, <2>2, <2>3, <2>4, <2>5, <2>6 DEF NextR, RefresherStep
<1> QED
  BY <1>1, PTL DEF SpecR, CancelledPublishesNothing
-----------------------------------------------------------------------------

-----------------------------------------------------------------------------
(* The response store *)

\* Every set of natural numbers has a least one: what the inductions below rest on.
LEMMA LeastNat ==
  ASSUME NEW T, T \subseteq Nat, T # {}
  PROVE  \E n \in T : \A m \in T : n <= m
<1> DEFINE R == OpToRel(<, Nat)
<1>1. IsWellFoundedOn(R, Nat) BY NatLessThanWellFounded
<1> HIDE DEF R
<1>2. \E n \in T : \A m \in T : ~(<<m, n>> \in R) BY <1>1, WFMin
<1>3. \A m, n \in Nat : m < n => <<m, n>> \in R BY DEF R, OpToRel
<1>4. PICK n \in T : \A m \in T : ~(<<m, n>> \in R) BY <1>2
<1>5. \A m \in T : m \in Nat /\ n \in Nat /\ ~(m < n) BY <1>3, <1>4
<1>6. \A m \in T : n <= m BY <1>5
<1> QED BY <1>6

Name == Nat \X Nat
File == [name : Name, size : Nat, expires : Nat]

\* The running total of the first N of v.
RunningTotal(g, v, N) == g = [n \in 0 .. N |-> IF n = 0 THEN 0 ELSE g[n - 1] + v[n].size]

LEMMA TotalsExist ==
  ASSUME NEW v, NEW N \in Nat
  PROVE  \E g : RunningTotal(g, v, N)
<1> DEFINE Bad == {k \in Nat : ~\E g : RunningTotal(g, v, k)}
<1>1. ASSUME Bad # {} PROVE FALSE
  <2>1. PICK k \in Bad : \A m \in Bad : k <= m BY <1>1, LeastNat
  <2>2. k # 0
    <3>1. RunningTotal([n \in 0 .. 0 |-> 0], v, 0) BY DEF RunningTotal
    <3> QED BY <3>1
  <2>3. k - 1 \in Nat BY <2>2
  <2>4. k - 1 \notin Bad BY <2>1, <2>3
  <2>5. PICK g : RunningTotal(g, v, k - 1) BY <2>3, <2>4
  <2> DEFINE h == [n \in 0 .. k |-> IF n = k THEN g[k - 1] + v[k].size ELSE g[n]]
  <2>6. RunningTotal(h, v, k)
    <3>1. \A n \in 0 .. k : h[n] = IF n = 0 THEN 0 ELSE h[n - 1] + v[n].size
      BY <2>2, <2>3, <2>5 DEF RunningTotal
    <3>2. h = [n \in 0 .. k |-> h[n]] OBVIOUS
    <3> HIDE DEF h
    <3> QED BY <3>1, <3>2 DEF RunningTotal
  <2> QED BY <2>6, <2>1
<1> QED BY <1>1

\* Totals of sequences that begin alike are alike.
LEMMA TotalsAgree ==
  ASSUME NEW v, NEW w, NEW N \in Nat, NEW M \in Nat, NEW g, NEW h,
         RunningTotal(g, v, N), RunningTotal(h, w, M),
         NEW K \in 0 .. N, K <= M, \A n \in 1 .. K : v[n].size = w[n].size
  PROVE  g[K] = h[K]
<1> DEFINE Bad == {k \in Nat : k \in 0 .. K /\ g[k] # h[k]}
<1>1. ASSUME Bad # {} PROVE FALSE
  <2>1. PICK k \in Bad : \A m \in Bad : k <= m BY <1>1, LeastNat
  <2>2. k # 0 BY <2>1 DEF RunningTotal
  <2>3. k - 1 \in 0 .. K BY <2>2
  <2>4. k - 1 \notin Bad BY <2>1, <2>3
  <2>5. g[k - 1] = h[k - 1] BY <2>3, <2>4
  <2>6. g[k] = g[k - 1] + v[k].size BY <2>2 DEF RunningTotal
  <2>7. h[k] = h[k - 1] + w[k].size BY <2>2 DEF RunningTotal
  <2> QED BY <2>1, <2>2, <2>5, <2>6, <2>7
<1> QED BY <1>1

\* What SumSizes chooses is a running total.
LEMMA SumIsTotal ==
  ASSUME NEW fs \in Seq(File)
  PROVE  \E g : RunningTotal(g, fs, Len(fs)) /\ SumSizes(fs) = g[Len(fs)]
<1>1. \E g : RunningTotal(g, fs, Len(fs)) BY TotalsExist
<1> QED BY <1>1 DEF SumSizes, RunningTotal

LEMMA SumOfNone == SumSizes(<< >>) = 0
<1>1. << >> \in Seq(File) OBVIOUS
<1>2. PICK g : RunningTotal(g, << >>, Len(<< >>)) /\ SumSizes(<< >>) = g[Len(<< >>)] BY <1>1, SumIsTotal
<1> QED BY <1>2 DEF RunningTotal

LEMMA SumOfAppend ==
  ASSUME NEW fs \in Seq(File), NEW f \in File
  PROVE  SumSizes(Append(fs, f)) = SumSizes(fs) + f.size
<1> DEFINE gs == Append(fs, f)
<1>1. gs \in Seq(File) /\ Len(gs) = Len(fs) + 1 OBVIOUS
<1>2. PICK g : RunningTotal(g, fs, Len(fs)) /\ SumSizes(fs) = g[Len(fs)] BY SumIsTotal
<1>3. PICK h : RunningTotal(h, gs, Len(gs)) /\ SumSizes(gs) = h[Len(gs)] BY <1>1, SumIsTotal
<1>4. \A n \in 1 .. Len(fs) : gs[n].size = fs[n].size OBVIOUS
<1>5. gs[Len(fs) + 1] = f OBVIOUS
<1> HIDE DEF gs
<1>6. Len(fs) \in 0 .. Len(gs) /\ Len(fs) <= Len(fs) /\ Len(fs) \in Nat /\ Len(gs) \in Nat BY <1>1
<1>8. h[Len(fs)] = g[Len(fs)] BY <1>2, <1>3, <1>4, <1>6, TotalsAgree
<1>7. h[Len(gs)] = h[Len(fs)] + f.size BY <1>1, <1>3, <1>5 DEF RunningTotal
<1> QED BY <1>2, <1>3, <1>8, <1>7 DEF gs

\* A sequence that is not empty is its front and its last element.
LEMMA FrontAndLast ==
  ASSUME NEW S, NEW s \in Seq(S), s # << >>
  PROVE  \E t \in Seq(S), e \in S : s = Append(t, e) /\ Len(t) = Len(s) - 1
<1>1. Len(s) \in Nat \ {0} OBVIOUS
<1> DEFINE t == SubSeq(s, 1, Len(s) - 1)
<1>2. t \in Seq(S) /\ Len(t) = Len(s) - 1 /\ \A i \in 1 .. Len(t) : t[i] = s[i]
  <2>1. \A i \in 1 .. Len(s) - 1 : s[i] \in S BY <1>1
  <2>2. 1 \in Int /\ Len(s) - 1 \in Int BY <1>1
  <2>3. /\ t \in Seq(S) /\ Len(t) = IF 1 <= Len(s) - 1 THEN Len(s) - 1 - 1 + 1 ELSE 0
        /\ \A i \in 1 .. Len(s) - 1 - 1 + 1 : t[i] = s[1 + i - 1]
    BY <2>1, <2>2, SubSeqProperties
  <2> HIDE DEF t
  <2>6. Len(t) = IF 1 <= Len(s) - 1 THEN Len(s) - 1 - 1 + 1 ELSE 0 BY <2>3
  <2>7. \A k \in Nat \ {0} : (IF 1 <= k - 1 THEN k - 1 - 1 + 1 ELSE 0) = k - 1 OBVIOUS
  <2>4. Len(t) = Len(s) - 1 BY <1>1, <2>6, <2>7
  <2>5. \A i \in 1 .. Len(t) : 1 + i - 1 = i /\ i \in 1 .. Len(s) - 1 - 1 + 1 BY <1>1, <2>4
  <2> QED BY <2>3, <2>4, <2>5
<1>4. s[Len(s)] \in S BY <1>1
<1>3. s = Append(t, s[Len(s)])
  <2> HIDE DEF t
  <2> DEFINE u == Append(t, s[Len(s)])
  <2>1. u \in Seq(S) /\ Len(u) = Len(s) /\ \A i \in 1 .. Len(s) : s[i] = u[i]
    BY <1>1, <1>2, <1>4, AppendProperties
  <2> HIDE DEF u
  <2>2. s = u BY <2>1, SeqEqual
  <2> QED BY <2>2 DEF u
<1> QED BY <1>2, <1>3, <1>4

LEMMA SumIsNat ==
  ASSUME NEW fs \in Seq(File)
  PROVE  SumSizes(fs) \in Nat
<1> DEFINE Bad == {n \in Nat : \E s \in Seq(File) : Len(s) = n /\ SumSizes(s) \notin Nat}
<1>1. ASSUME Bad # {} PROVE FALSE
  <2>1. PICK n \in Bad : \A m \in Bad : n <= m BY <1>1, LeastNat
  <2>2. PICK s \in Seq(File) : Len(s) = n /\ SumSizes(s) \notin Nat BY <2>1
  <2>3. s # << >> BY <2>2, SumOfNone
  <2>4. PICK t \in Seq(File), e \in File : s = Append(t, e) /\ Len(t) = Len(s) - 1 BY <2>3, FrontAndLast
  <2>5. SumSizes(t) \in Nat
    <3>1. Len(t) \in Nat /\ Len(t) < n BY <2>2, <2>4
    <3>2. Len(t) \notin Bad BY <2>1, <3>1
    <3> QED BY <3>1, <3>2
  <2>6. SumSizes(s) = SumSizes(t) + e.size BY <2>4, SumOfAppend
  <2>7. e.size \in Nat BY DEF File
  <2> QED BY <2>2, <2>5, <2>6, <2>7
<1>2. Len(fs) \notin Bad BY <1>1
<1> QED BY <1>2

LEMMA SumOfConcat ==
  ASSUME NEW fs \in Seq(File), NEW hs \in Seq(File)
  PROVE  SumSizes(fs \o hs) = SumSizes(fs) + SumSizes(hs)
<1> DEFINE Bad == {n \in Nat : \E s \in Seq(File) : Len(s) = n /\ SumSizes(fs \o s) # SumSizes(fs) + SumSizes(s)}
<1>1. ASSUME Bad # {} PROVE FALSE
  <2>1. PICK n \in Bad : \A m \in Bad : n <= m BY <1>1, LeastNat
  <2>2. PICK s \in Seq(File) : Len(s) = n /\ SumSizes(fs \o s) # SumSizes(fs) + SumSizes(s) BY <2>1
  <2>3. s # << >>
    <3>1. fs \o << >> = fs BY ConcatEmptySeq
    <3>2. SumSizes(fs) \in Nat BY SumIsNat
    <3>3. SumSizes(fs \o << >>) = SumSizes(fs) + SumSizes(<< >>) BY <3>1, <3>2, SumOfNone
    <3> QED BY <3>3, <2>2
  <2>4. PICK t \in Seq(File), e \in File : s = Append(t, e) /\ Len(t) = Len(s) - 1 BY <2>3, FrontAndLast
  <2>5. SumSizes(fs \o t) = SumSizes(fs) + SumSizes(t)
    <3>1. Len(t) \in Nat /\ Len(t) < n BY <2>2, <2>4
    <3>2. Len(t) \notin Bad BY <2>1, <3>1
    <3> QED BY <3>1, <3>2
  <2>6. fs \o s = Append(fs \o t, e)
    <3>1. Append(t, e) = t \o <<e>> BY AppendIsConcat
    <3>2. fs \o t \in Seq(File) /\ <<e>> \in Seq(File) BY ConcatProperties
    <3>3. Append(fs \o t, e) = (fs \o t) \o <<e>> BY <3>2, AppendIsConcat
    <3> QED BY <2>4, <3>1, <3>2, <3>3, ConcatAssociative
  <2>7. fs \o t \in Seq(File) OBVIOUS
  <2>8. SumSizes(fs \o s) = SumSizes(fs \o t) + e.size BY <2>6, <2>7, SumOfAppend
  <2>9. SumSizes(s) = SumSizes(t) + e.size BY <2>4, SumOfAppend
  <2>10. SumSizes(fs) \in Nat /\ SumSizes(t) \in Nat /\ e.size \in Nat BY SumIsNat DEF File
  <2> QED BY <2>2, <2>5, <2>8, <2>9, <2>10
<1>2. Len(hs) \notin Bad BY <1>1
<1> QED BY <1>2

LEMMA SumOfSplit ==
  ASSUME NEW fs \in Seq(File), NEW n \in 0 .. Len(fs)
  PROVE  /\ SubSeq(fs, 1, n) \in Seq(File) /\ SubSeq(fs, n + 1, Len(fs)) \in Seq(File)
         /\ SumSizes(fs) = SumSizes(SubSeq(fs, 1, n)) + SumSizes(SubSeq(fs, n + 1, Len(fs)))
<1> DEFINE a == SubSeq(fs, 1, n)
           b == SubSeq(fs, n + 1, Len(fs))
<1>1. a \in Seq(File) /\ b \in Seq(File) OBVIOUS
<1>2. fs = a \o b
  <2>1. 1 \in 1 .. Len(fs) + 1 /\ n \in (1 - 1) .. Len(fs) /\ Len(fs) \in n .. Len(fs) OBVIOUS
  <2>2. a \o b = SubSeq(fs, 1, Len(fs)) BY <2>1, ConcatAdjacentSubSeq
  <2> QED BY <2>2, SubSeqFull
<1> HIDE DEF a, b
<1>3. SumSizes(a \o b) = SumSizes(a) + SumSizes(b) BY <1>1, SumOfConcat
<1> QED BY <1>1, <1>2, <1>3 DEF a, b

-----------------------------------------------------------------------------
(* Lists of files *)

FileNames(fs) == {fs[i].name : i \in 1 .. Len(fs)}
NoRepeats(fs) == \A i, j \in 1 .. Len(fs) : i # j => fs[i].name # fs[j].name

\* What is listed in two parts is what is listed in the two.
LEMMA NamesOfConcat ==
  ASSUME NEW a \in Seq(File), NEW b \in Seq(File)
  PROVE  /\ FileNames(a \o b) = FileNames(a) \cup FileNames(b)
         /\ NoRepeats(a \o b) <=> NoRepeats(a) /\ NoRepeats(b) /\ FileNames(a) \cap FileNames(b) = {}
<1> DEFINE c == a \o b
<1>1. /\ c \in Seq(File) /\ Len(c) = Len(a) + Len(b)
      /\ \A i \in 1 .. Len(a) + Len(b) : c[i] = IF i <= Len(a) THEN a[i] ELSE b[i - Len(a)]
  BY ConcatProperties
<1> HIDE DEF c
<1>2. Len(a) \in Nat /\ Len(b) \in Nat OBVIOUS
<1>3. \A i \in 1 .. Len(a) : i \in 1 .. Len(c) /\ c[i] = a[i] BY <1>1, <1>2
<1>4. \A i \in 1 .. Len(b) : i + Len(a) \in 1 .. Len(c) /\ c[i + Len(a)] = b[i] /\ i + Len(a) \notin 1 .. Len(a)
  BY <1>1, <1>2
<1>5. \A i \in 1 .. Len(c) : i \in 1 .. Len(a) \/ (i - Len(a) \in 1 .. Len(b) /\ c[i] = b[i - Len(a)] /\ i = (i - Len(a)) + Len(a))
  BY <1>1, <1>2
<1>6. FileNames(c) = FileNames(a) \cup FileNames(b)
  <2>1. ASSUME NEW x \in FileNames(c) PROVE x \in FileNames(a) \cup FileNames(b)
    <3>1. PICK i \in 1 .. Len(c) : x = c[i].name BY DEF FileNames
    <3> QED BY <3>1, <1>3, <1>5 DEF FileNames
  <2>2. ASSUME NEW x \in FileNames(a) PROVE x \in FileNames(c)
    BY <1>3 DEF FileNames
  <2>3. ASSUME NEW x \in FileNames(b) PROVE x \in FileNames(c)
    BY <1>4 DEF FileNames
  <2> QED BY <2>1, <2>2, <2>3
<1>7. ASSUME NoRepeats(c) PROVE NoRepeats(a) /\ NoRepeats(b) /\ FileNames(a) \cap FileNames(b) = {}
  <2>1. NoRepeats(a) BY <1>7, <1>3 DEF NoRepeats
  <2>2. NoRepeats(b)
    <3> SUFFICES ASSUME NEW i \in 1 .. Len(b), NEW j \in 1 .. Len(b), i # j PROVE b[i].name # b[j].name
      BY DEF NoRepeats
    <3>1. i + Len(a) # j + Len(a) BY <1>2
    <3> QED BY <3>1, <1>4, <1>7 DEF NoRepeats
  <2>3. ASSUME NEW x \in FileNames(a), x \in FileNames(b) PROVE FALSE
    <3>1. PICK i \in 1 .. Len(a) : x = a[i].name BY DEF FileNames
    <3>2. PICK j \in 1 .. Len(b) : x = b[j].name BY <2>3 DEF FileNames
    <3>3. i # j + Len(a) BY <1>4
    <3>4. i \in 1 .. Len(c) /\ j + Len(a) \in 1 .. Len(c) BY <1>3, <1>4
    <3>5. c[i].name = c[j + Len(a)].name BY <2>3, <3>1, <3>2, <1>3, <1>4
    <3> QED BY <3>3, <3>4, <3>5, <1>7 DEF NoRepeats
  <2> QED BY <2>1, <2>2, <2>3
<1>8. ASSUME NoRepeats(a), NoRepeats(b), FileNames(a) \cap FileNames(b) = {} PROVE NoRepeats(c)
  <2> SUFFICES ASSUME NEW i \in 1 .. Len(c), NEW j \in 1 .. Len(c), i # j PROVE c[i].name # c[j].name
    BY DEF NoRepeats
  <2>1. CASE i \in 1 .. Len(a) /\ j \in 1 .. Len(a)
    BY <2>1, <1>3, <1>8 DEF NoRepeats
  <2>2. CASE i \notin 1 .. Len(a) /\ j \notin 1 .. Len(a)
    <3>1. i - Len(a) # j - Len(a) BY <1>2
    <3> QED BY <3>1, <2>2, <1>5, <1>8 DEF NoRepeats
  <2>3. CASE i \in 1 .. Len(a) /\ j \notin 1 .. Len(a)
    <3>1. c[i] = a[i] /\ c[j] = b[j - Len(a)] /\ j - Len(a) \in 1 .. Len(b) BY <2>3, <1>3, <1>5
    <3>2. c[i].name \in FileNames(a) /\ c[j].name \in FileNames(b) BY <2>3, <3>1 DEF FileNames
    <3> QED BY <3>2, <1>8
  <2>4. CASE i \notin 1 .. Len(a) /\ j \in 1 .. Len(a)
    <3>1. c[j] = a[j] /\ c[i] = b[i - Len(a)] /\ i - Len(a) \in 1 .. Len(b) BY <2>4, <1>3, <1>5
    <3>2. c[j].name \in FileNames(a) /\ c[i].name \in FileNames(b) BY <2>4, <3>1 DEF FileNames
    <3> QED BY <3>2, <1>8
  <2> QED BY <2>1, <2>2, <2>3, <2>4
<1> QED BY <1>6, <1>7, <1>8 DEF c

LEMMA NamesOfOne ==
  ASSUME NEW f \in File
  PROVE  <<f>> \in Seq(File) /\ FileNames(<<f>>) = {f.name} /\ NoRepeats(<<f>>) /\ SumSizes(<<f>>) = f.size
<1>1. <<f>> \in Seq(File) /\ Len(<<f>>) = 1 /\ <<f>>[1] = f OBVIOUS
<1>2. <<f>> = Append(<< >>, f) OBVIOUS
<1>3. << >> \in Seq(File) OBVIOUS
<1>4. SumSizes(<<f>>) = 0 + f.size BY <1>2, <1>3, SumOfAppend, SumOfNone
<1>5. f.size \in Nat BY DEF File
<1>6. \A i \in 1 .. Len(<<f>>) : i = 1 BY <1>1
<1>7. FileNames(<<f>>) = {f.name}
  BY <1>1, <1>6 DEF FileNames
<1> QED BY <1>1, <1>4, <1>5, <1>6, <1>7 DEF NoRepeats

LEMMA NamesOfNone == << >> \in Seq(File) /\ FileNames(<< >>) = {} /\ NoRepeats(<< >>)
BY DEF FileNames, NoRepeats

\* A list without repeats has as many names as entries.
LEMMA NamesAreCounted ==
  ASSUME NEW fs \in Seq(File), NoRepeats(fs)
  PROVE  IsFiniteSet(FileNames(fs)) /\ Cardinality(FileNames(fs)) = Len(fs)
<1> DEFINE f == [i \in 1 .. Len(fs) |-> fs[i].name]
<1>1. f \in Bijection(1 .. Len(fs), FileNames(fs))
  BY DEF FileNames, NoRepeats, Bijection, Injection, Surjection, IsInjective
<1>2. Len(fs) \in Nat OBVIOUS
<1>3. IsFiniteSet(1 .. Len(fs)) /\ Cardinality(1 .. Len(fs)) = Len(fs)
  BY <1>2, FS_Interval
<1>4. FileNames(fs) = {f[i] : i \in 1 .. Len(fs)} BY DEF FileNames
<1> HIDE DEF f
<1>5. ExistsBijection(1 .. Len(fs), FileNames(fs)) BY <1>1 DEF ExistsBijection
<1>6. IsFiniteSet(FileNames(fs)) BY <1>5, <1>3, FS_Bijection
<1>7. Cardinality(1 .. Len(fs)) = Cardinality(FileNames(fs)) BY <1>5, <1>3, FS_Bijection
<1> QED BY <1>3, <1>6, <1>7

-----------------------------------------------------------------------------
(* The response store: the inductive invariant *)

\* The names an actor is answerable for.
Owned(st) ==
    CASE st.at = "created" -> {st.name}
      [] st.at = "removing" -> FileNames(st.rest) \cup FileNames(st.failed)
      [] OTHER -> {}

Creating == [at : {"created"}, name : Name, size : Nat]
RemovingStep == [at : {"removing"}, rest : Seq(File), failed : Seq(File)]
StepIsApart(st) ==
    st.at = "removing" =>
        NoRepeats(st.rest) /\ NoRepeats(st.failed) /\ FileNames(st.rest) \cap FileNames(st.failed) = {}

Steps == {Idle} \cup Creating \cup RemovingStep
StoreTyped ==
    /\ now \in Nat /\ files \in Seq(File)
    /\ IsFiniteSet(DOMAIN disk) /\ DOMAIN disk \subseteq Name /\ disk \in [DOMAIN disk -> Nat]
    /\ step \in [Actors -> Steps]
    /\ \A a \in Actors : StepIsApart(step[a]) /\ (step[a].at = "created" => a \in Writers)

\* No name is anybody's twice.
NamesApart ==
    /\ NoRepeats(files)
    /\ \A a \in Actors : FileNames(files) \cap Owned(step[a]) = {}
    /\ \A a, b \in Actors : a # b => Owned(step[a]) \cap Owned(step[b]) = {}

Claimant(k) == k \in FileNames(files) \/ \E a \in Actors : k \in Owned(step[a])

\* What is on disk is somebody's, and what is somebody's and gone had expired.
DiskIsKnown ==
    /\ \A k \in DOMAIN disk : Claimant(k) \/ (k \in left /\ Expired(k))
    /\ \A k \in Name : Claimant(k) => k \in DOMAIN disk \/ Expired(k)

\* What somebody holds of a file says its size.
SizesOf(fs) == \A i \in 1 .. Len(fs) : fs[i].name \in DOMAIN disk => disk[fs[i].name] = fs[i].size
StepSizes(st) ==
    /\ st.at = "created" => (st.name \in DOMAIN disk => disk[st.name] = st.size)
    /\ st.at = "removing" => SizesOf(st.rest) /\ SizesOf(st.failed)
SizesAreTrue == SizesOf(files) /\ \A a \in Actors : StepSizes(step[a])

StoreIInv == StoreTyped /\ NamesApart /\ DiskIsKnown /\ SizesAreTrue /\ used = SumSizes(files)

-----------------------------------------------------------------------------
(* The response store: lemmas *)

\* What partitionByExpiry makes of a list, for the first n.
LEMMA PartsExist ==
  ASSUME NEW fs, NEW N \in Nat
  PROVE  \E g : g = [n \in 0 .. N |->
              IF n = 0 THEN [kept |-> << >>, expired |-> << >>] ELSE Sorted(g[n - 1], fs[n])]
<1> DEFINE None0 == [kept |-> << >>, expired |-> << >>]
           Parts(g, k) == g = [n \in 0 .. k |-> IF n = 0 THEN None0 ELSE Sorted(g[n - 1], fs[n])]
<1>0. \E g : Parts(g, N)
  <2> HIDE DEF None0
  <2> DEFINE Bad == {k \in Nat : ~\E g : Parts(g, k)}
  <2>1. ASSUME Bad # {} PROVE FALSE
    <3>1. PICK k \in Bad : \A m \in Bad : k <= m BY <2>1, LeastNat
    <3>2. k # 0
      <4>1. Parts([n \in 0 .. 0 |-> None0], 0) OBVIOUS
      <4> QED BY <4>1
    <3>3. k - 1 \in Nat BY <3>2
    <3>4. k - 1 \notin Bad BY <3>1, <3>3
    <3>5. PICK g : Parts(g, k - 1) BY <3>3, <3>4
    <3> DEFINE h == [n \in 0 .. k |-> IF n = k THEN Sorted(g[k - 1], fs[k]) ELSE g[n]]
    <3>6. Parts(h, k)
      <4>1. \A n \in 0 .. k : h[n] = IF n = 0 THEN None0 ELSE Sorted(h[n - 1], fs[n])
        BY <3>2, <3>3, <3>5
      <4>2. h = [n \in 0 .. k |-> h[n]] OBVIOUS
      <4> HIDE DEF h
      <4> QED BY <4>1, <4>2
    <3> QED BY <3>6, <3>1
  <2> QED BY <2>1
<1> QED BY <1>0

\* The two lists of a partition are the list: its names, its entries and its bytes.
IsPartition(fs, p) ==
    /\ p.kept \in Seq(File) /\ p.expired \in Seq(File)
    /\ SumSizes(fs) = SumSizes(p.kept) + SumSizes(p.expired)
    /\ FileNames(fs) = FileNames(p.kept) \cup FileNames(p.expired)
    /\ NoRepeats(fs) => NoRepeats(p.kept) /\ NoRepeats(p.expired) /\ FileNames(p.kept) \cap FileNames(p.expired) = {}
    /\ SizesOf(fs) => SizesOf(p.kept) /\ SizesOf(p.expired)

LEMMA SizesOfAppend ==
  ASSUME NEW fs \in Seq(File), NEW f \in File
  PROVE  SizesOf(Append(fs, f)) <=> SizesOf(fs) /\ (f.name \in DOMAIN disk => disk[f.name] = f.size)
<1> DEFINE gs == Append(fs, f)
<1>1. Len(gs) = Len(fs) + 1 /\ (\A i \in 1 .. Len(fs) : gs[i] = fs[i]) /\ gs[Len(fs) + 1] = f
  BY AppendProperties
<1>2. Len(fs) \in Nat OBVIOUS
<1> HIDE DEF gs
<1>3. \A i \in 1 .. Len(gs) : i \in 1 .. Len(fs) \/ i = Len(fs) + 1 BY <1>1, <1>2
<1>4. Len(fs) + 1 \in 1 .. Len(gs) /\ \A i \in 1 .. Len(fs) : i \in 1 .. Len(gs) BY <1>1, <1>2
<1>5. SizesOf(gs) <=> SizesOf(fs) /\ (f.name \in DOMAIN disk => disk[f.name] = f.size)
  BY <1>1, <1>3, <1>4 DEF SizesOf
<1> QED BY <1>5 DEF gs

LEMMA NamesOfAppend ==
  ASSUME NEW fs \in Seq(File), NEW f \in File
  PROVE  /\ Append(fs, f) \in Seq(File)
         /\ FileNames(Append(fs, f)) = FileNames(fs) \cup {f.name}
         /\ NoRepeats(Append(fs, f)) <=> NoRepeats(fs) /\ f.name \notin FileNames(fs)
<1> DEFINE one == <<f>>
<1>1. Append(fs, f) = fs \o one BY AppendIsConcat
<1>2. one \in Seq(File) /\ FileNames(one) = {f.name} /\ NoRepeats(one) BY NamesOfOne
<1>3. Append(fs, f) \in Seq(File) OBVIOUS
<1> HIDE DEF one
<1>4. /\ FileNames(fs \o one) = FileNames(fs) \cup FileNames(one)
      /\ NoRepeats(fs \o one) <=> NoRepeats(fs) /\ NoRepeats(one) /\ FileNames(fs) \cap FileNames(one) = {}
  BY <1>2, NamesOfConcat
<1>5. FileNames(fs) \cap {f.name} = {} <=> f.name \notin FileNames(fs) OBVIOUS
<1> QED BY <1>1, <1>2, <1>3, <1>4, <1>5

LEMMA SizesOfConcat ==
  ASSUME NEW a \in Seq(File), NEW b \in Seq(File)
  PROVE  SizesOf(a \o b) <=> SizesOf(a) /\ SizesOf(b)
<1> DEFINE c == a \o b
           True0(f) == f.name \in DOMAIN disk => disk[f.name] = f.size
<1>1. /\ c \in Seq(File) /\ Len(c) = Len(a) + Len(b)
      /\ \A i \in 1 .. Len(a) + Len(b) : c[i] = IF i <= Len(a) THEN a[i] ELSE b[i - Len(a)]
  BY ConcatProperties
<1> HIDE DEF c
<1>2. Len(a) \in Nat /\ Len(b) \in Nat OBVIOUS
<1>3. \A i \in 1 .. Len(a) : i \in 1 .. Len(c) /\ c[i] = a[i] BY <1>1, <1>2
<1>4. \A i \in 1 .. Len(b) : i + Len(a) \in 1 .. Len(c) /\ c[i + Len(a)] = b[i] BY <1>1, <1>2
<1>5. \A i \in 1 .. Len(c) : i \in 1 .. Len(a) \/ (i - Len(a) \in 1 .. Len(b) /\ c[i] = b[i - Len(a)])
  BY <1>1, <1>2
<1>6. /\ SizesOf(c) <=> \A i \in 1 .. Len(c) : True0(c[i])
      /\ SizesOf(a) <=> \A i \in 1 .. Len(a) : True0(a[i])
      /\ SizesOf(b) <=> \A i \in 1 .. Len(b) : True0(b[i])
  BY DEF SizesOf
<1> HIDE DEF True0
<1>7. ASSUME SizesOf(c) PROVE SizesOf(a) /\ SizesOf(b) BY <1>3, <1>4, <1>6, <1>7
<1>8. ASSUME SizesOf(a), SizesOf(b) PROVE SizesOf(c)
  <2>1. ASSUME NEW i \in 1 .. Len(c) PROVE True0(c[i])
    <3>1. CASE i \in 1 .. Len(a) BY <3>1, <1>3, <1>6, <1>8
    <3>2. CASE i - Len(a) \in 1 .. Len(b) /\ c[i] = b[i - Len(a)] BY <3>2, <1>6, <1>8
    <3> QED BY <3>1, <3>2, <1>5
  <2> QED BY <2>1, <1>6
<1> QED BY <1>7, <1>8 DEF c

LEMMA PartitionIsSound ==
  ASSUME NEW fs \in Seq(File)
  PROVE  IsPartition(fs, PartitionByExpiry(fs))
<1>1. PICK g :
      /\ g = [n \in 0 .. Len(fs) |->
              IF n = 0 THEN [kept |-> << >>, expired |-> << >>] ELSE Sorted(g[n - 1], fs[n])]
      /\ PartitionByExpiry(fs) = g[Len(fs)]
  <2>0. Len(fs) \in Nat OBVIOUS
  <2>1. \E g : g = [n \in 0 .. Len(fs) |->
              IF n = 0 THEN [kept |-> << >>, expired |-> << >>] ELSE Sorted(g[n - 1], fs[n])]
    BY <2>0, PartsExist
  <2> QED BY <2>1 DEF PartitionByExpiry
<1>2. Len(fs) \in Nat OBVIOUS
<1>3. g[0] = [kept |-> << >>, expired |-> << >>] BY <1>1, <1>2
<1>4. \A n \in 1 .. Len(fs) : g[n] = Sorted(g[n - 1], fs[n]) BY <1>1, <1>2
<1> DEFINE Bad == {n \in Nat : n <= Len(fs) /\ ~IsPartition(SubSeq(fs, 1, n), g[n])}
<1>5. ASSUME Bad # {} PROVE FALSE
  <2>1. PICK n \in Bad : \A m \in Bad : n <= m BY <1>5, LeastNat
  <2>2. n # 0
    <3>1. SubSeq(fs, 1, 0) = << >> BY SubSeqEmpty
    <3>2. g[0].kept = << >> /\ g[0].expired = << >> BY <1>3
    <3>3. SizesOf(<< >>) BY DEF SizesOf
    <3>4. IsPartition(<< >>, g[0])
      BY <3>2, <3>3, SumOfNone, NamesOfNone DEF IsPartition
    <3> QED BY <2>1, <3>1, <3>4
  <2>3. n - 1 \in Nat /\ n \in 1 .. Len(fs) /\ n - 1 <= Len(fs) BY <2>1, <2>2
  <2>4. n - 1 \notin Bad BY <2>1, <2>3
  <2> DEFINE a == SubSeq(fs, 1, n - 1)
             f == fs[n]
             p == g[n - 1]
  <2>5. IsPartition(a, p) BY <2>3, <2>4
  <2>6. f \in File BY <2>3
  <2>7. a \in Seq(File) BY <2>3, SumOfSplit
  <2>8. SubSeq(fs, 1, n) = Append(a, f)
    <3>1. 1 \in 1 .. Len(fs) /\ n \in 1 .. Len(fs) /\ n - 1 = n - 1 BY <2>3
    <3>2. SubSeq(fs, 1, n) = a \o <<f>> BY <3>1, SubSeqRecursiveSecond
    <3> QED BY <3>2, <2>6, <2>7, AppendIsConcat
  <2>9. g[n] = Sorted(p, f) BY <1>4, <2>3
  <2> HIDE DEF a, f, p
  <2>10. /\ SumSizes(Append(a, f)) = SumSizes(a) + f.size
         /\ SumSizes(Append(p.kept, f)) = SumSizes(p.kept) + f.size
         /\ SumSizes(Append(p.expired, f)) = SumSizes(p.expired) + f.size
         /\ SumSizes(p.kept) \in Nat /\ SumSizes(p.expired) \in Nat /\ f.size \in Nat
    BY <2>5, <2>6, <2>7, SumOfAppend, SumIsNat DEF IsPartition, File
  <2> DEFINE b == Append(a, f)
             k2 == Append(p.kept, f)
             e2 == Append(p.expired, f)
  <2>12. /\ b \in Seq(File) /\ FileNames(b) = FileNames(a) \cup {f.name}
         /\ NoRepeats(b) <=> NoRepeats(a) /\ f.name \notin FileNames(a)
         /\ SizesOf(b) <=> SizesOf(a) /\ (f.name \in DOMAIN disk => disk[f.name] = f.size)
    BY <2>6, <2>7, NamesOfAppend, SizesOfAppend
  <2>14. p.kept \in Seq(File) /\ p.expired \in Seq(File) BY <2>5 DEF IsPartition
  <2>15. /\ k2 \in Seq(File) /\ FileNames(k2) = FileNames(p.kept) \cup {f.name}
         /\ NoRepeats(k2) <=> NoRepeats(p.kept) /\ f.name \notin FileNames(p.kept)
         /\ SizesOf(k2) <=> SizesOf(p.kept) /\ (f.name \in DOMAIN disk => disk[f.name] = f.size)
    BY <2>6, <2>14, NamesOfAppend, SizesOfAppend
  <2>16. /\ e2 \in Seq(File) /\ FileNames(e2) = FileNames(p.expired) \cup {f.name}
         /\ NoRepeats(e2) <=> NoRepeats(p.expired) /\ f.name \notin FileNames(p.expired)
         /\ SizesOf(e2) <=> SizesOf(p.expired) /\ (f.name \in DOMAIN disk => disk[f.name] = f.size)
    BY <2>6, <2>14, NamesOfAppend, SizesOfAppend
  <2>17. SumSizes(b) = SumSizes(a) + f.size /\ SumSizes(k2) = SumSizes(p.kept) + f.size
         /\ SumSizes(e2) = SumSizes(p.expired) + f.size BY <2>10
  <2>18. /\ (f.expires > now => g[n].kept = k2 /\ g[n].expired = p.expired)
         /\ (~(f.expires > now) => g[n].kept = p.kept /\ g[n].expired = e2)
    BY <2>9 DEF Sorted
  <2> HIDE DEF b, k2, e2
  <2>11. IsPartition(b, g[n])
    <3> DEFINE T == f.name \in DOMAIN disk => disk[f.name] = f.size
    <3>1. CASE f.expires > now
      <4>1. SumSizes(b) = SumSizes(k2) + SumSizes(p.expired) BY <2>5, <2>10, <2>17 DEF IsPartition
      <4>2. FileNames(b) = FileNames(k2) \cup FileNames(p.expired) BY <2>5, <2>12, <2>15 DEF IsPartition
      <4>3. NoRepeats(b) => NoRepeats(k2) /\ NoRepeats(p.expired) /\ FileNames(k2) \cap FileNames(p.expired) = {}
        BY <2>5, <2>12, <2>15 DEF IsPartition
      <4>4. SizesOf(b) => SizesOf(k2) /\ SizesOf(p.expired) BY <2>5, <2>12, <2>15 DEF IsPartition
      <4> QED BY <4>1, <4>2, <4>3, <4>4, <3>1, <2>14, <2>15, <2>18 DEF IsPartition
    <3>2. CASE ~(f.expires > now)
      <4>1. SumSizes(b) = SumSizes(p.kept) + SumSizes(e2) BY <2>5, <2>10, <2>17 DEF IsPartition
      <4>2. FileNames(b) = FileNames(p.kept) \cup FileNames(e2) BY <2>5, <2>12, <2>16 DEF IsPartition
      <4>3. NoRepeats(b) => NoRepeats(p.kept) /\ NoRepeats(e2) /\ FileNames(p.kept) \cap FileNames(e2) = {}
        BY <2>5, <2>12, <2>16 DEF IsPartition
      <4>4. SizesOf(b) => SizesOf(p.kept) /\ SizesOf(e2) BY <2>5, <2>12, <2>16 DEF IsPartition
      <4> QED BY <4>1, <4>2, <4>3, <4>4, <3>2, <2>14, <2>16, <2>18 DEF IsPartition
    <3> QED BY <3>1, <3>2
  <2> QED BY <2>1, <2>8, <2>11 DEF b
<1>6. IsPartition(SubSeq(fs, 1, Len(fs)), g[Len(fs)])
  <2>1. Len(fs) \notin Bad BY <1>5
  <2> QED BY <2>1, <1>2
<1>7. SubSeq(fs, 1, Len(fs)) = fs BY SubSeqFull
<1> QED BY <1>1, <1>6, <1>7

-----------------------------------------------------------------------------
(* The response store: what the choices of the steps are *)

LEMMA NewNameIsNew ==
  ASSUME StoreTyped
  PROVE  NewName \in Name /\ NewName \notin DOMAIN disk /\ Born(NewName) = now
<1> DEFINE D == DOMAIN disk
           C == Cardinality(D)
           S == {<<now, n>> : n \in 0 .. C}
<1>1. IsFiniteSet(D) /\ C \in Nat /\ now \in Nat
  BY FS_CardinalityType DEF StoreTyped
<1>2. \E n \in 0 .. C : <<now, n>> \notin D
  <2>1. SUFFICES ASSUME \A n \in 0 .. C : <<now, n>> \in D PROVE FALSE OBVIOUS
  <2>2. S \subseteq D BY <2>1
  <2>3. IsFiniteSet(S) /\ Cardinality(S) <= C
    <3> HIDE DEF S, C
    <3>1. IsFiniteSet(S) /\ Cardinality(S) <= Cardinality(D) BY <1>1, <2>2, FS_Subset
    <3> QED BY <3>1 DEF C
  <2> DEFINE f == [n \in 0 .. C |-> <<now, n>>]
  <2>4. f \in Bijection(0 .. C, S)
    BY <1>1 DEF Bijection, Injection, Surjection, IsInjective
  <2>5. IsFiniteSet(0 .. C) /\ Cardinality(0 .. C) = C + 1
    <3> HIDE DEF C
    <3>1. 0 \in Int /\ C \in Int BY <1>1
    <3>2. Cardinality(0 .. C) = (IF 0 > C THEN 0 ELSE C - 0 + 1) /\ IsFiniteSet(0 .. C) BY <3>1, FS_Interval
    <3> QED BY <1>1, <3>2
  <2>6. Cardinality(S) = C + 1
    <3> HIDE DEF S, f, C
    <3>1. ExistsBijection(0 .. C, S) BY <2>4 DEF ExistsBijection
    <3>2. Cardinality(0 .. C) = Cardinality(S) BY <3>1, <2>5, FS_Bijection
    <3> QED BY <3>2, <2>5
  <2> HIDE DEF S, C
  <2> QED BY <2>3, <2>6, <1>1
<1> DEFINE T == {n \in 0 .. C : <<now, n>> \notin D}
<1> HIDE DEF C, S
<1>3. T # {} /\ T \subseteq Nat BY <1>1, <1>2
<1>4. PICK n \in T : \A m \in T : n <= m BY <1>3, LeastNat
<1>5. n \in 0 .. C /\ <<now, n>> \notin D /\ \A m \in 0 .. n - 1 : <<now, m>> \in D
  <2>1. n \in 0 .. C /\ <<now, n>> \notin D BY <1>4
  <2>2. ASSUME NEW m \in 0 .. n - 1 PROVE <<now, m>> \in D
    <3>1. m \in 0 .. C /\ ~(n <= m) BY <1>1, <2>1
    <3> QED BY <3>1, <1>4
  <2> QED BY <2>1, <2>2
<1> DEFINE c == CHOOSE k \in 0 .. C : <<now, k>> \notin D /\ \A m \in 0 .. k - 1 : <<now, m>> \in D
<1>6. c \in 0 .. C /\ <<now, c>> \notin D
  <2>1. \E k \in 0 .. C : <<now, k>> \notin D /\ \A m \in 0 .. k - 1 : <<now, m>> \in D BY <1>5
  <2> QED BY <2>1
<1>7. NewName = <<now, c>> BY DEF NewName, C
<1> HIDE DEF c
<1> QED BY <1>1, <1>6, <1>7 DEF Name, Born

\* evictOvershoot never gives up the newest.
LEMMA OvershootIsSome ==
  ASSUME NEW fs \in Seq(File), fs # << >>, NEW bytes \in Nat
  PROVE  Overshoot(fs, bytes) \in 0 .. Len(fs) - 1
<1> DEFINE L == Len(fs)
           Fits(n) == n = L - 1 \/ bytes - SumSizes(SubSeq(fs, 1, n)) <= Budget
           T == {n \in 0 .. L - 1 : Fits(n)}
<1>1. L \in Nat \ {0} OBVIOUS
<1>2. Budget \in Nat BY StoreAssumption
<1>3. \A n \in 0 .. L - 1 : SumSizes(SubSeq(fs, 1, n)) \in Nat
  <2> TAKE n \in 0 .. L - 1
  <2>1. n \in 0 .. Len(fs) BY <1>1
  <2>2. SubSeq(fs, 1, n) \in Seq(File) BY <2>1, SumOfSplit
  <2> QED BY <2>2, SumIsNat
<1>4. CASE Budget = 0 \/ bytes <= Budget BY <1>4, <1>1 DEF Overshoot
<1>5. CASE ~(Budget = 0 \/ bytes <= Budget)
  <2>1. L - 1 \in T /\ T \subseteq Nat BY <1>1
  <2>2. PICK n \in T : \A m \in T : n <= m
    <3>1. T # {} BY <2>1
    <3> HIDE DEF T
    <3> QED BY <3>1, <2>1, LeastNat
  <2>3. n \in 0 .. L - 1 /\ Fits(n) BY <2>2
  <2>4. ASSUME NEW m \in 0 .. n - 1 PROVE bytes - SumSizes(SubSeq(fs, 1, m)) > Budget
    <3>1. m \in 0 .. L - 1 /\ ~(n <= m) BY <1>1, <2>3
    <3>2. ~Fits(m) BY <3>1, <2>2
    <3> QED BY <3>1, <3>2, <1>2, <1>3
  <2>5. \E k \in 0 .. L - 1 :
          /\ k = L - 1 \/ bytes - SumSizes(SubSeq(fs, 1, k)) <= Budget
          /\ \A m \in 0 .. k - 1 : bytes - SumSizes(SubSeq(fs, 1, m)) > Budget
    BY <2>3, <2>4
  <2>6. Overshoot(fs, bytes) = CHOOSE k \in 0 .. L - 1 :
          /\ k = L - 1 \/ bytes - SumSizes(SubSeq(fs, 1, k)) <= Budget
          /\ \A m \in 0 .. k - 1 : bytes - SumSizes(SubSeq(fs, 1, m)) > Budget
    BY <1>5 DEF Overshoot
  <2> HIDE DEF L
  <2> QED BY <2>5, <2>6 DEF L
<1> QED BY <1>4, <1>5

\* What NewStore lists is what is fresh, each once.
LEMMA ListingIsExact ==
  ASSUME NEW fresh, fresh \subseteq Name, IsFiniteSet(fresh), NEW listed \in InNameOrder(fresh),
         NEW fs \in Seq(File), Len(fs) = Cardinality(fresh),
         \A i \in 1 .. Len(fs) : fs[i].name = listed[i]
  PROVE  NoRepeats(fs) /\ FileNames(fs) = fresh
<1> DEFINE C == Cardinality(fresh)
<1>1. C \in Nat BY FS_CardinalityType
<1>2. listed \in [1 .. C -> fresh] /\ \A i, j \in 1 .. C : i < j =>
          listed[i][1] < listed[j][1] \/ (listed[i][1] = listed[j][1] /\ listed[i][2] < listed[j][2])
  BY DEF InNameOrder
<1>3. \A i \in 1 .. C : listed[i][1] \in Nat /\ listed[i][2] \in Nat
  <2> TAKE i \in 1 .. C
  <2>1. listed[i] \in Name BY <1>2
  <2> QED BY <2>1 DEF Name
<1>4. ASSUME NEW i \in 1 .. C, NEW j \in 1 .. C, i # j PROVE listed[i] # listed[j]
  <2>1. i < j \/ j < i BY <1>1, <1>4
  <2> QED BY <2>1, <1>2, <1>3
<1>5. NoRepeats(fs) BY <1>4 DEF NoRepeats
<1>6. FileNames(fs) \subseteq fresh BY <1>2 DEF FileNames
<1>7. IsFiniteSet(FileNames(fs)) /\ Cardinality(FileNames(fs)) = Len(fs) BY <1>5, NamesAreCounted
<1>8. FileNames(fs) = fresh
  <2>1. FileNames(fs) # fresh => Cardinality(FileNames(fs)) < Cardinality(fresh)
    BY <1>6, FS_Subset, FS_CardinalityType
  <2> QED BY <2>1, <1>7, <1>1
<1> QED BY <1>5, <1>8

LEMMA RemovingIsFit ==
  ASSUME NEW fs \in Seq(File), NoRepeats(fs), SizesOf(fs)
  PROVE  /\ Removing(fs) \in Steps /\ Removing(fs).at # "created"
         /\ Owned(Removing(fs)) = FileNames(fs) /\ StepIsApart(Removing(fs)) /\ StepSizes(Removing(fs))
<1>1. CASE fs = << >>
  <2>1. Removing(fs) = Idle /\ Idle.at = "idle" BY <1>1 DEF Removing, Idle
  <2>2. Owned(Idle) = {} BY DEF Owned, Idle
  <2> QED BY <1>1, <2>1, <2>2, NamesOfNone DEF Steps, StepIsApart, StepSizes
<1>2. CASE fs # << >>
  <2> DEFINE st == [at |-> "removing", rest |-> fs, failed |-> << >>]
  <2>1. Removing(fs) = st BY <1>2 DEF Removing
  <2>2. st.at = "removing" /\ st.rest = fs /\ st.failed = << >> OBVIOUS
  <2>3. st \in RemovingStep BY NamesOfNone DEF RemovingStep
  <2> HIDE DEF st
  <2>4. Owned(st) = FileNames(fs) BY <2>2, NamesOfNone DEF Owned
  <2>5. SizesOf(<< >>) BY DEF SizesOf
  <2>6. StepIsApart(st) /\ StepSizes(st) BY <2>2, <2>5, NamesOfNone DEF StepIsApart, StepSizes
  <2> QED BY <2>1, <2>2, <2>3, <2>4, <2>6 DEF Steps
<1> QED BY <1>1, <1>2

-----------------------------------------------------------------------------
(* The response store: the steps *)

\* A step that passes files between the store's list and what one actor answers for.
LEMMA HandingOverKeepsIt ==
  ASSUME StoreIInv, NEW a \in Actors, NEW st \in Steps,
         StepIsApart(st), st.at # "created", StepSizes(st),
         step' = [step EXCEPT ![a] = st], UNCHANGED <<disk, now, left>>,
         files' \in Seq(File), NoRepeats(files'), SizesOf(files'), used' = SumSizes(files'),
         FileNames(files') \cap Owned(st) = {},
         FileNames(files') \cup Owned(st) = FileNames(files) \cup Owned(step[a])
  PROVE  StoreIInv'
<1> USE DEF StoreIInv
<1>1. step' \in [Actors -> Steps] /\ step'[a] = st /\ \A b \in Actors : b # a => step'[b] = step[b]
  BY DEF StoreTyped
<1>2. StoreTyped'
  <2>1. \A b \in Actors : StepIsApart(step'[b]) /\ (step'[b].at = "created" => b \in Writers)
    BY <1>1 DEF StoreTyped
  <2> QED BY <1>1, <2>1 DEF StoreTyped
<1>3. NamesApart'
  <2>1. NoRepeats(files') OBVIOUS
  <2>2. \A b \in Actors : FileNames(files') \cap Owned(step'[b]) = {}
    BY <1>1 DEF NamesApart
  <2>3. \A b, c \in Actors : b # c => Owned(step'[b]) \cap Owned(step'[c]) = {}
    BY <1>1 DEF NamesApart
  <2> QED BY <2>1, <2>2, <2>3 DEF NamesApart
<1>4. \A k : Claimant(k)' <=> Claimant(k)
  BY <1>1 DEF Claimant
<1>5. DiskIsKnown'
  <2>1. \A k : Expired(k)' <=> Expired(k) BY DEF Expired, Born
  <2> QED BY <2>1, <1>4 DEF DiskIsKnown
<1>6. SizesAreTrue'
  <2>1. SizesOf(files)' BY DEF SizesOf
  <2>2. ASSUME NEW b \in Actors PROVE StepSizes(step[b])'
    <3>1. StepSizes(step'[b]) BY <1>1 DEF SizesAreTrue
    <3> QED BY <3>1 DEF StepSizes, SizesOf
  <2> QED BY <2>1, <2>2 DEF SizesAreTrue
<1> QED BY <1>2, <1>3, <1>5, <1>6

\* A step that takes a file off the disk that had expired or that its owner no longer answers for.
LEMMA GoingAwayKeepsIt ==
  ASSUME StoreIInv, NEW name, disk' = Without(name), UNCHANGED <<files, used, now, left>>,
         step' \in [Actors -> Steps],
         \A b \in Actors : StepIsApart(step'[b]) /\ StepSizes(step'[b]) /\ (step'[b].at = "created" => b \in Writers),
         \A b \in Actors : Owned(step'[b]) \subseteq Owned(step[b]),
         \A b \in Actors : \A k \in Owned(step[b]) : k \in Owned(step'[b]) \/ k = name,
         Expired(name) \/ (name \notin FileNames(files) /\ \A b \in Actors : name \notin Owned(step'[b]))
  PROVE  StoreIInv'
<1> USE DEF StoreIInv
<1>1. /\ DOMAIN disk' = DOMAIN disk \ {name} /\ \A k \in DOMAIN disk' : disk'[k] = disk[k]
      /\ disk' = [k \in DOMAIN disk' |-> disk'[k]]
  BY DEF Without
<1>2. StoreTyped'
  <2>1. IsFiniteSet(DOMAIN disk') BY <1>1, FS_Subset DEF StoreTyped
  <2>2. disk' \in [DOMAIN disk' -> Nat] BY <1>1 DEF StoreTyped
  <2> QED BY <1>1, <2>1, <2>2 DEF StoreTyped
<1>3. NamesApart'
  <2>1. \A b \in Actors : FileNames(files') \cap Owned(step'[b]) = {}
    BY DEF NamesApart
  <2>2. \A b, c \in Actors : b # c => Owned(step'[b]) \cap Owned(step'[c]) = {}
    BY DEF NamesApart
  <2> QED BY <2>1, <2>2 DEF NamesApart
<1>4. \A k : Claimant(k) => Claimant(k)' \/ k = name
  BY DEF Claimant
<1>5. \A k : Claimant(k)' => Claimant(k)
  BY DEF Claimant
<1>6. DiskIsKnown'
  <2>1. \A k : Expired(k)' <=> Expired(k) BY DEF Expired, Born
  <2>2. ASSUME NEW k \in DOMAIN disk' PROVE Claimant(k)' \/ (k \in left' /\ Expired(k)')
    <3>1. k \in DOMAIN disk /\ k # name BY <1>1
    <3> QED BY <3>1, <2>1, <1>4 DEF DiskIsKnown
  <2>3. ASSUME NEW k \in Name, Claimant(k)' PROVE k \in DOMAIN disk' \/ Expired(k)'
    <3>1. Claimant(k) BY <2>3, <1>5
    <3>2. k = name => Expired(k) BY <2>3 DEF Claimant
    <3> QED BY <3>1, <3>2, <2>1, <1>1 DEF DiskIsKnown
  <2> QED BY <2>2, <2>3 DEF DiskIsKnown
<1>7. SizesAreTrue'
  <2>1. SizesOf(files)' BY <1>1 DEF SizesAreTrue, SizesOf
  <2>2. ASSUME NEW b \in Actors PROVE StepSizes(step[b])'
    <3>1. StepSizes(step'[b]) OBVIOUS
    <3>2. \A fs : SizesOf(fs) => \A i \in 1 .. Len(fs) : fs[i].name \in DOMAIN disk' => disk'[fs[i].name] = fs[i].size
      BY <1>1 DEF SizesOf
    <3>3. step'[b].at = "created" => (step'[b].name \in DOMAIN disk' => disk'[step'[b].name] = step'[b].size)
      BY <3>1, <1>1 DEF StepSizes
    <3>4. step'[b].at = "removing" => SizesOf(step'[b].rest) /\ SizesOf(step'[b].failed)
      BY <3>1 DEF StepSizes
    <3>5. step'[b].at = "removing" => SizesOf(step[b].rest)' /\ SizesOf(step[b].failed)'
      BY <3>2, <3>4 DEF SizesOf
    <3> QED BY <3>3, <3>5 DEF StepSizes
  <2> QED BY <2>1, <2>2 DEF SizesAreTrue
<1> QED BY <1>2, <1>3, <1>6, <1>7

LEMMA PurgeExpiredKeepsIt ==
  ASSUME StoreIInv, NEW name \in DOMAIN disk, PurgeExpired(name)
  PROVE  StoreIInv'
<1>1. Expired(name) BY DEF PurgeExpired, Expired
<1>2. \A b \in Actors : StepIsApart(step'[b]) /\ StepSizes(step'[b]) /\ (step'[b].at = "created" => b \in Writers)
  BY DEF PurgeExpired, StoreIInv, StoreTyped, SizesAreTrue
<1>3. step' = step /\ step' \in [Actors -> Steps] BY DEF PurgeExpired, StoreIInv, StoreTyped
<1> QED BY <1>1, <1>2, <1>3, GoingAwayKeepsIt DEF PurgeExpired

LEMMA TickKeepsIt ==
  ASSUME StoreIInv, Tick
  PROVE  StoreIInv'
<1> USE DEF StoreIInv
<1>1. now \in Nat /\ now' = now + 1 /\ UNCHANGED <<disk, files, used, step, left>> BY DEF Tick, StoreTyped
<1>2. TTL \in Nat BY StoreAssumption
<1>3. StoreTyped'
  <2>1. \A a \in Actors : StepIsApart(step'[a]) /\ (step'[a].at = "created" => a \in Writers) BY <1>1 DEF StoreTyped
  <2>2. step' \in [Actors -> Steps] /\ files' \in Seq(File) /\ now' \in Nat BY <1>1 DEF StoreTyped
  <2>3. IsFiniteSet(DOMAIN disk') /\ DOMAIN disk' \subseteq Name /\ disk' \in [DOMAIN disk' -> Nat]
    BY <1>1 DEF StoreTyped
  <2> QED BY <2>1, <2>2, <2>3 DEF StoreTyped
<1>4. NamesApart' BY <1>1 DEF NamesApart
<1>5. \A k \in Name : Expired(k) => Expired(k)'
  <2> SUFFICES ASSUME NEW k \in Name, Expired(k) PROVE Expired(k)' OBVIOUS
  <2>1. k[1] \in Nat BY DEF Name
  <2> QED BY <1>1, <1>2, <2>1 DEF Expired, Born
<1>6. DiskIsKnown'
  <2>1. \A k : Claimant(k)' <=> Claimant(k) BY <1>1 DEF Claimant
  <2>2. DOMAIN disk \subseteq Name BY DEF StoreTyped
  <2> QED BY <1>1, <1>5, <2>1, <2>2 DEF DiskIsKnown
<1>7. SizesAreTrue' BY <1>1 DEF SizesAreTrue, StepSizes, SizesOf
<1> QED BY <1>1, <1>3, <1>4, <1>6, <1>7

LEMMA StutterKeepsIt ==
  ASSUME StoreIInv, UNCHANGED storeVars
  PROVE  StoreIInv'
<1> USE DEF StoreIInv, storeVars
<1>1. StoreTyped' BY DEF StoreTyped, StepIsApart
<1>2. NamesApart' BY DEF NamesApart
<1>3. DiskIsKnown' BY DEF DiskIsKnown, Claimant, Expired, Born
<1>4. SizesAreTrue' BY DEF SizesAreTrue, StepSizes, SizesOf
<1> QED BY <1>1, <1>2, <1>3, <1>4

LEMMA CreateUniqueFileKeepsIt ==
  ASSUME StoreIInv, NEW w \in Writers, NEW size \in Sizes, CreateUniqueFile(w, size)
  PROVE  StoreIInv'
<1> USE DEF StoreIInv
<1> DEFINE new == NewName
           st == [at |-> "created", name |-> new, size |-> size]
<1>1. /\ step[w] = Idle /\ step' = [step EXCEPT ![w] = st]
      /\ disk' = [k \in DOMAIN disk \cup {new} |-> IF k = new THEN size ELSE disk[k]]
      /\ UNCHANGED <<files, used, now, left>>
  BY DEF CreateUniqueFile
<1>2. new \in Name /\ new \notin DOMAIN disk /\ Born(new) = now BY NewNameIsNew
<1>3. size \in Nat /\ TTL \in Nat \ {0} /\ now \in Nat BY StoreAssumption DEF StoreTyped
<1>4. st \in Creating /\ st.at = "created" /\ st.name = new /\ st.size = size
  BY <1>2, <1>3 DEF Creating
<1> HIDE DEF new, st
<1>5. w \in Actors BY DEF Actors
<1>6. step' \in [Actors -> Steps] /\ step'[w] = st /\ \A b \in Actors : b # w => step'[b] = step[b]
  BY <1>1, <1>4, <1>5 DEF StoreTyped, Steps
<1>7. Owned(st) = {new} /\ Owned(step[w]) = {}
  BY <1>1, <1>4 DEF Owned, Idle
<1>8. ~Claimant(new)
  <2>1. ~Expired(new) BY <1>2, <1>3 DEF Expired
  <2> QED BY <2>1, <1>2 DEF DiskIsKnown
<1>9. /\ DOMAIN disk' = DOMAIN disk \cup {new} /\ disk'[new] = size
      /\ \A k \in DOMAIN disk : disk'[k] = disk[k]
      /\ disk' = [k \in DOMAIN disk' |-> disk'[k]]
  BY <1>1, <1>2
<1>10. StoreTyped'
  <2>1. IsFiniteSet(DOMAIN disk') BY <1>9, FS_AddElement DEF StoreTyped
  <2>2. disk' \in [DOMAIN disk' -> Nat] /\ DOMAIN disk' \subseteq Name BY <1>2, <1>3, <1>9 DEF StoreTyped
  <2>3. \A b \in Actors : StepIsApart(step'[b]) /\ (step'[b].at = "created" => b \in Writers)
    BY <1>4, <1>6 DEF StoreTyped, StepIsApart
  <2> QED BY <1>1, <1>6, <2>1, <2>2, <2>3 DEF StoreTyped
<1>11. NamesApart'
  <2>1. \A b \in Actors : new \notin FileNames(files) /\ new \notin Owned(step[b]) BY <1>8 DEF Claimant
  <2>2. \A b \in Actors : FileNames(files') \cap Owned(step'[b]) = {}
    BY <1>1, <1>6, <1>7, <2>1 DEF NamesApart
  <2>3. \A b, c \in Actors : b # c => Owned(step'[b]) \cap Owned(step'[c]) = {}
    BY <1>1, <1>6, <1>7, <2>1 DEF NamesApart
  <2> QED BY <1>1, <2>2, <2>3 DEF NamesApart
<1>12. \A k : Claimant(k)' <=> Claimant(k) \/ k = new
  BY <1>1, <1>5, <1>6, <1>7 DEF Claimant
<1>13. DiskIsKnown'
  <2>1. \A k : Expired(k)' <=> Expired(k) BY <1>1 DEF Expired, Born
  <2> QED BY <1>1, <1>9, <1>12, <2>1 DEF DiskIsKnown
<1>14. ASSUME NEW fs \in Seq(File), SizesOf(fs), new \notin FileNames(fs)
       PROVE  \A i \in 1 .. Len(fs) : fs[i].name \in DOMAIN disk' => disk'[fs[i].name] = fs[i].size
  BY <1>9, <1>14 DEF SizesOf, FileNames
<1>15. SizesAreTrue'
  <2>1. SizesOf(files)'
    <3>1. new \notin FileNames(files) /\ files \in Seq(File) /\ SizesOf(files)
      BY <1>8 DEF Claimant, StoreTyped, SizesAreTrue
    <3> QED BY <1>1, <1>14, <3>1 DEF SizesOf
  <2>2. ASSUME NEW b \in Actors PROVE StepSizes(step[b])'
    <3>1. CASE b = w BY <3>1, <1>4, <1>6, <1>9 DEF StepSizes
    <3>2. CASE b # w
      <4>1. step'[b] = step[b] /\ new \notin Owned(step[b]) /\ StepSizes(step[b])
        BY <3>2, <1>6, <1>8 DEF Claimant, SizesAreTrue
      <4>2. step[b].at = "created" => (step[b].name \in DOMAIN disk' => disk'[step[b].name] = step[b].size)
        BY <4>1, <1>9 DEF StepSizes, Owned
      <4>3. step[b].at = "removing" => SizesOf(step[b].rest)' /\ SizesOf(step[b].failed)'
        <5> SUFFICES ASSUME step[b].at = "removing" PROVE SizesOf(step[b].rest)' /\ SizesOf(step[b].failed)' OBVIOUS
        <5>1. step[b] \in Steps BY DEF StoreTyped
        <5>2. step[b] \in RemovingStep BY <5>1 DEF Steps, Idle, Creating
        <5>3. step[b].rest \in Seq(File) /\ step[b].failed \in Seq(File) BY <5>2 DEF RemovingStep
        <5>4. new \notin FileNames(step[b].rest) /\ new \notin FileNames(step[b].failed) BY <4>1 DEF Owned
        <5>5. SizesOf(step[b].rest) /\ SizesOf(step[b].failed) BY <4>1 DEF StepSizes
        <5> DEFINE r == step[b].rest
                   f == step[b].failed
        <5>6. \A i \in 1 .. Len(r) : r[i].name \in DOMAIN disk' => disk'[r[i].name] = r[i].size
          BY <5>3, <5>4, <5>5, <1>14
        <5>7. \A i \in 1 .. Len(f) : f[i].name \in DOMAIN disk' => disk'[f[i].name] = f[i].size
          BY <5>3, <5>4, <5>5, <1>14
        <5>8. (step[b].rest)' = r /\ (step[b].failed)' = f BY <4>1
        <5> HIDE DEF r, f
        <5> QED BY <5>6, <5>7, <5>8 DEF SizesOf
      <4> QED BY <4>1, <4>2, <4>3 DEF StepSizes
    <3> QED BY <3>1, <3>2
  <2> QED BY <2>1, <2>2 DEF SizesAreTrue
<1> QED BY <1>1, <1>10, <1>11, <1>13, <1>15


LEMMA RecordWriteKeepsIt ==
  ASSUME StoreIInv, NEW w \in Writers, RecordWrite(w)
  PROVE  StoreIInv'
<1> USE DEF StoreIInv
<1> DEFINE f == [name |-> step[w].name, size |-> step[w].size, expires |-> now + TTL]
           fs == Append(files, f)
           n == Overshoot(fs, used + step[w].size)
           old == SubSeq(fs, 1, n)
           kept == SubSeq(fs, n + 1, Len(fs))
           st == Removing(old)
<1>1. /\ step[w].at = "created" /\ files' = kept /\ used' = used + step[w].size - SumSizes(old)
      /\ step' = [step EXCEPT ![w] = st] /\ UNCHANGED <<disk, now, left>>
  BY DEF RecordWrite
<1>2. w \in Actors BY DEF Actors
<1>3. step[w] \in Creating
  <2>1. step[w] \in Steps BY <1>2 DEF StoreTyped
  <2> QED BY <2>1, <1>1 DEF Steps, Idle, RemovingStep
<1>4. step[w].name \in Name /\ step[w].size \in Nat BY <1>3 DEF Creating
<1>5. f \in File /\ f.name = step[w].name /\ f.size = step[w].size
  <2>1. now + TTL \in Nat BY StoreAssumption DEF StoreTyped
  <2> QED BY <1>4, <2>1 DEF File
<1>6. files \in Seq(File) BY DEF StoreTyped
<1>7. Owned(step[w]) = {f.name} BY <1>1, <1>5 DEF Owned
<1> HIDE DEF f
<1>8. /\ fs \in Seq(File) /\ FileNames(fs) = FileNames(files) \cup {f.name}
      /\ NoRepeats(fs) <=> NoRepeats(files) /\ f.name \notin FileNames(files)
  BY <1>5, <1>6, NamesOfAppend
<1>9. NoRepeats(fs) BY <1>2, <1>7, <1>8 DEF NamesApart
<1>10. SumSizes(fs) = used + step[w].size BY <1>5, <1>6, SumOfAppend
<1>11. SizesOf(fs)
  <2>1. f.name \in DOMAIN disk => disk[f.name] = f.size BY <1>1, <1>2, <1>5 DEF SizesAreTrue, StepSizes
  <2> QED BY <2>1, <1>5, <1>6, SizesOfAppend DEF SizesAreTrue
<1>12. n \in 0 .. Len(fs)
  <2>1. fs # << >>
    <3>1. Len(fs) = Len(files) + 1 /\ Len(files) \in Nat BY <1>5, <1>6, AppendProperties
    <3> HIDE DEF fs
    <3> QED BY <3>1
  <2>2. used + step[w].size \in Nat BY <1>4, <1>6, SumIsNat
  <2> HIDE DEF fs
  <2>3. n \in 0 .. Len(fs) - 1 BY <2>1, <2>2, <1>8, OvershootIsSome
  <2>4. Len(fs) \in Nat BY <1>8
  <2> HIDE DEF n
  <2> QED BY <2>3, <2>4
<1> HIDE DEF fs, n
<1>13. old \in Seq(File) /\ kept \in Seq(File) /\ SumSizes(fs) = SumSizes(old) + SumSizes(kept)
  BY <1>8, <1>12, SumOfSplit
<1>14. fs = old \o kept
  <2>1. 1 \in 1 .. Len(fs) + 1 /\ n \in (1 - 1) .. Len(fs) /\ Len(fs) \in n .. Len(fs) BY <1>8, <1>12
  <2>2. old \o kept = SubSeq(fs, 1, Len(fs)) BY <1>8, <2>1, ConcatAdjacentSubSeq
  <2> QED BY <1>8, <2>2, SubSeqFull
<1> HIDE DEF old, kept
<1>15. /\ FileNames(fs) = FileNames(old) \cup FileNames(kept)
       /\ NoRepeats(old) /\ NoRepeats(kept) /\ FileNames(old) \cap FileNames(kept) = {}
       /\ SizesOf(old) /\ SizesOf(kept)
  BY <1>9, <1>11, <1>13, <1>14, NamesOfConcat, SizesOfConcat
<1>16. st \in Steps /\ st.at # "created" /\ Owned(st) = FileNames(old) /\ StepIsApart(st) /\ StepSizes(st)
  BY <1>13, <1>15, RemovingIsFit
<1> HIDE DEF st
<1>17. used' = SumSizes(files')
  <2>1. SumSizes(old) \in Nat /\ SumSizes(kept) \in Nat /\ used \in Nat BY <1>6, <1>13, SumIsNat
  <2> QED BY <2>1, <1>1, <1>4, <1>10, <1>13
<1>18. FileNames(files') \cap Owned(st) = {} /\ FileNames(files') \cup Owned(st) = FileNames(files) \cup Owned(step[w])
  BY <1>1, <1>7, <1>8, <1>15, <1>16
<1>19. files' \in Seq(File) /\ NoRepeats(files') /\ SizesOf(files') BY <1>1, <1>13, <1>15
<1> QED BY <1>1, <1>2, <1>16, <1>17, <1>18, <1>19, HandingOverKeepsIt

LEMMA EvictExpiredKeepsIt ==
  ASSUME StoreIInv, EvictExpired
  PROVE  StoreIInv'
<1> USE DEF StoreIInv
<1> DEFINE p == PartitionByExpiry(files)
           st == Removing(p.expired)
<1>1. /\ step[Cleaner] = Idle /\ files' = p.kept /\ used' = used - SumSizes(p.expired)
      /\ step' = [step EXCEPT ![Cleaner] = st] /\ UNCHANGED <<disk, now, left>>
  BY DEF EvictExpired
<1>2. Cleaner \in Actors BY DEF Actors
<1>3. files \in Seq(File) /\ NoRepeats(files) /\ SizesOf(files) BY DEF StoreTyped, NamesApart, SizesAreTrue
<1>4. IsPartition(files, p) BY <1>3, PartitionIsSound
<1> HIDE DEF p
<1>5. /\ p.kept \in Seq(File) /\ p.expired \in Seq(File)
      /\ SumSizes(files) = SumSizes(p.kept) + SumSizes(p.expired)
      /\ FileNames(files) = FileNames(p.kept) \cup FileNames(p.expired)
      /\ NoRepeats(p.kept) /\ NoRepeats(p.expired) /\ FileNames(p.kept) \cap FileNames(p.expired) = {}
      /\ SizesOf(p.kept) /\ SizesOf(p.expired)
  BY <1>3, <1>4 DEF IsPartition
<1>6. st \in Steps /\ st.at # "created" /\ Owned(st) = FileNames(p.expired) /\ StepIsApart(st) /\ StepSizes(st)
  BY <1>5, RemovingIsFit
<1> HIDE DEF st
<1>7. Owned(step[Cleaner]) = {} BY <1>1 DEF Owned, Idle
<1>8. used' = SumSizes(files')
  <2>1. SumSizes(p.kept) \in Nat /\ SumSizes(p.expired) \in Nat BY <1>5, SumIsNat
  <2> QED BY <2>1, <1>1, <1>5
<1>9. FileNames(files') \cap Owned(st) = {}
      /\ FileNames(files') \cup Owned(st) = FileNames(files) \cup Owned(step[Cleaner])
  BY <1>1, <1>5, <1>6, <1>7
<1>10. files' \in Seq(File) /\ NoRepeats(files') /\ SizesOf(files') BY <1>1, <1>5
<1> QED BY <1>1, <1>2, <1>6, <1>8, <1>9, <1>10, HandingOverKeepsIt

LEMMA RestoreRemoveFailedKeepsIt ==
  ASSUME StoreIInv, NEW a \in Actors, RestoreRemoveFailed(a)
  PROVE  StoreIInv'
<1> USE DEF StoreIInv
<1> DEFINE failed == step[a].failed
           gs == failed \o files
<1>1. /\ step[a].at = "removing" /\ step[a].rest = << >> /\ files' = gs
      /\ used' = used + SumSizes(failed) /\ step' = [step EXCEPT ![a] = Idle] /\ UNCHANGED <<disk, now, left>>
  BY DEF RestoreRemoveFailed
<1>2. step[a] \in RemovingStep
  <2>1. step[a] \in Steps BY DEF StoreTyped
  <2> QED BY <2>1, <1>1 DEF Steps, Idle, Creating
<1>3. failed \in Seq(File) BY <1>2 DEF RemovingStep
<1>4. NoRepeats(failed) /\ SizesOf(failed) /\ Owned(step[a]) = FileNames(failed)
  BY <1>1, NamesOfNone DEF StoreTyped, StepIsApart, SizesAreTrue, StepSizes, Owned
<1>5. files \in Seq(File) /\ NoRepeats(files) /\ SizesOf(files) /\ FileNames(files) \cap Owned(step[a]) = {}
  BY DEF StoreTyped, NamesApart, SizesAreTrue
<1> HIDE DEF failed
<1>6. gs \in Seq(File) /\ FileNames(gs) = FileNames(failed) \cup FileNames(files) /\ NoRepeats(gs) /\ SizesOf(gs)
  BY <1>3, <1>4, <1>5, NamesOfConcat, SizesOfConcat, ConcatProperties
<1>7. SumSizes(gs) = used + SumSizes(failed)
  <2>1. SumSizes(gs) = SumSizes(failed) + SumSizes(files) BY <1>3, <1>5, SumOfConcat
  <2>2. SumSizes(failed) \in Nat /\ SumSizes(files) \in Nat BY <1>3, <1>5, SumIsNat
  <2> QED BY <2>1, <2>2
<1> HIDE DEF gs
<1>8. Idle \in Steps /\ Idle.at # "created" /\ StepIsApart(Idle) /\ StepSizes(Idle) /\ Owned(Idle) = {}
  BY DEF Steps, Idle, StepIsApart, StepSizes, Owned
<1>9. /\ files' \in Seq(File) /\ NoRepeats(files') /\ SizesOf(files') /\ used' = SumSizes(files')
      /\ FileNames(files') \cap Owned(Idle) = {}
      /\ FileNames(files') \cup Owned(Idle) = FileNames(files) \cup Owned(step[a])
  BY <1>1, <1>4, <1>6, <1>7, <1>8
<1> QED BY <1>1, <1>8, <1>9, HandingOverKeepsIt

LEMMA RemoveFileKeepsIt ==
  ASSUME StoreIInv, NEW a \in Actors, RemoveFile(a)
  PROVE  StoreIInv'
<1> USE DEF StoreIInv
<1> DEFINE rest == step[a].rest
           failed == step[a].failed
           f == Head(rest)
           rest2 == Tail(rest)
<1>1. step[a].at = "removing" /\ rest # << >> /\ UNCHANGED <<files, used, now, left>> BY DEF RemoveFile
<1>2. step[a] \in RemovingStep
  <2>1. step[a] \in Steps BY DEF StoreTyped
  <2> QED BY <2>1, <1>1 DEF Steps, Idle, Creating
<1>3. rest \in Seq(File) /\ failed \in Seq(File) /\ step[a] = [at |-> "removing", rest |-> rest, failed |-> failed]
  BY <1>2 DEF RemovingStep
<1>4. /\ NoRepeats(rest) /\ NoRepeats(failed) /\ FileNames(rest) \cap FileNames(failed) = {}
      /\ SizesOf(rest) /\ SizesOf(failed) /\ Owned(step[a]) = FileNames(rest) \cup FileNames(failed)
  BY <1>1 DEF StoreTyped, StepIsApart, SizesAreTrue, StepSizes, Owned
<1>5. \/ disk' = Without(f.name) /\ step' = [step EXCEPT ![a].rest = Tail(@)]
      \/ disk' = disk /\ step' = [step EXCEPT ![a].rest = Tail(@), ![a].failed = Append(@, f)]
  BY DEF RemoveFile
<1> DEFINE gone == [step[a] EXCEPT !.rest = rest2]
           stuck == [step[a] EXCEPT !.rest = rest2, !.failed = Append(failed, f)]
<1>6. [step EXCEPT ![a].rest = Tail(@)] = [step EXCEPT ![a] = gone] OBVIOUS
<1>7. [step EXCEPT ![a].rest = Tail(@), ![a].failed = Append(@, f)] = [step EXCEPT ![a] = stuck]
  BY DEF StoreTyped
<1>14. gone.at = "removing" /\ gone.rest = rest2 /\ gone.failed = failed
  BY <1>2 DEF RemovingStep
<1>15. stuck.at = "removing" /\ stuck.rest = rest2 /\ stuck.failed = Append(failed, f)
  BY <1>2 DEF RemovingStep
<1>16. ASSUME rest2 \in Seq(File) PROVE gone \in RemovingStep
  BY <1>2, <1>16 DEF RemovingStep
<1>17. ASSUME rest2 \in Seq(File), Append(failed, f) \in Seq(File) PROVE stuck \in RemovingStep
  BY <1>2, <1>17 DEF RemovingStep
<1> HIDE DEF gone, stuck
<1>8. f \in File /\ rest2 \in Seq(File) /\ rest = <<f>> \o rest2
  BY <1>1, <1>3, HeadTailProperties
<1> HIDE DEF rest, failed, f, rest2
<1> DEFINE one == <<f>>
<1>9. one \in Seq(File) /\ FileNames(one) = {f.name} /\ NoRepeats(one) BY <1>8, NamesOfOne
<1>10. rest = one \o rest2 BY <1>8
<1> HIDE DEF one
<1>11. /\ FileNames(rest) = {f.name} \cup FileNames(rest2) /\ NoRepeats(rest2) /\ f.name \notin FileNames(rest2)
       /\ SizesOf(one) /\ SizesOf(rest2)
  <2>1. /\ FileNames(one \o rest2) = FileNames(one) \cup FileNames(rest2)
        /\ NoRepeats(one \o rest2) <=> NoRepeats(one) /\ NoRepeats(rest2) /\ FileNames(one) \cap FileNames(rest2) = {}
        /\ SizesOf(one \o rest2) <=> SizesOf(one) /\ SizesOf(rest2)
    BY <1>8, <1>9, NamesOfConcat, SizesOfConcat
  <2> QED BY <2>1, <1>4, <1>9, <1>10
<1>12. CASE disk' = Without(f.name) /\ step' = [step EXCEPT ![a] = gone]
  <2>1. gone \in Steps /\ gone.at = "removing" /\ gone.rest = rest2 /\ gone.failed = failed
    BY <1>8, <1>14, <1>16 DEF Steps
  <2>2. StepIsApart(gone) /\ StepSizes(gone) /\ Owned(gone) = FileNames(rest2) \cup FileNames(failed)
    BY <2>1, <1>4, <1>11 DEF StepIsApart, StepSizes, Owned
  <2>3. step' \in [Actors -> Steps] /\ step'[a] = gone /\ \A b \in Actors : b # a => step'[b] = step[b]
    BY <1>12, <2>1 DEF StoreTyped
  <2>4. \A b \in Actors : StepIsApart(step'[b]) /\ StepSizes(step'[b]) /\ (step'[b].at = "created" => b \in Writers)
    BY <2>1, <2>2, <2>3 DEF StoreTyped, SizesAreTrue
  <2>5. \A b \in Actors : Owned(step'[b]) \subseteq Owned(step[b])
    BY <2>2, <2>3, <1>4, <1>11
  <2>6. \A b \in Actors : \A k \in Owned(step[b]) : k \in Owned(step'[b]) \/ k = f.name
    BY <2>2, <2>3, <1>4, <1>11
  <2>7. f.name \notin FileNames(files) /\ \A b \in Actors : f.name \notin Owned(step'[b])
    <3>1. f.name \in Owned(step[a]) BY <1>4, <1>11
    <3>2. f.name \notin Owned(gone) BY <2>2, <1>4, <1>11
    <3> QED BY <3>1, <3>2, <2>3 DEF NamesApart
  <2> QED BY <1>1, <1>12, <2>3, <2>4, <2>5, <2>6, <2>7, GoingAwayKeepsIt
<1>13. CASE disk' = disk /\ step' = [step EXCEPT ![a] = stuck]
  <2> DEFINE failed2 == Append(failed, f)
  <2>1. /\ failed2 \in Seq(File) /\ FileNames(failed2) = FileNames(failed) \cup {f.name}
        /\ NoRepeats(failed2) <=> NoRepeats(failed) /\ f.name \notin FileNames(failed)
        /\ SizesOf(failed2) <=> SizesOf(failed) /\ (f.name \in DOMAIN disk => disk[f.name] = f.size)
    BY <1>3, <1>8, NamesOfAppend, SizesOfAppend
  <2>2. stuck \in Steps /\ stuck.at = "removing" /\ stuck.rest = rest2 /\ stuck.failed = failed2
    BY <1>8, <1>15, <1>17, <2>1 DEF Steps
  <2> HIDE DEF failed2
  <2>3. f.name \in DOMAIN disk => disk[f.name] = f.size
    <3>1. Len(one) = 1 /\ one[1] = f BY DEF one
    <3> QED BY <3>1, <1>11 DEF SizesOf
  <2>4. StepIsApart(stuck) /\ StepSizes(stuck) /\ Owned(stuck) = FileNames(rest2) \cup FileNames(failed2)
    BY <2>1, <2>2, <2>3, <1>4, <1>11 DEF StepIsApart, StepSizes, Owned
  <2>5. Owned(stuck) = Owned(step[a]) BY <2>1, <2>4, <1>4, <1>11
  <2>6. /\ files' \in Seq(File) /\ NoRepeats(files') /\ SizesOf(files') /\ used' = SumSizes(files')
        /\ FileNames(files') \cap Owned(stuck) = {}
        /\ FileNames(files') \cup Owned(stuck) = FileNames(files) \cup Owned(step[a])
    BY <1>1, <2>5 DEF StoreTyped, NamesApart, SizesAreTrue
  <2> QED BY <1>1, <1>13, <2>2, <2>4, <2>6, HandingOverKeepsIt
<1> QED BY <1>5, <1>6, <1>7, <1>12, <1>13

LEMMA RestartKeepsIt ==
  ASSUME StoreIInv, Restart
  PROVE  StoreIInv'
<1> USE DEF StoreIInv
<1> DEFINE fresh == {k \in DOMAIN disk : Born(k) + TTL >= now}
           old == DOMAIN disk \ fresh
<1>1. PICK stuck \in SUBSET old, listed \in InNameOrder(fresh) :
        /\ disk' = [k \in fresh \cup stuck |-> disk[k]]
        /\ files' = [i \in 1 .. Cardinality(fresh) |->
                        [name |-> listed[i], size |-> disk[listed[i]], expires |-> Born(listed[i]) + TTL]]
        /\ used' = SumSizes(files') /\ step' = [a \in Actors |-> Idle] /\ left' = stuck /\ UNCHANGED now
  BY DEF Restart
<1>2. fresh \subseteq DOMAIN disk /\ stuck \subseteq DOMAIN disk /\ stuck \cap fresh = {} OBVIOUS
<1>3. \A k \in stuck : Expired(k)
  <2> SUFFICES ASSUME NEW k \in stuck PROVE Expired(k) OBVIOUS
  <2>1. k \in Name /\ ~(Born(k) + TTL >= now) BY DEF StoreTyped
  <2>2. k[1] \in Nat /\ TTL \in Nat /\ now \in Nat BY <2>1, StoreAssumption DEF Name, StoreTyped
  <2> QED BY <2>1, <2>2 DEF Expired, Born
<1> HIDE DEF fresh
<1>4. fresh \subseteq Name /\ IsFiniteSet(fresh) /\ Cardinality(fresh) \in Nat
  BY <1>2, FS_Subset, FS_CardinalityType DEF StoreTyped
<1>5. \A k \in fresh : disk[k] \in Nat /\ k \in Name /\ Born(k) + TTL \in Nat
  <2> TAKE k \in fresh
  <2>1. k \in Name BY <1>4
  <2>2. k[1] \in Nat /\ TTL \in Nat BY <2>1, StoreAssumption DEF Name
  <2> QED BY <2>1, <2>2, <1>2 DEF StoreTyped, Born
<1>6. listed \in [1 .. Cardinality(fresh) -> fresh] BY DEF InNameOrder
<1>7. /\ files' \in Seq(File) /\ Len(files') = Cardinality(fresh)
      /\ \A i \in 1 .. Len(files') : files'[i].name = listed[i] /\ files'[i].size = disk[listed[i]]
  <2>1. \A i \in 1 .. Cardinality(fresh) :
          [name |-> listed[i], size |-> disk[listed[i]], expires |-> Born(listed[i]) + TTL] \in File
    BY <1>5, <1>6 DEF File
  <2>2. files' \in Seq(File) BY <1>1, <1>4, <2>1
  <2>3. Len(files') = Cardinality(fresh) BY <1>1, <1>4, <2>2
  <2>4. \A i \in 1 .. Cardinality(fresh) : files'[i].name = listed[i] /\ files'[i].size = disk[listed[i]]
    BY <1>1
  <2> QED BY <2>2, <2>3, <2>4
<1>8. NoRepeats(files') /\ FileNames(files') = fresh BY <1>4, <1>7, ListingIsExact
<1>9. /\ DOMAIN disk' = fresh \cup stuck /\ (\A k \in DOMAIN disk' : disk'[k] = disk[k])
      /\ disk' = [k \in DOMAIN disk' |-> disk'[k]]
  BY <1>1
<1>10. \A a \in Actors : step'[a] = Idle BY <1>1
<1>11. Idle \in Steps /\ Idle.at # "created" /\ Idle.at # "removing" /\ Owned(Idle) = {}
  BY DEF Steps, Idle, Owned
<1>12. StoreTyped'
  <2>1. IsFiniteSet(DOMAIN disk') BY <1>2, <1>9, FS_Subset DEF StoreTyped
  <2>2. disk' \in [DOMAIN disk' -> Nat] /\ DOMAIN disk' \subseteq Name BY <1>2, <1>9 DEF StoreTyped
  <2>3. step' \in [Actors -> Steps] BY <1>1, <1>11
  <2>4. \A a \in Actors : StepIsApart(step'[a]) /\ (step'[a].at = "created" => a \in Writers)
    BY <1>10, <1>11 DEF StepIsApart
  <2> QED BY <1>1, <1>7, <2>1, <2>2, <2>3, <2>4 DEF StoreTyped
<1>13. NamesApart' BY <1>8, <1>10, <1>11 DEF NamesApart
<1>14. DiskIsKnown'
  <2>1. \A k : Claimant(k)' <=> k \in fresh BY <1>8, <1>10, <1>11 DEF Claimant
  <2>2. \A k : Expired(k)' <=> Expired(k) BY <1>1 DEF Expired, Born
  <2> QED BY <1>1, <1>3, <1>9, <2>1, <2>2 DEF DiskIsKnown
<1>15. SizesAreTrue'
  <2>1. SizesOf(files)'
    <3>1. \A i \in 1 .. Len(files') : files'[i].name \in DOMAIN disk' => disk'[files'[i].name] = files'[i].size
      BY <1>7, <1>9
    <3> QED BY <3>1 DEF SizesOf
  <2>2. \A a \in Actors : StepSizes(step[a])' BY <1>10, <1>11 DEF StepSizes
  <2> QED BY <2>1, <2>2 DEF SizesAreTrue
<1> QED BY <1>1, <1>12, <1>13, <1>14, <1>15

-----------------------------------------------------------------------------
(* The response store: the theorem *)

LEMMA StoreStarts == StoreInit => StoreIInv
<1> SUFFICES ASSUME StoreInit PROVE StoreIInv OBVIOUS
<1>1. disk = << >> /\ files = << >> /\ used = 0 /\ now = 1 /\ \A a \in Actors : step[a] = Idle
  BY DEF StoreInit
<1>2. DOMAIN disk = {} /\ disk = [k \in DOMAIN disk |-> disk[k]]
  <2>1. DOMAIN << >> = {} /\ << >> = [k \in {} |-> 0] OBVIOUS
  <2> QED BY <1>1, <2>1
<1>3. Idle \in Steps /\ Idle.at # "created" /\ Idle.at # "removing" /\ Owned(Idle) = {}
  BY DEF Steps, Idle, Owned
<1>4. StoreTyped
  <2>1. IsFiniteSet(DOMAIN disk) BY <1>2, FS_EmptySet
  <2>2. step \in [Actors -> Steps] BY <1>3 DEF StoreInit
  <2> QED BY <1>1, <1>2, <1>3, <2>1, <2>2, NamesOfNone DEF StoreTyped, StepIsApart
<1>5. NamesApart BY <1>1, <1>3, NamesOfNone DEF NamesApart
<1>6. DiskIsKnown BY <1>1, <1>2, <1>3, NamesOfNone DEF DiskIsKnown, Claimant
<1>7. SizesAreTrue BY <1>1, <1>3, <1>2 DEF SizesAreTrue, StepSizes, SizesOf
<1> QED BY <1>1, <1>4, <1>5, <1>6, <1>7, SumOfNone DEF StoreIInv

LEMMA StoreStepKeepsIt == StoreIInv /\ [StoreNext]_storeVars => StoreIInv'
<1> SUFFICES ASSUME StoreIInv, [StoreNext]_storeVars PROVE StoreIInv' OBVIOUS
<1>1. CASE UNCHANGED storeVars BY <1>1, StutterKeepsIt
<1>2. ASSUME NEW w \in Writers, NEW size \in Sizes, CreateUniqueFile(w, size) PROVE StoreIInv'
  BY <1>2, CreateUniqueFileKeepsIt
<1>3. ASSUME NEW w \in Writers, RecordWrite(w) PROVE StoreIInv' BY <1>3, RecordWriteKeepsIt
<1>4. ASSUME NEW a \in Actors, RemoveFile(a) PROVE StoreIInv' BY <1>4, RemoveFileKeepsIt
<1>5. ASSUME NEW a \in Actors, RestoreRemoveFailed(a) PROVE StoreIInv' BY <1>5, RestoreRemoveFailedKeepsIt
<1>6. CASE EvictExpired BY <1>6, EvictExpiredKeepsIt
<1>7. CASE Tick BY <1>7, TickKeepsIt
<1>8. CASE Restart BY <1>8, RestartKeepsIt
<1>9. ASSUME NEW name \in DOMAIN disk, PurgeExpired(name) PROVE StoreIInv' BY <1>9, PurgeExpiredKeepsIt
<1> QED BY <1>1, <1>2, <1>3, <1>4, <1>5, <1>6, <1>7, <1>8, <1>9 DEF StoreNext

LEMMA StoreIInvImplies == StoreIInv => DiskIsTracked
<1> SUFFICES ASSUME StoreIInv PROVE DiskIsTracked OBVIOUS
<1> USE DEF StoreIInv
<1>1. files \in Seq(File) /\ NoRepeats(files) BY DEF StoreTyped, NamesApart
<1>2. DOMAIN files = 1 .. Len(files) BY <1>1
<1>3. Tracked = FileNames(files) BY <1>2 DEF Tracked, FileNames
<1>4. Cardinality(Tracked) = Len(files) BY <1>1, <1>3, NamesAreCounted
<1>5. \A k : k \in Held <=> \E w \in Writers : step[w].at = "created" /\ k = step[w].name BY DEF Held
<1>6. \A k : k \in Held => \E a \in Actors : step[a].at = "created" /\ k \in Owned(step[a])
  BY <1>5 DEF Owned, Actors
<1>7. \A k : k \in Doomed <=> \E a \in Actors : step[a].at = "removing" /\ k \in Owned(step[a])
  <2>1. ASSUME NEW a \in Actors, step[a].at = "removing"
        PROVE  {(step[a].rest \o step[a].failed)[i].name : i \in DOMAIN (step[a].rest \o step[a].failed)}
                   = Owned(step[a])
    <3>1. step[a] \in RemovingStep
      <4>1. step[a] \in Steps BY DEF StoreTyped
      <4> QED BY <4>1, <2>1 DEF Steps, Idle, Creating
    <3> DEFINE c == step[a].rest \o step[a].failed
    <3>2. step[a].rest \in Seq(File) /\ step[a].failed \in Seq(File) BY <3>1 DEF RemovingStep
    <3>3. c \in Seq(File) /\ FileNames(c) = FileNames(step[a].rest) \cup FileNames(step[a].failed)
      BY <3>2, NamesOfConcat, ConcatProperties
    <3> HIDE DEF c
    <3>4. {c[i].name : i \in DOMAIN c} = FileNames(c)
      <4>1. DOMAIN c = 1 .. Len(c) BY <3>3
      <4> QED BY <4>1 DEF FileNames
    <3>5. Owned(step[a]) = FileNames(step[a].rest) \cup FileNames(step[a].failed) BY <2>1 DEF Owned
    <3> QED BY <3>3, <3>4, <3>5 DEF c
  <2> DEFINE names(a) == {(step[a].rest \o step[a].failed)[i].name : i \in DOMAIN (step[a].rest \o step[a].failed)}
  <2>2. \A k : k \in Doomed <=> \E a \in Actors : step[a].at = "removing" /\ k \in names(a) BY DEF Doomed
  <2>3. \A a \in Actors : step[a].at = "removing" => names(a) = Owned(step[a]) BY <2>1
  <2> HIDE DEF names
  <2> QED BY <2>2, <2>3
<1>8. Tracked \cap Doomed = {} /\ Tracked \cap Held = {} BY <1>3, <1>6, <1>7 DEF NamesApart
<1>9. ASSUME NEW a \in Actors, NEW k \in Owned(step[a])
      PROVE  step[a].at \in {"created", "removing"}
  BY DEF Owned
<1>10. \A k : Claimant(k) => k \in Tracked \cup Held \cup Doomed
  <2> SUFFICES ASSUME NEW k, NEW a \in Actors, k \in Owned(step[a]) PROVE k \in Held \cup Doomed
    BY <1>3 DEF Claimant
  <2>1. CASE step[a].at = "created"
    <3>1. a \in Writers BY <2>1 DEF StoreTyped
    <3>2. k = step[a].name BY <2>1 DEF Owned
    <3> QED BY <3>1, <3>2, <2>1, <1>5
  <2>2. CASE step[a].at = "removing" BY <2>2, <1>7
  <2> QED BY <2>1, <2>2, <1>9
<1>11. DOMAIN disk \subseteq Tracked \cup Held \cup Doomed \cup {k \in left : Expired(k)}
  BY <1>10 DEF DiskIsKnown
<1>12. \A k \in (Tracked \cup Held) \ DOMAIN disk : Expired(k)
  <2> SUFFICES ASSUME NEW k \in Tracked \cup Held, k \notin DOMAIN disk PROVE Expired(k) OBVIOUS
  <2>1. Claimant(k) BY <1>3, <1>6 DEF Claimant
  <2>2. k \in Name
    <3>1. CASE k \in Tracked
      <4>1. PICK i \in 1 .. Len(files) : k = files[i].name BY <3>1, <1>2 DEF Tracked
      <4>2. files[i] \in File BY <1>1
      <4> QED BY <4>1, <4>2 DEF File
    <3>2. CASE k \in Held
      <4>1. PICK w \in Writers : step[w].at = "created" /\ k = step[w].name BY <3>2, <1>5
      <4>2. step[w] \in Steps BY DEF StoreTyped, Actors
      <4>3. step[w] \in Creating BY <4>1, <4>2 DEF Steps, Idle, RemovingStep
      <4> QED BY <4>1, <4>3 DEF Creating
    <3> QED BY <3>1, <3>2
  <2> QED BY <2>1, <2>2 DEF DiskIsKnown
<1>13. \A i \in DOMAIN files : files[i].name \in DOMAIN disk => disk[files[i].name] = files[i].size
  BY <1>2 DEF SizesAreTrue, SizesOf
<1> QED BY <1>4, <1>8, <1>11, <1>12, <1>13 DEF DiskIsTracked

\* The bytes the store counts, the files it lists and the directory agree through every
\* interleaving of writes, evictions, failed removals, mini cleanup and restarts.
THEOREM BooksMatchTheDirectory == StoreInit /\ [][StoreNext]_storeVars => []DiskIsTracked
<1>1. StoreInit => StoreIInv BY StoreStarts
<1>2. StoreIInv /\ [StoreNext]_storeVars => StoreIInv' BY StoreStepKeepsIt
<1>3. StoreIInv => DiskIsTracked BY StoreIInvImplies
<1> QED BY <1>1, <1>2, <1>3, PTL

-----------------------------------------------------------------------------
(* Login resolution: where the login goes *)

IsRef(ref) == ref = [as |-> ref.as, scopes |-> ref.scopes, required |-> ref.required, resource |-> ref.resource]

LEMMA RefIsRef ==
  ASSUME NEW as, NEW scopes, NEW resource
  PROVE  IsRef(Ref(as, scopes, resource)) /\ Ref(as, scopes, resource).as = as
BY DEF IsRef, Ref

LEMMA FetchedIsRef ==
  ASSUME NEW w, NEW at
  PROVE  FetchASURLFromPRM(w, at) = Failed \/ IsRef(FetchASURLFromPRM(w, at))
BY RefIsRef DEF FetchASURLFromPRM, NoRef

LEMMA ProbedIsRef ==
  ASSUME NEW w
  PROVE  ProbePRMCandidates(w) = Failed \/ IsRef(ProbePRMCandidates(w))
<1> DEFINE first == FetchASURLFromPRM(w, "path")
           second == FetchASURLFromPRM(w, "root")
<1>1. (first = Failed \/ IsRef(first)) /\ (second = Failed \/ IsRef(second)) BY FetchedIsRef
<1>2. IsRef(Ref(w.cfg.url, {}, "")) BY RefIsRef
<1> HIDE DEF first, second
<1>3. FirstNamed(w, first, second) = Failed \/ IsRef(FirstNamed(w, first, second))
  BY <1>1, <1>2 DEF FirstNamed
<1> QED BY <1>3 DEF ProbePRMCandidates, first, second

LEMMA WithRequiredIsRef ==
  ASSUME NEW ref, NEW scopes, ref = Failed \/ IsRef(ref)
  PROVE  LET r == WithRequiredScopes(ref, scopes)
         IN r = Failed \/ (IsRef(r) /\ (scopes # {} => r.scopes = scopes /\ r.required = scopes))
<1>1. CASE ref = Failed \/ scopes = {} BY <1>1 DEF WithRequiredScopes
<1>2. CASE ~(ref = Failed \/ scopes = {})
  <2>1. IsRef(ref) BY <1>2
  <2>2. WithRequiredScopes(ref, scopes) = [ref EXCEPT !.scopes = scopes, !.required = scopes]
    BY <1>2 DEF WithRequiredScopes
  <2>3. LET r == [ref EXCEPT !.scopes = scopes, !.required = scopes]
        IN IsRef(r) /\ r.scopes = scopes /\ r.required = scopes
    <3> DEFINE r == [ref EXCEPT !.scopes = scopes, !.required = scopes]
    <3>1. DOMAIN ref = {"as", "scopes", "required", "resource"} BY <2>1 DEF IsRef
    <3>2. r = [x \in DOMAIN ref |-> IF x = "required" THEN scopes ELSE IF x = "scopes" THEN scopes ELSE ref[x]]
      BY <3>1
    <3>3. r.scopes = scopes /\ r.required = scopes /\ r.as = ref.as /\ r.resource = ref.resource BY <3>1, <3>2
    <3>4. DOMAIN r = {"as", "scopes", "required", "resource"} /\ r = [x \in DOMAIN r |-> r[x]] BY <3>1, <3>2
    <3> HIDE DEF r
    <3>5. IsRef(r) BY <3>4 DEF IsRef
    <3> QED BY <3>3, <3>5 DEF r
  <2> QED BY <2>2, <2>3
<1> QED BY <1>1, <1>2

LEMMA ChallengedIsRef ==
  ASSUME NEW w, NEW c
  PROVE  DiscoverFromChallenge(w, c) = Failed \/ IsRef(DiscoverFromChallenge(w, c))
<1>1. ProbePRMCandidates(w) = Failed \/ IsRef(ProbePRMCandidates(w)) BY ProbedIsRef
<1> DEFINE direct == IF c.rm = "" THEN NoRef ELSE FetchASURLFromPRM(w, c.rm)
<1>2. direct = Failed \/ IsRef(direct) BY RefIsRef, FetchedIsRef DEF NoRef
<1>3. DiscoverFromChallenge(w, c) = IF c = None THEN ProbePRMCandidates(w)
                                    ELSE WithRequiredScopes(DirectOr(w, direct), c.scopes)
  BY DEF DiscoverFromChallenge
<1> HIDE DEF direct
<1>4. DirectOr(w, direct) = Failed \/ IsRef(DirectOr(w, direct)) BY <1>1, <1>2 DEF DirectOr
<1>5. \A scopes : LET r == WithRequiredScopes(DirectOr(w, direct), scopes) IN r = Failed \/ IsRef(r)
  BY <1>4, WithRequiredIsRef
<1> QED BY <1>1, <1>3, <1>5

\* The scopes of the saved challenge are required wherever the login goes.
LEMMA DiscoveredAsksForTheChallenge ==
  ASSUME NEW w, DiscoverASURL(w) # Failed, SavedChallenge(w) # None
  PROVE  LET ref == DiscoverASURL(w) saved == SavedChallenge(w)
         IN saved.scopes # {} => ref.scopes = saved.scopes /\ ref.required = saved.scopes
<1> DEFINE ref == DiscoverFromChallenge(w, IF NeedsFreshChallenge(w) THEN ProbeAuthorizationChallenge(w)
                                           ELSE SavedChallenge(w))
<1>1. ref = Failed \/ IsRef(ref) BY ChallengedIsRef
<1>2. DiscoverASURL(w) = WithRequiredScopes(ref, SavedChallenge(w).scopes) BY DEF DiscoverASURL
<1> HIDE DEF ref
<1> QED BY <1>1, <1>2, WithRequiredIsRef

LEMMA MetadataIsTheIssuers ==
  ASSUME NEW w, DiscoverMetadata(w) # Failed
  PROVE  LET meta == DiscoverMetadata(w)
         IN /\ meta.issuer \in w.private => PrivateOrigin(w) /\ w.up
            /\ SavedChallenge(w) # None /\ SavedChallenge(w).scopes # {} =>
                  meta.scopes = SavedChallenge(w).scopes /\ meta.required = SavedChallenge(w).scopes
<1> DEFINE ref == DiscoverASURL(w)
           doc == DiscoverASMeta(w, ref.as)
<1>1. ref # Failed /\ DiscoverMetadata(w) = MetadataOf(w, ref, doc)
  BY DEF DiscoverMetadata, ASMetadata
<1>2. SavedChallenge(w) # None /\ SavedChallenge(w).scopes # {} =>
          ref.scopes = SavedChallenge(w).scopes /\ ref.required = SavedChallenge(w).scopes
  BY <1>1, DiscoveredAsksForTheChallenge
<1>3. doc # Failed BY <1>1 DEF MetadataOf
<1>4. Reaches(w, ref.as) /\ doc.issuer = ref.as
  <2>1. PICK found : doc = IF Reaches(w, ref.as) /\ found # << >> THEN DecodeASMeta(found[1], ref.as) ELSE Failed
    BY DEF DiscoverASMeta
  <2>2. Reaches(w, ref.as) /\ doc = DecodeASMeta(found[1], ref.as) BY <2>1, <1>3
  <2> QED BY <2>2, <1>3 DEF DecodeASMeta
<1> HIDE DEF ref, doc
<1>5. DiscoverMetadata(w) =
        [issuer |-> doc.issuer, token |-> doc.token, registration |-> doc.registration, cimd |-> doc.cimd,
         scopes |-> IF ref.scopes = {} THEN doc.scopes ELSE ref.scopes, required |-> ref.required,
         resource |-> IF ref.resource = "" THEN w.cfg.url ELSE ref.resource]
  BY <1>1, <1>3 DEF MetadataOf
<1>6. DiscoverMetadata(w).issuer = doc.issuer /\ DiscoverMetadata(w).required = ref.required
      /\ DiscoverMetadata(w).scopes = IF ref.scopes = {} THEN doc.scopes ELSE ref.scopes
  <2> DEFINE rec == [issuer |-> doc.issuer, token |-> doc.token, registration |-> doc.registration, cimd |-> doc.cimd,
         scopes |-> IF ref.scopes = {} THEN doc.scopes ELSE ref.scopes, required |-> ref.required,
         resource |-> IF ref.resource = "" THEN w.cfg.url ELSE ref.resource]
  <2>1. rec.issuer = doc.issuer /\ rec.required = ref.required
        /\ rec.scopes = IF ref.scopes = {} THEN doc.scopes ELSE ref.scopes
    OBVIOUS
  <2>2. DiscoverMetadata(w) = rec BY <1>5
  <2> HIDE DEF rec
  <2> QED BY <2>1, <2>2
<1>7. doc.issuer \in w.private => PrivateOrigin(w) /\ w.up BY <1>4 DEF Reaches
<1> QED BY <1>2, <1>6, <1>7

-----------------------------------------------------------------------------
(* Login resolution: what the login is made of *)

LEMMA EndpointsKeepSettings ==
  ASSUME NEW w, NEW meta, IsSettings(w.cfg),
         LET a == ApplyDiscoveredEndpoints(w, ClearSecretWithoutClientID(w.cfg), meta) IN a # Failed
  PROVE  LET a == ApplyDiscoveredEndpoints(w, ClearSecretWithoutClientID(w.cfg), meta)
         IN /\ IsSettings(a) /\ a.url = w.cfg.url /\ a.client = w.cfg.client /\ a.issuer = w.cfg.issuer
            /\ a.scopes = w.cfg.scopes /\ a.secret \in {"", w.cfg.secret}
            /\ w.cfg.token \in {"", a.token}
            /\ w.cfg.token = "" /\ a.token \in w.private => PrivateOrigin(w) /\ w.up
<1> DEFINE c == ClearSecretWithoutClientID(w.cfg)
           a == ApplyDiscoveredEndpoints(w, c, meta)
<1>1. /\ IsSettings(c) /\ c.url = w.cfg.url /\ c.client = w.cfg.client /\ c.issuer = w.cfg.issuer
      /\ c.scopes = w.cfg.scopes /\ c.secret \in {"", w.cfg.secret} /\ c.token = w.cfg.token
  BY DEF ClearSecretWithoutClientID, IsSettings
<1> HIDE DEF c
<1>2. CASE c.token # ""
  <2>1. a = c BY <1>2 DEF ApplyDiscoveredEndpoints
  <2> QED BY <1>1, <1>2, <2>1 DEF c
<1>3. CASE c.token = ""
  <2>1. a = [c EXCEPT !.token = meta.token] /\ ~(meta.token \in w.private /\ ~(PrivateOrigin(w) /\ w.up))
    BY <1>3 DEF ApplyDiscoveredEndpoints, c
  <2>2. /\ IsSettings(a) /\ a.url = c.url /\ a.client = c.client /\ a.issuer = c.issuer
        /\ a.scopes = c.scopes /\ a.secret = c.secret /\ a.token = meta.token
    BY <1>1, <2>1 DEF IsSettings
  <2> HIDE DEF a
  <2> QED BY <1>1, <1>3, <2>1, <2>2 DEF a, c
<1> QED BY <1>2, <1>3

LEMMA ScopesKeepSettings ==
  ASSUME NEW w, NEW meta, NEW a, IsSettings(a)
  PROVE  LET b == MergePreviousScopes(w, ApplyDiscoveredScopes(a, meta), meta)
         IN /\ b.url = a.url /\ b.client = a.client /\ b.issuer = a.issuer /\ b.secret = a.secret
            /\ b.token = a.token
            /\ meta.required = meta.scopes => meta.scopes \subseteq b.scopes
            /\ SavedChallenge(w) # None /\ SavedChallenge(w).status = 403 /\ w.old # None /\ MatchesConfig(w.old, a)
                  /\ w.old.issuer = meta.issuer /\ w.old.resource = meta.resource => w.old.scopes \subseteq b.scopes
<1> DEFINE c == ApplyDiscoveredScopes(a, meta)
           b == MergePreviousScopes(w, c, meta)
<1>1. /\ IsSettings(c) /\ c.url = a.url /\ c.client = a.client /\ c.issuer = a.issuer /\ c.secret = a.secret
      /\ c.token = a.token /\ c.scopes = IF a.scopes = {} THEN meta.scopes ELSE a.scopes \cup meta.required
  BY DEF ApplyDiscoveredScopes, IsSettings
<1> HIDE DEF c
<1>2. MatchesConfig(w.old, a) <=> MatchesConfig(w.old, c) BY <1>1 DEF MatchesConfig
<1>3. meta.required = meta.scopes => meta.scopes \subseteq c.scopes BY <1>1
<1> DEFINE asks == /\ SavedChallenge(w) # None /\ SavedChallenge(w).status = 403
                   /\ w.old # None /\ MatchesConfig(w.old, c)
                   /\ w.old.issuer = meta.issuer /\ w.old.resource = meta.resource
<1>4. b = IF asks THEN [c EXCEPT !.scopes = c.scopes \cup w.old.scopes] ELSE c
  BY DEF MergePreviousScopes
<1> HIDE DEF asks, b
<1>5. /\ b.url = c.url /\ b.client = c.client /\ b.issuer = c.issuer /\ b.secret = c.secret /\ b.token = c.token
      /\ b.scopes = IF asks THEN c.scopes \cup w.old.scopes ELSE c.scopes
  <2>1. CASE asks
    <3>1. b = [c EXCEPT !.scopes = c.scopes \cup w.old.scopes] BY <2>1, <1>4
    <3>2. \A s : LET d == [c EXCEPT !.scopes = s]
                 IN d.url = c.url /\ d.client = c.client /\ d.issuer = c.issuer /\ d.secret = c.secret
                    /\ d.token = c.token /\ d.scopes = s
      BY <1>1 DEF IsSettings
    <3> QED BY <2>1, <3>1, <3>2
  <2>2. CASE ~asks BY <2>2, <1>4
  <2> QED BY <2>1, <2>2
<1>6. c.scopes \subseteq b.scopes /\ (asks => w.old.scopes \subseteq b.scopes) BY <1>5
<1> QED BY <1>1, <1>2, <1>3, <1>5, <1>6 DEF asks, b, c


LEMMA RegistrationIsTheClient ==
  ASSUME NEW reg, ApplyRegistration(reg) # Failed
  PROVE  LET c == ApplyRegistration(reg)
         IN c.id = reg.id /\ c.configured = FALSE /\ c.secret = reg.secret /\ (reg.secret # "" => reg.method # "none")
<1>1. ApplyRegistration(reg) = Client(reg.id, FALSE, reg.secret) BY DEF ApplyRegistration
<1>2. reg.secret # "" => reg.method # "none" BY DEF ApplyRegistration
<1>3. LET c == Client(reg.id, FALSE, reg.secret) IN c.id = reg.id /\ c.configured = FALSE /\ c.secret = reg.secret
  BY DEF Client
<1> QED BY <1>1, <1>2, <1>3, Zenon

LEMMA ClientIsWhose ==
  ASSUME NEW w, NEW a, NEW meta, ResolveClient(w, a, meta) # Failed
  PROVE  LET c == ResolveClient(w, a, meta)
         IN \/ /\ a.client # "" /\ c.id = a.client /\ c.configured = TRUE
               /\ a.issuer = meta.issuer \/ (a.issuer = "" /\ a.secret = "")
            \/ /\ a.client = "" /\ c.configured = FALSE
               /\ \/ c.secret = ""
                  \/ /\ w.reg # None /\ c.id = w.reg.id /\ c.secret = w.reg.secret /\ w.reg.method # "none"
                     /\ w.reg.issuer = meta.issuer /\ w.reg.token = a.token /\ w.reg.secret # "expired"
                  \/ /\ w.registers # Failed /\ c.id = w.registers.id /\ c.secret = w.registers.secret
                     /\ w.registers.method # "none"
<1> DEFINE c == ResolveClient(w, a, meta)
<1>1. CASE a.client # ""
  <2>1. ConfiguredIssuerFits(a, meta) /\ c = Client(a.client, TRUE, "") BY <1>1 DEF ResolveClient
  <2>3. LET k == Client(a.client, TRUE, "") IN k.id = a.client /\ k.configured = TRUE BY DEF Client
  <2>2. c.id = a.client /\ c.configured = TRUE
    <3> HIDE DEF c
    <3> QED BY <2>1, <2>3, Zenon
  <2> QED BY <1>1, <2>1, <2>2 DEF ConfiguredIssuerFits
<1>2. CASE a.client = "" /\ RegistrationUsable(w.reg, a, meta)
  <2>1. c = ApplyRegistration(w.reg) BY <1>2 DEF ResolveClient
  <2>2. c.id = w.reg.id /\ c.configured = FALSE /\ c.secret = w.reg.secret /\ (c.secret # "" => w.reg.method # "none")
    BY <2>1, RegistrationIsTheClient
  <2> QED BY <1>2, <2>2 DEF RegistrationUsable
<1>3. CASE a.client = "" /\ ~RegistrationUsable(w.reg, a, meta)
  <2>1. c = IF meta.cimd /\ a.port = "default" THEN Client("mini", FALSE, "") ELSE DynamicRegister(w, meta)
    BY <1>3 DEF ResolveClient
  <2>2. CASE meta.cimd /\ a.port = "default"
    <3>1. c = Client("mini", FALSE, "") BY <2>1, <2>2
    <3>3. LET k == Client("mini", FALSE, "") IN k.configured = FALSE /\ k.secret = "" BY DEF Client
    <3>2. c.configured = FALSE /\ c.secret = ""
      <4> HIDE DEF c
      <4> QED BY <3>1, <3>3, Zenon
    <3> QED BY <1>3, <3>2
  <2>3. CASE ~(meta.cimd /\ a.port = "default")
    <3>1. c = ApplyRegistration(w.registers) /\ w.registers # Failed BY <2>1, <2>3 DEF DynamicRegister
    <3>2. /\ c.id = w.registers.id /\ c.configured = FALSE /\ c.secret = w.registers.secret
          /\ c.secret # "" => w.registers.method # "none"
      BY <3>1, RegistrationIsTheClient
    <3> QED BY <1>3, <3>1, <3>2
  <2> QED BY <2>2, <2>3
<1> QED BY <1>1, <1>2, <1>3

\* A login is what was discovered, the settings made of it, and the client they lead to.
LEMMA LoginIsMadeOf ==
  ASSUME NEW w, IsSettings(w.cfg), ResolveLogin(w) # Failed
  PROVE  LET l == ResolveLogin(w)
             meta == DiscoverMetadata(w)
             a == ApplyDiscoveredEndpoints(w, ClearSecretWithoutClientID(w.cfg), meta)
             b == MergePreviousScopes(w, ApplyDiscoveredScopes(a, meta), meta)
             c == ResolveClient(w, b, meta)
         IN /\ meta # Failed /\ a # Failed /\ c # Failed
            /\ l.url = w.cfg.url /\ l.issuer = meta.issuer /\ l.resource = meta.resource /\ l.token = b.token
            /\ l.client = c /\ l.scopes = b.scopes /\ l.sends = IF c.configured THEN b.secret ELSE c.secret
<1> DEFINE l == ResolveLogin(w)
           meta == DiscoverMetadata(w)
           a == ApplyDiscoveredEndpoints(w, ClearSecretWithoutClientID(w.cfg), meta)
           b == MergePreviousScopes(w, ApplyDiscoveredScopes(a, meta), meta)
           c == ResolveClient(w, b, meta)
<1>1. meta # Failed /\ l = LoginAt(w, meta, a) BY DEF ResolveLogin, LoginWith
<1>2. a # Failed /\ l = LoginOfClient(w, meta, b) BY <1>1 DEF LoginAt
<1>3. c # Failed /\ l = [url |-> w.cfg.url, issuer |-> meta.issuer, resource |-> meta.resource, token |-> b.token,
          client |-> c, scopes |-> b.scopes, sends |-> IF c.configured THEN b.secret ELSE c.secret]
  BY <1>2 DEF LoginOfClient, LoginSnapshot
<1> HIDE DEF l, meta, a, b, c
<1>4. /\ l.url = w.cfg.url /\ l.issuer = meta.issuer /\ l.resource = meta.resource /\ l.token = b.token
      /\ l.client = c /\ l.scopes = b.scopes /\ l.sends = IF c.configured THEN b.secret ELSE c.secret
  <2> DEFINE s == IF c.configured THEN b.secret ELSE c.secret
             rec == [url |-> w.cfg.url, issuer |-> meta.issuer, resource |-> meta.resource, token |-> b.token,
          client |-> c, scopes |-> b.scopes, sends |-> s]
  <2> HIDE DEF s
  <2>1. rec.url = w.cfg.url /\ rec.issuer = meta.issuer /\ rec.resource = meta.resource /\ rec.token = b.token
      /\ rec.client = c /\ rec.scopes = b.scopes /\ rec.sends = s
    OBVIOUS
  <2>2. l = rec BY <1>3 DEF s
  <2> HIDE DEF rec
  <2> QED BY <2>1, <2>2 DEF s
<1> QED BY <1>1, <1>2, <1>3, <1>4 DEF l, meta, a, b, c

\* What is so of every login, in every environment.
LEMMA LoginBelongs ==
  ASSUME NEW w, IsSettings(w.cfg), ResolveLogin(w) # Failed
  PROVE  LET l == ResolveLogin(w)
         IN /\ SecretBelongs(w, l) /\ FitsItsSettings(w, l) /\ KeepsScopes(w, l) /\ TrustsPrivately(w, l)
            /\ ~l.client.configured => l.sends = l.client.secret
            /\ l.client.configured \in BOOLEAN
<1> DEFINE l == ResolveLogin(w)
           meta == DiscoverMetadata(w)
           a == ApplyDiscoveredEndpoints(w, ClearSecretWithoutClientID(w.cfg), meta)
           b == MergePreviousScopes(w, ApplyDiscoveredScopes(a, meta), meta)
           c == ResolveClient(w, b, meta)
<1>1. /\ meta # Failed /\ a # Failed /\ c # Failed
      /\ l.url = w.cfg.url /\ l.issuer = meta.issuer /\ l.resource = meta.resource /\ l.token = b.token
      /\ l.client = c /\ l.scopes = b.scopes /\ l.sends = IF c.configured THEN b.secret ELSE c.secret
  BY LoginIsMadeOf
<1>2. /\ meta.issuer \in w.private => PrivateOrigin(w) /\ w.up
      /\ SavedChallenge(w) # None /\ SavedChallenge(w).scopes # {} =>
            meta.scopes = SavedChallenge(w).scopes /\ meta.required = SavedChallenge(w).scopes
  BY <1>1, MetadataIsTheIssuers
<1>3. /\ IsSettings(a) /\ a.url = w.cfg.url /\ a.client = w.cfg.client /\ a.issuer = w.cfg.issuer
      /\ a.scopes = w.cfg.scopes /\ a.secret \in {"", w.cfg.secret} /\ w.cfg.token \in {"", a.token}
      /\ w.cfg.token = "" /\ a.token \in w.private => PrivateOrigin(w) /\ w.up
  BY <1>1, EndpointsKeepSettings
<1>4. /\ b.url = a.url /\ b.client = a.client /\ b.issuer = a.issuer /\ b.secret = a.secret /\ b.token = a.token
      /\ meta.required = meta.scopes => meta.scopes \subseteq b.scopes
      /\ SavedChallenge(w) # None /\ SavedChallenge(w).status = 403 /\ w.old # None /\ MatchesConfig(w.old, a)
            /\ w.old.issuer = meta.issuer /\ w.old.resource = meta.resource => w.old.scopes \subseteq b.scopes
  <2>1. IsSettings(a) BY <1>3
  <2> HIDE DEF a, meta, l
  <2> QED BY <2>1, ScopesKeepSettings
<1>5. \/ /\ b.client # "" /\ c.id = b.client /\ c.configured = TRUE
         /\ b.issuer = meta.issuer \/ (b.issuer = "" /\ b.secret = "")
      \/ /\ b.client = "" /\ c.configured = FALSE
         /\ \/ c.secret = ""
            \/ /\ w.reg # None /\ c.id = w.reg.id /\ c.secret = w.reg.secret /\ w.reg.method # "none"
               /\ w.reg.issuer = meta.issuer /\ w.reg.token = b.token /\ w.reg.secret # "expired"
            \/ /\ w.registers # Failed /\ c.id = w.registers.id /\ c.secret = w.registers.secret
               /\ w.registers.method # "none"
  BY <1>1, ClientIsWhose
<1> HIDE DEF l, meta, a, b, c
<1>6. SecretBelongs(w, l)
  <2>1. CASE b.client # "" BY <2>1, <1>1, <1>3, <1>4, <1>5 DEF SecretBelongs
  <2>2. CASE b.client = "" BY <2>2, <1>1, <1>3, <1>4, <1>5 DEF SecretBelongs
  <2> QED BY <2>1, <2>2
<1>7. FitsItsSettings(w, l)
  <2>1. l.url = w.cfg.url /\ w.cfg.token \in {"", l.token} BY <1>1, <1>3, <1>4
  <2>2. w.cfg.client = l.client.id \/ (w.cfg.client = "" /\ ~l.client.configured) BY <1>1, <1>3, <1>4, <1>5
  <2>3. w.cfg.client # "" => w.cfg.issuer \in {"", l.issuer} BY <1>1, <1>3, <1>4, <1>5
  <2> QED BY <2>1, <2>2, <2>3 DEF FitsItsSettings, MatchesConfig
<1>8. KeepsScopes(w, l)
  <2> SUFFICES ASSUME SavedChallenge(w) # None
               PROVE  /\ SavedChallenge(w).scopes \subseteq l.scopes
                      /\ SavedChallenge(w).status = 403 /\ w.old # None /\ MatchesConfig(w.old, w.cfg)
                            /\ w.old.token = l.token /\ w.old.issuer = l.issuer /\ w.old.resource = l.resource
                               => w.old.scopes \subseteq l.scopes
    BY DEF KeepsScopes
  <2>1. SavedChallenge(w).scopes \subseteq l.scopes
    <3>1. CASE SavedChallenge(w).scopes = {} BY <3>1
    <3>2. CASE SavedChallenge(w).scopes # {} BY <3>2, <1>1, <1>2, <1>4
    <3> QED BY <3>1, <3>2
  <2>2. MatchesConfig(w.old, w.cfg) /\ w.old.token = l.token => MatchesConfig(w.old, a)
    BY <1>1, <1>3, <1>4 DEF MatchesConfig
  <2> QED BY <2>1, <2>2, <1>1, <1>4
<1>9. TrustsPrivately(w, l)
  BY <1>1, <1>2, <1>3, <1>4 DEF TrustsPrivately
<1>10. (~l.client.configured => l.sends = l.client.secret) /\ l.client.configured \in BOOLEAN BY <1>1, <1>5
<1> QED BY <1>6, <1>7, <1>8, <1>9, <1>10 DEF l

LEMMA RefreshedBelongs ==
  ASSUME NEW w, NEW l, ~l.client.configured => l.sends = l.client.secret, Refresh(w, l) # Failed
  PROVE  RefreshBelongs(w.cfg, l, Refresh(w, l))
<1> DEFINE s == IF l.client.configured THEN w.cfg.secret ELSE l.client.secret
           r == [token |-> l.token, issuer |-> l.issuer, client |-> l.client.id, secret |-> s]
<1>1. MatchesConfig(l, w.cfg) /\ Refresh(w, l) = r BY DEF Refresh, RefreshConfig
<1> HIDE DEF s
<1>2. r.token = l.token /\ r.client = l.client.id /\ r.secret = s OBVIOUS
<1> HIDE DEF r
<1>3. w.cfg.issuer \in {"", l.issuer} /\ (w.cfg.client = l.client.id \/ (w.cfg.client = "" /\ ~l.client.configured))
  BY <1>1 DEF MatchesConfig
<1>4. RefreshBelongs(w.cfg, l, r)
  <2>1. CASE l.client.configured BY <2>1, <1>2, <1>3 DEF s, RefreshBelongs
  <2>2. CASE ~l.client.configured BY <2>2, <1>2, <1>3 DEF s, RefreshBelongs
  <2> QED BY <2>1, <2>2
<1> QED BY <1>1, <1>4

-----------------------------------------------------------------------------
(* Login resolution: the theorem *)

IsWorld(w) == w = [cfg |-> w.cfg, private |-> w.private, agent |-> w.agent, up |-> w.up, saved |-> w.saved,
                   probe |-> w.probe, prm |-> w.prm, meta |-> w.meta, reg |-> w.reg, registers |-> w.registers,
                   old |-> w.old]

\* What an attempt holds: settings of the server, and an environment made of them.
LoginIInv ==
    \/ attempt.at = "settings" /\ attempt.settings \in ServerSettings
    \/ /\ attempt = [at |-> "login", w |-> attempt.w, edited |-> attempt.edited]
       /\ IsWorld(attempt.w) /\ attempt.w.cfg \in ServerSettings

LEMMA LoginStarts == LoginInit => LoginIInv
BY DEF LoginInit, LoginIInv

LEMMA LoginStepKeepsIt == LoginIInv /\ [LoginNext]_attempt => LoginIInv'
<1> SUFFICES ASSUME LoginIInv, [LoginNext]_attempt PROVE LoginIInv' OBVIOUS
<1>1. CASE AttemptLogin
  <2>1. attempt.settings \in ServerSettings BY <1>1 DEF AttemptLogin, LoginIInv
  <2>2. PICK net \in Networks :
          attempt' = [at |-> "login", w |-> World(attempt.settings, net), edited |-> attempt.settings]
    BY <1>1 DEF AttemptLogin
  <2> DEFINE w == World(attempt.settings, net)
  <2>3. IsWorld(w) /\ w.cfg = attempt.settings BY DEF World, IsWorld
  <2> HIDE DEF w
  <2>4. attempt' = [at |-> "login", w |-> w, edited |-> attempt.settings] BY <2>2 DEF w
  <2>5. attempt'.w = w /\ attempt' = [at |-> "login", w |-> attempt'.w, edited |-> attempt'.edited] BY <2>4
  <2> QED BY <2>1, <2>3, <2>5 DEF LoginIInv
<1>2. CASE EditLogin
  <2>1. PICK e \in Edits : attempt' = [attempt EXCEPT !.edited = e] BY <1>2 DEF EditLogin
  <2>2. /\ attempt = [at |-> "login", w |-> attempt.w, edited |-> attempt.edited]
        /\ IsWorld(attempt.w) /\ attempt.w.cfg \in ServerSettings
    BY <1>2 DEF EditLogin, LoginIInv
  <2>3. attempt'.w = attempt.w /\ attempt' = [at |-> "login", w |-> attempt'.w, edited |-> attempt'.edited]
    BY <2>1, <2>2
  <2> QED BY <2>2, <2>3 DEF LoginIInv
<1>3. CASE attempt' = attempt BY <1>3 DEF LoginIInv
<1> QED BY <1>1, <1>2, <1>3 DEF LoginNext

LEMMA LoginIInvImplies == LoginIInv => LoginIsBound
<1> SUFFICES ASSUME LoginIInv, attempt.at = "login", NEW l, l = ResolveLogin(attempt.w), l # Failed
             PROVE  LET w == attempt.w
                    IN /\ SecretBelongs(w, l) /\ FitsItsSettings(w, l) /\ KeepsScopes(w, l) /\ TrustsPrivately(w, l)
                       /\ LET r == Refresh([w EXCEPT !.cfg = attempt.edited], l)
                          IN r # Failed => RefreshBelongs(attempt.edited, l, r)
  BY DEF LoginIsBound
<1> DEFINE w == attempt.w
           v == [w EXCEPT !.cfg = attempt.edited]
<1>1. IsWorld(w) /\ IsSettings(w.cfg) BY LoginAssumption DEF LoginIInv
<1>2. /\ SecretBelongs(w, l) /\ FitsItsSettings(w, l) /\ KeepsScopes(w, l) /\ TrustsPrivately(w, l)
      /\ ~l.client.configured => l.sends = l.client.secret
  BY <1>1, LoginBelongs
<1>3. v.cfg = attempt.edited BY <1>1 DEF IsWorld
<1> HIDE DEF v
<1>4. Refresh(v, l) # Failed => RefreshBelongs(v.cfg, l, Refresh(v, l)) BY <1>2, RefreshedBelongs
<1> QED BY <1>2, <1>3, <1>4 DEF v

\* Whatever the settings, the disk and the network hold when a login is made, and whatever the
\* settings are changed to before it is refreshed, its secret, its endpoint and its scopes are
\* those it is entitled to.
THEOREM LoginsAreBound == LoginInit /\ [][LoginNext]_attempt => []LoginIsBound
<1>1. LoginInit => LoginIInv BY LoginStarts
<1>2. LoginIInv /\ [LoginNext]_attempt => LoginIInv' BY LoginStepKeepsIt
<1>3. LoginIInv => LoginIsBound BY LoginIInvImplies
<1> QED BY <1>1, <1>2, <1>3, PTL

-----------------------------------------------------------------------------
(* Names for agents *)

\* An alias is never a real name, so a tool that is seen under a real name is that tool.
LEMMA RealNamesAreKept ==
    ASSUME NEW names, NEW aliases, NEW name,
           NEW i \in DOMAIN names, VisibleName(names, aliases, name) = names[i]
    PROVE  VisibleName(names, aliases, name) = name
BY Zenon DEF VisibleName, Claimed

\* A tool is seen under its own name, or under an alias that no other entry of the list claims.
LEMMA AliasIsClaimedOnce ==
    ASSUME NEW names, NEW aliases, NEW name, VisibleName(names, aliases, name) # name
    PROVE  /\ VisibleName(names, aliases, name) = Claimed(names, aliases, name)
           /\ \A j, k \in DOMAIN names :
                /\ Claimed(names, aliases, names[j]) = Claimed(names, aliases, name)
                /\ Claimed(names, aliases, names[k]) = Claimed(names, aliases, name)
                => j = k
BY Zenon DEF VisibleName

\* No two tools are seen under one name.
LEMMA VisibleIsInjective ==
    ASSUME NEW names, NEW aliases, NEW i \in DOMAIN names, NEW j \in DOMAIN names,
           VisibleName(names, aliases, names[i]) = VisibleName(names, aliases, names[j])
    PROVE  names[i] = names[j]
<1>1. CASE VisibleName(names, aliases, names[i]) = names[i]
    BY <1>1, RealNamesAreKept, Zenon
<1>2. CASE VisibleName(names, aliases, names[j]) = names[j]
    BY <1>2, RealNamesAreKept, Zenon
<1>3. CASE /\ VisibleName(names, aliases, names[i]) # names[i]
           /\ VisibleName(names, aliases, names[j]) # names[j]
    <2>1. Claimed(names, aliases, names[i]) = Claimed(names, aliases, names[j])
        BY <1>3, AliasIsClaimedOnce, Zenon
    <2> QED BY <1>3, <2>1, AliasIsClaimedOnce, Zenon
<1> QED BY <1>1, <1>2, <1>3, Zenon

\* A tool with a valid name is seen under a valid name.
LEMMA VisibleIsValid ==
    ASSUME NEW names, NEW aliases, NEW name, ValidToolName(name)
    PROVE  ValidToolName(VisibleName(names, aliases, name))
BY Zenon DEF VisibleName, Claimed

LEMMA EntriesDiffer ==
    ASSUME NEW p, IsParameters(p), NEW i \in Entries(p), NEW j \in Entries(p),
           NameOf(p, i) = NameOf(p, j)
    PROVE  i = j
<1>1. i \in Nat /\ j \in Nat /\ i >= 1 /\ j >= 1
    BY DEF Entries, IsParameters
<1>2. ValidToolName(p.defs[i]) /\ ValidToolName(p.defs[j])
    BY Zenon DEF Entries
<1>3. ~(i < j)
    <2> SUFFICES ASSUME i < j PROVE FALSE OBVIOUS
    <2>1. i \in 1 .. j - 1 BY <1>1
    <2> QED BY <2>1, <1>2, Zenon DEF Entries
<1>4. ~(j < i)
    <2> SUFFICES ASSUME j < i PROVE FALSE OBVIOUS
    <2>1. j \in 1 .. i - 1 BY <1>1
    <2> QED BY <2>1, <1>2, Zenon DEF Entries
<1> QED BY <1>1, <1>3, <1>4

\* Every valid tool of a list has an entry.
LEMMA EveryToolHasAnEntry ==
    ASSUME NEW p, IsParameters(p), NEW i \in DOMAIN p.defs, ValidToolName(p.defs[i])
    PROVE  \E k \in Entries(p) : p.defs[k] = p.defs[i]
<1> DEFINE Same == {k \in DOMAIN p.defs : ValidToolName(p.defs[k]) /\ NameOf(p, k) = NameOf(p, i)}
<1>1. DOMAIN p.defs = 1 .. Len(p.defs) /\ Len(p.defs) \in Nat
    BY DEF IsParameters
<1>2. Same \subseteq Nat /\ i \in Same
    BY <1>1
<1>3. PICK k \in Same : \A m \in Same : k <= m
    BY <1>2, LeastNat, Zenon
<1>4. k \in DOMAIN p.defs /\ ValidToolName(p.defs[k]) /\ NameOf(p, k) = NameOf(p, i)
    BY <1>3
<1>5. k \in Entries(p)
    <2> SUFFICES ASSUME NEW j \in 1 .. k - 1, ValidToolName(p.defs[j]), NameOf(p, j) = NameOf(p, k)
                 PROVE  FALSE
        BY <1>4, Zenon DEF Entries
    <2>1. j \in DOMAIN p.defs /\ j < k
        BY <1>1, <1>4
    <2>2. j \in Same
        BY <2>1, <1>4
    <2> QED BY <2>1, <2>2, <1>1, <1>3, <1>4
<1>6. p.defs[k] = p.defs[i]
    BY <1>4, VisibleIsInjective, Zenon DEF NameOf
<1> QED BY <1>5, <1>6

-----------------------------------------------------------------------------
(* The registry holds just the entries of the lists given last *)

EntriesIn(where, p) == IF where = "hidden" THEN HiddenOf(p) ELSE ToolsOf(p)

Holds(f, lists, where) ==
    /\ \A key \in DOMAIN f :
        \E s \in DOMAIN lists : \E i \in EntriesIn(where, lists[s]) :
            key = <<s, NameOf(lists[s], i)>> /\ f[key] = lists[s].defs[i]
    /\ \A s \in DOMAIN lists : \A i \in EntriesIn(where, lists[s]) :
        <<s, NameOf(lists[s], i)>> \in DOMAIN f

WithoutServer(lists, server) == [t \in DOMAIN lists \ {server} |-> lists[t]]
With(lists, p) == [s \in DOMAIN lists \cup {p.server} |-> IF s = p.server THEN p ELSE lists[s]]
KeysOfOthers(f, server) == [key \in {k \in DOMAIN f : k[1] # server} |-> f[key]]

LEMMA RemovingHolds ==
    ASSUME NEW f, NEW lists, NEW where, Holds(f, lists, where), NEW server
    PROVE  Holds(KeysOfOthers(f, server), WithoutServer(lists, server), where)
<1> DEFINE g == KeysOfOthers(f, server)
           rest0 == WithoutServer(lists, server)
<1>0. DOMAIN g = {k \in DOMAIN f : k[1] # server} /\ DOMAIN rest0 = DOMAIN lists \ {server}
    BY Zenon DEF KeysOfOthers, WithoutServer
<1>1. \A key \in DOMAIN g :
        \E s \in DOMAIN rest0 : \E i \in EntriesIn(where, rest0[s]) :
            key = <<s, NameOf(rest0[s], i)>> /\ g[key] = rest0[s].defs[i]
    <2> TAKE key \in DOMAIN g
    <2>1. key \in DOMAIN f /\ key[1] # server /\ g[key] = f[key]
        BY Zenon DEF KeysOfOthers
    <2>2. PICK s \in DOMAIN lists : \E i \in EntriesIn(where, lists[s]) :
            key = <<s, NameOf(lists[s], i)>> /\ f[key] = lists[s].defs[i]
        BY <2>1, Zenon DEF Holds
    <2>3. s \in DOMAIN rest0 /\ rest0[s] = lists[s]
        <3>1. s = key[1] BY <2>2
        <3> QED BY <3>1, <2>1, <2>2, Zenon DEF WithoutServer
    <2> QED BY <2>1, <2>2, <2>3, Zenon
<1>2. \A s \in DOMAIN rest0 : \A i \in EntriesIn(where, rest0[s]) : <<s, NameOf(rest0[s], i)>> \in DOMAIN g
    <2> TAKE s \in DOMAIN rest0
    <2> TAKE i \in EntriesIn(where, rest0[s])
    <2>1. s \in DOMAIN lists /\ s # server /\ rest0[s] = lists[s]
        BY Zenon DEF WithoutServer
    <2>2. <<s, NameOf(lists[s], i)>> \in DOMAIN f
        BY <2>1, Zenon DEF Holds
    <2>3. <<s, NameOf(lists[s], i)>>[1] # server
        BY <2>1
    <2> QED BY <2>1, <2>2, <2>3, <1>0
<1> QED BY <1>1, <1>2, Zenon DEF Holds

LEMMA InsertingHolds ==
    ASSUME NEW f, NEW lists, NEW where, Holds(f, lists, where),
           NEW p, p.server \notin DOMAIN lists
    PROVE  Holds(Insert(f, p, EntriesIn(where, p)), With(lists, p), where)
<1> DEFINE E == EntriesIn(where, p)
           At(key) == {i \in E : key = <<p.server, NameOf(p, i)>>}
           g == Insert(f, p, E)
           later == With(lists, p)
<1>0. /\ DOMAIN g = DOMAIN f \cup {<<p.server, NameOf(p, i)>> : i \in E}
      /\ DOMAIN later = DOMAIN lists \cup {p.server}
      /\ later[p.server] = p
      /\ \A s \in DOMAIN lists : later[s] = lists[s]
      /\ \A key \in DOMAIN g : g[key] = IF At(key) = {} THEN f[key] ELSE p.defs[CHOOSE i \in At(key) : TRUE]
    BY Zenon DEF Insert, With
<1> HIDE DEF E, g, later
<1>1. \A key \in DOMAIN g :
        \E s \in DOMAIN later : \E i \in EntriesIn(where, later[s]) :
            key = <<s, NameOf(later[s], i)>> /\ g[key] = later[s].defs[i]
    <2> TAKE key \in DOMAIN g
    <2>1. CASE At(key) = {}
        <3>1. key \in DOMAIN f BY <2>1, <1>0
        <3>2. PICK s \in DOMAIN lists : \E i \in EntriesIn(where, lists[s]) :
                key = <<s, NameOf(lists[s], i)>> /\ f[key] = lists[s].defs[i]
            BY <3>1, Zenon DEF Holds
        <3>3. g[key] = f[key] /\ s \in DOMAIN later /\ later[s] = lists[s]
            BY <1>0, <2>1, <3>2, Zenon
        <3> QED BY <3>2, <3>3, Zenon
    <2>2. CASE At(key) # {}
        <3> DEFINE i == CHOOSE j \in At(key) : TRUE
        <3>1. i \in At(key) BY <2>2, Zenon
        <3>2. g[key] = p.defs[i] BY <1>0, <2>2, Zenon
        <3>3. i \in E /\ key = <<p.server, NameOf(p, i)>> BY <3>1, Zenon
        <3> HIDE DEF i
        <3>4. p.server \in DOMAIN later /\ later[p.server] = p BY <1>0, Zenon
        <3> QED BY <3>2, <3>3, <3>4, Zenon DEF E
    <2> QED BY <2>1, <2>2
<1>2. \A s \in DOMAIN later : \A i \in EntriesIn(where, later[s]) : <<s, NameOf(later[s], i)>> \in DOMAIN g
    <2> TAKE s \in DOMAIN later
    <2> TAKE i \in EntriesIn(where, later[s])
    <2>1. CASE s = p.server
        BY <2>1, <1>0, Zenon DEF E
    <2>2. CASE s \in DOMAIN lists
        <3>1. later[s] = lists[s] BY <2>2, <1>0, Zenon
        <3>2. <<s, NameOf(lists[s], i)>> \in DOMAIN f BY <2>2, <3>1, Zenon DEF Holds
        <3> QED BY <3>1, <3>2, <1>0
    <2> QED BY <2>1, <2>2, <1>0
<1>3. Holds(g, later, where)
    BY <1>1, <1>2, Zenon DEF Holds
<1> QED BY <1>3 DEF g, later, E

\* What the registry holds and what servers were given last.
NamesInv ==
    /\ turn \in Nat \ {0}
    /\ \A s \in DOMAIN given : IsParameters(given[s]) /\ given[s].server = s
    /\ Holds(registered.tools, given, "tools")
    /\ Holds(registered.hidden, given, "hidden")

LEMMA NamesStart == NamesInit => NamesInv
<1> SUFFICES ASSUME NamesInit PROVE NamesInv OBVIOUS
<1>1. DOMAIN given = {} /\ DOMAIN registered.tools = {} /\ DOMAIN registered.hidden = {}
    BY DEF NamesInit, NoTools
<1>2. turn \in Nat \ {0} BY DEF NamesInit
<1> QED BY <1>1, <1>2, Zenon DEF NamesInv, Holds

LEMMA DroppingHolds ==
    ASSUME NEW reg0, NEW lists, NEW server,
           Holds(reg0.tools, lists, "tools"), Holds(reg0.hidden, lists, "hidden")
    PROVE  /\ Holds(RemoveServer(reg0, server).tools, WithoutServer(lists, server), "tools")
           /\ Holds(RemoveServer(reg0, server).hidden, WithoutServer(lists, server), "hidden")
<1>1. /\ RemoveServer(reg0, server).tools = KeysOfOthers(reg0.tools, server)
      /\ RemoveServer(reg0, server).hidden = KeysOfOthers(reg0.hidden, server)
    BY DEF RemoveServer, KeysOfOthers
<1>2. Holds(KeysOfOthers(reg0.tools, server), WithoutServer(lists, server), "tools")
    BY RemovingHolds
<1>3. Holds(KeysOfOthers(reg0.hidden, server), WithoutServer(lists, server), "hidden")
    BY RemovingHolds
<1> QED BY <1>1, <1>2, <1>3, Zenon

LEMMA AddingHolds ==
    ASSUME NEW reg0, NEW lists, NEW p, p.server \notin DOMAIN lists,
           Holds(reg0.tools, lists, "tools"), Holds(reg0.hidden, lists, "hidden")
    PROVE  /\ Holds(AddServer(reg0, p).tools, With(lists, p), "tools")
           /\ Holds(AddServer(reg0, p).hidden, With(lists, p), "hidden")
<1>1. /\ AddServer(reg0, p).tools = Insert(reg0.tools, p, EntriesIn("tools", p))
      /\ AddServer(reg0, p).hidden = Insert(reg0.hidden, p, EntriesIn("hidden", p))
    BY DEF AddServer, EntriesIn
<1>2. Holds(Insert(reg0.tools, p, EntriesIn("tools", p)), With(lists, p), "tools")
    BY InsertingHolds
<1>3. Holds(Insert(reg0.hidden, p, EntriesIn("hidden", p)), With(lists, p), "hidden")
    BY InsertingHolds
<1> QED BY <1>1, <1>2, <1>3, Zenon

LEMMA NamesStep == NamesInv /\ [NamesNext]_namesVars => NamesInv'
<1> SUFFICES ASSUME NamesInv, [NamesNext]_namesVars PROVE NamesInv' OBVIOUS
<1>1. CASE GiveTools
    <2>1. turn < MaxTurns /\ turn' = turn + 1
        BY <1>1 DEF GiveTools
    <2>2. turn' \in Nat \ {0}
        BY <2>1 DEF NamesInv
    <2>3. PICK p \in Lists[turn] :
            /\ registered' = IF p.server \in DOMAIN given THEN ReplaceServer(registered, p) ELSE AddServer(registered, p)
            /\ given' = [s \in DOMAIN given \cup {p.server} |-> IF s = p.server THEN p ELSE given[s]]
        BY <1>1, Zenon DEF GiveTools
    <2>4. turn \in 1 .. MaxTurns - 1
        BY <2>1, NamesAssumption DEF NamesInv
    <2>5. IsParameters(p)
        BY <2>3, <2>4, NamesAssumption, Zenon
    <2>6. given' = With(given, p)
        BY <2>3, Zenon DEF With
    <2>7. \A s \in DOMAIN given' : IsParameters(given'[s]) /\ given'[s].server = s
        BY <2>5, <2>6, Zenon DEF With, NamesInv
    <2>8. CASE p.server \notin DOMAIN given
        <3>1. registered' = AddServer(registered, p)
            BY <2>3, <2>8, Zenon
        <3>2. Holds(registered.tools, given, "tools") /\ Holds(registered.hidden, given, "hidden")
            BY Zenon DEF NamesInv
        <3>3. Holds(registered'.tools, given', "tools") /\ Holds(registered'.hidden, given', "hidden")
            BY <3>1, <3>2, <2>6, <2>8, AddingHolds
        <3> QED BY <2>2, <2>7, <3>3, Zenon DEF NamesInv
    <2>9. CASE p.server \in DOMAIN given
        <3> DEFINE rest0 == WithoutServer(given, p.server)
                   reg1 == RemoveServer(registered, p.server)
        <3>1. registered' = AddServer(reg1, p)
            BY <2>3, <2>9, Zenon DEF ReplaceServer
        <3>2. Holds(reg1.tools, rest0, "tools") /\ Holds(reg1.hidden, rest0, "hidden")
            BY DroppingHolds DEF NamesInv
        <3>3. p.server \notin DOMAIN rest0 /\ With(rest0, p) = given'
            <4>1. DOMAIN rest0 = DOMAIN given \ {p.server} /\ \A s \in DOMAIN rest0 : rest0[s] = given[s]
                BY Zenon DEF WithoutServer
            <4>2. DOMAIN rest0 \cup {p.server} = DOMAIN given \cup {p.server}
                BY <4>1, Zenon
            <4> HIDE DEF rest0
            <4> QED BY <4>1, <4>2, <2>3 DEF With
        <3>4. Holds(registered'.tools, given', "tools") /\ Holds(registered'.hidden, given', "hidden")
            <4> HIDE DEF rest0, reg1
            <4> QED BY <3>1, <3>2, <3>3, AddingHolds
        <3> QED BY <2>2, <2>7, <3>4, Zenon DEF NamesInv
    <2> QED BY <2>8, <2>9
<1>2. CASE DropServer
    <2>1. turn' \in Nat \ {0}
        BY <1>2 DEF DropServer, NamesInv
    <2>2. PICK s \in DOMAIN given :
            registered' = RemoveServer(registered, s) /\ given' = [t \in DOMAIN given \ {s} |-> given[t]]
        BY <1>2, Zenon DEF DropServer
    <2>3. given' = WithoutServer(given, s)
        BY <2>2, Zenon DEF WithoutServer
    <2>4. Holds(registered'.tools, given', "tools") /\ Holds(registered'.hidden, given', "hidden")
        <3>1. Holds(registered.tools, given, "tools") /\ Holds(registered.hidden, given, "hidden")
            BY Zenon DEF NamesInv
        <3>2. /\ Holds(RemoveServer(registered, s).tools, WithoutServer(given, s), "tools")
              /\ Holds(RemoveServer(registered, s).hidden, WithoutServer(given, s), "hidden")
            BY <3>1, DroppingHolds
        <3> QED BY <2>2, <2>3, <3>2, Zenon
    <2>5. \A t \in DOMAIN given' : IsParameters(given'[t]) /\ given'[t].server = t
        BY <2>3, Zenon DEF WithoutServer, NamesInv
    <2> QED BY <2>1, <2>4, <2>5, Zenon DEF NamesInv
<1>3. CASE UNCHANGED namesVars
    <2>1. registered' = registered /\ given' = given /\ turn' = turn
        BY <1>3 DEF namesVars
    <2> QED BY <2>1 DEF NamesInv
<1> QED BY <1>1, <1>2, <1>3 DEF NamesNext

-----------------------------------------------------------------------------
(* Names are reachable *)

\* The entry behind a name in the registry.
LEMMA EntryBehind ==
    ASSUME NEW f, NEW lists, NEW where, Holds(f, lists, where),
           NEW s \in DOMAIN lists, NEW key \in DOMAIN f, key[1] = s
    PROVE  \E i \in EntriesIn(where, lists[s]) :
                key = <<s, NameOf(lists[s], i)>> /\ f[key] = lists[s].defs[i]
<1>1. PICK t \in DOMAIN lists : \E i \in EntriesIn(where, lists[t]) :
                key = <<t, NameOf(lists[t], i)>> /\ f[key] = lists[t].defs[i]
    BY Zenon DEF Holds
<1>2. t = s
    <2>1. PICK i : key = <<t, NameOf(lists[t], i)>> BY <1>1, Zenon
    <2> QED BY <2>1
<1> QED BY <1>1, <1>2, Zenon

LEMMA EntryFacts ==
    ASSUME NEW p, IsParameters(p), NEW where \in {"tools", "hidden"}, NEW i \in EntriesIn(where, p)
    PROVE  /\ i \in Entries(p) /\ i \in DOMAIN p.defs
           /\ ValidToolName(p.defs[i]) /\ p.defs[i] # Nothing /\ p.defs[i] \in Spelling
           /\ p.defs[i] \in Real(p)
           /\ (where = "hidden") <=> Hides(p.hidden, p.defs[i])
<1>1. i \in Entries(p) /\ ((where = "hidden") <=> Hides(p.hidden, p.defs[i]))
    <2>1. Hides(p.hidden, p.defs[i]) \in BOOLEAN BY DEF Hides
    <2>2. CASE where = "hidden" BY <2>1, <2>2, Zenon DEF EntriesIn, HiddenOf
    <2>3. CASE where = "tools" BY <2>1, <2>3, Zenon DEF EntriesIn, HiddenOf, ToolsOf
    <2> QED BY <2>2, <2>3
<1>2. i \in DOMAIN p.defs /\ ValidToolName(p.defs[i])
    BY <1>1, Zenon DEF Entries
<1>3. p.defs[i] # Nothing
    BY <1>2, Zenon DEF ValidToolName
<1>4. p.defs[i] \in Spelling
    BY <1>2 DEF IsParameters
<1> QED BY <1>1, <1>2, <1>3, <1>4, Zenon DEF Real

\* Three names put together, character by character.
LEMMA ListedCharacters ==
    ASSUME NEW s \in Spelling, NEW name \in Spelling
    PROVE  LET listed == ListedName(<<s, name>>) IN
           /\ listed \in Spelling /\ Len(listed) = Len(s) + 2 + Len(name)
           /\ \A i \in 1 .. Len(s) : listed[i] = s[i]
           /\ listed[Len(s) + 1] = Underscore /\ listed[Len(s) + 2] = Underscore
           /\ \A i \in 1 .. Len(name) : listed[Len(s) + 2 + i] = name[i]
<1> DEFINE listed == ListedName(<<s, name>>)
           front == s \o Separator
<1>1. listed = front \o name
    BY DEF ListedName
<1>2. Separator \in Spelling /\ Len(Separator) = 2 /\ Separator[1] = Underscore /\ Separator[2] = Underscore
    <2>1. Underscore \in Characters BY DEF Characters
    <2> QED BY <2>1 DEF Separator, Spelling
<1>3. Len(s) \in Nat /\ Len(name) \in Nat
    BY DEF Spelling
<1>4. /\ front \in Spelling /\ Len(front) = Len(s) + 2
      /\ \A i \in 1 .. Len(s) + 2 : front[i] = IF i <= Len(s) THEN s[i] ELSE Separator[i - Len(s)]
    <2>1. /\ s \o Separator \in Seq(Characters) /\ Len(s \o Separator) = Len(s) + Len(Separator)
          /\ \A i \in 1 .. Len(s) + Len(Separator) :
                (s \o Separator)[i] = IF i <= Len(s) THEN s[i] ELSE Separator[i - Len(s)]
        BY <1>2, ConcatProperties, Zenon DEF Spelling
    <2> QED BY <1>2, <2>1 DEF Spelling
<1>5. /\ \A i \in 1 .. Len(s) : front[i] = s[i]
      /\ front[Len(s) + 1] = Underscore /\ front[Len(s) + 2] = Underscore
    <2> HIDE DEF front
    <2>1. \A i \in 1 .. Len(s) : front[i] = s[i] BY <1>3, <1>4
    <2>2. front[Len(s) + 1] = Underscore
        <3>1. ~(Len(s) + 1 <= Len(s)) /\ (Len(s) + 1) - Len(s) = 1 /\ Len(s) + 1 \in 1 .. Len(s) + 2 BY <1>3
        <3> QED BY <3>1, <1>2, <1>4, Zenon
    <2>3. front[Len(s) + 2] = Underscore
        <3>1. ~(Len(s) + 2 <= Len(s)) /\ (Len(s) + 2) - Len(s) = 2 /\ Len(s) + 2 \in 1 .. Len(s) + 2 BY <1>3
        <3> QED BY <3>1, <1>2, <1>4, Zenon
    <2> QED BY <2>1, <2>2, <2>3
<1> HIDE DEF front
<1>6. /\ front \o name \in Spelling /\ Len(front \o name) = Len(front) + Len(name)
      /\ \A i \in 1 .. Len(front) + Len(name) :
            (front \o name)[i] = IF i <= Len(front) THEN front[i] ELSE name[i - Len(front)]
    <2>1. front \in Seq(Characters) /\ name \in Seq(Characters) BY <1>4, Zenon DEF Spelling
    <2>2. \A u, v \in Seq(Characters) :
            /\ u \o v \in Seq(Characters) /\ Len(u \o v) = Len(u) + Len(v)
            /\ \A i \in 1 .. Len(u) + Len(v) : (u \o v)[i] = IF i <= Len(u) THEN u[i] ELSE v[i - Len(u)]
        BY ConcatProperties, Zenon
    <2> QED BY <2>1, <2>2, Zenon DEF Spelling
<1> HIDE DEF listed
<1>7. /\ listed \in Spelling /\ Len(listed) = Len(s) + 2 + Len(name)
      /\ \A i \in 1 .. Len(s) + 2 : listed[i] = front[i]
    <2>1. listed \in Spelling /\ Len(listed) = Len(s) + 2 + Len(name)
        BY <1>1, <1>4, <1>6
    <2>2. \A i \in 1 .. Len(s) + 2 : i <= Len(front) /\ i \in 1 .. Len(front) + Len(name)
        BY <1>3, <1>4
    <2>3. \A i \in 1 .. Len(s) + 2 : listed[i] = front[i]
        BY <2>2, <1>1, <1>6, Zenon
    <2> QED BY <2>1, <2>3
<1>8. \A i \in 1 .. Len(name) : listed[Len(s) + 2 + i] = name[i]
    <2> TAKE i \in 1 .. Len(name)
    <2> DEFINE at == Len(s) + 2 + i
    <2>1. ~(at <= Len(front)) /\ at - Len(front) = i /\ at \in 1 .. Len(front) + Len(name)
        BY <1>3, <1>4
    <2> HIDE DEF at
    <2>2. listed[at] = name[i]
        BY <2>1, <1>1, <1>6, Zenon
    <2> QED BY <2>2 DEF at
<1>9. /\ \A i \in 1 .. Len(s) : listed[i] = s[i]
      /\ listed[Len(s) + 1] = Underscore /\ listed[Len(s) + 2] = Underscore
    <2>1. \A i \in 1 .. Len(s) : i \in 1 .. Len(s) + 2 BY <1>3
    <2>2. Len(s) + 1 \in 1 .. Len(s) + 2 /\ Len(s) + 2 \in 1 .. Len(s) + 2 BY <1>3
    <2> QED BY <2>1, <2>2, <1>5, <1>7, Zenon
<1> QED BY <1>7, <1>8, <1>9 DEF listed

\* The two underscores after the server's name come first in what it lists.
LEMMA ListedNameParses ==
    ASSUME NEW s \in Spelling, s # Nothing, EndsAtSeparator(s), NEW name \in Spelling, name # Nothing
    PROVE  ParseProxyToolName(ListedName(<<s, name>>)) = <<s, name>>
<1> DEFINE listed == ListedName(<<s, name>>)
           Cuts == {i \in DOMAIN listed : i + 1 \in DOMAIN listed /\ listed[i] = Underscore /\ listed[i + 1] = Underscore}
           first == CHOOSE i \in Cuts : \A j \in Cuts : i <= j
           parsed == <<SubSeq(listed, 1, first - 1), SubSeq(listed, first + 2, Len(listed))>>
<1>1. /\ listed \in Spelling /\ Len(listed) = Len(s) + 2 + Len(name)
      /\ \A i \in 1 .. Len(s) : listed[i] = s[i]
      /\ listed[Len(s) + 1] = Underscore /\ listed[Len(s) + 2] = Underscore
      /\ \A i \in 1 .. Len(name) : listed[Len(s) + 2 + i] = name[i]
    BY ListedCharacters
<1>d. ParseProxyToolName(listed) =
        IF Cuts = {} \/ parsed[1] = Nothing \/ parsed[2] = Nothing THEN NotParsed ELSE parsed
    BY Zenon DEF ParseProxyToolName
<1> HIDE DEF listed
<1>2. /\ Len(s) \in Nat /\ Len(name) \in Nat /\ DOMAIN s = 1 .. Len(s)
      /\ DOMAIN listed = 1 .. Len(s) + 2 + Len(name)
    BY <1>1 DEF Spelling
<1>3. Len(s) + 1 \in Cuts
    <2>1. Len(s) + 1 \in DOMAIN listed /\ (Len(s) + 1) + 1 = Len(s) + 2 /\ Len(s) + 2 \in DOMAIN listed
        BY <1>2
    <2> QED BY <2>1, <1>1
<1>4. \A i \in Cuts : Len(s) + 1 <= i
    <2> SUFFICES ASSUME NEW i \in Cuts, ~(Len(s) + 1 <= i) PROVE FALSE OBVIOUS
    <2>1. i \in 1 .. Len(s) /\ listed[i] = Underscore /\ listed[i + 1] = Underscore BY <1>2
    <2>2. s[i] = Underscore BY <2>1, <1>1
    <2>3. i = Len(s) \/ s[i + 1] = Underscore
        <3> SUFFICES ASSUME i # Len(s) PROVE s[i + 1] = Underscore OBVIOUS
        <3>1. i + 1 \in 1 .. Len(s) BY <2>1, <1>2
        <3> QED BY <3>1, <2>1, <1>1
    <2> QED BY <2>1, <2>2, <2>3, <1>2 DEF EndsAtSeparator
<1>5. first = Len(s) + 1
    <2>1. first \in Cuts /\ \A j \in Cuts : first <= j
        BY <1>3, <1>4, Zenon
    <2>2. first \in Nat BY <2>1, <1>2
    <2> HIDE DEF first, Cuts
    <2> QED BY <2>1, <2>2, <1>2, <1>3, <1>4
<1>6. SubSeq(listed, 1, (Len(s) + 1) - 1) = s
    <2>1. (Len(s) + 1) - 1 = Len(s) BY <1>2
    <2>2. /\ SubSeq(listed, 1, Len(s)) \in Seq(Characters)
          /\ Len(SubSeq(listed, 1, Len(s))) = Len(s)
          /\ \A i \in 1 .. Len(s) : SubSeq(listed, 1, Len(s))[i] = listed[i]
        BY <1>1, <1>2 DEF Spelling
    <2> QED BY <2>1, <2>2, <1>1, SeqEqual DEF Spelling
<1>7. SubSeq(listed, (Len(s) + 1) + 2, Len(listed)) = name
    <2> DEFINE rest0 == SubSeq(listed, (Len(s) + 1) + 2, Len(listed))
    <2>1. /\ rest0 \in Seq(Characters) /\ Len(rest0) = Len(name)
          /\ \A i \in 1 .. Len(name) : rest0[i] = listed[Len(s) + 2 + i]
        <3>1. \A i \in (Len(s) + 1) + 2 .. Len(listed) : listed[i] \in Characters
            BY <1>1, <1>2 DEF Spelling
        <3>2. (Len(s) + 1) + 2 = Len(s) + 3 /\ Len(listed) \in Int /\ Len(s) + 3 \in Int
            BY <1>1, <1>2
        <3>3. /\ SubSeq(listed, Len(s) + 3, Len(listed)) \in Seq(Characters)
              /\ Len(SubSeq(listed, Len(s) + 3, Len(listed))) = Len(name)
              /\ \A i \in 1 .. Len(name) :
                    SubSeq(listed, Len(s) + 3, Len(listed))[i] = listed[Len(s) + 3 + i - 1]
            BY <3>1, <3>2, <1>1, <1>2, SubSeqProperties DEF Spelling
        <3>4. \A i \in 1 .. Len(name) : Len(s) + 3 + i - 1 = Len(s) + 2 + i
            BY <1>2
        <3> QED BY <3>2, <3>3, <3>4
    <2> HIDE DEF rest0
    <2>2. rest0 = name
        BY <2>1, <1>1, SeqEqual DEF Spelling
    <2> QED BY <2>2 DEF rest0
<1>8. parsed = <<s, name>>
    <2> HIDE DEF first
    <2> QED BY <1>5, <1>6, <1>7
<1>9. Cuts # {} BY <1>3
<1> HIDE DEF parsed, Cuts
<1>10. parsed[1] = s /\ parsed[2] = name BY <1>8
<1> QED BY <1>8, <1>9, <1>10, <1>d, Zenon DEF listed

\* One server lists no two names alike.
LEMMA ListedNameIsInjective ==
    ASSUME NEW s \in Spelling, NEW m \in Spelling, NEW n \in Spelling,
           ListedName(<<s, m>>) = ListedName(<<s, n>>)
    PROVE  m = n
<1> DEFINE listed == ListedName(<<s, m>>)
<1>1. Len(listed) = Len(s) + 2 + Len(m) /\ \A i \in 1 .. Len(m) : listed[Len(s) + 2 + i] = m[i]
    BY ListedCharacters
<1>2. Len(listed) = Len(s) + 2 + Len(n) /\ \A i \in 1 .. Len(n) : listed[Len(s) + 2 + i] = n[i]
    BY ListedCharacters
<1>3. Len(s) \in Nat /\ Len(m) \in Nat /\ Len(n) \in Nat BY DEF Spelling
<1> HIDE DEF listed
<1>4. Len(m) = Len(n) BY <1>1, <1>2, <1>3
<1>5. \A i \in 1 .. Len(m) : m[i] = n[i] BY <1>1, <1>2, <1>4
<1> QED BY <1>4, <1>5, SeqEqual DEF Spelling

\* Before a server is connected, a name a tool is seen under is that tool's in rules that name just
\* the tools the server has.
LEMMA RulesKnowTheNames ==
    ASSUME NEW p, IsParameters(p), NEW s, DOMAIN p.aliases = Real(p), NEW i \in DOMAIN p.defs
    PROVE  UpstreamToolName(NoTools, FALSE, s, p.aliases, NameOf(p, i)) = p.defs[i]
<1> DEFINE rules == p.aliases
           keys == [t \in DOMAIN rules |-> t]
           name == NameOf(p, i)
           aliased == {t \in DOMAIN rules : VisibleName(keys, rules, t) = name /\ t # name}
<1>1. LookupWithHidden(NoTools, <<s, name>>) = NotFound
    <2>1. DOMAIN NoTools.tools = {} /\ DOMAIN NoTools.hidden = {} BY DEF NoTools
    <2> QED BY <2>1, Zenon DEF LookupWithHidden
<1>2. /\ UpstreamToolName(NoTools, FALSE, s, rules, name) \in aliased \cup {name}
      /\ aliased # {} => UpstreamToolName(NoTools, FALSE, s, rules, name) \in aliased
    <2> DEFINE known == LookupWithHidden(NoTools, <<s, name>>)
    <2>1. UpstreamToolName(NoTools, FALSE, s, rules, name) =
            CASE known # NotFound -> known
              [] known = NotFound /\ ~FALSE /\ aliased # {} -> CHOOSE t \in aliased : TRUE
              [] OTHER -> name
        BY Zenon DEF UpstreamToolName
    <2> HIDE DEF aliased, name
    <2>2. CASE aliased = {}
        BY <2>1, <2>2, <1>1
    <2>3. CASE aliased # {}
        <3>1. (CHOOSE t \in aliased : TRUE) \in aliased BY <2>3, Zenon
        <3>2. UpstreamToolName(NoTools, FALSE, s, rules, name) = CHOOSE t \in aliased : TRUE
            BY <2>1, <2>3, <1>1, Zenon
        <3> QED BY <3>1, <3>2, Zenon
    <2> QED BY <2>2, <2>3
<1>3. /\ DOMAIN keys = Real(p) /\ \A t \in Real(p) : keys[t] = t
      /\ p.defs[i] \in Real(p)
    BY Zenon DEF Real
<1>4. \A t : Claimed(keys, rules, t) = Claimed(p.defs, rules, t)
    <2>1. \A alias : (\E t \in DOMAIN keys : keys[t] = alias) <=> (\E j \in DOMAIN p.defs : p.defs[j] = alias)
        BY <1>3, Zenon DEF Real
    <2> HIDE DEF keys, rules
    <2> QED BY <2>1, Zenon DEF Claimed
\* A tool seen under its own name is meant by no other.
<1>5. CASE name \in Real(p)
    <2>1. name = p.defs[i]
        <3>1. PICK j \in DOMAIN p.defs : name = p.defs[j] BY <1>5, Zenon DEF Real
        <3> QED BY <3>1, RealNamesAreKept, Zenon DEF NameOf
    <2>2. aliased = {}
        <3> SUFFICES ASSUME NEW t \in aliased PROVE FALSE BY Zenon
        <3>1. VisibleName(keys, rules, t) = keys[name] /\ name \in DOMAIN keys /\ t # name
            BY <1>3, <1>5, Zenon
        <3>2. VisibleName(keys, rules, t) = t
            <4> HIDE DEF keys, rules, name
            <4> QED BY <3>1, RealNamesAreKept, Zenon
        <3> QED BY <3>1, <3>2, <1>3, <1>5, Zenon
    <2> QED BY <1>2, <2>1, <2>2, Zenon
\* A tool seen under an alias is the only one to claim it.
<1>6. CASE name \notin Real(p)
    <2>1. name # p.defs[i] BY <1>3, <1>6
    <2>2. /\ name = Claimed(p.defs, rules, p.defs[i])
          /\ \A j, k \in DOMAIN p.defs :
                /\ Claimed(p.defs, rules, p.defs[j]) = name
                /\ Claimed(p.defs, rules, p.defs[k]) = name
                => j = k
        <3>1. name = VisibleName(p.defs, rules, p.defs[i]) BY Zenon DEF NameOf
        <3> HIDE DEF name, rules
        <3>2. VisibleName(p.defs, rules, p.defs[i]) # p.defs[i] BY <2>1, <3>1
        <3>3. /\ VisibleName(p.defs, rules, p.defs[i]) = Claimed(p.defs, rules, p.defs[i])
              /\ \A j, k \in DOMAIN p.defs :
                    /\ Claimed(p.defs, rules, p.defs[j]) = Claimed(p.defs, rules, p.defs[i])
                    /\ Claimed(p.defs, rules, p.defs[k]) = Claimed(p.defs, rules, p.defs[i])
                    => j = k
            BY <3>2, AliasIsClaimedOnce
        <3>4. name = Claimed(p.defs, rules, p.defs[i]) BY <3>1, <3>3
        <3> QED BY <3>3, <3>4
    <2> HIDE DEF keys, rules, name
    <2>3. \A t, u \in DOMAIN keys :
            Claimed(keys, rules, keys[t]) = name /\ Claimed(keys, rules, keys[u]) = name => t = u
        <3> TAKE t, u \in DOMAIN keys
        <3> HAVE Claimed(keys, rules, keys[t]) = name /\ Claimed(keys, rules, keys[u]) = name
        <3>1. PICK j \in DOMAIN p.defs : p.defs[j] = t BY <1>3, Zenon DEF Real
        <3>2. PICK k \in DOMAIN p.defs : p.defs[k] = u BY <1>3, Zenon DEF Real
        <3>3. keys[t] = t /\ keys[u] = u BY <1>3, Zenon
        <3>4. Claimed(p.defs, rules, p.defs[j]) = name /\ Claimed(p.defs, rules, p.defs[k]) = name
            BY <1>4, <3>1, <3>2, <3>3
        <3> QED BY <2>2, <3>1, <3>2, <3>4, Zenon
    <2>4. VisibleName(keys, rules, p.defs[i]) = name
        BY <2>2, <2>3, <1>4, Zenon DEF VisibleName
    <2>5. p.defs[i] \in aliased
        BY <2>4, <2>1, <1>3 DEF keys, rules
    <2>6. \A t \in aliased : t = p.defs[i]
        <3> TAKE t \in aliased
        <3>1. t \in DOMAIN keys /\ p.defs[i] \in DOMAIN keys BY <1>3 DEF keys
        <3>2. VisibleName(keys, rules, keys[t]) = VisibleName(keys, rules, keys[p.defs[i]])
            BY <2>4, <1>3, <3>1, Zenon
        <3>3. keys[t] = keys[p.defs[i]]
            BY <3>1, <3>2, VisibleIsInjective, Zenon
        <3> QED BY <3>1, <3>3, <1>3, Zenon
    <2> HIDE DEF aliased
    <2> QED BY <1>2, <2>5, <2>6 DEF name, rules
<1> QED BY <1>5, <1>6

\* A name the registry knows means what the registry says.
LEMMA KnownIsMeant ==
    ASSUME NEW reg0, NEW connected, NEW server, NEW rules, NEW name,
           LookupWithHidden(reg0, <<server, name>>) # NotFound
    PROVE  UpstreamToolName(reg0, connected, server, rules, name) = LookupWithHidden(reg0, <<server, name>>)
BY Zenon DEF UpstreamToolName

LEMMA NamesAreSpelled ==
    ASSUME NEW p, IsParameters(p), NEW i \in DOMAIN p.defs, ValidToolName(p.defs[i])
    PROVE  NameOf(p, i) \in Spelling /\ NameOf(p, i) # Nothing
<1>1. p.defs[i] \in Spelling
    BY DEF IsParameters
<1>2. \A name \in Spelling : Claimed(p.defs, p.aliases, name) \in Spelling
    <2> TAKE name \in Spelling
    <2>1. \A t \in DOMAIN p.aliases : p.aliases[t] \in Spelling BY DEF IsParameters
    <2>2. AliasOf(p.aliases, name) # Nothing => AliasOf(p.aliases, name) \in Spelling
        BY <2>1, Zenon DEF AliasOf
    <2> QED BY <2>2, Zenon DEF Claimed
<1>3. NameOf(p, i) \in Spelling
    BY <1>1, <1>2, Zenon DEF NameOf, VisibleName
<1>4. ValidToolName(NameOf(p, i))
    BY VisibleIsValid, Zenon DEF NameOf
<1> QED BY <1>3, <1>4, Zenon DEF ValidToolName

\* What the registry says of the names of one server.
LEMMA SoundNames ==
    ASSUME NamesInv, NEW s \in DOMAIN given
    PROVE  NamesAreSound(s, given[s])
<1> DEFINE p == given[s]
           tools == Own(registered.tools, s)
           hidden == Own(registered.hidden, s)
           Means(key) == UpstreamToolName(registered, TRUE, s, p.aliases, key[2])
<1>1. IsParameters(p) /\ p.server = s /\ s \in Spelling /\ s # Nothing
    <2>1. IsParameters(p) /\ p.server = s BY Zenon DEF NamesInv
    <2> QED BY <2>1, Zenon DEF IsParameters, ValidServerName
<1>2. Holds(registered.tools, given, "tools") /\ Holds(registered.hidden, given, "hidden")
    BY Zenon DEF NamesInv
<1>3. \A key \in tools :
        /\ key \in DOMAIN registered.tools
        /\ \E i \in EntriesIn("tools", p) : key = <<s, NameOf(p, i)>> /\ registered.tools[key] = p.defs[i]
    <2> TAKE key \in tools
    <2>1. key \in DOMAIN registered.tools /\ key[1] = s BY Zenon DEF Own
    <2> HIDE DEF tools
    <2>2. \E i \in EntriesIn("tools", given[s]) : key = <<s, NameOf(given[s], i)>> /\ registered.tools[key] = given[s].defs[i]
        BY <1>2, <2>1, EntryBehind
    <2> QED BY <2>1, <2>2, Zenon
<1>4. \A key \in hidden :
        /\ key \in DOMAIN registered.hidden
        /\ \E i \in EntriesIn("hidden", p) : key = <<s, NameOf(p, i)>> /\ registered.hidden[key] = p.defs[i]
    <2> TAKE key \in hidden
    <2>1. key \in DOMAIN registered.hidden /\ key[1] = s BY Zenon DEF Own
    <2> HIDE DEF hidden
    <2>2. \E i \in EntriesIn("hidden", given[s]) : key = <<s, NameOf(given[s], i)>> /\ registered.hidden[key] = given[s].defs[i]
        BY <1>2, <2>1, EntryBehind
    <2> QED BY <2>1, <2>2, Zenon
<1>5. \A i \in EntriesIn("tools", p) : <<s, NameOf(p, i)>> \in tools
    <2> TAKE i \in EntriesIn("tools", p)
    <2>1. <<s, NameOf(p, i)>> \in DOMAIN registered.tools BY <1>2, Zenon DEF Holds
    <2> QED BY <2>1 DEF Own
<1> HIDE DEF tools, hidden, p
\* One name for every valid tool.
<1>6. ASSUME NEW name \in Real(p), ValidToolName(name)
      PROVE  IF Hides(p.hidden, name) THEN \A key \in tools : registered.tools[key] # name
             ELSE \E key \in tools : /\ registered.tools[key] = name
                                     /\ \A other \in tools : registered.tools[other] = name => other = key
    <2>1. CASE Hides(p.hidden, name)
        <3> SUFFICES ASSUME NEW key \in tools, registered.tools[key] = name PROVE FALSE
            BY <2>1, Zenon
        <3>1. PICK i \in EntriesIn("tools", p) : registered.tools[key] = p.defs[i] BY <1>3, Zenon
        <3>2. ~Hides(p.hidden, p.defs[i]) BY <1>1, EntryFacts
        <3> QED BY <3>1, <3>2, <2>1
    <2>2. CASE ~Hides(p.hidden, name)
        <3>1. PICK i0 \in DOMAIN p.defs : p.defs[i0] = name BY <1>6, Zenon DEF Real
        <3>2. PICK k \in Entries(p) : p.defs[k] = name
            BY <1>1, <1>6, <3>1, EveryToolHasAnEntry, Zenon
        <3>3. k \in EntriesIn("tools", p) BY <2>2, <3>2, Zenon DEF EntriesIn, ToolsOf, HiddenOf
        <3> DEFINE key == <<s, NameOf(p, k)>>
        <3>4. key \in tools BY <1>5, <3>3, Zenon
        <3>5. registered.tools[key] = name
            <4>1. PICK i \in EntriesIn("tools", p) : key = <<s, NameOf(p, i)>> /\ registered.tools[key] = p.defs[i]
                BY <1>3, <3>4, Zenon
            <4>2. NameOf(p, i) = NameOf(p, k) BY <4>1
            <4>3. i \in Entries(p) BY <1>1, EntryFacts
            <4>4. i = k BY <1>1, <3>2, <4>2, <4>3, EntriesDiffer
            <4> QED BY <3>2, <4>1, <4>4, Zenon
        <3>6. ASSUME NEW other \in tools, registered.tools[other] = name PROVE other = key
            <4>1. PICK i \in EntriesIn("tools", p) : other = <<s, NameOf(p, i)>> /\ registered.tools[other] = p.defs[i]
                BY <1>3, Zenon
            <4>2. NameOf(p, i) = NameOf(p, k) BY <3>2, <3>6, <4>1, Zenon DEF NameOf
            <4> QED BY <4>1, <4>2
        <3> QED BY <2>2, <3>4, <3>5, <3>6, Zenon
    <2> QED BY <2>1, <2>2, Zenon
\* A name means the tool it was given to.
<1>7. ASSUME NEW key \in tools
      PROVE  registered.tools[key] \in Real(p) /\ Means(key) = registered.tools[key]
    <2>1. PICK i \in EntriesIn("tools", p) : key = <<s, NameOf(p, i)>> /\ registered.tools[key] = p.defs[i]
        BY <1>3, Zenon
    <2>2. p.defs[i] \in Real(p) /\ p.defs[i] # Nothing BY <1>1, EntryFacts
    <2>3. <<s, key[2]>> = key BY <2>1
    <2>4. LookupWithHidden(registered, key) = p.defs[i]
        BY <1>3, <2>1, Zenon DEF LookupWithHidden
    <2>5. Means(key) = p.defs[i]
        <3>1. LookupWithHidden(registered, <<s, key[2]>>) # NotFound BY <2>2, <2>3, <2>4, Zenon DEF NotFound
        <3>2. Means(key) = LookupWithHidden(registered, <<s, key[2]>>)
            BY <3>1, KnownIsMeant, Zenon
        <3> QED BY <3>2, <2>3, <2>4, Zenon
    <2> QED BY <2>1, <2>2, <2>5, Zenon
<1>8. ASSUME NEW key \in hidden
      PROVE  registered.hidden[key] \in Real(p) /\ Means(key) = registered.hidden[key]
    <2>1. PICK i \in EntriesIn("hidden", p) : key = <<s, NameOf(p, i)>> /\ registered.hidden[key] = p.defs[i]
        BY <1>4, Zenon
    <2>2. p.defs[i] \in Real(p) /\ p.defs[i] # Nothing /\ i \in Entries(p) /\ Hides(p.hidden, p.defs[i])
        BY <1>1, EntryFacts
    <2>3. <<s, key[2]>> = key BY <2>1
    <2>4. key \notin DOMAIN registered.tools
        <3> SUFFICES ASSUME key \in DOMAIN registered.tools PROVE FALSE OBVIOUS
        <3>1. key[1] = s BY <2>1
        <3>2. key \in tools BY <3>1, Zenon DEF tools, Own
        <3>3. PICK j \in EntriesIn("tools", p) : key = <<s, NameOf(p, j)>>
            BY <1>3, <3>2, Zenon
        <3>4. NameOf(p, i) = NameOf(p, j) BY <2>1, <3>3
        <3>5. j \in Entries(p) /\ ~Hides(p.hidden, p.defs[j]) BY <1>1, EntryFacts
        <3>6. i = j BY <1>1, <2>2, <3>4, <3>5, EntriesDiffer
        <3> QED BY <2>2, <3>5, <3>6
    <2>5. LookupWithHidden(registered, key) = p.defs[i]
        BY <1>4, <2>1, <2>4, Zenon DEF LookupWithHidden
    <2>6. Means(key) = p.defs[i]
        <3>1. LookupWithHidden(registered, <<s, key[2]>>) # NotFound BY <2>2, <2>3, <2>5, Zenon DEF NotFound
        <3>2. Means(key) = LookupWithHidden(registered, <<s, key[2]>>)
            BY <3>1, KnownIsMeant, Zenon
        <3> QED BY <3>2, <2>3, <2>5, Zenon
    <2> QED BY <2>1, <2>2, <2>6, Zenon
\* A call under a listed name.
<1>9. ASSUME EndsAtSeparator(s), NEW key \in tools
      PROVE  ReachesItsTool(key)
    <2>1. PICK i \in EntriesIn("tools", p) : key = <<s, NameOf(p, i)>> BY <1>3, Zenon
    <2> DEFINE name == NameOf(p, i)
               parsed == ParseProxyToolName(ListedName(key))
    <2>2. i \in DOMAIN p.defs /\ ValidToolName(p.defs[i])
        BY <1>1, EntryFacts
    <2>3. name \in Spelling /\ name # Nothing
        BY <1>1, <2>2, NamesAreSpelled
    <2>4. parsed = key
        BY <1>1, <1>9, <2>1, <2>3, ListedNameParses, Zenon
    <2> HIDE DEF parsed
    <2>5. Called(registered, ListedName(key)) = [server |-> key[1], tool |-> Lookup(registered, key)]
        BY <2>4, Zenon DEF Called, parsed
    <2>6. Lookup(registered, key) = registered.tools[key]
        BY <1>3, Zenon DEF Lookup
    <2> QED BY <2>5, <2>6, Zenon DEF ReachesItsTool
<1>10. ASSUME DOMAIN p.aliases = Real(p), NEW key \in tools
       PROVE  UpstreamToolName(NoTools, FALSE, s, p.aliases, key[2]) = registered.tools[key]
    <2>1. PICK i \in EntriesIn("tools", p) : key = <<s, NameOf(p, i)>> /\ registered.tools[key] = p.defs[i]
        BY <1>3, Zenon
    <2>2. i \in DOMAIN p.defs /\ key[2] = NameOf(p, i) BY <1>1, <2>1, EntryFacts
    <2> QED BY <1>1, <1>10, <2>1, <2>2, RulesKnowTheNames
<1> QED BY <1>6, <1>7, <1>8, <1>9, <1>10 DEF NamesAreSound, tools, hidden, p

\* However servers come, list other tools and go, names reach the tools they were given to, and
\* nothing else (registry: AddServer, ReplaceServer, RemoveServer; proxy_call and proxy_schema).
THEOREM NamesReachTools == NamesSpec => []NamesAreReachable
<1>1. NamesInv => NamesAreReachable
    <2> SUFFICES ASSUME NamesInv PROVE NamesAreReachable OBVIOUS
    <2>0. Holds(registered.tools, given, "tools") /\ Holds(registered.hidden, given, "hidden")
        BY Zenon DEF NamesInv
    <2>1. \A s \in DOMAIN given : NamesAreSound(s, given[s])
        BY SoundNames
    <2>2. \A key \in DOMAIN registered.tools \cup DOMAIN registered.hidden : key[1] \in DOMAIN given
        <3> TAKE key \in DOMAIN registered.tools \cup DOMAIN registered.hidden
        <3>1. PICK s \in DOMAIN given : \E where \in {"tools", "hidden"} : \E i \in EntriesIn(where, given[s]) : key = <<s, NameOf(given[s], i)>>
            BY <2>0 DEF Holds
        <3> QED BY <3>1
    <2>3. ASSUME NEW key \in DOMAIN registered.tools, NEW other \in DOMAIN registered.tools,
                 key[1] = other[1] \/ (EndsAtSeparator(key[1]) /\ EndsAtSeparator(other[1])),
                 ListedName(key) = ListedName(other)
          PROVE  key = other
        <3>1. PICK s \in DOMAIN given : \E n \in EntriesIn("tools", given[s]) : key = <<s, NameOf(given[s], n)>>
            BY <2>0 DEF Holds
        <3>1a. PICK i \in EntriesIn("tools", given[s]) : key = <<s, NameOf(given[s], i)>>
            BY <3>1
        <3>2. PICK t \in DOMAIN given : \E n \in EntriesIn("tools", given[t]) : other = <<t, NameOf(given[t], n)>>
            BY <2>0 DEF Holds
        <3>2a. PICK j \in EntriesIn("tools", given[t]) : other = <<t, NameOf(given[t], j)>>
            BY <3>2
        <3>3. /\ IsParameters(given[s]) /\ given[s].server = s
              /\ IsParameters(given[t]) /\ given[t].server = t
            BY Zenon DEF NamesInv
        <3>4. s \in Spelling /\ s # Nothing /\ t \in Spelling /\ t # Nothing
            BY <3>3, Zenon DEF IsParameters, ValidServerName
        <3>5. /\ NameOf(given[s], i) \in Spelling /\ NameOf(given[s], i) # Nothing
              /\ NameOf(given[t], j) \in Spelling /\ NameOf(given[t], j) # Nothing
            BY <3>3, EntryFacts, NamesAreSpelled
        <3>6. key[1] = s /\ other[1] = t BY <3>1a, <3>2a
        <3>7. CASE s = t
            <4>1. NameOf(given[s], i) = NameOf(given[t], j)
                BY <2>3, <3>1a, <3>2a, <3>4, <3>5, <3>7, ListedNameIsInjective
            <4> QED BY <3>1a, <3>2a, <3>7, <4>1
        <3>8. CASE EndsAtSeparator(s) /\ EndsAtSeparator(t)
            <4>1. ParseProxyToolName(ListedName(key)) = key
                BY <3>1a, <3>4, <3>5, <3>8, ListedNameParses, Zenon
            <4>2. ParseProxyToolName(ListedName(other)) = other
                BY <3>2a, <3>4, <3>5, <3>8, ListedNameParses, Zenon
            <4> QED BY <2>3, <4>1, <4>2
        <3> QED BY <2>3, <3>6, <3>7, <3>8
    <2> QED BY <2>1, <2>2, <2>3, Zenon DEF NamesAreReachable
<1> QED BY <1>1, NamesStart, NamesStep, PTL DEF NamesSpec

-----------------------------------------------------------------------------
(* The import plan: reading *)

EntriesAt(agents, i) ==
    IF agents[i] = Unreadable THEN << >>
    ELSE [n \in 1 .. Len(agents[i]) |->
            [agent |-> i, name |-> agents[i][n].name, conn |-> agents[i][n].conn,
             disabled |-> agents[i][n].disabled, refs |-> agents[i][n].refs, mini |-> agents[i][n].mini]]

IsReading(f, agents, N) == f = [i \in 0 .. N |-> IF i = 0 THEN << >> ELSE f[i - 1] \o EntriesAt(agents, i)]

LEMMA ReadingsExist ==
    ASSUME NEW agents, NEW N \in Nat
    PROVE  \E f : IsReading(f, agents, N)
<1> DEFINE Bad == {k \in Nat : ~\E f : IsReading(f, agents, k)}
<1>1. ASSUME Bad # {} PROVE FALSE
    <2>1. PICK k \in Bad : \A m \in Bad : k <= m BY <1>1, LeastNat
    <2>2. k # 0
        <3>1. IsReading([i \in 0 .. 0 |-> << >>], agents, 0) BY DEF IsReading
        <3> QED BY <3>1
    <2>3. k - 1 \in Nat /\ k - 1 \notin Bad BY <2>1, <2>2
    <2>4. PICK f : IsReading(f, agents, k - 1) BY <2>3
    <2> DEFINE g == [i \in 0 .. k |-> IF i = k THEN f[k - 1] \o EntriesAt(agents, k) ELSE f[i]]
    <2>5. IsReading(g, agents, k)
        <3>1. ASSUME NEW i \in 0 .. k PROVE g[i] = IF i = 0 THEN << >> ELSE g[i - 1] \o EntriesAt(agents, i)
            <4>1. CASE i = k
                <5>1. g[i] = f[k - 1] \o EntriesAt(agents, k) /\ g[i - 1] = f[k - 1] /\ i # 0
                    BY <2>2, <2>3, <4>1
                <5> HIDE DEF g
                <5> QED BY <4>1, <5>1
            <4>2. CASE i # k
                <5>1. i \in 0 .. k - 1 /\ g[i] = f[i] /\ (i # 0 => g[i - 1] = f[i - 1])
                    BY <2>2, <2>3, <4>2
                <5>2. f[i] = IF i = 0 THEN << >> ELSE f[i - 1] \o EntriesAt(agents, i)
                    BY <2>4, <5>1, Zenon DEF IsReading
                <5> HIDE DEF g
                <5> QED BY <5>1, <5>2
            <4> QED BY <4>1, <4>2
        <3>2. g = [i \in 0 .. k |-> g[i]] OBVIOUS
        <3> HIDE DEF g
        <3> QED BY <3>1, <3>2 DEF IsReading
    <2> QED BY <2>1, <2>5
<1> QED BY <1>1

LEMMA EntriesAreRead ==
    ASSUME NEW agents, Len(agents) \in Nat
    PROVE  \E f : IsReading(f, agents, Len(agents)) /\ EntriesOf(agents) = f[Len(agents)]
<1>1. \E f : IsReading(f, agents, Len(agents)) BY ReadingsExist
<1> QED BY <1>1 DEF EntriesOf, IsReading, EntriesAt

IsEntries(es) == IsList(es) /\ \A i \in DOMAIN es : IsName(NormalizeName(es[i].name))

\* What is read is a list of entries with names.
LEMMA ReadEntries ==
    ASSUME NEW agents, IsAgents(agents)
    PROVE  IsEntries(EntriesOf(agents))
<1> DEFINE S == UNION {{EntriesAt(agents, i)[n] : n \in Nat} : i \in 1 .. Len(agents)}
           Named1(e) == IsName(NormalizeName(e.name))
           T == {e \in S : Named1(e)}
<1>1. Len(agents) \in Nat /\ DOMAIN agents = 1 .. Len(agents)
    BY DEF IsAgents, IsList
<1>2. \A i \in 1 .. Len(agents) : EntriesAt(agents, i) \in Seq(T)
    <2> TAKE i \in 1 .. Len(agents)
    <2>1. CASE agents[i] = Unreadable
        BY <2>1 DEF EntriesAt
    <2>2. CASE agents[i] # Unreadable
        <3>1. /\ Len(agents[i]) \in Nat /\ DOMAIN agents[i] = 1 .. Len(agents[i])
              /\ \A n \in DOMAIN agents[i] : IsName(NormalizeName(agents[i][n].name))
            BY <1>1, <2>2 DEF IsAgents, IsList
        <3> DEFINE at == EntriesAt(agents, i)
        <3>2. at = [n \in 1 .. Len(agents[i]) |-> at[n]]
              /\ \A n \in 1 .. Len(agents[i]) : at[n].name = agents[i][n].name
            BY <2>2 DEF EntriesAt
        <3>3. ASSUME NEW n \in 1 .. Len(agents[i]) PROVE at[n] \in S /\ Named1(at[n])
            <4>1. n \in Nat OBVIOUS
            <4>2. at[n] \in S
                <5>1. at[n] \in {EntriesAt(agents, i)[m] : m \in Nat}
                    BY <4>1, Zenon
                <5> HIDE DEF at
                <5> QED BY <5>1, Zenon
            <4>3. Named1(at[n])
                <5>1. IsName(NormalizeName(agents[i][n].name)) /\ at[n].name = agents[i][n].name
                    BY <3>1, <3>2, Zenon
                <5> HIDE DEF at
                <5> QED BY <5>1, Zenon
            <4> QED BY <4>2, <4>3
        <3>4. \A n \in 1 .. Len(agents[i]) : at[n] \in T
            BY <3>3
        <3> HIDE DEF at, T
        <3>5. at \in Seq(T)
            BY <3>1, <3>2, <3>4
        <3> QED BY <3>5 DEF at
    <2> QED BY <2>1, <2>2
<1> HIDE DEF T
<1>3. PICK f : IsReading(f, agents, Len(agents)) /\ EntriesOf(agents) = f[Len(agents)]
    BY <1>1, EntriesAreRead
<1> DEFINE Bad == {k \in Nat : k <= Len(agents) /\ f[k] \notin Seq(T)}
<1>4. ASSUME Bad # {} PROVE FALSE
    <2>1. PICK k \in Bad : \A m \in Bad : k <= m BY <1>4, LeastNat
    <2>2. f[0] = << >> /\ << >> \in Seq(T)
        BY <1>1, <1>3 DEF IsReading
    <2>3. k # 0 /\ k \in 1 .. Len(agents) /\ k - 1 \in Nat
        <3>1. k # 0 BY <2>1, <2>2
        <3>2. k \in Nat /\ k <= Len(agents) BY <2>1
        <3> QED BY <1>1, <3>1, <3>2
    <2>4. f[k - 1] \in Seq(T)
        BY <1>1, <2>1, <2>3
    <2>5. f[k] = f[k - 1] \o EntriesAt(agents, k)
        <3>1. k \in 0 .. Len(agents) BY <1>1, <2>3
        <3>2. f[k] = IF k = 0 THEN << >> ELSE f[k - 1] \o EntriesAt(agents, k)
            BY <1>3, <3>1, Zenon DEF IsReading
        <3> QED BY <2>3, <3>2
    <2>6. f[k] \in Seq(T)
        BY <1>2, <2>3, <2>4, <2>5, ConcatProperties
    <2> QED BY <2>1, <2>6
<1>5. EntriesOf(agents) \in Seq(T)
    BY <1>1, <1>3, <1>4
<1>6. \A e \in T : Named1(e)
    BY DEF T
<1> HIDE DEF Named1
<1> DEFINE es == EntriesOf(agents)
<1>7. es \in Seq(T) BY <1>5
<1> HIDE DEF es
<1>8. Len(es) \in Nat /\ es = [i \in 1 .. Len(es) |-> es[i]] /\ \A i \in DOMAIN es : es[i] \in T
    BY <1>7
<1> QED BY <1>6, <1>8 DEF IsEntries, IsList, es, Named1

-----------------------------------------------------------------------------
(* The import plan: groups *)

\* What an entry is depends on the entry alone.
LEMMA AlikeEntries ==
    ASSUME NEW es, NEW written, NEW i \in DOMAIN es, NEW j \in DOMAIN es, es[i] = es[j]
    PROVE  /\ i \in NotMini(es) <=> j \in NotMini(es)
           /\ i \in InMini(es, written) <=> j \in InMini(es, written)
           /\ i \in Unexpandable(es, written) <=> j \in Unexpandable(es, written)
           /\ i \in Candidates(es, written) <=> j \in Candidates(es, written)
BY Zenon DEF NotMini, InMini, Unexpandable, Candidates

LEMMA GroupFacts ==
    ASSUME NEW es, IsEntries(es), NEW written, NEW i \in DOMAIN es, Groups(es, written)[i] # {}
    PROVE  /\ i \in Groups(es, written)[i] /\ i \in Nat
           /\ Groups(es, written)[i] = {j \in Candidates(es, written) : es[j].conn = es[i].conn}
           /\ Groups(es, written)[i] \subseteq DOMAIN es
           /\ \A j \in Groups(es, written)[i] : i <= j
           /\ Least(Groups(es, written)[i]) = i
<1> DEFINE Same == {j \in Candidates(es, written) : SameServer(es[i], es[j])}
<1>1. Groups(es, written)[i] = IF i \in Same /\ \A j \in Same : i <= j THEN Same ELSE {}
    BY Zenon DEF Groups
<1>2. i \in Same /\ (\A j \in Same : i <= j) /\ Groups(es, written)[i] = Same
    BY <1>1, Zenon
<1>3. Same = {j \in Candidates(es, written) : es[j].conn = es[i].conn}
    BY DEF SameServer
<1>4. Same \subseteq DOMAIN es
    BY Zenon DEF Candidates, NotMini
<1>5. DOMAIN es = 1 .. Len(es) /\ Len(es) \in Nat
    BY DEF IsEntries, IsList
<1> HIDE DEF Same
<1>6. Least(Same) = i
    <2>1. Least(Same) \in Same /\ \A j \in Same : Least(Same) <= j
        BY <1>2, Zenon DEF Least
    <2>2. Least(Same) <= i /\ i <= Least(Same) /\ Least(Same) \in Nat /\ i \in Nat
        BY <1>2, <1>4, <1>5, <2>1
    <2> QED BY <2>2
<1> QED BY <1>2, <1>3, <1>4, <1>5, <1>6

\* Two groups have different connections.
LEMMA GroupsDiffer ==
    ASSUME NEW es, IsEntries(es), NEW written, NEW i \in DOMAIN es, NEW j \in DOMAIN es,
           Groups(es, written)[i] # {}, Groups(es, written)[j] # {}, es[i].conn = es[j].conn
    PROVE  i = j
<1>1. j \in Groups(es, written)[i] /\ i \in Groups(es, written)[j]
    <2>1. /\ i \in Groups(es, written)[i] /\ j \in Groups(es, written)[j]
          /\ Groups(es, written)[i] = {m \in Candidates(es, written) : es[m].conn = es[i].conn}
          /\ Groups(es, written)[j] = {m \in Candidates(es, written) : es[m].conn = es[j].conn}
        BY GroupFacts
    <2> QED BY <2>1
<1>2. i <= j /\ j <= i /\ i \in Nat /\ j \in Nat
    BY <1>1, GroupFacts
<1> QED BY <1>2

\* Every candidate is in a group.
LEMMA GroupsCover ==
    ASSUME NEW es, IsEntries(es), NEW written, NEW i \in Candidates(es, written)
    PROVE  \E m \in DOMAIN es : i \in Groups(es, written)[m] /\ es[m].conn = es[i].conn
<1> DEFINE Same == {j \in Candidates(es, written) : es[j].conn = es[i].conn}
<1>1. DOMAIN es = 1 .. Len(es) /\ Len(es) \in Nat
    BY DEF IsEntries, IsList
<1>2. Same \subseteq DOMAIN es
    BY Zenon DEF Candidates, NotMini
<1>3. Same \subseteq Nat /\ i \in Same
    BY <1>1, <1>2
<1>4. PICK m \in Same : \A j \in Same : m <= j
    BY <1>3, LeastNat, Zenon
<1>5. m \in DOMAIN es /\ m \in Candidates(es, written) /\ es[m].conn = es[i].conn
    BY <1>2, <1>4
<1>6. {j \in Candidates(es, written) : SameServer(es[m], es[j])} = Same
    BY <1>5 DEF SameServer
<1>7. Groups(es, written)[m] = Same
    BY <1>4, <1>5, <1>6, Zenon DEF Groups
<1> QED BY <1>3, <1>5, <1>7

-----------------------------------------------------------------------------
(* The import plan: names *)

LEMMA FirstFreeFacts ==
    ASSUME NEW es, IsEntries(es), NEW g, g \subseteq DOMAIN es, NEW taken
    PROVE  /\ FirstFree(es, g, taken) = NoName => \A i \in g : ~Usable(NormalizeName(es[i].name), taken)
           /\ FirstFree(es, g, taken) # NoName => Usable(FirstFree(es, g, taken), taken)
<1> DEFINE free == {i \in g : Usable(NormalizeName(es[i].name), taken)}
<1>1. CASE free = {}
    BY <1>1, Zenon DEF FirstFree
<1>2. CASE free # {}
    <2>1. free \subseteq Nat
        BY DEF IsEntries, IsList
    <2>2. \E n \in free : \A m \in free : n <= m
        BY <1>2, <2>1, LeastNat
    <2>3. Least(free) \in free
        BY <2>2, Zenon DEF Least
    <2>4. FirstFree(es, g, taken) = NormalizeName(es[Least(free)].name)
        BY <1>2, Zenon DEF FirstFree
    <2>5. Usable(FirstFree(es, g, taken), taken)
        BY <2>3, <2>4
    <2>6. FirstFree(es, g, taken)[1] # "" /\ NoName[1] = ""
        BY <2>5 DEF Usable, NoName
    <2> QED BY <2>5, <2>6
<1> QED BY <1>1, <1>2

LEMMA AppendedAt ==
    ASSUME NEW base, IsName(base), NEW n
    PROVE  Append(base, n)[Len(base) + 1] = n /\ Append(base, n)[1] = base[1]
<1> DEFINE S == {base[i] : i \in 1 .. Len(base)} \cup {n}
<1>1. /\ Len(base) \in Nat /\ Len(base) > 0 /\ base = [i \in 1 .. Len(base) |-> base[i]]
      /\ \A i \in 1 .. Len(base) : base[i] \in S
    BY DEF IsName, IsList
<1>2. n \in S OBVIOUS
<1> HIDE DEF S
<1>3. base \in Seq(S)
    BY <1>1
<1> QED BY <1>1, <1>2, <1>3, AppendProperties

\* A name with a number is not free only if somebody has it: of one number more than there are
\* names one is free.
LEMMA ANumberIsFree ==
    ASSUME NEW base, IsName(base), NEW taken, IsFiniteSet(taken)
    PROVE  \E n \in 2 .. 2 + Cardinality(taken) : Append(base, n) \notin taken
<1> SUFFICES ASSUME \A n \in 2 .. 2 + Cardinality(taken) : Append(base, n) \in taken PROVE FALSE
    OBVIOUS
<1> DEFINE k == Cardinality(taken)
           f == [n \in 2 .. 2 + k |-> Append(base, n)]
<1>1. k \in Nat
    BY FS_CardinalityType
<1>2. f \in [2 .. 2 + k -> taken]
    OBVIOUS
<1>3. IsFiniteSet(2 .. 2 + k) /\ Cardinality(2 .. 2 + k) = k + 1
    BY <1>1, FS_Interval
<1> HIDE DEF f, k
<1>4. Cardinality(taken) < Cardinality(2 .. 2 + k)
    BY <1>1, <1>3 DEF k
<1>5. PICK m, n \in 2 .. 2 + k : m # n /\ f[m] = f[n]
    BY <1>2, <1>3, <1>4, FS_PigeonHole
<1>6. Append(base, m) = Append(base, n)
    BY <1>5 DEF f
<1>7. Append(base, m)[Len(base) + 1] = m /\ Append(base, n)[Len(base) + 1] = n
    BY AppendedAt
<1> QED BY <1>5, <1>6, <1>7

LEMMA SuffixedFacts ==
    ASSUME NEW es, IsEntries(es), NEW g, g \subseteq DOMAIN es, NEW inMini, NEW taken, IsFiniteSet(taken)
    PROVE  /\ Suffixed(es, g, inMini, taken) = NoName => \A i \in g : ~Usable(NormalizeName(es[i].name), inMini)
           /\ Suffixed(es, g, inMini, taken) # NoName => Usable(Suffixed(es, g, inMini, taken), taken)
<1> DEFINE own == {i \in g : Usable(NormalizeName(es[i].name), inMini)}
           base == NormalizeName(es[Least(own)].name)
           free == {n \in 2 .. 2 + Cardinality(taken) : Append(base, n) \notin taken}
<1>1. CASE own = {}
    BY <1>1, Zenon DEF Suffixed
<1>2. CASE own # {}
    <2>1. own \subseteq Nat /\ own \subseteq DOMAIN es
        BY DEF IsEntries, IsList
    <2>2. \E n \in own : \A m \in own : n <= m
        BY <1>2, <2>1, LeastNat
    <2>3. Least(own) \in own
        BY <2>2, Zenon DEF Least
    <2>4. IsName(base) /\ Usable(base, inMini)
        BY <2>1, <2>3 DEF IsEntries
    <2>5. Suffixed(es, g, inMini, taken) = Append(base, Least(free))
        BY <1>2, Zenon DEF Suffixed
    <2> HIDE DEF base
    <2>6. free # {} /\ free \subseteq Nat
        <3>1. \E n \in 2 .. 2 + Cardinality(taken) : Append(base, n) \notin taken
            BY <2>4, ANumberIsFree
        <3>2. 2 .. 2 + Cardinality(taken) \subseteq Nat
            BY FS_CardinalityType
        <3> QED BY <3>1, <3>2
    <2>7. Least(free) \in free
        <3>1. \E n \in free : \A m \in free : n <= m BY <2>6, LeastNat
        <3> HIDE DEF free
        <3> QED BY <3>1, Zenon DEF Least
    <2>8. Append(base, Least(free)) \notin taken
        BY <2>7
    <2>9. Append(base, Least(free))[1] = base[1] /\ base[1] # ""
        BY <2>4, AppendedAt DEF Usable
    <2>10. NoName[1] = ""
        BY DEF NoName
    <2> HIDE DEF free
    <2> QED BY <2>5, <2>8, <2>9, <2>10 DEF Usable
<1> QED BY <1>1, <1>2

-----------------------------------------------------------------------------
(* The import plan: its candidates *)

\* A candidate is offered for one group, under a name mini does not have.
IsCandidate(c, es, w) ==
    /\ c = [name |-> c.name, conn |-> c.conn, from |-> c.from, picked |-> c.picked]
    /\ \E i \in DOMAIN es : /\ Groups(es, w)[i] # {} /\ c.conn = es[i].conn
                            /\ c.from = {es[j] : j \in Groups(es, w)[i]}
    /\ Usable(c.name, TakenInMini(w))

Distinct(S) == \A c, d \in S : c # d => c.name # d.name /\ c.conn # d.conn

PlanShape(p, es, w) ==
    p = [entries |-> es, inMini |-> TakenInMini(w), taken |-> p.taken, candidates |-> p.candidates, unpicked |-> p.unpicked]

LEMMA ShapeFacts ==
    ASSUME NEW es, NEW w, NEW p, PlanShape(p, es, w)
    PROVE  p.entries = es /\ p.inMini = TakenInMini(w)
<1> DEFINE M == TakenInMini(w)
<1> HIDE DEF M
<1>1. p = [entries |-> es, inMini |-> M, taken |-> p.taken, candidates |-> p.candidates, unpicked |-> p.unpicked]
    BY DEF PlanShape, M
<1>2. PICK t, c, u : p = [entries |-> es, inMini |-> M, taken |-> t, candidates |-> c, unpicked |-> u]
    BY <1>1, Zenon
<1>3. p.entries = es /\ p.inMini = M
    BY <1>2
<1> QED BY <1>3 DEF M

Extended(p, cs, taken) == [p EXCEPT !.candidates = cs, !.taken = taken]

LEMMA ShapeWithCandidate ==
    ASSUME NEW es, NEW w, NEW p, PlanShape(p, es, w), NEW cs, NEW taken
    PROVE  /\ PlanShape(Extended(p, cs, taken), es, w)
           /\ Extended(p, cs, taken).candidates = cs /\ Extended(p, cs, taken).taken = taken
           /\ Extended(p, cs, taken).unpicked = p.unpicked
<1> DEFINE q == Extended(p, cs, taken)
<1> DEFINE M == TakenInMini(w)
<1> HIDE DEF M
<1>1. p = [entries |-> es, inMini |-> M, taken |-> p.taken, candidates |-> p.candidates, unpicked |-> p.unpicked]
    BY DEF PlanShape, M
<1>2. PICK t, c, u : p = [entries |-> es, inMini |-> M, taken |-> t, candidates |-> c, unpicked |-> u]
    BY <1>1, Zenon
<1>3. p.unpicked = u
    BY <1>2 DEF Extended
<1>4. DOMAIN q = {"entries", "inMini", "taken", "candidates", "unpicked"}
      /\ q = [x \in {"entries", "inMini", "taken", "candidates", "unpicked"} |-> q[x]]
    BY <1>2 DEF Extended
<1>5. q["entries"] = es /\ q["inMini"] = M /\ q["taken"] = taken /\ q["candidates"] = cs /\ q["unpicked"] = u
    BY <1>2 DEF Extended
<1>6. q = [entries |-> es, inMini |-> M, taken |-> taken, candidates |-> cs, unpicked |-> u]
    BY <1>4, <1>5
<1> HIDE DEF q
<1>7. PlanShape(q, es, w) /\ q.candidates = cs /\ q.taken = taken /\ q.unpicked = p.unpicked
    BY <1>3, <1>6 DEF PlanShape, M
<1> QED BY <1>7 DEF q

LEMMA ShapeWithUnpicked ==
    ASSUME NEW es, NEW w, NEW p, PlanShape(p, es, w), NEW unpicked,
           NEW q, q = [p EXCEPT !.unpicked = unpicked]
    PROVE  PlanShape(q, es, w) /\ q.candidates = p.candidates /\ q.taken = p.taken /\ q.unpicked = unpicked
<1> DEFINE M == TakenInMini(w)
<1> HIDE DEF M
<1>1. p = [entries |-> es, inMini |-> M, taken |-> p.taken, candidates |-> p.candidates, unpicked |-> p.unpicked]
    BY DEF PlanShape, M
<1>2. PICK t, c, u : p = [entries |-> es, inMini |-> M, taken |-> t, candidates |-> c, unpicked |-> u]
    BY <1>1, Zenon
<1>3. p.candidates = c /\ p.taken = t
    BY <1>2
<1>4. q = [entries |-> es, inMini |-> M, taken |-> t, candidates |-> c, unpicked |-> unpicked]
    BY <1>2
<1> QED BY <1>3, <1>4 DEF PlanShape, M

\* What holds of a plan at every step of both passes.
IsPlan(p, es, w) ==
    /\ PlanShape(p, es, w)
    /\ IsFiniteSet(p.taken)
    /\ p.taken = TakenInMini(w) \cup {c.name : c \in p.candidates}
    /\ \A c \in p.candidates : IsCandidate(c, es, w)
    /\ Distinct(p.candidates)

\* What a plan is after a candidate was added to it.
IsExtended(q, p, es, w, i, name, picked) ==
    /\ IsPlan(q, es, w) /\ q.unpicked = p.unpicked
    /\ \E new : q.candidates = p.candidates \cup {new} /\ new.conn = es[i].conn /\ new.picked = picked
    /\ q.taken = p.taken \cup {name}

LEMMA CandidateAdded ==
    ASSUME NEW es, IsEntries(es), NEW w, NEW p, IsPlan(p, es, w), NEW i \in DOMAIN es, Groups(es, w)[i] # {},
           NEW name, Usable(name, p.taken), NEW picked,
           \A c \in p.candidates : c.conn # es[i].conn
    PROVE  IsExtended(AddCandidate(p, Groups(es, w)[i], name, picked), p, es, w, i, name, picked)
<1> DEFINE g == Groups(es, w)[i]
           new == [name |-> name, conn |-> es[i].conn, from |-> {es[j] : j \in g}, picked |-> picked]
<1>1. Least(g) = i
    BY GroupFacts
<1>2. p.entries = es /\ PlanShape(p, es, w)
    BY ShapeFacts, Zenon DEF IsPlan
<1> DEFINE q == AddCandidate(p, Groups(es, w)[i], name, picked)
<1>3. q = AddCandidate(p, g, name, picked)
    BY Zenon
<1> HIDE DEF q
<1> HIDE DEF g
<1>4. q = [p EXCEPT !.candidates = p.candidates \cup {new}, !.taken = p.taken \cup {name}]
    <2> DEFINE origin == {p.entries[j] : j \in g}
               c == [name |-> name, conn |-> p.entries[Least(g)].conn, from |-> origin, picked |-> picked]
    <2>1. origin = {es[j] : j \in g}
        BY <1>2
    <2>2. q = [p EXCEPT !.candidates = p.candidates \cup {c}, !.taken = p.taken \cup {name}]
        BY <1>3, Zenon DEF AddCandidate
    <2> HIDE DEF origin
    <2>3. c = new
        BY <1>1, <1>2, <2>1, Zenon DEF new
    <2> HIDE DEF c
    <2> QED BY <2>2, <2>3, Zenon
<1> HIDE DEF new
<1> HIDE DEF new
<1>5. /\ new = [name |-> new.name, conn |-> new.conn, from |-> new.from, picked |-> new.picked]
      /\ new.picked = picked /\ new.name = name /\ new.conn = es[i].conn /\ new.from = {es[j] : j \in g}
    BY DEF new
<1>6. Usable(name, TakenInMini(w))
    BY DEF Usable, IsPlan
<1>7. IsCandidate(new, es, w)
    BY <1>5, <1>6, Zenon DEF IsCandidate, g
<1> DEFINE cs == p.candidates \cup {new}
           taken == p.taken \cup {name}
<1> HIDE DEF cs, taken
<1>8a. q = Extended(p, cs, taken)
    BY <1>4, Zenon DEF cs, taken, Extended
<1>8b. PlanShape(q, es, w) /\ q.candidates = cs /\ q.taken = taken /\ q.unpicked = p.unpicked
    <2>1. /\ PlanShape(Extended(p, cs, taken), es, w)
          /\ Extended(p, cs, taken).candidates = cs /\ Extended(p, cs, taken).taken = taken
          /\ Extended(p, cs, taken).unpicked = p.unpicked
        BY <1>2, ShapeWithCandidate
    <2> QED BY <1>8a, <2>1, Zenon
<1>8. /\ q.taken = p.taken \cup {name} /\ q.candidates = p.candidates \cup {new} /\ q.unpicked = p.unpicked
      /\ PlanShape(q, es, w)
    BY <1>8b, Zenon DEF cs, taken
<1>9. IsFiniteSet(q.taken)
    BY <1>8, FS_AddElement DEF IsPlan
<1>10. q.taken = TakenInMini(w) \cup {c.name : c \in q.candidates}
    BY <1>5, <1>8 DEF IsPlan
<1>11. \A c \in q.candidates : IsCandidate(c, es, w)
    BY <1>7, <1>8, Zenon DEF IsPlan
<1>12. \A c \in p.candidates : c.name # new.name /\ c.conn # new.conn
    BY <1>5 DEF IsPlan, Usable
<1>13. Distinct(q.candidates)
    BY <1>8, <1>12, Zenon DEF Distinct, IsPlan
<1>14. IsPlan(q, es, w)
    BY <1>8, <1>9, <1>10, <1>11, <1>13, Zenon DEF IsPlan
<1> QED BY <1>5, <1>8, <1>14, Zenon DEF q, IsExtended

LEMMA NoPlanIsPlan ==
    ASSUME NEW es, NEW w, IsFiniteSet(w)
    PROVE  /\ IsPlan(NoPlanYet(es, w), es, w)
           /\ NoPlanYet(es, w).candidates = {} /\ NoPlanYet(es, w).unpicked = {}
<1>1. IsFiniteSet(TakenInMini(w))
    <2> DEFINE nameOf == [s \in w |-> s.name]
    <2>1. nameOf \in Surjection(w, TakenInMini(w))
        BY DEF Surjection, TakenInMini
    <2> QED BY <2>1, FS_Surjection, Zenon
<1> DEFINE p == NoPlanYet(es, w)
<1>2. p = [entries |-> es, inMini |-> TakenInMini(w), taken |-> TakenInMini(w), candidates |-> {}, unpicked |-> {}]
    BY DEF NoPlanYet
<1> HIDE DEF p
<1>3. p.taken = TakenInMini(w) /\ p.candidates = {} /\ p.unpicked = {}
    BY <1>2
<1>4. PlanShape(p, es, w)
    BY <1>2, <1>3 DEF PlanShape
<1>5. p.taken = TakenInMini(w) \cup {c.name : c \in p.candidates}
    BY <1>3
<1>6. IsPlan(p, es, w)
    BY <1>1, <1>3, <1>4, <1>5, Zenon DEF IsPlan, Distinct
<1> QED BY <1>3, <1>6 DEF p

-----------------------------------------------------------------------------
(* The import plan: the two passes *)

\* The first pass: every candidate is picked, and every group so far has one or waits unpicked;
\* one that some agent has switched on waits because the names are taken.
Picking(p, n, es, w) ==
    /\ IsPlan(p, es, w)
    /\ \A c \in p.candidates : c.picked = TRUE /\ \E i \in 1 .. n : c.conn = es[i].conn /\ Groups(es, w)[i] # {}
    /\ \A g \in p.unpicked : \E i \in 1 .. n :
        /\ g = Groups(es, w)[i] /\ g # {}
        /\ \A c \in p.candidates : c.conn # es[i].conn
    /\ \A i \in 1 .. n : Groups(es, w)[i] # {} =>
        Groups(es, w)[i] \in p.unpicked \/ \E c \in p.candidates : c.conn = es[i].conn
    /\ \A g \in p.unpicked : Enabled(es, g) => \A j \in g : ~Usable(NormalizeName(es[j].name), p.taken)

PickOf(p, n, es, w) == IF Groups(es, w)[n] = {} THEN p ELSE AddStep(p, Groups(es, w)[n])

LEMMA NextIsPicked ==
    ASSUME NEW es, IsEntries(es), NEW w, NEW n \in DOMAIN es, NEW p, Picking(p, n - 1, es, w)
    PROVE  Picking(PickOf(p, n, es, w), n, es, w)
<1> DEFINE G == Groups(es, w)
<1>0. DOMAIN es = 1 .. Len(es) /\ Len(es) \in Nat
    BY DEF IsEntries, IsList
<1>1. n \in Nat /\ n \in 1 .. n /\ 1 .. n - 1 \subseteq 1 .. n /\ 1 .. n \subseteq DOMAIN es
      /\ \A i \in 1 .. n : i = n \/ i \in 1 .. n - 1
    BY <1>0
<1>2. n \notin 1 .. n - 1
    BY <1>0
<1> HIDE DEF G
<1>3. IsPlan(p, es, w)
    BY Zenon DEF Picking
<1>4. \A c \in p.candidates : c.picked = TRUE /\ \E i \in 1 .. n - 1 : c.conn = es[i].conn /\ G[i] # {}
    BY Zenon DEF Picking, G
<1>5. \A g \in p.unpicked : \E i \in 1 .. n - 1 : g = G[i] /\ g # {} /\ \A c \in p.candidates : c.conn # es[i].conn
    BY Zenon DEF Picking, G
<1>6. \A i \in 1 .. n - 1 : G[i] # {} => G[i] \in p.unpicked \/ \E c \in p.candidates : c.conn = es[i].conn
    BY Zenon DEF Picking, G
<1>7. \A g \in p.unpicked : Enabled(es, g) => \A j \in g : ~Usable(NormalizeName(es[j].name), p.taken)
    BY Zenon DEF Picking
<1> DEFINE q == PickOf(p, n, es, w)
<1> SUFFICES /\ IsPlan(q, es, w)
             /\ \A c \in q.candidates : c.picked = TRUE /\ \E i \in 1 .. n : c.conn = es[i].conn /\ G[i] # {}
             /\ \A g \in q.unpicked : \E i \in 1 .. n : g = G[i] /\ g # {} /\ \A c \in q.candidates : c.conn # es[i].conn
             /\ \A i \in 1 .. n : G[i] # {} => G[i] \in q.unpicked \/ \E c \in q.candidates : c.conn = es[i].conn
             /\ \A g \in q.unpicked : Enabled(es, g) => \A j \in g : ~Usable(NormalizeName(es[j].name), q.taken)
    BY Zenon DEF Picking, G
<1>8. CASE G[n] = {}
    <2>1. q = p
        BY <1>8, Zenon DEF PickOf, G
    <2> HIDE DEF q
    <2>2. \A i \in 1 .. n : G[i] # {} => i \in 1 .. n - 1
        BY <1>1, <1>8, Zenon
    <2>3. \A c \in p.candidates : c.picked = TRUE /\ \E i \in 1 .. n : c.conn = es[i].conn /\ G[i] # {}
        BY <1>1, <1>4, Zenon
    <2>4. \A g \in p.unpicked : \E i \in 1 .. n : g = G[i] /\ g # {} /\ \A c \in p.candidates : c.conn # es[i].conn
        BY <1>1, <1>5, Zenon
    <2>5. \A i \in 1 .. n : G[i] # {} => G[i] \in p.unpicked \/ \E c \in p.candidates : c.conn = es[i].conn
        BY <2>2, <1>6, Zenon
    <2> QED BY <1>3, <1>7, <2>1, <2>3, <2>4, <2>5, Zenon
<1>9. CASE G[n] # {}
    <2> DEFINE name == IF Enabled(es, G[n]) THEN FirstFree(es, G[n], p.taken) ELSE NoName
    <2>1. p.entries = es
        BY <1>3, ShapeFacts, Zenon DEF IsPlan
    <2>2. q = IF name = NoName THEN [p EXCEPT !.unpicked = @ \cup {G[n]}] ELSE AddCandidate(p, G[n], name, TRUE)
        BY <1>9, <2>1, Zenon DEF PickOf, AddStep, G
    <2> HIDE DEF q, name
    <2>3. G[n] \subseteq DOMAIN es
        BY <1>9, GroupFacts, Zenon DEF G
    <2>4. \A i \in 1 .. n - 1 : G[i] # {} => es[i].conn # es[n].conn
        <3> TAKE i \in 1 .. n - 1
        <3>1. i \in DOMAIN es /\ i # n BY <1>1, <1>2
        <3> QED BY <1>9, <3>1, GroupsDiffer, Zenon DEF G
    <2>5. \A c \in p.candidates : c.conn # es[n].conn
        BY <1>4, <2>4, Zenon
    <2>6. CASE name = NoName
        <3>1. PlanShape(p, es, w) /\ q = [p EXCEPT !.unpicked = p.unpicked \cup {G[n]}]
            BY <1>3, <2>2, <2>6, Zenon DEF IsPlan
        <3>2. q.taken = p.taken /\ q.candidates = p.candidates /\ q.unpicked = p.unpicked \cup {G[n]}
              /\ PlanShape(q, es, w)
            BY <3>1, ShapeWithUnpicked
        <3>3. IsPlan(q, es, w)
            BY <1>3, <3>2, Zenon DEF IsPlan
        <3>4. Enabled(es, G[n]) => \A j \in G[n] : ~Usable(NormalizeName(es[j].name), p.taken)
            BY <2>3, <2>6, FirstFreeFacts, Zenon DEF name
        <3>5. \A c \in q.candidates : c.picked = TRUE /\ \E i \in 1 .. n : c.conn = es[i].conn /\ G[i] # {}
            BY <1>1, <1>4, <3>2, Zenon
        <3>6. \A g \in q.unpicked : \E i \in 1 .. n : g = G[i] /\ g # {} /\ \A c \in q.candidates : c.conn # es[i].conn
            <4> TAKE g \in q.unpicked
            <4>1. CASE g = G[n]
                BY <1>1, <1>9, <2>5, <3>2, <4>1, Zenon
            <4>2. CASE g \in p.unpicked
                BY <1>1, <1>5, <3>2, <4>2, Zenon
            <4> QED BY <3>2, <4>1, <4>2, Zenon
        <3>7. \A i \in 1 .. n : G[i] # {} => G[i] \in q.unpicked \/ \E c \in q.candidates : c.conn = es[i].conn
            BY <1>1, <1>6, <3>2, Zenon
        <3>8. \A g \in q.unpicked : Enabled(es, g) => \A j \in g : ~Usable(NormalizeName(es[j].name), q.taken)
            BY <1>7, <3>2, <3>4, Zenon
        <3> QED BY <3>3, <3>5, <3>6, <3>7, <3>8, Zenon
    <2>7. CASE name # NoName
        <3>1. name = FirstFree(es, G[n], p.taken) /\ Usable(name, p.taken)
            BY <2>3, <2>7, FirstFreeFacts, Zenon DEF name
        <3>2. q = AddCandidate(p, Groups(es, w)[n], name, TRUE) /\ Groups(es, w)[n] # {}
            BY <1>9, <2>2, <2>7, Zenon DEF G
        <3>3. /\ IsPlan(q, es, w) /\ q.unpicked = p.unpicked
              /\ \E new : q.candidates = p.candidates \cup {new} /\ new.conn = es[n].conn /\ new.picked = TRUE
              /\ q.taken = p.taken \cup {name}
            <4> DEFINE yes == TRUE
            <4>1. q = AddCandidate(p, Groups(es, w)[n], name, yes)
                BY <3>2
            <4> HIDE DEF yes
            <4>2. IsExtended(AddCandidate(p, Groups(es, w)[n], name, yes), p, es, w, n, name, yes)
                BY <1>3, <2>5, <3>1, <3>2, CandidateAdded, Zenon
            <4> QED BY <4>1, <4>2, Zenon DEF IsExtended, yes
        <3>4. PICK new : q.candidates = p.candidates \cup {new} /\ new.conn = es[n].conn /\ new.picked = TRUE
            BY <3>3, Zenon
        <3>5. \A c \in q.candidates : c.picked = TRUE /\ \E i \in 1 .. n : c.conn = es[i].conn /\ G[i] # {}
            BY <1>1, <1>4, <1>9, <3>4, Zenon
        <3>6. \A g \in q.unpicked : \E i \in 1 .. n : g = G[i] /\ g # {} /\ \A c \in q.candidates : c.conn # es[i].conn
            <4> TAKE g \in q.unpicked
            <4>1. PICK i \in 1 .. n - 1 : g = G[i] /\ g # {} /\ \A c \in p.candidates : c.conn # es[i].conn
                BY <1>5, <3>3, Zenon
            <4>2. es[i].conn # es[n].conn
                BY <2>4, <4>1, Zenon
            <4> QED BY <1>1, <3>4, <4>1, <4>2, Zenon
        <3>7. \A i \in 1 .. n : G[i] # {} => G[i] \in q.unpicked \/ \E c \in q.candidates : c.conn = es[i].conn
            BY <1>1, <1>6, <3>3, <3>4, Zenon
        <3>8. \A x : ~Usable(x, p.taken) => ~Usable(x, q.taken)
            BY <3>3, Zenon DEF Usable
        <3>9. \A g \in q.unpicked : Enabled(es, g) => \A j \in g : ~Usable(NormalizeName(es[j].name), q.taken)
            BY <1>7, <3>3, <3>8, Zenon
        <3> QED BY <3>3, <3>5, <3>6, <3>7, <3>9, Zenon
    <2> QED BY <2>6, <2>7
<1> QED BY <1>8, <1>9

\* A group that waits unpicked has no candidate.
LEMMA UnpickedHasNone ==
    ASSUME NEW es, IsEntries(es), NEW w, NEW q, Picking(q, Len(es), es, w), NEW n \in DOMAIN es,
           Groups(es, w)[n] \in q.unpicked
    PROVE  Groups(es, w)[n] # {} /\ \A c \in q.candidates : c.conn # es[n].conn
<1>1. PICK i \in 1 .. Len(es) : /\ Groups(es, w)[n] = Groups(es, w)[i] /\ Groups(es, w)[n] # {}
                                /\ \A c \in q.candidates : c.conn # es[i].conn
    BY Zenon DEF Picking
<1>2. DOMAIN es = 1 .. Len(es)
    BY DEF IsEntries, IsList
<1>3. Least(Groups(es, w)[n]) = n /\ Least(Groups(es, w)[i]) = i
    BY <1>1, <1>2, GroupFacts, Zenon
<1> QED BY <1>1, <1>3, Zenon

\* The second pass: what the first pass picked stays, and of the groups it left so far each is
\* offered or has only names that are empty or mini's.
Offering(p, n, q, es, w) ==
    /\ IsPlan(p, es, w) /\ p.unpicked = q.unpicked
    /\ \A c \in q.candidates : c \in p.candidates
    /\ \A c \in p.candidates : c \in q.candidates \/
        (c.picked = FALSE /\ \E i \in 1 .. n : c.conn = es[i].conn /\ Groups(es, w)[i] # {})
    /\ \A i \in 1 .. n : Groups(es, w)[i] \in q.unpicked =>
        \/ \E c \in p.candidates : c.conn = es[i].conn
        \/ \A j \in Groups(es, w)[i] : ~Usable(NormalizeName(es[j].name), TakenInMini(w))

OfferOf(p, n, q, es, w) == IF Groups(es, w)[n] \in q.unpicked THEN OfferStep(p, Groups(es, w)[n]) ELSE p

LEMMA NextIsOffered ==
    ASSUME NEW es, IsEntries(es), NEW w, NEW q, Picking(q, Len(es), es, w), NEW n \in DOMAIN es,
           NEW p, Offering(p, n - 1, q, es, w)
    PROVE  Offering(OfferOf(p, n, q, es, w), n, q, es, w)
<1> DEFINE G == Groups(es, w)
<1>0. DOMAIN es = 1 .. Len(es) /\ Len(es) \in Nat
    BY DEF IsEntries, IsList
<1>1. n \in Nat /\ n \in 1 .. n /\ 1 .. n - 1 \subseteq 1 .. n /\ 1 .. n \subseteq DOMAIN es
      /\ \A i \in 1 .. n : i = n \/ i \in 1 .. n - 1
    BY <1>0
<1>2. n \notin 1 .. n - 1
    BY <1>0
<1> HIDE DEF G
<1>3. IsPlan(p, es, w) /\ p.unpicked = q.unpicked /\ \A c \in q.candidates : c \in p.candidates
    BY Zenon DEF Offering
<1>4. \A c \in p.candidates : c \in q.candidates \/
        (c.picked = FALSE /\ \E i \in 1 .. n - 1 : c.conn = es[i].conn /\ G[i] # {})
    BY Zenon DEF Offering, G
<1>5. \A i \in 1 .. n - 1 : G[i] \in q.unpicked =>
        \/ \E c \in p.candidates : c.conn = es[i].conn
        \/ \A j \in G[i] : ~Usable(NormalizeName(es[j].name), TakenInMini(w))
    BY Zenon DEF Offering, G
<1> DEFINE r == OfferOf(p, n, q, es, w)
<1> SUFFICES
      /\ IsPlan(r, es, w) /\ r.unpicked = q.unpicked
      /\ \A c \in q.candidates : c \in r.candidates
      /\ \A c \in r.candidates : c \in q.candidates \/
          (c.picked = FALSE /\ \E i \in 1 .. n : c.conn = es[i].conn /\ G[i] # {})
      /\ \A i \in 1 .. n : G[i] \in q.unpicked =>
          \/ \E c \in r.candidates : c.conn = es[i].conn
          \/ \A j \in G[i] : ~Usable(NormalizeName(es[j].name), TakenInMini(w))
    BY Zenon DEF Offering, G
<1>6. \A c \in p.candidates : c \in q.candidates \/
        (c.picked = FALSE /\ \E i \in 1 .. n : c.conn = es[i].conn /\ G[i] # {})
    BY <1>1, <1>4, Zenon
<1>7. CASE G[n] \notin q.unpicked
    <2>1. r = p
        BY <1>7, Zenon DEF OfferOf, G
    <2> HIDE DEF r
    <2>2. \A i \in 1 .. n : G[i] \in q.unpicked =>
            \/ \E c \in p.candidates : c.conn = es[i].conn
            \/ \A j \in G[i] : ~Usable(NormalizeName(es[j].name), TakenInMini(w))
        BY <1>1, <1>5, <1>7, Zenon
    <2> QED BY <1>3, <1>6, <2>1, <2>2, Zenon
<1>8. CASE G[n] \in q.unpicked
    <2> DEFINE free == FirstFree(es, G[n], p.taken)
               name == IF free = NoName THEN Suffixed(es, G[n], TakenInMini(w), p.taken) ELSE free
    <2>1. p.entries = es /\ p.inMini = TakenInMini(w)
        BY <1>3, ShapeFacts, Zenon DEF IsPlan
    <2>2. r = IF name = NoName THEN p ELSE AddCandidate(p, G[n], name, FALSE)
        BY <1>8, <2>1, Zenon DEF OfferOf, OfferStep, G
    <2>3. G[n] # {} /\ (\A c \in q.candidates : c.conn # es[n].conn) /\ G[n] \subseteq DOMAIN es
        <3>1. Groups(es, w)[n] # {} /\ \A c \in q.candidates : c.conn # es[n].conn
            BY <1>8, UnpickedHasNone, Zenon DEF G
        <3>2. Groups(es, w)[n] \subseteq DOMAIN es
            BY <3>1, GroupFacts, Zenon
        <3> QED BY <3>1, <3>2, Zenon DEF G
    <2>4. \A i \in 1 .. n - 1 : G[i] # {} => es[i].conn # es[n].conn
        <3> TAKE i \in 1 .. n - 1
        <3>1. i \in DOMAIN es /\ i # n BY <1>1, <1>2
        <3> QED BY <2>3, <3>1, GroupsDiffer, Zenon DEF G
    <2>5. \A c \in p.candidates : c.conn # es[n].conn
        BY <1>4, <2>3, <2>4, Zenon
    <2>6. IsFiniteSet(p.taken)
        BY <1>3, Zenon DEF IsPlan
    <2> HIDE DEF r
    <2>7. CASE name = NoName
        <3>1. Suffixed(es, G[n], TakenInMini(w), p.taken) = NoName
            BY <2>7, Zenon
        <3>2. \A j \in G[n] : ~Usable(NormalizeName(es[j].name), TakenInMini(w))
            BY <2>3, <2>6, <3>1, SuffixedFacts, Zenon
        <3>3. r = p
            BY <2>2, <2>7, Zenon
        <3>4. \A i \in 1 .. n : G[i] \in q.unpicked =>
                \/ \E c \in p.candidates : c.conn = es[i].conn
                \/ \A j \in G[i] : ~Usable(NormalizeName(es[j].name), TakenInMini(w))
            BY <1>1, <1>5, <3>2, Zenon
        <3> QED BY <1>3, <1>6, <3>3, <3>4, Zenon
    <2>8. CASE name # NoName
        <3>1. Usable(name, p.taken)
            <4>1. CASE free = NoName
                <5>1. name = Suffixed(es, G[n], TakenInMini(w), p.taken)
                    BY <4>1, Zenon
                <5> HIDE DEF name, free
                <5> QED BY <2>3, <2>6, <2>8, <5>1, SuffixedFacts, Zenon
            <4>2. CASE free # NoName
                <5>1. name = FirstFree(es, G[n], p.taken)
                    BY <4>2, Zenon
                <5> HIDE DEF name, free
                <5> QED BY <2>3, <2>8, <5>1, FirstFreeFacts, Zenon
            <4> QED BY <4>1, <4>2
        <3> HIDE DEF name
        <3> DEFINE no == FALSE
        <3>2. r = AddCandidate(p, Groups(es, w)[n], name, no) /\ Groups(es, w)[n] # {}
            BY <2>2, <2>3, <2>8, Zenon DEF G
        <3> HIDE DEF no
        <3>3. IsExtended(AddCandidate(p, Groups(es, w)[n], name, no), p, es, w, n, name, no)
            BY <1>3, <2>5, <3>1, <3>2, CandidateAdded, Zenon
        <3>4. IsPlan(r, es, w) /\ r.unpicked = p.unpicked
            BY <3>2, <3>3, Zenon DEF IsExtended
        <3>5. PICK new : r.candidates = p.candidates \cup {new} /\ new.conn = es[n].conn /\ new.picked = FALSE
            BY <3>2, <3>3, Zenon DEF IsExtended, no
        <3>6. \A c \in r.candidates : c \in q.candidates \/
                (c.picked = FALSE /\ \E i \in 1 .. n : c.conn = es[i].conn /\ G[i] # {})
            BY <1>1, <1>6, <2>3, <3>5, Zenon
        <3>7. \A i \in 1 .. n : G[i] \in q.unpicked =>
                \/ \E c \in r.candidates : c.conn = es[i].conn
                \/ \A j \in G[i] : ~Usable(NormalizeName(es[j].name), TakenInMini(w))
            BY <1>1, <1>5, <3>5, Zenon
        <3> QED BY <1>3, <3>4, <3>5, <3>6, <3>7, Zenon
    <2> QED BY <2>7, <2>8
<1> QED BY <1>7, <1>8

-----------------------------------------------------------------------------
(* The import plan: the two passes exist and name everything *)

IsPicking(f, es, w, N) == f = [n \in 0 .. N |-> IF n = 0 THEN NoPlanYet(es, w) ELSE PickOf(f[n - 1], n, es, w)]
IsOffering(f, q, es, w, N) == f = [n \in 0 .. N |-> IF n = 0 THEN q ELSE OfferOf(f[n - 1], n, q, es, w)]

LEMMA PickingsExist ==
    ASSUME NEW es, NEW w, NEW N \in Nat
    PROVE  \E f : IsPicking(f, es, w, N)
<1> DEFINE Bad == {k \in Nat : ~\E f : IsPicking(f, es, w, k)}
<1>1. ASSUME Bad # {} PROVE FALSE
    <2>1. PICK k \in Bad : \A m \in Bad : k <= m BY <1>1, LeastNat
    <2>2. k # 0
        <3>1. IsPicking([i \in 0 .. 0 |-> NoPlanYet(es, w)], es, w, 0) BY DEF IsPicking
        <3> QED BY <3>1
    <2>3. k - 1 \in Nat /\ k - 1 \notin Bad BY <2>1, <2>2
    <2>4. PICK f : IsPicking(f, es, w, k - 1) BY <2>3
    <2> DEFINE g == [i \in 0 .. k |-> IF i = k THEN PickOf(f[k - 1], k, es, w) ELSE f[i]]
    <2>5. IsPicking(g, es, w, k)
        <3>1. ASSUME NEW i \in 0 .. k PROVE g[i] = IF i = 0 THEN NoPlanYet(es, w) ELSE PickOf(g[i - 1], i, es, w)
            <4>1. CASE i = k
                <5>1. g[i] = PickOf(f[k - 1], k, es, w) /\ g[i - 1] = f[k - 1] /\ i # 0
                    BY <2>2, <2>3, <4>1
                <5> HIDE DEF g
                <5> QED BY <4>1, <5>1
            <4>2. CASE i # k
                <5>1. i \in 0 .. k - 1 /\ g[i] = f[i] /\ (i # 0 => g[i - 1] = f[i - 1])
                    BY <2>2, <2>3, <4>2
                <5>2. f[i] = IF i = 0 THEN NoPlanYet(es, w) ELSE PickOf(f[i - 1], i, es, w)
                    BY <2>4, <5>1, Zenon DEF IsPicking
                <5> HIDE DEF g
                <5> QED BY <5>1, <5>2
            <4> QED BY <4>1, <4>2
        <3>2. g = [i \in 0 .. k |-> g[i]] OBVIOUS
        <3> HIDE DEF g
        <3> QED BY <3>1, <3>2 DEF IsPicking
    <2> QED BY <2>1, <2>5
<1> QED BY <1>1

LEMMA OfferingsExist ==
    ASSUME NEW es, NEW w, NEW q, NEW N \in Nat
    PROVE  \E f : IsOffering(f, q, es, w, N)
<1> DEFINE Bad == {k \in Nat : ~\E f : IsOffering(f, q, es, w, k)}
<1>1. ASSUME Bad # {} PROVE FALSE
    <2>1. PICK k \in Bad : \A m \in Bad : k <= m BY <1>1, LeastNat
    <2>2. k # 0
        <3>1. IsOffering([i \in 0 .. 0 |-> q], q, es, w, 0) BY DEF IsOffering
        <3> QED BY <3>1
    <2>3. k - 1 \in Nat /\ k - 1 \notin Bad BY <2>1, <2>2
    <2>4. PICK f : IsOffering(f, q, es, w, k - 1) BY <2>3
    <2> DEFINE g == [i \in 0 .. k |-> IF i = k THEN OfferOf(f[k - 1], k, q, es, w) ELSE f[i]]
    <2>5. IsOffering(g, q, es, w, k)
        <3>1. ASSUME NEW i \in 0 .. k PROVE g[i] = IF i = 0 THEN q ELSE OfferOf(g[i - 1], i, q, es, w)
            <4>1. CASE i = k
                <5>1. g[i] = OfferOf(f[k - 1], k, q, es, w) /\ g[i - 1] = f[k - 1] /\ i # 0
                    BY <2>2, <2>3, <4>1
                <5> HIDE DEF g
                <5> QED BY <4>1, <5>1
            <4>2. CASE i # k
                <5>1. i \in 0 .. k - 1 /\ g[i] = f[i] /\ (i # 0 => g[i - 1] = f[i - 1])
                    BY <2>2, <2>3, <4>2
                <5>2. f[i] = IF i = 0 THEN q ELSE OfferOf(f[i - 1], i, q, es, w)
                    BY <2>4, <5>1, Zenon DEF IsOffering
                <5> HIDE DEF g
                <5> QED BY <5>1, <5>2
            <4> QED BY <4>1, <4>2
        <3>2. g = [i \in 0 .. k |-> g[i]] OBVIOUS
        <3> HIDE DEF g
        <3> QED BY <3>1, <3>2 DEF IsOffering
    <2> QED BY <2>1, <2>5
<1> QED BY <1>1

LEMMA NamedIs ==
    ASSUME NEW es, IsEntries(es), NEW w
    PROVE  \E f, g : /\ IsPicking(f, es, w, Len(es))
                     /\ IsOffering(g, f[Len(es)], es, w, Len(es))
                     /\ Named(es, w) = g[Len(es)]
<1>1. Len(es) \in Nat
    BY DEF IsEntries, IsList
<1> DEFINE f == CHOOSE f : f = [n \in 0 .. Len(es) |-> IF n = 0 THEN NoPlanYet(es, w)
                    ELSE IF Groups(es, w)[n] = {} THEN f[n - 1] ELSE AddStep(f[n - 1], Groups(es, w)[n])]
           q == f[Len(es)]
           g == CHOOSE g : g = [n \in 0 .. Len(es) |-> IF n = 0 THEN q
                    ELSE IF Groups(es, w)[n] \in q.unpicked THEN OfferStep(g[n - 1], Groups(es, w)[n]) ELSE g[n - 1]]
<1>2. IsPicking(f, es, w, Len(es))
    <2>1. \E h : IsPicking(h, es, w, Len(es))
        BY <1>1, PickingsExist
    <2> QED BY <2>1 DEF IsPicking, PickOf
<1>3. IsOffering(g, q, es, w, Len(es))
    <2>1. \E h : IsOffering(h, q, es, w, Len(es))
        BY <1>1, OfferingsExist
    <2> HIDE DEF f
    <2> QED BY <2>1 DEF IsOffering, OfferOf
<1>4. Named(es, w) = g[Len(es)]
    BY DEF Named
<1> QED BY <1>2, <1>3, <1>4

\* The plan both passes end with, and the one the first pass ended with.
LEMMA NamedFacts ==
    ASSUME NEW es, IsEntries(es), NEW w, IsFiniteSet(w)
    PROVE  \E q : Picking(q, Len(es), es, w) /\ Offering(Named(es, w), Len(es), q, es, w)
<1>1. Len(es) \in Nat /\ DOMAIN es = 1 .. Len(es)
    BY DEF IsEntries, IsList
<1>2. PICK f, g : /\ IsPicking(f, es, w, Len(es))
                  /\ IsOffering(g, f[Len(es)], es, w, Len(es))
                  /\ Named(es, w) = g[Len(es)]
    BY NamedIs, Zenon
<1>3. Picking(f[Len(es)], Len(es), es, w)
    <2> DEFINE Bad == {k \in Nat : k <= Len(es) /\ ~Picking(f[k], k, es, w)}
    <2>1. ASSUME Bad # {} PROVE FALSE
        <3>1. PICK k \in Bad : \A m \in Bad : k <= m BY <2>1, LeastNat
        <3>2. Picking(f[0], 0, es, w)
            <4>1. f[0] = NoPlanYet(es, w)
                BY <1>1, <1>2 DEF IsPicking
            <4>2. 1 .. 0 = {}
                OBVIOUS
            <4> QED BY <4>1, <4>2, NoPlanIsPlan, Zenon DEF Picking
        <3>3. k # 0
            BY <3>1, <3>2
        <3>4. k \in 1 .. Len(es) /\ k \in 0 .. Len(es) /\ k - 1 \in Nat /\ k - 1 <= Len(es)
            BY <1>1, <3>1, <3>3
        <3>5. f[k] = PickOf(f[k - 1], k, es, w)
            BY <1>2, <3>3, <3>4, Zenon DEF IsPicking
        <3>6. k - 1 \notin Bad
            BY <3>1, <3>4
        <3>7. Picking(f[k - 1], k - 1, es, w)
            BY <3>4, <3>6
        <3>8. Picking(f[k], k, es, w)
            BY <1>1, <3>4, <3>5, <3>7, NextIsPicked, Zenon
        <3> QED BY <3>1, <3>8
    <2> QED BY <1>1, <2>1
<1> DEFINE q == f[Len(es)]
<1> HIDE DEF q
<1>4. Picking(q, Len(es), es, w) /\ IsOffering(g, q, es, w, Len(es))
    BY <1>2, <1>3, Zenon DEF q
<1>5. Offering(g[Len(es)], Len(es), q, es, w)
    <2> DEFINE Bad == {k \in Nat : k <= Len(es) /\ ~Offering(g[k], k, q, es, w)}
    <2>1. ASSUME Bad # {} PROVE FALSE
        <3>1. PICK k \in Bad : \A m \in Bad : k <= m BY <2>1, LeastNat
        <3>2. Offering(g[0], 0, q, es, w)
            <4>1. g[0] = q
                BY <1>1, <1>4 DEF IsOffering
            <4>2. 1 .. 0 = {}
                OBVIOUS
            <4>3. IsPlan(q, es, w)
                BY <1>4, Zenon DEF Picking
            <4> QED BY <4>1, <4>2, <4>3, Zenon DEF Offering
        <3>3. k # 0
            BY <3>1, <3>2
        <3>4. k \in 1 .. Len(es) /\ k \in 0 .. Len(es) /\ k - 1 \in Nat /\ k - 1 <= Len(es)
            BY <1>1, <3>1, <3>3
        <3>5. g[k] = OfferOf(g[k - 1], k, q, es, w)
            BY <1>4, <3>3, <3>4, Zenon DEF IsOffering
        <3>6. k - 1 \notin Bad
            BY <3>1, <3>4
        <3>7. Offering(g[k - 1], k - 1, q, es, w)
            BY <3>4, <3>6
        <3>8. Offering(g[k], k, q, es, w)
            BY <1>1, <1>4, <3>4, <3>5, <3>7, NextIsOffered, Zenon
        <3> QED BY <3>1, <3>8
    <2> QED BY <1>1, <2>1
<1> QED BY <1>2, <1>4, <1>5, Zenon

-----------------------------------------------------------------------------
(* The import plan: it accounts for every entry *)

\* What an entry's place in the plan is.
Place(es, w, plan, k) ==
    /\ es[k] \in plan.inMini <=> k \in InMini(es, w)
    /\ (\E c \in plan.candidates : es[k] \in c.from) => k \in Candidates(es, w)
    /\ (\E s \in plan.skipped : s.entry = es[k]) => k \in Candidates(es, w) \cup Unexpandable(es, w)
    /\ k \in Unexpandable(es, w) => \E s \in plan.skipped : s.entry = es[k]
    /\ k \in Candidates(es, w) =>
        \/ \E c \in Picked(plan) : es[k] \in c.from
        \/ /\ \E s \in plan.skipped : s.entry = es[k]
           /\ es[k].disabled \/ ~Usable(NormalizeName(es[k].name), TakenInMini(w) \cup {c.name : c \in Picked(plan)})

\* Why an entry of a group that was left is.
CauseOf(p, g, i) == IF Enabled(p.entries, g) THEN NoFreeNameCause(p.entries[i], p) ELSE "switched off"

LEMMA SkipsAre ==
    ASSUME NEW p, NEW s
    PROVE  s \in SkippedOf(p) <=> \E g \in p.unpicked : \E i \in g : s = Skip(p.entries[i], CauseOf(p, g, i))
<1>1. SkippedOf(p) = UNION {{Skip(p.entries[i], CauseOf(p, g, i)) : i \in g} : g \in p.unpicked}
    BY DEF SkippedOf, CauseOf
<1>2. ASSUME s \in SkippedOf(p) PROVE \E g \in p.unpicked : \E i \in g : s = Skip(p.entries[i], CauseOf(p, g, i))
    <2>1. PICK g \in p.unpicked : s \in {Skip(p.entries[i], CauseOf(p, g, i)) : i \in g}
        BY <1>1, <1>2, Zenon
    <2> QED BY <2>1, Zenon
<1>3. ASSUME NEW g \in p.unpicked, NEW i \in g, s = Skip(p.entries[i], CauseOf(p, g, i)) PROVE s \in SkippedOf(p)
    <2>1. s \in {Skip(p.entries[j], CauseOf(p, g, j)) : j \in g}
        BY <1>3, Zenon
    <2>2. {Skip(p.entries[j], CauseOf(p, g, j)) : j \in g} \in {{Skip(p.entries[j], CauseOf(p, h, j)) : j \in h} : h \in p.unpicked}
        BY Zenon
    <2> QED BY <1>1, <2>1, <2>2
<1> QED BY <1>2, <1>3, Zenon

LEMMA SkipOf == ASSUME NEW e, NEW cause PROVE Skip(e, cause).entry = e /\ Skip(e, cause).cause = cause
BY DEF Skip

\* The entries a candidate stands for are those of its group.
LEMMA CandidateFrom ==
    ASSUME NEW es, IsEntries(es), NEW w
    PROVE  \A c : \A m \in DOMAIN es :
            IsCandidate(c, es, w) /\ Groups(es, w)[m] # {} /\ c.conn = es[m].conn
                => c.from = {es[j] : j \in Groups(es, w)[m]}
<1> TAKE c
<1> TAKE m \in DOMAIN es
<1> HAVE IsCandidate(c, es, w) /\ Groups(es, w)[m] # {} /\ c.conn = es[m].conn
<1>1. PICK i \in DOMAIN es : Groups(es, w)[i] # {} /\ c.conn = es[i].conn /\ c.from = {es[j] : j \in Groups(es, w)[i]}
    BY Zenon DEF IsCandidate
<1>2. es[i].conn = es[m].conn
    BY <1>1, Zenon
<1>3. i = m
    BY <1>1, <1>2, GroupsDiffer, Zenon
<1> QED BY <1>1, <1>3, Zenon

LEMMA PlacesOfEntries ==
    ASSUME NEW es, IsEntries(es), NEW w, IsFiniteSet(w), NEW k \in DOMAIN es
    PROVE  Place(es, w, PlanImport(es, w), k)
<1> DEFINE p == Named(es, w)
           G == Groups(es, w)
           plan == PlanImport(es, w)
           unexpandable == {Skip(es[i], "unexpandable") : i \in Unexpandable(es, w)}
           taken == TakenInMini(w) \cup {c.name : c \in Picked(plan)}
<1>0. DOMAIN es = 1 .. Len(es)
    BY DEF IsEntries, IsList
<1> HIDE DEF p, G
<1>1. PICK q : Picking(q, Len(es), es, w) /\ Offering(p, Len(es), q, es, w)
    BY NamedFacts, Zenon DEF p
<1>2. IsPlan(p, es, w) /\ p.unpicked = q.unpicked /\ p.entries = es
    <2>1. IsPlan(p, es, w) /\ p.unpicked = q.unpicked
        BY <1>1, Zenon DEF Offering
    <2>2. PlanShape(p, es, w)
        BY <2>1, Zenon DEF IsPlan
    <2> QED BY <2>1, <2>2, ShapeFacts, Zenon
<1>3. /\ plan.candidates = p.candidates
      /\ plan.inMini = {es[i] : i \in InMini(es, w)}
      /\ plan.skipped = SkippedOf(p) \cup unexpandable
    <2>1. plan = [candidates |-> p.candidates, inMini |-> {es[i] : i \in InMini(es, w)},
                  skipped |-> SkippedOf(p) \cup unexpandable]
        BY Zenon DEF PlanImport, p
    <2> HIDE DEF plan, unexpandable
    <2> QED BY <2>1
<1> HIDE DEF plan
<1>4. es[k] \in plan.inMini <=> k \in InMini(es, w)
    <2>1. \A i \in InMini(es, w) : i \in DOMAIN es
        BY Zenon DEF InMini, NotMini
    <2>2. ASSUME NEW i \in InMini(es, w), es[i] = es[k] PROVE k \in InMini(es, w)
        BY <2>1, <2>2, AlikeEntries, Zenon
    <2> QED BY <1>3, <2>2, Zenon
<1>5. \A i \in Candidates(es, w) : i \in DOMAIN es /\ (es[i] = es[k] => k \in Candidates(es, w))
    <2>1. \A i \in Candidates(es, w) : i \in DOMAIN es
        BY Zenon DEF Candidates, NotMini
    <2> QED BY <2>1, AlikeEntries, Zenon
<1>6. \A i \in Unexpandable(es, w) : es[i] = es[k] => k \in Unexpandable(es, w)
    <2>1. \A i \in Unexpandable(es, w) : i \in DOMAIN es
        BY Zenon DEF Unexpandable, NotMini
    <2> QED BY <2>1, AlikeEntries, Zenon
<1>7. \A i \in DOMAIN es : \A j \in G[i] : j \in Candidates(es, w)
    <2> TAKE i \in DOMAIN es
    <2> TAKE j \in G[i]
    <2>1. Groups(es, w)[i] # {} /\ j \in Groups(es, w)[i]
        BY DEF G
    <2>2. Groups(es, w)[i] = {m \in Candidates(es, w) : es[m].conn = es[i].conn}
        BY <2>1, GroupFacts, Zenon
    <2> QED BY <2>1, <2>2, Zenon
<1>8. ASSUME NEW c \in plan.candidates, es[k] \in c.from PROVE k \in Candidates(es, w)
    <2>1. PICK i \in DOMAIN es : c.from = {es[j] : j \in G[i]}
        BY <1>2, <1>3, Zenon DEF IsPlan, IsCandidate, G
    <2>2. PICK j \in G[i] : es[j] = es[k]
        BY <1>8, <2>1, Zenon
    <2> QED BY <1>5, <1>7, <2>2, Zenon
<1>9. ASSUME NEW s \in plan.skipped, s.entry = es[k] PROVE k \in Candidates(es, w) \cup Unexpandable(es, w)
    <2>1. CASE s \in unexpandable
        <3>1. PICK i \in Unexpandable(es, w) : s = Skip(es[i], "unexpandable")
            BY <2>1, Zenon
        <3>2. es[i] = es[k]
            BY <1>9, <3>1, SkipOf, Zenon
        <3> QED BY <1>6, <3>2
    <2>2. CASE s \in SkippedOf(p)
        <3>1. PICK g \in q.unpicked : \E i \in g : s = Skip(p.entries[i], CauseOf(p, g, i))
            <4>1. \E g \in p.unpicked : \E i \in g : s = Skip(p.entries[i], CauseOf(p, g, i))
                BY <2>2, SkipsAre, Zenon
            <4> QED BY <1>2, <4>1, Zenon
        <3>2. PICK i \in g : s = Skip(es[i], CauseOf(p, g, i))
            BY <1>2, <3>1, Zenon
        <3>3. es[i] = es[k]
            BY <1>9, <3>2, SkipOf, Zenon
        <3>4. PICK m \in 1 .. Len(es) : g = G[m]
            BY <1>1, Zenon DEF Picking, G
        <3>5. i \in Candidates(es, w)
            BY <1>0, <1>7, <3>4, Zenon
        <3> QED BY <1>5, <3>3, <3>5
    <2> QED BY <1>3, <2>1, <2>2
<1>10. k \in Unexpandable(es, w) => \E s \in plan.skipped : s.entry = es[k]
    <2>1. k \in Unexpandable(es, w) => Skip(es[k], "unexpandable") \in plan.skipped
        BY <1>3, Zenon
    <2> QED BY <2>1, SkipOf, Zenon
<1>11. Picked(plan) = q.candidates /\ taken = q.taken
    <2>1. \A c \in q.candidates : c \in plan.candidates /\ c.picked = TRUE
        BY <1>1, <1>3, Zenon DEF Picking, Offering
    <2>2. \A c \in plan.candidates : c \in q.candidates \/ c.picked = FALSE
        BY <1>1, <1>3, Zenon DEF Offering
    <2>3. Picked(plan) = q.candidates
        BY <2>1, <2>2 DEF Picked
    <2>4. q.taken = TakenInMini(w) \cup {c.name : c \in q.candidates}
        BY <1>1, Zenon DEF Picking, IsPlan
    <2> QED BY <2>3, <2>4, Zenon
<1> HIDE DEF taken
<1>12. ASSUME k \in Candidates(es, w)
       PROVE  \/ \E c \in Picked(plan) : es[k] \in c.from
              \/ /\ \E s \in plan.skipped : s.entry = es[k]
                 /\ es[k].disabled \/ ~Usable(NormalizeName(es[k].name), taken)
    <2>1. PICK m \in DOMAIN es : k \in G[m] /\ es[m].conn = es[k].conn
        BY <1>12, GroupsCover, Zenon DEF G
    <2>2. CASE G[m] \in q.unpicked
        <3> DEFINE s == Skip(es[k], CauseOf(p, G[m], k))
        <3>1. s \in SkippedOf(p)
            BY <1>2, <2>1, <2>2, SkipsAre, Zenon
        <3>2. s.entry = es[k]
            BY SkipOf, Zenon
        <3> HIDE DEF s
        <3>3. es[k].disabled \/ Enabled(es, G[m])
            BY <2>1, Zenon DEF Enabled
        <3>4. Enabled(es, G[m]) => ~Usable(NormalizeName(es[k].name), q.taken)
            BY <1>1, <2>1, <2>2, Zenon DEF Picking
        <3> QED BY <1>3, <1>11, <3>1, <3>2, <3>3, <3>4, Zenon
    <2>3. CASE G[m] \notin q.unpicked
        <3>1. PICK c \in q.candidates : c.conn = es[m].conn
            BY <1>0, <1>1, <2>1, <2>3, Zenon DEF Picking, G
        <3>2. IsCandidate(c, es, w)
            BY <1>1, Zenon DEF Picking, IsPlan
        <3>3. c.from = {es[j] : j \in G[m]}
            <4>1. Groups(es, w)[m] # {} BY <2>1, Zenon DEF G
            <4>2. c.conn = es[m].conn BY <3>1
            <4>3. c.from = {es[j] : j \in Groups(es, w)[m]}
                BY <3>2, <4>1, <4>2, CandidateFrom
            <4> QED BY <4>3, Zenon DEF G
        <3> QED BY <1>11, <2>1, <3>3, Zenon
    <2> QED BY <2>2, <2>3
<1>13. Place(es, w, plan, k)
    BY <1>4, <1>8, <1>9, <1>10, <1>12, Zenon DEF Place, taken
<1> QED BY <1>13 DEF plan

LEMMA EntriesAreAccountedFor ==
    ASSUME NEW es, IsEntries(es), NEW w, IsFiniteSet(w)
    PROVE  AccountsForEntries(es, w, PlanImport(es, w))
<1> DEFINE plan == PlanImport(es, w)
           Taken == TakenInMini(w) \cup {c.name : c \in Picked(plan)}
<1> HIDE DEF plan
<1> SUFFICES ASSUME NEW k \in DOMAIN es
             PROVE  LET e == es[k]
                        offered == \E c \in plan.candidates : e \in c.from
                        picked == \E c \in Picked(plan) : e \in c.from
                        behind == \E s \in plan.skipped : s.entry = e
                    IN /\ IsMini(e) => e \notin plan.inMini /\ ~offered /\ ~behind
                       /\ ~IsMini(e) => /\ e \in plan.inMini <=> ~(offered \/ behind)
                                        /\ e \in plan.inMini \/ picked \/ behind
                                        /\ e \in plan.inMini \/ e.disabled \/ e.refs \/ picked
                                            \/ ~Usable(NormalizeName(e.name), Taken)
    BY Zenon DEF AccountsForEntries, plan
<1>1. Place(es, w, plan, k)
    BY PlacesOfEntries, Zenon DEF plan
<1>2. k \in NotMini(es) <=> ~IsMini(es[k])
    BY Zenon DEF NotMini
<1>3. /\ k \in InMini(es, w) => k \in NotMini(es)
      /\ k \in Candidates(es, w) => k \in NotMini(es) /\ k \notin InMini(es, w) /\ ~es[k].refs
      /\ k \in Unexpandable(es, w) => k \in NotMini(es) /\ k \notin InMini(es, w)
      /\ k \in NotMini(es) => k \in InMini(es, w) \/ k \in Candidates(es, w) \/ (k \in Unexpandable(es, w) /\ es[k].refs)
    BY Zenon DEF InMini, Candidates, Unexpandable, NotMini
<1>4. (\E c \in Picked(plan) : es[k] \in c.from) => \E c \in plan.candidates : es[k] \in c.from
    BY Zenon DEF Picked
<1>5. k \in Candidates(es, w) =>
        \/ \E c \in Picked(plan) : es[k] \in c.from
        \/ /\ \E s \in plan.skipped : s.entry = es[k]
           /\ es[k].disabled \/ ~Usable(NormalizeName(es[k].name), Taken)
    BY <1>1, Zenon DEF Place
<1> HIDE DEF Taken
<1>6. (\E s \in plan.skipped : s.entry = es[k]) => k \in Candidates(es, w) \/ k \in Unexpandable(es, w)
    BY <1>1, Zenon DEF Place
<1>7. /\ es[k] \in plan.inMini <=> k \in InMini(es, w)
      /\ (\E c \in plan.candidates : es[k] \in c.from) => k \in Candidates(es, w)
      /\ k \in Unexpandable(es, w) => \E s \in plan.skipped : s.entry = es[k]
    BY <1>1, Zenon DEF Place
<1> QED BY <1>2, <1>3, <1>4, <1>5, <1>6, <1>7, Zenon

-----------------------------------------------------------------------------
(* The import plan: what is offered and what is reported *)

LEMMA OffersDiffer ==
    ASSUME NEW es, IsEntries(es), NEW w, IsFiniteSet(w)
    PROVE  OffersAreDistinct(w, PlanImport(es, w))
<1>1. IsPlan(Named(es, w), es, w)
    BY NamedFacts, Zenon DEF Offering
<1>2. PlanImport(es, w).candidates = Named(es, w).candidates
    BY DEF PlanImport
<1> QED BY <1>1, <1>2, Zenon DEF OffersAreDistinct, IsPlan, Distinct, IsCandidate

\* Beside every entry left behind as a second config its first one is offered.
LEMMA SecondConfigsHaveAFirst ==
    ASSUME NEW es, IsEntries(es), NEW w, IsFiniteSet(w),
           NEW s \in PlanImport(es, w).skipped, s.cause = "second config"
    PROVE  \E c \in PlanImport(es, w).candidates : s.entry \in c.from
<1> DEFINE p == Named(es, w)
           G == Groups(es, w)
           plan == PlanImport(es, w)
           unexpandable == {Skip(es[i], "unexpandable") : i \in Unexpandable(es, w)}
<1>0. DOMAIN es = 1 .. Len(es)
    BY DEF IsEntries, IsList
<1> HIDE DEF p, G
<1>1. PICK q : Picking(q, Len(es), es, w) /\ Offering(p, Len(es), q, es, w)
    BY NamedFacts, Zenon DEF p
<1>2. IsPlan(p, es, w) /\ p.unpicked = q.unpicked /\ p.entries = es /\ p.inMini = TakenInMini(w)
    <2>1. IsPlan(p, es, w) /\ p.unpicked = q.unpicked
        BY <1>1, Zenon DEF Offering
    <2>2. PlanShape(p, es, w)
        BY <2>1, Zenon DEF IsPlan
    <2> QED BY <2>1, <2>2, ShapeFacts, Zenon
<1>3. plan.candidates = p.candidates /\ plan.skipped = SkippedOf(p) \cup unexpandable
    <2>1. plan = [candidates |-> p.candidates, inMini |-> {es[i] : i \in InMini(es, w)},
                  skipped |-> SkippedOf(p) \cup unexpandable]
        BY Zenon DEF PlanImport, p
    <2> HIDE DEF plan, unexpandable
    <2> QED BY <2>1
<1>4. s \notin unexpandable
    <2>1. ASSUME NEW i, s = Skip(es[i], "unexpandable") PROVE FALSE
        <3>1. Skip(es[i], "unexpandable").cause = "unexpandable"
            BY SkipOf, Zenon
        <3>2. s.cause = "unexpandable"
            BY <2>1, <3>1, Zenon
        <3> QED BY <3>2
    <2> QED BY <2>1, Zenon
<1>5. s \in SkippedOf(p)
    <2> HIDE DEF unexpandable
    <2>1. s \in plan.skipped BY DEF plan
    <2> HIDE DEF plan
    <2> QED BY <1>3, <1>4, <2>1, Zenon
<1>6. PICK g \in q.unpicked : \E i \in g : s = Skip(p.entries[i], CauseOf(p, g, i))
    <2>1. \E g \in p.unpicked : \E i \in g : s = Skip(p.entries[i], CauseOf(p, g, i))
        BY <1>5, SkipsAre, Zenon
    <2> QED BY <1>2, <2>1, Zenon
<1>7. PICK i \in g : s = Skip(es[i], CauseOf(p, g, i))
    BY <1>2, <1>6, Zenon
<1>8. s.entry = es[i] /\ s.cause = IF Enabled(es, g) THEN NoFreeNameCause(es[i], p) ELSE "switched off"
    BY <1>2, <1>7, SkipOf, Zenon DEF CauseOf
<1>9. NoFreeNameCause(es[i], p) = "second config"
    <2> DEFINE cause == NoFreeNameCause(es[i], p)
    <2> HIDE DEF cause
    <2>1. s.cause = IF Enabled(es, g) THEN cause ELSE "switched off"
        BY <1>8, Zenon DEF cause
    <2>2. cause = "second config"
        BY <2>1
    <2> QED BY <2>2, Zenon DEF cause
<1>10. Usable(NormalizeName(es[i].name), TakenInMini(w))
    <2> DEFINE name == NormalizeName(es[i].name)
    <2>1. NoFreeNameCause(es[i], p) = CASE name[1] = "" -> "empty name"
              [] name[1] # "" /\ name \in p.inMini -> "name in mini"
              [] OTHER -> "second config"
        BY Zenon DEF NoFreeNameCause
    <2> HIDE DEF name
    <2>2. name[1] # "" /\ name \notin p.inMini
        BY <1>9, <2>1
    <2> QED BY <1>2, <2>2, Zenon DEF Usable, name
<1>11. PICK m \in 1 .. Len(es) : g = G[m] /\ g # {}
    BY <1>1, Zenon DEF Picking, G
<1>12. PICK c \in p.candidates : c.conn = es[m].conn
    BY <1>1, <1>7, <1>10, <1>11, Zenon DEF Offering, G
<1>13. c.from = {es[j] : j \in G[m]}
    <2>1. Groups(es, w)[m] # {} /\ m \in DOMAIN es BY <1>0, <1>11, Zenon DEF G
    <2>2. IsCandidate(c, es, w) BY <1>2, Zenon DEF IsPlan
    <2>3. c.conn = es[m].conn BY <1>12
    <2>a. IsEntries(es) OBVIOUS
    <2>b. \A d : \A n \in DOMAIN es :
            IsCandidate(d, es, w) /\ Groups(es, w)[n] # {} /\ d.conn = es[n].conn
                => d.from = {es[j] : j \in Groups(es, w)[n]}
        BY <2>a, CandidateFrom, Zenon
    <2>c. \A n \in DOMAIN es :
            IsCandidate(c, es, w) /\ Groups(es, w)[n] # {} /\ c.conn = es[n].conn
                => c.from = {es[j] : j \in Groups(es, w)[n]}
        BY <2>b, Zenon
    <2>d.   IsCandidate(c, es, w) /\ Groups(es, w)[m] # {} /\ c.conn = es[m].conn
                => c.from = {es[j] : j \in Groups(es, w)[m]}
        BY <2>1, <2>c, Zenon
    <2>4. c.from = {es[j] : j \in Groups(es, w)[m]}
        BY <2>1, <2>2, <2>3, <2>d, Zenon
    <2> QED BY <2>4, Zenon DEF G
<1>14. s.entry \in c.from
    BY <1>8, <1>11, <1>13, Zenon
<1> HIDE DEF plan
<1>15. c \in plan.candidates
    BY <1>3, Zenon
<1> QED BY <1>14, <1>15, Zenon DEF plan

\* Ticking a candidate changes nothing else about it.
Ticked(c, x) == [c EXCEPT !.picked = x]

LEMMA TickedFacts ==
    ASSUME NEW es, NEW w, NEW c, IsCandidate(c, es, w), NEW x
    PROVE  Ticked(c, x).name = c.name /\ Ticked(c, x).conn = c.conn /\ Ticked(c, x).from = c.from
<1>1. c = [name |-> c.name, conn |-> c.conn, from |-> c.from, picked |-> c.picked]
    BY Zenon DEF IsCandidate
<1>2. PICK n, o, f, k : c = [name |-> n, conn |-> o, from |-> f, picked |-> k]
    BY <1>1, Zenon
<1>3. c.name = n /\ c.conn = o /\ c.from = f
    BY <1>2
<1>4. Ticked(c, x) = [name |-> n, conn |-> o, from |-> f, picked |-> x]
    BY <1>2 DEF Ticked
<1> DEFINE d == Ticked(c, x)
<1> HIDE DEF d
<1>5. d = [name |-> n, conn |-> o, from |-> f, picked |-> x]
    BY <1>4 DEF d
<1>6. d.name = n /\ d.conn = o /\ d.from = f
    BY <1>5
<1> QED BY <1>3, <1>6 DEF d

LEMMA PlanToPick ==
    ASSUME NEW es, IsEntries(es), NEW w, IsFiniteSet(w), NEW names
    PROVE  LET plan == PlanImport(es, w)
               q == Pick(plan, names)
           IN /\ q.skipped = plan.skipped
              /\ \A d \in q.candidates : \E c \in plan.candidates :
                    d = Ticked(c, c.name \in names) /\ d.name = c.name /\ d.from = c.from
              /\ \A c \in plan.candidates : \E d \in q.candidates : d.from = c.from
              /\ \A d \in q.candidates : d.name \notin TakenInMini(w)
              /\ \A d, e \in q.candidates : d # e => d.name # e.name
<1> DEFINE p == Named(es, w)
           plan == PlanImport(es, w)
           q == Pick(plan, names)
           ticked == {[c EXCEPT !.picked = c.name \in names] : c \in plan.candidates}
           C == plan.candidates
           S == plan.skipped
<1>1. plan = [candidates |-> p.candidates, inMini |-> {es[i] : i \in InMini(es, w)},
              skipped |-> SkippedOf(p) \cup {Skip(es[i], "unexpandable") : i \in Unexpandable(es, w)}]
    BY Zenon DEF PlanImport
<1>2. PICK inMini, skipped : plan = [candidates |-> p.candidates, inMini |-> inMini, skipped |-> skipped]
    BY <1>1, Zenon
<1>3. q = [plan EXCEPT !.candidates = ticked]
    BY Zenon DEF Pick
<1> HIDE DEF plan, q, ticked, p
<1>4. plan.candidates = p.candidates /\ plan.skipped = skipped /\ q.candidates = ticked /\ q.skipped = skipped
    BY <1>2, <1>3
<1>5. \A c \in plan.candidates : IsCandidate(c, es, w)
    <2>1. IsPlan(p, es, w)
        BY NamedFacts, Zenon DEF Offering, p
    <2> QED BY <1>4, <2>1, Zenon DEF IsPlan
<1>6. \A d \in q.candidates : \E c \in plan.candidates :
            d = Ticked(c, c.name \in names) /\ d.name = c.name /\ d.from = c.from
    <2> TAKE d \in q.candidates
    <2>1. PICK c \in plan.candidates : d = [c EXCEPT !.picked = c.name \in names]
        BY <1>4, Zenon DEF ticked
    <2>2. d = Ticked(c, c.name \in names)
        BY <2>1, Zenon DEF Ticked
    <2> DEFINE x == c.name \in names
    <2>3. d = Ticked(c, x) BY <2>2, Zenon
    <2> HIDE DEF x
    <2>4. d.name = c.name /\ d.from = c.from
        BY <1>5, <2>3, TickedFacts, Zenon
    <2> QED BY <2>2, <2>4, Zenon
<1>7. \A c \in plan.candidates : \E d \in q.candidates : d.from = c.from
    <2> TAKE c \in plan.candidates
    <2> DEFINE x == c.name \in names
    <2>1. Ticked(c, x) \in q.candidates
        BY <1>4, Zenon DEF ticked, Ticked
    <2> HIDE DEF x
    <2>2. Ticked(c, x).from = c.from
        BY <1>5, TickedFacts, Zenon
    <2> QED BY <2>1, <2>2, Zenon
<1>8. OffersAreDistinct(w, plan)
    BY OffersDiffer, Zenon DEF plan
<1>9. \A d \in q.candidates : d.name \notin TakenInMini(w)
    <2>1. \A c \in plan.candidates : c.name \notin TakenInMini(w)
        BY <1>8, Zenon DEF OffersAreDistinct, Usable
    <2> TAKE d \in q.candidates
    <2>2. PICK c \in plan.candidates : d.name = c.name
        BY <1>6, Zenon
    <2> QED BY <2>1, <2>2, Zenon
<1>10. \A d, e \in q.candidates : d # e => d.name # e.name
    <2> TAKE d \in q.candidates
    <2> TAKE e \in q.candidates
    <2>1. PICK b \in plan.candidates : d = Ticked(b, b.name \in names) /\ d.name = b.name
        BY <1>6, Zenon
    <2>2. PICK c \in plan.candidates : e = Ticked(c, c.name \in names) /\ e.name = c.name
        BY <1>6, Zenon
    <2>3. CASE b = c
        BY <2>1, <2>2, <2>3, Zenon
    <2>4. CASE b # c
        BY <1>8, <2>1, <2>2, <2>4, Zenon DEF OffersAreDistinct
    <2> QED BY <2>3, <2>4
<1>11. q.skipped = plan.skipped
    BY <1>4
<1> QED BY <1>6, <1>7, <1>9, <1>10, <1>11, Zenon DEF plan, q

LEMMA SavedAsReported ==
    ASSUME NEW es, IsEntries(es), NEW w, IsFiniteSet(w), NEW names, NEW add, IsPick(add), NEW added,
           NEW done, done.written = w, done.plan = Pick(PlanImport(es, w), names),
           done.writes = PlanAdds(done.plan, add, w), done.imported = ImportedOf(done.plan, added),
           done.report = KeepOnly(done.plan, done.imported)
    PROVE  ReportIsTrue(done)
<1> DEFINE first == PlanImport(es, w)
           plan == Pick(first, names)
           imports == {Server(c) : c \in Picked(plan)}
<1> HIDE DEF plan, first
<1>1. done.plan = plan
    BY Zenon DEF plan, first
<1>2. /\ plan.skipped = first.skipped
      /\ \A c \in first.candidates : \E d \in plan.candidates : d.from = c.from
      /\ \A d \in plan.candidates : d.name \notin TakenInMini(w)
      /\ \A d, e \in plan.candidates : d # e => d.name # e.name
    <2>1. /\ Pick(PlanImport(es, w), names).skipped = PlanImport(es, w).skipped
          /\ \A c \in PlanImport(es, w).candidates : \E d \in Pick(PlanImport(es, w), names).candidates : d.from = c.from
          /\ \A d \in Pick(PlanImport(es, w), names).candidates : d.name \notin TakenInMini(w)
          /\ \A d, e \in Pick(PlanImport(es, w), names).candidates : d # e => d.name # e.name
        BY PlanToPick
    <2> QED BY <2>1, Zenon DEF plan, first
<1>3. \A c \in Picked(plan) : c \in plan.candidates
    BY Zenon DEF Picked
<1>4. \A c : Server(c).name = c.name
    BY DEF Server
<1>5. done.writes = imports \cup {e \in add : ~Configured(e, w) /\ ~Configured(e, imports)}
    BY <1>1, Zenon DEF PlanAdds
<1>6. \A s, t \in imports : s # t => s.name # t.name
    <2> TAKE s \in imports
    <2> TAKE t \in imports
    <2>1. PICK c \in Picked(plan) : s = Server(c)
        BY Zenon
    <2>2. PICK d \in Picked(plan) : t = Server(d)
        BY Zenon
    <2> QED BY <1>2, <1>3, <1>4, <2>1, <2>2, Zenon
<1>7. \A s \in imports : s.name \notin TakenInMini(w)
    <2> TAKE s \in imports
    <2>1. PICK c \in Picked(plan) : s = Server(c)
        BY Zenon
    <2> QED BY <1>2, <1>3, <1>4, <2>1, Zenon
<1> HIDE DEF imports
<1>8. \A s, t \in done.writes : s # t => s.name # t.name
    <2>1. \A s \in imports, t \in add : ~Configured(t, imports) => s.name # t.name
        BY Zenon DEF Configured
    <2>2. \A s, t \in add : s # t => s.name # t.name
        BY Zenon DEF IsPick
    <2> QED BY <1>5, <1>6, <2>1, <2>2
<1>9. \A s \in done.writes : s.name \notin TakenInMini(w)
    <2>1. \A e \in add : ~Configured(e, w) => e.name \notin TakenInMini(w)
        BY Zenon DEF Configured, TakenInMini
    <2> QED BY <1>5, <1>7, <2>1
<1>10. /\ \A s \in done.report : s \in plan.skipped
       /\ \A s \in done.report : s.cause = "second config" => ImportsTheName(done.imported, s.entry)
       /\ \A c \in done.imported, s \in done.report : s.entry \notin c.from
    BY <1>1, Zenon DEF KeepOnly
<1>11. \A s \in DropOfferedSkips(plan, done.report) : s.cause # "second config"
    <2> SUFFICES ASSUME NEW s \in DropOfferedSkips(plan, done.report), s.cause = "second config" PROVE FALSE
        BY Zenon
    <2>1. s \in done.report /\ ~\E c \in plan.candidates : s.entry \in c.from
        BY Zenon DEF DropOfferedSkips
    <2>2. s \in first.skipped
        BY <1>2, <1>10, <2>1, Zenon
    <2>3. \E c \in first.candidates : s.entry \in c.from
        BY <2>2, SecondConfigsHaveAFirst, Zenon DEF first
    <2> QED BY <1>2, <2>1, <2>3, Zenon
<1> QED BY <1>1, <1>8, <1>9, <1>10, <1>11, Zenon DEF ReportIsTrue

-----------------------------------------------------------------------------
(* The import plan: a run *)

\* What was planned is the plan of what was read, and what was saved and reported follows it.
ImportsAreOfThePlan ==
    /\ import.at = "planned" => /\ IsEntries(import.entries) /\ IsFiniteSet(import.written)
                                /\ import.plan = PlanImport(import.entries, import.written)
    /\ import.at = "saved" => ReportIsTrue(import)

LEMMA ImportsStart == ImportInit => ImportsAreOfThePlan
BY DEF ImportInit, ImportsAreOfThePlan

LEMMA ImportsStep == ImportsAreOfThePlan /\ [ImportNext]_import => ImportsAreOfThePlan'
<1> SUFFICES ASSUME ImportsAreOfThePlan, [ImportNext]_import PROVE ImportsAreOfThePlan'
    OBVIOUS
<1>1. CASE PlanSetup
    <2>1. PICK agents \in AgentConfigs : \E w \in MiniServers :
            import' = [at |-> "planned", entries |-> EntriesOf(agents), written |-> w,
                       plan |-> PlanImport(EntriesOf(agents), w)]
        BY <1>1, Zenon DEF PlanSetup
    <2>2. PICK w \in MiniServers :
            import' = [at |-> "planned", entries |-> EntriesOf(agents), written |-> w,
                       plan |-> PlanImport(EntriesOf(agents), w)]
        BY <2>1, Zenon
    <2>3. IsEntries(EntriesOf(agents)) /\ IsFiniteSet(w)
        BY ImportAssumption, ReadEntries, Zenon
    <2> DEFINE es == EntriesOf(agents)
               plan == PlanImport(es, w)
    <2>4. import' = [at |-> "planned", entries |-> es, written |-> w, plan |-> plan]
        BY <2>2, Zenon
    <2>5. IsEntries(es) /\ plan = PlanImport(es, w)
        BY <2>3, Zenon
    <2> HIDE DEF es, plan
    <2>6. import'.at = "planned" /\ import'.entries = es /\ import'.written = w /\ import'.plan = plan
        BY <2>4
    <2> QED BY <2>3, <2>5, <2>6 DEF ImportsAreOfThePlan
<1>2. CASE SaveSetup
    <2>1. import.at = "planned"
        BY <1>2, Zenon DEF SaveSetup
    <2> DEFINE es == import.entries
               w == import.written
               plan(names) == Pick(import.plan, names)
    <2>2. IsEntries(es) /\ IsFiniteSet(w) /\ import.plan = PlanImport(es, w)
        BY <2>1, Zenon DEF ImportsAreOfThePlan
    <2>3. PICK names, add : add \in CatalogPicks /\ \E fails : import' =
            [at |-> "saved", written |-> w, plan |-> plan(names), writes |-> PlanAdds(plan(names), add, w),
             imported |-> ImportedOf(plan(names), {s.name : s \in PlanAdds(plan(names), add, w)} \ fails),
             report |-> KeepOnly(plan(names), ImportedOf(plan(names), {s.name : s \in PlanAdds(plan(names), add, w)} \ fails))]
        BY <1>2, Zenon DEF SaveSetup
    <2>4. PICK fails : import' =
            [at |-> "saved", written |-> w, plan |-> plan(names), writes |-> PlanAdds(plan(names), add, w),
             imported |-> ImportedOf(plan(names), {s.name : s \in PlanAdds(plan(names), add, w)} \ fails),
             report |-> KeepOnly(plan(names), ImportedOf(plan(names), {s.name : s \in PlanAdds(plan(names), add, w)} \ fails))]
        BY <2>3, Zenon
    <2> DEFINE added == {s.name : s \in PlanAdds(plan(names), add, w)} \ fails
               done == import'
               picked == plan(names)
               toWrite == PlanAdds(picked, add, w)
               imported == ImportedOf(picked, added)
               report == KeepOnly(picked, imported)
    <2>5. done = [at |-> "saved", written |-> w, plan |-> picked, writes |-> toWrite, imported |-> imported, report |-> report]
        BY <2>4, Zenon
    <2>6. /\ picked = Pick(PlanImport(es, w), names) /\ toWrite = PlanAdds(picked, add, w)
          /\ imported = ImportedOf(picked, added) /\ report = KeepOnly(picked, imported)
        BY <2>2, Zenon
    <2>7. IsPick(add)
        BY <2>3, ImportAssumption, Zenon
    <2> HIDE DEF done, picked, toWrite, imported, report, added, es, w
    <2>8. /\ done.at = "saved" /\ done.written = w /\ done.plan = picked /\ done.writes = toWrite
          /\ done.imported = imported /\ done.report = report
        BY <2>5
    <2>9. /\ done.plan = Pick(PlanImport(es, w), names) /\ done.writes = PlanAdds(done.plan, add, w)
          /\ done.imported = ImportedOf(done.plan, added) /\ done.report = KeepOnly(done.plan, done.imported)
        BY <2>6, <2>8, Zenon
    <2>10. ReportIsTrue(done)
        BY <2>2, <2>7, <2>8, <2>9, SavedAsReported, Zenon
    <2>11. import'.at = "saved" /\ ReportIsTrue(import')
        BY <2>8, <2>10, Zenon DEF done
    <2> QED BY <2>11 DEF ImportsAreOfThePlan, ReportIsTrue
<1>3. CASE UNCHANGED import
    BY <1>3, Zenon DEF ImportsAreOfThePlan, ReportIsTrue
<1> QED BY <1>1, <1>2, <1>3 DEF ImportNext

LEMMA ImportsFollow == ImportsAreOfThePlan => ImportIsSound
<1> SUFFICES ASSUME ImportsAreOfThePlan, import.at = "planned"
             PROVE  /\ AccountsForEntries(import.entries, import.written, import.plan)
                    /\ OffersAreDistinct(import.written, import.plan)
    BY Zenon DEF ImportsAreOfThePlan, ImportIsSound
<1>1. /\ IsEntries(import.entries) /\ IsFiniteSet(import.written)
      /\ import.plan = PlanImport(import.entries, import.written)
    BY Zenon DEF ImportsAreOfThePlan
<1>2. AccountsForEntries(import.entries, import.written, PlanImport(import.entries, import.written))
    BY <1>1, EntriesAreAccountedFor, Zenon
<1>3. OffersAreDistinct(import.written, PlanImport(import.entries, import.written))
    BY <1>1, OffersDiffer, Zenon
<1> QED BY <1>1, <1>2, <1>3, Zenon

\* Whatever the agents hold, mini runs already and the user picks, every entry is accounted for,
\* what is offered and written has a name of its own, and the report tells what was left behind.
THEOREM ImportsAreSound == ImportInit /\ [][ImportNext]_import => []ImportIsSound
<1>1. ImportInit => ImportsAreOfThePlan
    BY ImportsStart
<1>2. ImportsAreOfThePlan /\ [ImportNext]_import => ImportsAreOfThePlan'
    BY ImportsStep
<1>3. ImportsAreOfThePlan => ImportIsSound
    BY ImportsFollow
<1> QED BY <1>1, <1>2, <1>3, PTL
=============================================================================
