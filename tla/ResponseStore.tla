---------------------------- MODULE ResponseStore ----------------------------
(***************************************************************************)
(* The store of full responses (internal/response: storage, storage_write, *)
(* storage_cleanup, storage_load) and mini cleanup (internal/ops/cleanup). *)
(*                                                                         *)
(* A call whose result is trimmed writes the whole result to a file and    *)
(* hands the file's name to the agent, who reads it back.  Files are       *)
(* created and removed outside the store's mutex; what the store believes  *)
(* (files, used) is changed inside it.  A file is named by the time it was *)
(* created and a suffix that keeps names apart.                            *)
(***************************************************************************)
EXTENDS Naturals, Sequences, FiniteSets

CONSTANTS Writers,      \* calls that store a response at the same time
          Sizes,        \* sizes of responses
          Budget,       \* response_disk_budget_mb; 0 is no budget
          TTL,          \* response_ttl
          MaxNow, MaxWrites, MaxFailures, MaxRestarts   \* bounds

ASSUME StoreAssumption == Sizes \subseteq Nat \ {0} /\ Budget \in Nat /\ TTL \in Nat \ {0}

Cleaner == "cleaner"
Actors == Writers \cup {Cleaner}

VARIABLES disk,     \* file name -> size
          files,    \* s.files, oldest first
          used,     \* s.usedBytes
          now,      \* the clock
          step,     \* what each actor is in the middle of
          left,     \* expired files whose removal failed while the store was loaded
          writes, failures, restarts

storeVars == <<disk, files, used, now, step, left, writes, failures, restarts>>

Idle == [at |-> "idle"]
SumSizes(fs) ==
    LET sum[n \in 0 .. Len(fs)] == IF n = 0 THEN 0 ELSE sum[n - 1] + fs[n].size
    IN sum[Len(fs)]

StoreInit ==
    /\ disk = << >> /\ files = << >> /\ used = 0 /\ now = 1
    /\ step = [a \in Actors |-> Idle] /\ left = {}
    /\ writes = 0 /\ failures = 0 /\ restarts = 0

-----------------------------------------------------------------------------
(* Writing *)

Born(name) == name[1]

\* newFileBase and createUniqueFile: the time, then the time with a suffix nobody has.
NewName == <<now, CHOOSE n \in 0 .. Cardinality(DOMAIN disk) :
                      /\ <<now, n>> \notin DOMAIN disk
                      /\ \A m \in 0 .. n - 1 : <<now, m>> \in DOMAIN disk>>

\* writeBytes up to recordWrite: the file is on disk and the store does not know it yet.  A
\* write that fails removes its file again and leaves the store as it was.
CreateUniqueFile(w, size) ==
    /\ step[w] = Idle /\ writes < MaxWrites
    /\ disk' = [k \in DOMAIN disk \cup {NewName} |-> IF k = NewName THEN size ELSE disk[k]]
    /\ step' = [step EXCEPT ![w] = [at |-> "created", name |-> NewName, size |-> size]]
    /\ writes' = writes + 1
    /\ UNCHANGED <<files, used, now, left, failures, restarts>>

\* evictOvershoot: how many of the oldest go, never the newest.
Overshoot(fs, bytes) ==
    IF Budget = 0 \/ bytes <= Budget THEN 0
    ELSE CHOOSE n \in 0 .. Len(fs) - 1 :
            /\ n = Len(fs) - 1 \/ bytes - SumSizes(SubSeq(fs, 1, n)) <= Budget
            /\ \A m \in 0 .. n - 1 : bytes - SumSizes(SubSeq(fs, 1, m)) > Budget

Removing(fs) == IF fs = << >> THEN Idle ELSE [at |-> "removing", rest |-> fs, failed |-> << >>]

\* recordWrite, inside the mutex.
RecordWrite(w) ==
    /\ step[w].at = "created"
    /\ LET fs == Append(files, [name |-> step[w].name, size |-> step[w].size, expires |-> now + TTL])
           n == Overshoot(fs, used + step[w].size)
       IN /\ files' = SubSeq(fs, n + 1, Len(fs))
          /\ used' = used + step[w].size - SumSizes(SubSeq(fs, 1, n))
          /\ step' = [step EXCEPT ![w] = Removing(SubSeq(fs, 1, n))]
    /\ UNCHANGED <<disk, now, left, writes, failures, restarts>>

-----------------------------------------------------------------------------
(* Removing *)

\* partitionByExpiry: the files that are kept and those that are not, each in their order.
Sorted(parts, f) ==
    IF f.expires > now THEN [kept |-> Append(parts.kept, f), expired |-> parts.expired]
                       ELSE [kept |-> parts.kept, expired |-> Append(parts.expired, f)]
PartitionByExpiry(fs) ==
    LET parts[n \in 0 .. Len(fs)] ==
          IF n = 0 THEN [kept |-> << >>, expired |-> << >>] ELSE Sorted(parts[n - 1], fs[n])
    IN parts[Len(fs)]

\* evictExpired, on the cleanup loop's timer.
EvictExpired ==
    /\ step[Cleaner] = Idle
    /\ \E i \in DOMAIN files : files[i].expires <= now
    /\ files' = PartitionByExpiry(files).kept
    /\ used' = used - SumSizes(PartitionByExpiry(files).expired)
    /\ step' = [step EXCEPT ![Cleaner] = Removing(PartitionByExpiry(files).expired)]
    /\ UNCHANGED <<disk, now, left, writes, failures, restarts>>

Without(name) == [k \in DOMAIN disk \ {name} |-> disk[k]]

\* collectRemoveFailed, one file: it goes, it is gone already, or it cannot be removed.
RemoveFile(a) ==
    /\ step[a].at = "removing" /\ step[a].rest # << >>
    /\ LET f == Head(step[a].rest) IN
       \/ /\ disk' = Without(f.name)
          /\ step' = [step EXCEPT ![a].rest = Tail(@)]
          /\ UNCHANGED failures
       \/ /\ f.name \in DOMAIN disk /\ failures < MaxFailures
          /\ failures' = failures + 1
          /\ step' = [step EXCEPT ![a].rest = Tail(@), ![a].failed = Append(@, f)]
          /\ UNCHANGED disk
    /\ UNCHANGED <<files, used, now, left, writes, restarts>>

RestoreRemoveFailed_KeepsBytes(a) ==
    /\ step[a].at = "removing" /\ step[a].rest = << >>
    /\ files' = step[a].failed \o files
    /\ step' = [step EXCEPT ![a] = Idle]
    /\ UNCHANGED <<disk, used, now, left, writes, failures, restarts>>

\* restoreRemoveFailed: what could not be removed is the store's again, as its oldest.
RestoreRemoveFailed(a) ==
    /\ step[a].at = "removing" /\ step[a].rest = << >>
    /\ files' = step[a].failed \o files
    /\ used' = used + SumSizes(step[a].failed)
    /\ step' = [step EXCEPT ![a] = Idle]
    /\ UNCHANGED <<disk, now, left, writes, failures, restarts>>

\* PurgeExpiredResponses: mini cleanup, another process, removes by the file's own time.
PurgeExpired(name) ==
    /\ name \in DOMAIN disk /\ Born(name) + TTL <= now
    /\ disk' = Without(name)
    /\ UNCHANGED <<files, used, now, step, left, writes, failures, restarts>>

-----------------------------------------------------------------------------
(* Time, and a daemon that starts on the files of the last one *)

Tick ==
    /\ now < MaxNow
    /\ now' = now + 1
    /\ UNCHANGED <<disk, files, used, step, left, writes, failures, restarts>>

\* os.ReadDir lists a directory by name.
InNameOrder(names) ==
    {q \in [1 .. Cardinality(names) -> names] :
        \A i, j \in DOMAIN q : i < j => q[i][1] < q[j][1] \/ (q[i][1] = q[j][1] /\ q[i][2] < q[j][2])}

\* A crash at any moment, then NewStore with loadExisting, storeEntryIfFresh: a removal that
\* fails here is logged and forgotten.
Restart ==
    LET fresh == {k \in DOMAIN disk : Born(k) + TTL >= now}
        old == DOMAIN disk \ fresh
    IN \E stuck \in SUBSET old, listed \in InNameOrder(fresh) :
       /\ restarts < MaxRestarts /\ failures + Cardinality(stuck) <= MaxFailures
       /\ restarts' = restarts + 1 /\ failures' = failures + Cardinality(stuck)
       /\ disk' = [k \in fresh \cup stuck |-> disk[k]]
       /\ files' = [i \in 1 .. Cardinality(fresh) |->
                       [name |-> listed[i], size |-> disk[listed[i]], expires |-> Born(listed[i]) + TTL]]
       /\ used' = SumSizes(files')
       /\ step' = [a \in Actors |-> Idle]
       /\ left' = stuck
       /\ UNCHANGED <<now, writes>>

StoreNext ==
    \/ \E w \in Writers : (\E size \in Sizes : CreateUniqueFile(w, size)) \/ RecordWrite(w)
    \/ \E a \in Actors : RemoveFile(a) \/ RestoreRemoveFailed(a)
    \/ EvictExpired \/ Tick \/ Restart
    \/ \E name \in DOMAIN disk : PurgeExpired(name)

-----------------------------------------------------------------------------
Expired(name) == Born(name) + TTL <= now
Tracked == {files[i].name : i \in DOMAIN files}
Held == {step[w].name : w \in {w \in Writers : step[w].at = "created"}}
Doomed == UNION {{(step[a].rest \o step[a].failed)[i].name : i \in DOMAIN (step[a].rest \o step[a].failed)}
                    : a \in {a \in Actors : step[a].at = "removing"}}

\* The store's books match the directory however writes, the cleanup loop, mini cleanup, failed
\* removals and restarts interleave: the bytes counted are those of the files listed, no file is
\* listed or about to be removed twice, every file on disk is listed, being written or being
\* removed (or expired and stuck since the store was loaded), a listed file that is gone had
\* expired, and one that is there has the size that is counted.
DiskIsTracked ==
    /\ used = SumSizes(files)
    /\ Cardinality(Tracked) = Len(files) /\ Tracked \cap Doomed = {} /\ Tracked \cap Held = {}
    /\ DOMAIN disk \subseteq Tracked \cup Held \cup Doomed \cup {k \in left : Expired(k)}
    /\ \A k \in (Tracked \cup Held) \ DOMAIN disk : Expired(k)
    /\ \A i \in DOMAIN files : files[i].name \in DOMAIN disk => disk[files[i].name] = files[i].size
=============================================================================
