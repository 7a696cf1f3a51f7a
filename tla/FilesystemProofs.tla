-------------------------- MODULE FilesystemProofs --------------------------
(***************************************************************************)
(* Proofs about the file cache.                                            *)
(***************************************************************************)
EXTENDS FilesystemProperties, CacheSizesProofs, WellFoundedInduction

-----------------------------------------------------------------------------
(* Types of the records *)

\* The rest of a list.
LEMMA TailFacts ==
    ASSUME NEW S, NEW s \in Seq(S), s # <<>>
    PROVE  /\ Head(s) \in S /\ Tail(s) \in Seq(S)
           /\ Len(s) \in Nat \ {0}
           /\ Len(s) # 1 => Len(s) > 1
           /\ (Len(s) > 1) => (Tail(s) # <<>>)
<1>1. Len(s) \in Nat /\ Len(s) # 0
    OBVIOUS
<1>2. Head(s) \in S
    BY <1>1
<1>3. Tail(s) \in Seq(S) /\ Len(Tail(s)) = Len(s) - 1
    BY <1>1
<1>4. ASSUME Len(s) > 1 PROVE Tail(s) # <<>>
    <2>1. Len(Tail(s)) # 0
        BY <1>1, <1>3, <1>4
    <2>2. Len(<<>>) = 0
        OBVIOUS
    <2>3. ASSUME Tail(s) = <<>> PROVE FALSE
        <3>1. Len(Tail(s)) = Len(<<>>)
            BY <2>3
        <3> QED BY <2>1, <2>2, <3>1
    <2> QED BY <2>3
<1> QED BY <1>1, <1>2, <1>3, <1>4

\* A list with one more element.
LEMMA AppendFacts ==
    ASSUME NEW S, NEW s \in Seq(S), NEW x \in S
    PROVE  Append(s, x) \in Seq(S) /\ Append(s, x) # <<>>
<1>1. Append(s, x) \in Seq(S) /\ Len(Append(s, x)) = Len(s) + 1 /\ Len(s) \in Nat
    OBVIOUS
<1>2. Len(<<>>) = 0
    OBVIOUS
<1>3. ASSUME Append(s, x) = <<>> PROVE FALSE
    <2>1. Len(Append(s, x)) = Len(<<>>)
        BY <1>3
    <2> QED BY <1>1, <1>2, <2>1
<1> QED BY <1>1, <1>3

\* What a variable that a step leaves alone satisfied, it still does.
LEMMA Frames ==
    /\ DiskOK /\ UNCHANGED diskVars => DiskOK'
    /\ MapsOK /\ UNCHANGED mapVars => MapsOK'
    /\ LocksOK /\ UNCHANGED lockVars => LocksOK'
    /\ ThreadsOK /\ UNCHANGED thread => ThreadsOK'
    /\ BatchesOK /\ UNCHANGED batch => BatchesOK'
    /\ BootOK /\ UNCHANGED bootVars => BootOK'
BY DEF DiskOK, MapsOK, LocksOK, ThreadsOK, BatchesOK, BootOK, CachedNames,
       PendingNames, diskVars, mapVars, lockVars, bootVars

\* The initial records have their types.
LEMMA Constants ==
    /\ IdleThread \in ThreadRecords /\ IdleBatch \in BatchRecords
    /\ NoInfo \in Infos /\ NoFile \in Files /\ NoTmp \in Int
<1> USE FilesystemAssumption
<1>1. NoInfo \in Infos /\ NoFile \in Files /\ NoTmp \in Int
    BY DEF NoInfo, NoFile, Infos, Files, NoTmp
<1>2. IdleThread \in ThreadFields
    BY <1>1 DEF IdleThread, ThreadFields, Points, Outcomes
<1>3. IdleThread.pc = "idle"
    BY DEF IdleThread
<1>4. IdleThread \in ThreadRecords
    BY <1>2, <1>3 DEF ThreadRecords
<1> QED BY <1>1, <1>4 DEF IdleBatch, BatchRecords, Stages

\* An empty object over an empty directory has the types.
LEMMA InitType == Init => TypeOK
<1> SUFFICES ASSUME Init PROVE TypeOK
    OBVIOUS
<1>1. CachedNames = {}
    BY DEF Init, CachedNames
<1> QED BY <1>1, Constants DEF Init, TypeOK, DiskOK, MapsOK, LocksOK, ThreadsOK,
                BatchesOK, BootOK, NoTmp, Orders

\* What the fields of one thread's record are.
LEMMA ThreadType ==
    ASSUME ThreadsOK, NEW t \in Fetchers
    PROVE  /\ thread[t] \in ThreadRecords
           /\ thread[t] \in ThreadFields
           /\ thread[t].request \in Seq(Nodes) /\ thread[t].files \in Seq(Nodes)
           /\ thread[t].evicting \in Seq(Digests)
           /\ thread[t].planned \in SUBSET Batches /\ thread[t].futures \in SUBSET Batches
           /\ thread[t].snap \in [Digests -> Infos]
           /\ thread[t].corrupted \in Seq(Nodes) /\ thread[t].missing \in Seq(Nodes)
           /\ thread[t].linked \in [Nodes -> {"no", "whole", "broken"}]
           /\ thread[t].pc \in {"evict", "unlink"} => thread[t].evicting # <<>>
           /\ thread[t].pc \notin {"idle", "drop", "drop file", "drop unlink"} =>
                    thread[t].files # <<>>
           /\ thread[t].pc \in {"drop file", "drop unlink"} => thread[t].corrupted # <<>>
BY DEF ThreadsOK, ThreadRecords, ThreadFields

\* One thread moves to a record of the right kind.
LEMMA ThreadMoves ==
    ASSUME ThreadsOK, NEW t \in Fetchers, NEW r \in ThreadFields,
           thread' = [thread EXCEPT ![t] = r],
           r.pc \in {"evict", "unlink"} => r.evicting # <<>>,
           r.pc \notin {"idle", "drop", "drop file", "drop unlink"} => r.files # <<>>,
           r.pc \in {"drop file", "drop unlink"} => r.corrupted # <<>>
    PROVE  ThreadsOK'
<1>1. r \in ThreadRecords
    BY DEF ThreadRecords
<1> QED BY <1>1 DEF ThreadsOK

\* A thread that leaves fetch_to is idle, with its outcome.
LEMMA LeaveType ==
    ASSUME ThreadsOK, NEW t \in Fetchers, NEW o \in Outcomes, Leave(t, o)
    PROVE  ThreadsOK'
<1> DEFINE r == [IdleThread EXCEPT !.outcome = o]
<1>1. r \in ThreadFields
    BY Constants DEF ThreadRecords, ThreadFields
<1>2. r.pc = "idle"
    BY Constants DEF ThreadRecords, ThreadFields, IdleThread
<1> QED BY <1>1, <1>2, ThreadMoves DEF Leave

\* A thread goes from one point of fetch_to to the next.
LEMMA PointMoves ==
    ASSUME ThreadsOK, NEW t \in Fetchers, NEW p \in Points,
           thread' = [thread EXCEPT ![t].pc = p],
           p \in {"evict", "unlink"} => thread[t].evicting # <<>>,
           p \notin {"idle", "drop", "drop file", "drop unlink"} => thread[t].files # <<>>,
           p \in {"drop file", "drop unlink"} => thread[t].corrupted # <<>>
    PROVE  ThreadsOK'
<1> DEFINE r == [thread[t] EXCEPT !.pc = p]
<1>1. thread[t] \in ThreadFields
    BY ThreadType
<1>2. r \in ThreadFields
    BY <1>1 DEF ThreadFields
<1>3. /\ r.pc = p /\ r.evicting = thread[t].evicting
      /\ r.files = thread[t].files /\ r.corrupted = thread[t].corrupted
    BY <1>1 DEF ThreadFields
<1>4. thread' = [thread EXCEPT ![t] = r]
    BY DEF ThreadsOK
<1> HIDE DEF r
<1> QED BY <1>2, <1>3, <1>4, ThreadMoves

\* One batch goes to a record of the right kind.
LEMMA BatchMoves ==
    ASSUME BatchesOK, NEW b \in Batches, NEW q \in BatchRecords,
           batch' = [batch EXCEPT ![b] = q]
    PROVE  BatchesOK'
BY DEF BatchesOK

\* What the fields of one batch's record are.
LEMMA BatchType ==
    ASSUME BatchesOK, NEW b \in Batches, NEW s \in Stages,
           NEW todo \in SUBSET Digests, NEW at \in Digests \cup {None}
    PROVE  /\ batch[b] \in BatchRecords
           /\ [batch[b] EXCEPT !.stage = s] \in BatchRecords
           /\ [batch[b] EXCEPT !.stage = s, !.at = at] \in BatchRecords
           /\ [batch[b] EXCEPT !.stage = s, !.todo = todo] \in BatchRecords
           /\ [batch[b] EXCEPT !.todo = todo, !.at = at] \in BatchRecords
           /\ [batch[b] EXCEPT !.todo = todo, !.at = at, !.unread = TRUE] \in BatchRecords
           /\ [batch[b] EXCEPT !.todo = todo, !.at = at, !.stage = s] \in BatchRecords
           /\ batch[b].items \in SUBSET Digests /\ batch[b].todo \in SUBSET Digests
           /\ batch[b].order \in Seq(Nodes) /\ batch[b].stage \in Stages
<1>1. batch[b] \in BatchRecords
    BY DEF BatchesOK
<1> QED BY <1>1 DEF BatchRecords

-----------------------------------------------------------------------------
(* Type correctness: the steps of fetch_to *)

\* Calling fetch_to sets up the record of one thread.
LEMMA FetchType ==
    ASSUME TypeOK, NEW t \in Fetchers, NEW files \in Requests, Fetch(t, files)
    PROVE  TypeOK'
<1> DEFINE r == [IdleThread EXCEPT !.pc = "plan", !.request = files, !.files = files]
<1>1. files \in Seq(Nodes) /\ files # <<>>
    BY FilesystemAssumption
<1>2. r \in ThreadFields
    BY <1>1, Constants DEF ThreadRecords, ThreadFields, Points
<1>3. r.pc = "plan" /\ r.files = files
    BY DEF IdleThread
<1>4. thread' = [thread EXCEPT ![t] = r]
    BY DEF Fetch
<1> HIDE DEF r
<1>5. ThreadsOK'
    BY <1>1, <1>2, <1>3, <1>4, ThreadMoves DEF TypeOK
<1> QED BY <1>5, Frames DEF TypeOK, Fetch

\* The steps that change nothing but the thread.
LEMMA ThreadStepType ==
    ASSUME TypeOK, NEW t \in Fetchers,
           PlanRaise(t) \/ WaitRaise(t)
    PROVE  TypeOK'
<1>1. ThreadsOK'
    BY LeaveType DEF PlanRaise, WaitRaise, Outcomes, TypeOK
<1> QED BY <1>1, Frames DEF PlanRaise, WaitRaise, TypeOK

\* Submitting the planned batches changes their stage and the futures
\* the call waits for.
LEMMA SubmitType ==
    ASSUME TypeOK, NEW t \in Fetchers, Submit(t)
    PROVE  TypeOK'
<1> DEFINE r == [thread[t] EXCEPT !.planned = {}, !.pc = "wait"]
<1>1. \A b \in Batches : batch[b] \in BatchRecords
                         /\ [batch[b] EXCEPT !.stage = "receive"] \in BatchRecords
    BY BatchType DEF TypeOK, Stages
<1>2. BatchesOK'
    BY <1>1 DEF Submit, BatchesOK
<1>3. r \in ThreadFields
    BY ThreadType DEF TypeOK, ThreadFields, Points
<1>4. r.pc = "wait" /\ r.files = thread[t].files /\ r.files # <<>>
    BY ThreadType DEF TypeOK, Submit, ThreadFields
<1>5. thread' = [thread EXCEPT ![t] = r]
    BY DEF Submit, TypeOK, ThreadsOK
<1> HIDE DEF r
<1>6. ThreadsOK'
    BY <1>3, <1>4, <1>5, ThreadMoves DEF TypeOK
<1> QED BY <1>2, <1>6, Frames DEF TypeOK, Submit

\* With its futures resolved a call goes on to the snapshot.
LEMMA WaitOkType ==
    ASSUME TypeOK, NEW t \in Fetchers, WaitOk(t)
    PROVE  TypeOK'
<1> DEFINE r == [thread[t] EXCEPT !.pc = "snapshot", !.futures = {}]
<1>1. r \in ThreadFields
    BY ThreadType DEF TypeOK, ThreadFields, Points
<1>2. r.pc = "snapshot" /\ r.files = thread[t].files /\ r.files # <<>>
    BY ThreadType DEF TypeOK, WaitOk, ThreadFields
<1>3. thread' = [thread EXCEPT ![t] = r]
    BY DEF WaitOk, TypeOK, ThreadsOK
<1> HIDE DEF r
<1>4. ThreadsOK'
    BY <1>1, <1>2, <1>3, ThreadMoves DEF TypeOK
<1> QED BY <1>4, Frames DEF TypeOK, WaitOk

\* The snapshot is a copy of _cached_files.
LEMMA SnapshotType ==
    ASSUME TypeOK, NEW t \in Fetchers, Snapshot(t)
    PROVE  TypeOK'
<1> DEFINE snap == [d \in Digests |-> IF d \in DigestsOf(thread[t].files)
                                      THEN cached[d] ELSE NoInfo]
           r == [thread[t] EXCEPT !.snap = snap, !.pc = "link"]
<1>1. snap \in [Digests -> Infos]
    BY Constants DEF TypeOK, MapsOK
<1>2. r.pc = "link" /\ r.files = thread[t].files /\ r.files # <<>>
    BY ThreadType DEF TypeOK, Snapshot, ThreadFields
<1>3. thread' = [thread EXCEPT ![t] = r]
    BY DEF Snapshot, TypeOK, ThreadsOK
<1> HIDE DEF snap
<1>4. r \in ThreadFields
    BY <1>1, ThreadType DEF TypeOK, ThreadFields, Points
<1> HIDE DEF r
<1>5. ThreadsOK'
    BY <1>2, <1>3, <1>4, ThreadMoves DEF TypeOK
<1> QED BY <1>5, Frames DEF TypeOK, Snapshot

\* Releasing the lock of a file leaves the others' holders.
LEMMA UnlockType ==
    ASSUME LocksOK, NEW d \in Digests, Unlock(d), UNCHANGED globalLock
    PROVE  LocksOK'
BY DEF LocksOK, Unlock

\* A file that is unlinked is gone, and the others stay.
LEMMA UnlinkType ==
    ASSUME DiskOK, NEW d \in Digests, disk' = [disk EXCEPT ![d] = NoFile], UNCHANGED tmp
    PROVE  DiskOK'
BY Constants DEF DiskOK

\* An eviction unlinks the head of the list and goes on with the rest.
LEMMA EvictType ==
    ASSUME TypeOK, NEW t \in Fetchers, Evict(t)
    PROVE  TypeOK'
<1> DEFINE list == thread[t].evicting
           d == Head(list)
           p == IF Len(list) > 1 THEN "evict" ELSE IF thread[t].planned # {} THEN "submit" ELSE "wait"
           r == [thread[t] EXCEPT !.evicting = Tail(@), !.pc = p]
<1>1. /\ list \in Seq(Digests) /\ list # <<>> /\ thread[t].files # <<>>
      /\ thread[t] \in ThreadFields
    BY ThreadType DEF Evict, TypeOK
<1>2. d \in Digests /\ Tail(list) \in Seq(Digests) /\ (Len(list) > 1 => Tail(list) # <<>>)
    BY <1>1, TailFacts
<1>3. ASSUME Evicted(t) PROVE ThreadsOK'
    <2>1. thread' = [thread EXCEPT ![t] = r]
        BY <1>3 DEF Evicted, TypeOK, ThreadsOK
    <2>2. p \in Points
        BY DEF Points
    <2>3. r \in ThreadFields
        BY <1>1, <1>2, <2>2 DEF ThreadFields
    <2>4. r.pc = p /\ r.evicting = Tail(list) /\ r.files = thread[t].files
        BY <1>1 DEF ThreadFields
    <2>5. /\ p \in {"evict", "unlink"} => Tail(list) # <<>>
          /\ p \notin {"drop file", "drop unlink"}
        BY <1>2
    <2> HIDE DEF r, p
    <2> QED BY <1>1, <2>1, <2>3, <2>4, <2>5, ThreadMoves DEF TypeOK
<1>4. ASSUME thread' = [thread EXCEPT ![t].pc = "unlink"] PROVE ThreadsOK'
    BY <1>1, <1>4, PointMoves DEF TypeOK, Points
<1>5. ASSUME Leave(t, "FileNotFoundError") PROVE ThreadsOK'
    BY <1>5, LeaveType DEF TypeOK, Outcomes
<1>6. ThreadsOK'
    BY <1>3, <1>4, <1>5 DEF Evict
<1>7. LocksOK'
    <2>1. CASE fileLock' = [fileLock EXCEPT ![d] = t]
        BY <1>2, <2>1 DEF TypeOK, LocksOK, Evict
    <2>2. CASE Unlock(d)
        BY <1>2, <2>2, UnlockType DEF TypeOK, Evict
    <2> QED BY <2>1, <2>2 DEF Evict
<1>8. DiskOK'
    <2>1. CASE UNCHANGED disk
        BY <2>1 DEF TypeOK, DiskOK, Evict
    <2>2. CASE disk' = [disk EXCEPT ![d] = NoFile]
        BY <1>2, <2>2, UnlinkType DEF TypeOK, Evict
    <2> QED BY <2>1, <2>2 DEF Evict
<1> QED BY <1>6, <1>7, <1>8, Frames DEF TypeOK, Evict

\* The thread goes to the next node of its list.
LEMMA LinkedType ==
    ASSUME ThreadsOK, NEW t \in Fetchers, NEW r \in ThreadFields,
           r.files = thread[t].files, r.files # <<>>, Linked(t, r)
    PROVE  ThreadsOK'
<1> DEFINE p == IF Len(thread[t].files) > 1 THEN "link" ELSE "drop"
           q == [r EXCEPT !.files = Tail(@), !.pc = p]
<1>1. r.files \in Seq(Nodes)
    BY DEF ThreadFields
<1>2. Tail(r.files) \in Seq(Nodes) /\ (p = "link" => Tail(r.files) # <<>>)
    BY <1>1, TailFacts
<1>3. p \in Points /\ p \in {"link", "drop"}
    BY DEF Points
<1>4. thread' = [thread EXCEPT ![t] = q]
    BY DEF Linked
<1> HIDE DEF p
<1>5. q \in ThreadFields
    BY <1>2, <1>3 DEF ThreadFields
<1>6. q.pc = p /\ q.files = Tail(r.files)
    BY DEF ThreadFields
<1> HIDE DEF q
<1> QED BY <1>2, <1>3, <1>4, <1>5, <1>6, ThreadMoves

\* The node that is linked, and its digest.
LEMMA NodeType ==
    ASSUME ThreadsOK, NEW t \in Fetchers, thread[t].pc \in {"link", "stat", "link file"}
    PROVE  /\ thread[t] \in ThreadFields /\ thread[t].files # <<>>
           /\ Node(t) \in Nodes /\ DigestOf[Node(t)] \in Digests
           /\ thread[t].snap \in [Digests -> Infos]
           /\ Append(thread[t].corrupted, Node(t)) \in Seq(Nodes)
           /\ Append(thread[t].missing, Node(t)) \in Seq(Nodes)
<1>1. /\ thread[t] \in ThreadFields /\ thread[t].files # <<>>
      /\ thread[t].files \in Seq(Nodes) /\ thread[t].snap \in [Digests -> Infos]
      /\ thread[t].corrupted \in Seq(Nodes) /\ thread[t].missing \in Seq(Nodes)
    BY ThreadType
<1>2. Node(t) \in Nodes
    BY <1>1, TailFacts DEF Node
<1>3. DigestOf[Node(t)] \in Digests
    BY <1>2, FilesystemAssumption
<1>4. /\ Append(thread[t].corrupted, Node(t)) \in Seq(Nodes)
      /\ Append(thread[t].missing, Node(t)) \in Seq(Nodes)
    BY <1>1, <1>2, AppendFacts
<1> QED BY <1>1, <1>2, <1>3, <1>4

\* The test for existence and the lock of the path.
LEMMA LinkType ==
    ASSUME TypeOK, NEW t \in Fetchers, Link(t)
    PROVE  TypeOK'
<1> DEFINE d == DigestOf[Node(t)]
<1>1. /\ thread[t] \in ThreadFields /\ thread[t].files # <<>>
      /\ Node(t) \in Nodes /\ d \in Digests
      /\ Append(thread[t].corrupted, Node(t)) \in Seq(Nodes)
      /\ Append(thread[t].missing, Node(t)) \in Seq(Nodes)
    BY NodeType DEF Link, TypeOK
<1> HIDE DEF d
<1>2. CASE fileLock' = [fileLock EXCEPT ![d] = t] /\ thread' = [thread EXCEPT ![t].pc = "stat"]
    <2>1. ThreadsOK'
        BY <1>1, <1>2, PointMoves DEF TypeOK, Points
    <2>2. LocksOK'
        BY <1>1, <1>2 DEF TypeOK, LocksOK, Link
    <2> QED BY <2>1, <2>2, Frames DEF TypeOK, Link
<1>3. CASE UNCHANGED fileLock
    <2> DEFINE known == thread[t].snap[d] # NoInfo
               c == IF Exists(d) \/ known THEN Append(thread[t].corrupted, Node(t))
                    ELSE thread[t].corrupted
               m == IF Exists(d) THEN thread[t].missing
                    ELSE Append(thread[t].missing, Node(t))
               r == [thread[t] EXCEPT !.corrupted = c, !.missing = m]
    <2>1. c \in Seq(Nodes) /\ m \in Seq(Nodes)
        BY <1>1, ThreadType DEF TypeOK
    <2>2. Linked(t, r)
        <3>1. fileLock[d] = None /\ t # None
            BY <1>1, FilesystemAssumption DEF Link, d
        <3>2. fileLock' # [fileLock EXCEPT ![d] = t]
            BY <1>1, <1>3, <3>1 DEF TypeOK, LocksOK
        <3> QED BY <1>1, <3>2 DEF Link, d
    <2> HIDE DEF c, m
    <2>3. r \in ThreadFields /\ r.files = thread[t].files
        BY <1>1, <2>1 DEF ThreadFields
    <2> HIDE DEF r
    <2>4. ThreadsOK'
        BY <1>1, <2>2, <2>3, LinkedType DEF TypeOK
    <2>5. LocksOK'
        BY <1>3 DEF TypeOK, LocksOK, Link
    <2> QED BY <2>4, <2>5, Frames DEF TypeOK, Link
<1> QED BY <1>2, <1>3 DEF Link, d

\* The stat of the file, compared with the snapshot.
LEMMA LinkStatType ==
    ASSUME TypeOK, NEW t \in Fetchers, LinkStat(t)
    PROVE  TypeOK'
<1> DEFINE d == DigestOf[Node(t)]
           match == thread[t].snap[d] = FileCacheInfo(disk[d])
           c == Append(thread[t].corrupted, Node(t))
           r == [thread[t] EXCEPT !.snap[d] = NoInfo, !.corrupted = Append(@, Node(t))]
           s == [thread[t].snap EXCEPT ![d] = NoInfo]
<1>1. /\ thread[t] \in ThreadFields /\ thread[t].files # <<>>
      /\ Node(t) \in Nodes /\ d \in Digests /\ c \in Seq(Nodes)
      /\ thread[t].snap \in [Digests -> Infos]
    BY NodeType DEF LinkStat, TypeOK
<1>2. s \in [Digests -> Infos]
    BY <1>1, Constants
<1>3. r = [thread[t] EXCEPT !.snap = s, !.corrupted = c]
    BY <1>1 DEF ThreadFields
<1> HIDE DEF s, c
<1>4. r \in ThreadFields /\ r.files = thread[t].files
    BY <1>1, <1>2, <1>3 DEF ThreadFields
<1>5. CASE Exists(d) /\ match
    <2>1. ThreadsOK'
        BY <1>1, <1>5, PointMoves DEF TypeOK, LinkStat, Points
    <2>2. LocksOK'
        BY <1>5 DEF TypeOK, LocksOK, LinkStat
    <2> QED BY <2>1, <2>2, Frames DEF TypeOK, LinkStat
<1>6. CASE ~(Exists(d) /\ match)
    <2>1. ASSUME Exists(d) PROVE ThreadsOK'
        <3>1. Linked(t, r)
            BY <1>6, <2>1 DEF LinkStat
        <3> HIDE DEF r
        <3> QED BY <1>1, <1>4, <3>1, LinkedType DEF TypeOK
    <2>2. ASSUME ~Exists(d) PROVE ThreadsOK'
        BY <1>6, <2>2, LeaveType DEF LinkStat, Outcomes, TypeOK
    <2>3. ThreadsOK'
        BY <2>1, <2>2
    <2>4. LocksOK'
        BY <1>1, <1>6, UnlockType DEF TypeOK, LinkStat
    <2> QED BY <2>3, <2>4, Frames DEF TypeOK, LinkStat
<1> QED BY <1>5, <1>6

\* The hard link, which fails when the file is gone by then.
LEMMA LinkFileType ==
    ASSUME TypeOK, NEW t \in Fetchers, LinkFile(t)
    PROVE  TypeOK'
<1> DEFINE d == DigestOf[Node(t)]
           v == IF disk[d].intact THEN "whole" ELSE "broken"
           l == [thread[t].linked EXCEPT ![Node(t)] = v]
           r == [thread[t] EXCEPT !.linked[Node(t)] = v]
<1>1. /\ thread[t] \in ThreadFields /\ thread[t].files # <<>>
      /\ Node(t) \in Nodes /\ d \in Digests
    BY NodeType DEF LinkFile, TypeOK
<1>2. l \in [Nodes -> {"no", "whole", "broken"}]
    BY <1>1, ThreadType DEF TypeOK
<1>3. r = [thread[t] EXCEPT !.linked = l]
    BY <1>1 DEF ThreadFields
<1> HIDE DEF l
<1>4. r \in ThreadFields /\ r.files = thread[t].files
    BY <1>1, <1>2, <1>3 DEF ThreadFields
<1>5. ThreadsOK'
    <2>1. CASE Exists(d)
        <3>1. Linked(t, r)
            BY <2>1 DEF LinkFile
        <3> HIDE DEF r
        <3> QED BY <1>1, <1>4, <3>1, LinkedType DEF TypeOK
    <2>2. CASE ~Exists(d)
        BY <2>2, LeaveType DEF LinkFile, Outcomes, TypeOK
    <2> QED BY <2>1, <2>2
<1>6. LocksOK'
    BY <1>1, UnlockType DEF TypeOK, LinkFile
<1> QED BY <1>5, <1>6, Frames DEF TypeOK, LinkFile

\* fetch_to returns or plans again.
LEMMA DroppedType ==
    ASSUME ThreadsOK, NEW t \in Fetchers, NEW missing \in Seq(Nodes), Dropped(t, missing)
    PROVE  ThreadsOK'
<1>1. CASE missing = <<>>
    BY <1>1, LeaveType DEF Dropped, Outcomes
<1>2. CASE missing # <<>>
    <2> DEFINE r == [IdleThread EXCEPT !.pc = "plan", !.files = missing,
                        !.request = thread[t].request, !.linked = thread[t].linked]
    <2>1. r \in ThreadFields
        BY Constants, ThreadType DEF ThreadRecords, ThreadFields, Points
    <2>2. r.pc = "plan" /\ r.files = missing
        BY DEF IdleThread
    <2>3. thread' = [thread EXCEPT ![t] = r]
        BY <1>2 DEF Dropped
    <2> HIDE DEF r
    <2> QED BY <1>2, <2>1, <2>2, <2>3, ThreadMoves
<1> QED BY <1>1, <1>2

\* The corrupted files are dropped under the global lock.
LEMMA DropLockType ==
    ASSUME TypeOK, NEW t \in Fetchers, DropLock(t)
    PROVE  TypeOK'
<1>1. CASE thread[t].corrupted = <<>>
    <2>1. ThreadsOK'
        BY <1>1, ThreadType, DroppedType DEF DropLock, TypeOK
    <2>2. LocksOK'
        BY <1>1 DEF DropLock, TypeOK, LocksOK
    <2> QED BY <2>1, <2>2, Frames DEF DropLock, TypeOK
<1>2. CASE thread[t].corrupted # <<>>
    <2>1. ThreadsOK'
        BY <1>2, PointMoves DEF DropLock, TypeOK, Points
    <2>2. LocksOK'
        BY <1>2 DEF DropLock, TypeOK, LocksOK
    <2> QED BY <2>1, <2>2, Frames DEF DropLock, TypeOK
<1> QED BY <1>1, <1>2

\* Orders without one of its members.
LEMMA OrderWithout ==
    ASSUME NEW R, NEW S, Orders(R, S), NEW d
    PROVE  Orders({p \in R : p[1] # d /\ p[2] # d}, S \ {d})
BY DEF Orders

\* Orders with a last member.
LEMMA OrderWith ==
    ASSUME NEW R, NEW S, Orders(R, S), NEW d, d \notin S
    PROVE  Orders(R \cup (S \X {d}), S \cup {d})
BY DEF Orders

\* The counter of bytes stays an integer.
LEMMA Shrinks ==
    ASSUME MapsOK, NEW d \in Digests
    PROVE  current - Size[d] \in Int /\ current - Size[d] <= current
<1>1. current \in Int /\ Size[d] \in Nat
    BY FilesystemAssumption DEF MapsOK
<1> QED BY <1>1

\* An entry of _cached_files is deleted.
LEMMA ForgetType ==
    ASSUME TypeOK, NEW t \in Fetchers, thread[t].pc \in {"drop file", "drop unlink"},
           Forget(t)
    PROVE  /\ ThreadsOK' /\ MapsOK'
           /\ globalLock' \in Fetchers \cup Batches \cup {None}
<1> DEFINE c == thread[t].corrupted
           d == DigestOf[Corrupted(t)]
           missing == Append(thread[t].missing, Corrupted(t))
<1>1. /\ c \in Seq(Nodes) /\ c # <<>> /\ thread[t].missing \in Seq(Nodes)
      /\ thread[t] \in ThreadFields
    BY ThreadType DEF TypeOK
<1>2. Corrupted(t) \in Nodes /\ Tail(c) \in Seq(Nodes) /\ (Len(c) > 1 => Tail(c) # <<>>)
    BY <1>1, TailFacts DEF Corrupted
<1>3. d \in Digests
    BY <1>2, FilesystemAssumption
<1>4. missing \in Seq(Nodes)
    BY <1>1, <1>2, AppendFacts
<1>5. CASE cached[d] = NoInfo
    <2>1. ThreadsOK'
        BY <1>5, LeaveType DEF Forget, TypeOK, Outcomes
    <2>2. MapsOK'
        BY <1>5, Frames DEF Forget, TypeOK
    <2> QED BY <1>5, <2>1, <2>2 DEF Forget
<1>6. CASE cached[d] # NoInfo
    <2>1. MapsOK'
        <3>1. cached' \in [Digests -> Infos] /\ CachedNames' = CachedNames \ {d}
            BY <1>3, <1>6, Constants DEF Forget, TypeOK, MapsOK, CachedNames
        <3>2. Orders(older', CachedNames')
            <4>1. older' = {p \in older : p[1] # d /\ p[2] # d}
                BY <1>6 DEF Forget
            <4>2. Orders({p \in older : p[1] # d /\ p[2] # d}, CachedNames \ {d})
                BY OrderWithout DEF TypeOK, MapsOK
            <4> QED BY <3>1, <4>1, <4>2
        <3>3. current' \in Int
            <4>1. current' = current - Size[d]
                BY <1>6 DEF Forget
            <4> QED BY <1>3, <4>1, Shrinks DEF TypeOK
        <3>4. pending' = pending /\ PendingNames' = PendingNames
            BY <1>6 DEF Forget, PendingNames
        <3> QED BY <3>1, <3>2, <3>3, <3>4 DEF TypeOK, MapsOK
    <2>2. CASE Len(c) = 1
        <3> HIDE DEF missing
        <3> QED BY <1>4, <1>6, <2>1, <2>2, DroppedType DEF Forget, TypeOK, missing
    <2>3. CASE Len(c) # 1
        <3> DEFINE r == [thread[t] EXCEPT !.pc = "drop file", !.corrupted = Tail(@),
                                          !.missing = missing]
        <3>1. Len(c) > 1
            BY <1>1, <2>3, TailFacts
        <3>2. thread' = [thread EXCEPT ![t] = r] /\ UNCHANGED globalLock
            BY <1>6, <2>3 DEF Forget, TypeOK, ThreadsOK
        <3> HIDE DEF missing
        <3>3. r \in ThreadFields
            BY <1>1, <1>2, <1>4 DEF ThreadFields, Points
        <3>4. r.pc = "drop file" /\ r.corrupted = Tail(c)
            BY <1>1 DEF ThreadFields
        <3> HIDE DEF r
        <3>5. ThreadsOK'
            BY <1>2, <3>1, <3>2, <3>3, <3>4, ThreadMoves DEF TypeOK
        <3> QED BY <2>1, <3>2, <3>5 DEF TypeOK, LocksOK
    <2> QED BY <2>2, <2>3
<1> QED BY <1>5, <1>6

\* One corrupted file is unlinked and forgotten, then the next; the call
\* starts over with what is left, or returns.
LEMMA DropType ==
    ASSUME TypeOK, NEW t \in Fetchers, Drop(t)
    PROVE  TypeOK'
<1> DEFINE d == DigestOf[Corrupted(t)]
           seen == thread[t].pc = "drop unlink"
<1>1. /\ thread[t].corrupted \in Seq(Nodes) /\ thread[t].corrupted # <<>>
      /\ thread[t].pc \in {"drop file", "drop unlink"} /\ thread[t].files \in Seq(Nodes)
    BY ThreadType DEF Drop, TypeOK
<1>2. d \in Digests
    BY <1>1, TailFacts, FilesystemAssumption DEF Corrupted
<1>3. CASE ~seen /\ Exists(d)
    <2>1. ThreadsOK'
        BY <1>1, <1>3, PointMoves DEF Drop, TypeOK, Points
    <2> QED BY <1>3, <2>1, Frames DEF Drop, TypeOK, lockVars, diskVars
<1>4. CASE seen <=> Exists(d)
    <2>1. ThreadsOK' /\ MapsOK' /\ globalLock' \in Fetchers \cup Batches \cup {None}
        BY <1>1, <1>4, ForgetType DEF Drop
    <2>2. DiskOK'
        BY <1>2, <1>4, UnlinkType DEF Drop, TypeOK
    <2>3. LocksOK'
        BY <2>1 DEF Drop, TypeOK, LocksOK
    <2> QED BY <2>1, <2>2, <2>3, Frames DEF Drop, TypeOK
<1>5. CASE seen /\ ~Exists(d)
    <2>1. ThreadsOK'
        BY <1>5, LeaveType DEF Drop, TypeOK, Outcomes
    <2>2. LocksOK'
        BY <1>5 DEF Drop, TypeOK, LocksOK
    <2> QED BY <1>5, <2>1, <2>2, Frames DEF Drop, TypeOK, diskVars
<1> QED BY <1>3, <1>4, <1>5

-----------------------------------------------------------------------------
(* Type correctness: the steps of a batch *)

\* The thread of a batch stops at an error.
LEMMA FailType ==
    ASSUME BatchesOK, NEW b \in Batches, Fail(b)
    PROVE  BatchesOK'
<1> DEFINE q == [batch[b] EXCEPT !.stage = "failed", !.at = None]
<1>1. q \in BatchRecords
    BY BatchType DEF Stages
<1>2. batch' = [batch EXCEPT ![b] = q]
    BY DEF Fail, BatchesOK
<1> HIDE DEF q
<1> QED BY <1>1, <1>2, BatchMoves

\* A batch goes from one stage to the next.
LEMMA StageMoves ==
    ASSUME BatchesOK, NEW b \in Batches, NEW s \in Stages,
           batch' = [batch EXCEPT ![b].stage = s]
    PROVE  BatchesOK'
<1> DEFINE q == [batch[b] EXCEPT !.stage = s]
<1>1. q \in BatchRecords
    BY BatchType DEF BatchesOK
<1>2. batch' = [batch EXCEPT ![b] = q]
    BY DEF BatchesOK
<1> HIDE DEF q
<1> QED BY <1>1, <1>2, BatchMoves

\* A blob, or a block of it, is verified and written to its ".tmp" file.
LEMMA ReceiveType ==
    ASSUME TypeOK, NEW b \in Batches, NEW d \in Digests, Receive(b, d)
    PROVE  TypeOK'
<1> DEFINE opened == batch[b].at = d
           written == IF opened THEN tmp[d] ELSE 0
<1>1. CASE ~opened /\ tmp[d] # NoTmp
    <2>1. BatchesOK'
        BY <1>1, FailType DEF Receive, TypeOK
    <2> QED BY <1>1, <2>1, Frames DEF Receive, TypeOK, diskVars
<1>2. CASE ~(~opened /\ tmp[d] # NoTmp)
    <2> DEFINE range == IF Large(d) THEN 1..(Size[d] - written) ELSE {Size[d]}
    <2>1. PICK n \in range :
            /\ tmp' = [tmp EXCEPT ![d] = written + n]
            /\ batch' = [batch EXCEPT
                    ![b].todo = IF written + n = Size[d] THEN @ \ {d} ELSE @,
                    ![b].at = IF written + n = Size[d] THEN None ELSE d]
        BY <1>2 DEF Receive
    <2>2. Size[d] \in Nat /\ tmp[d] \in Nat \cup {-1}
        BY FilesystemAssumption DEF TypeOK, DiskOK, NoTmp
    <2>3. n \in Nat /\ written \in Nat \cup {-1} /\ written + n \in Nat \cup {-1}
        <3>1. CASE Large(d)
            BY <2>1, <2>2, <3>1
        <3>2. CASE ~Large(d)
            BY <2>1, <2>2, <3>2
        <3> QED BY <3>1, <3>2
    <2> DEFINE todo == IF written + n = Size[d] THEN batch[b].todo \ {d} ELSE batch[b].todo
               at == IF written + n = Size[d] THEN None ELSE d
               q == [batch[b] EXCEPT !.todo = todo, !.at = at]
    <2>4. todo \in SUBSET Digests /\ at \in Digests \cup {None}
        BY BatchType DEF TypeOK, Stages
    <2>5. batch' = [batch EXCEPT ![b] = q]
        BY <2>1 DEF TypeOK, BatchesOK
    <2> HIDE DEF todo, at
    <2>6. q \in BatchRecords
        BY <2>4, BatchType DEF TypeOK, Stages
    <2> HIDE DEF q
    <2>7. BatchesOK'
        BY <2>5, <2>6, BatchMoves DEF TypeOK
    <2>8. DiskOK'
        <3> HIDE DEF written
        <3> QED BY <2>1, <2>3 DEF Receive, TypeOK, DiskOK, NoTmp
    <2> QED BY <2>7, <2>8, Frames DEF TypeOK, Receive
<1> QED BY <1>1, <1>2

\* A blob that is refused, damaged or cut short.
LEMMA ReceiveFaultType ==
    ASSUME TypeOK, NEW b \in Batches, NEW d \in Digests, ReceiveFault(b, d)
    PROVE  TypeOK'
<1> DEFINE todo == batch[b].todo \ {d}
           q1 == [batch[b] EXCEPT !.todo = todo, !.at = None]
           q2 == [batch[b] EXCEPT !.todo = todo, !.at = None, !.unread = TRUE]
<1>1. todo \in SUBSET Digests
    BY BatchType DEF TypeOK, Stages
<1> HIDE DEF todo
<1>2. q1 \in BatchRecords /\ q2 \in BatchRecords
    BY <1>1, BatchType DEF TypeOK, Stages
<1>3. BatchesOK'
    <2>1. ASSUME Fail(b) PROVE BatchesOK'
        BY <2>1, FailType DEF TypeOK
    <2>2. ASSUME batch' = [batch EXCEPT ![b].todo = @ \ {d}, ![b].at = None]
          PROVE  BatchesOK'
        <3>1. batch' = [batch EXCEPT ![b] = q1]
            BY <2>2 DEF TypeOK, BatchesOK, todo
        <3> HIDE DEF q1
        <3> QED BY <1>2, <3>1, BatchMoves DEF TypeOK
    <2>3. ASSUME batch' = [batch EXCEPT ![b].todo = @ \ {d}, ![b].at = None, ![b].unread = TRUE]
          PROVE  BatchesOK'
        <3>1. batch' = [batch EXCEPT ![b] = q2]
            BY <2>3 DEF TypeOK, BatchesOK, todo
        <3> HIDE DEF q2
        <3> QED BY <1>2, <3>1, BatchMoves DEF TypeOK
    <2> QED BY <2>1, <2>2, <2>3 DEF ReceiveFault
<1>4. DiskOK'
    <2>1. Size[d] \in Nat
        BY FilesystemAssumption
    <2>2. ASSUME NEW n \in Nat \cup {NoTmp}, tmp' = [tmp EXCEPT ![d] = n] PROVE DiskOK'
        BY <2>2 DEF ReceiveFault, TypeOK, DiskOK
    <2>3. \/ tmp' = tmp
          \/ \E n \in {NoTmp, Size[d] + 1} \cup (0..(Size[d] - 1)) :
                tmp' = [tmp EXCEPT ![d] = n]
        BY DEF ReceiveFault
    <2>4. {NoTmp, Size[d] + 1} \cup (0..(Size[d] - 1)) \subseteq Nat \cup {NoTmp}
        BY <2>1
    <2> QED BY <2>2, <2>3, <2>4, Frames DEF ReceiveFault, TypeOK, DiskOK
<1> QED BY <1>3, <1>4, Frames DEF ReceiveFault, TypeOK

\* After its last blob a batch goes on to install, or fails.
LEMMA ReceivedType ==
    ASSUME TypeOK, NEW b \in Batches, Received(b)
    PROVE  TypeOK'
<1> DEFINE q == [batch[b] EXCEPT !.stage = "install", !.todo = batch[b].items]
<1>1. BatchesOK'
    <2>1. CASE batch[b].unread
        BY <2>1, FailType DEF Received, TypeOK
    <2>2. CASE ~batch[b].unread
        <3>1. batch' = [batch EXCEPT ![b] = q]
            BY <2>2 DEF Received, TypeOK, BatchesOK
        <3>2. batch[b].items \in SUBSET Digests
            BY BatchType DEF TypeOK, Stages
        <3>3. q \in BatchRecords
            BY <3>2, BatchType DEF TypeOK, Stages
        <3> HIDE DEF q
        <3> QED BY <3>1, <3>3, BatchMoves DEF TypeOK
    <2> QED BY <2>1, <2>2
<1> QED BY <1>1, Frames DEF Received, TypeOK

\* The lock of the path, and the test that no file has it.
LEMMA InstallType ==
    ASSUME TypeOK, NEW b \in Batches, NEW d \in Digests, Install(b, d)
    PROVE  TypeOK'
<1> DEFINE q == [batch[b] EXCEPT !.stage = "rename", !.at = d]
<1>1. CASE Exists(d)
    <2>1. BatchesOK'
        BY <1>1, FailType DEF Install, TypeOK
    <2> QED BY <1>1, <2>1, Frames DEF Install, TypeOK, lockVars
<1>2. CASE ~Exists(d)
    <2>1. batch' = [batch EXCEPT ![b] = q]
        BY <1>2 DEF Install, TypeOK, BatchesOK
    <2>2. q \in BatchRecords
        BY BatchType DEF TypeOK, Stages
    <2> HIDE DEF q
    <2>3. BatchesOK'
        BY <2>1, <2>2, BatchMoves DEF TypeOK
    <2>4. LocksOK'
        BY <1>2 DEF Install, TypeOK, LocksOK
    <2> QED BY <2>3, <2>4, Frames DEF Install, TypeOK
<1> QED BY <1>1, <1>2

\* The ".tmp" file becomes the file of the cache.
LEMMA RenameType ==
    ASSUME TypeOK, NEW b \in Batches, NEW d \in Digests, Rename(b, d)
    PROVE  TypeOK'
<1>1. CASE tmp[d] = NoTmp
    <2>1. BatchesOK'
        BY <1>1, FailType DEF Rename, TypeOK
    <2>2. LocksOK'
        BY <1>1, UnlockType DEF Rename, TypeOK
    <2> QED BY <1>1, <2>1, <2>2, Frames DEF Rename, TypeOK
<1>2. CASE tmp[d] # NoTmp
    <2>1. BatchesOK'
        BY <1>2, StageMoves DEF Rename, TypeOK, Stages
    <2>2. DiskOK'
        <3>1. PICK s \in 1..MaxStamp :
                disk' = [disk EXCEPT ![d] =
                        [stamp |-> s, size |-> tmp[d], readonly |-> FALSE,
                         intact |-> tmp[d] = Size[d]]]
            BY <1>2 DEF Rename
        <3> DEFINE f == [stamp |-> s, size |-> tmp[d], readonly |-> FALSE,
                         intact |-> tmp[d] = Size[d]]
        <3>2. s \in 0..MaxStamp /\ tmp[d] \in Nat
            BY <1>2, FilesystemAssumption DEF TypeOK, DiskOK
        <3>3. f \in Files
            BY <3>2 DEF Files
        <3>4. tmp' = [tmp EXCEPT ![d] = NoTmp]
            BY <1>2 DEF Rename
        <3>5. disk' = [disk EXCEPT ![d] = f]
            BY <3>1
        <3> HIDE DEF f
        <3> QED BY <3>3, <3>4, <3>5 DEF TypeOK, DiskOK
    <2>3. LocksOK'
        BY <1>2 DEF Rename, TypeOK, LocksOK
    <2> QED BY <2>1, <2>2, <2>3, Frames DEF Rename, TypeOK
<1> QED BY <1>1, <1>2

\* The file is made read-only and its lock is released.
LEMMA ChmodType ==
    ASSUME TypeOK, NEW b \in Batches, NEW d \in Digests, Chmod(b, d)
    PROVE  TypeOK'
<1>1. LocksOK'
    BY UnlockType DEF Chmod, TypeOK
<1>2. CASE Exists(d)
    <2> DEFINE s == IF batch[b].todo = {d} THEN "installed" ELSE "install"
               todo == batch[b].todo \ {d}
               q == [batch[b] EXCEPT !.todo = todo, !.at = None, !.stage = s]
    <2>1. s \in Stages
        BY DEF Stages
    <2>2. todo \in SUBSET Digests
        BY BatchType DEF TypeOK, Stages
    <2>3. batch' = [batch EXCEPT ![b] = q]
        BY <1>2 DEF Chmod, TypeOK, BatchesOK
    <2> HIDE DEF s, todo
    <2>4. q \in BatchRecords
        BY <2>1, <2>2, BatchType DEF TypeOK
    <2> HIDE DEF q
    <2>5. BatchesOK'
        BY <2>3, <2>4, BatchMoves DEF TypeOK
    <2>6. DiskOK'
        <3> DEFINE f == [disk[d] EXCEPT !.readonly = TRUE]
        <3>1. disk[d] \in Files /\ disk[d] # NoFile
            BY <1>2 DEF TypeOK, DiskOK, Exists
        <3>2. f \in Files
            BY <3>1 DEF Files
        <3>3. disk' = [disk EXCEPT ![d] = f] /\ UNCHANGED tmp
            BY <1>2 DEF Chmod, TypeOK, DiskOK
        <3> HIDE DEF f
        <3> QED BY <3>2, <3>3 DEF TypeOK, DiskOK
    <2> QED BY <1>1, <2>5, <2>6, Frames DEF Chmod, TypeOK
<1>3. CASE ~Exists(d)
    <2>1. BatchesOK'
        BY <1>3, FailType DEF Chmod, TypeOK
    <2>2. DiskOK'
        BY <1>3 DEF Chmod, TypeOK, DiskOK
    <2> QED BY <1>1, <2>1, <2>2, Frames DEF Chmod, TypeOK
<1> QED BY <1>2, <1>3

\* A batch takes the global lock, to register its files or to clean up.
LEMMA LockType ==
    ASSUME TypeOK, NEW b \in Batches, Lock(b)
    PROVE  TypeOK'
<1> DEFINE s == IF batch[b].stage = "failed" THEN "clean" ELSE "register"
           q == [batch[b] EXCEPT !.stage = s, !.todo = batch[b].items]
<1>1. s \in Stages
    BY DEF Stages
<1>2. batch[b].items \in SUBSET Digests
    BY BatchType DEF TypeOK, Stages
<1>3. batch' = [batch EXCEPT ![b] = q]
    BY DEF Lock, TypeOK, BatchesOK
<1> HIDE DEF s
<1>4. q \in BatchRecords
    BY <1>1, <1>2, BatchType DEF TypeOK
<1> HIDE DEF q
<1>5. BatchesOK'
    BY <1>3, <1>4, BatchMoves DEF TypeOK
<1>6. LocksOK'
    BY DEF Lock, TypeOK, LocksOK
<1> QED BY <1>5, <1>6, Frames DEF Lock, TypeOK

\* An item leaves _pending_files, and the last one resolves the future.
LEMMA SettledType ==
    ASSUME TypeOK, NEW b \in Batches, NEW d \in Digests, NEW s \in Stages,
           NEW o \in {"ok", "failed"}, Settled(b, d, s, o)
    PROVE  /\ BatchesOK'
           /\ pending' \in [Digests -> Batches \cup {None}]
           /\ PendingNames' = PendingNames \ {d}
           /\ globalLock' \in Fetchers \cup Batches \cup {None}
<1>1. pending' \in [Digests -> Batches \cup {None}] /\ PendingNames' = PendingNames \ {d}
    BY DEF Settled, TypeOK, MapsOK, PendingNames
<1>2. CASE batch[b].todo = {d}
    <2> DEFINE q == [IdleBatch EXCEPT !.stage = "done", !.future = o]
    <2>1. q \in BatchRecords
        BY Constants DEF BatchRecords, Stages
    <2>2. batch' = [batch EXCEPT ![b] = q] /\ globalLock' = None
        BY <1>2 DEF Settled
    <2> HIDE DEF q
    <2> QED BY <1>1, <2>1, <2>2, BatchMoves DEF TypeOK
<1>3. CASE batch[b].todo # {d}
    <2> DEFINE todo == batch[b].todo \ {d}
               q == [batch[b] EXCEPT !.stage = s, !.todo = todo]
    <2>1. todo \in SUBSET Digests
        BY BatchType DEF TypeOK
    <2>2. batch' = [batch EXCEPT ![b] = q] /\ UNCHANGED globalLock
        BY <1>3 DEF Settled, TypeOK, BatchesOK
    <2> HIDE DEF todo
    <2>3. q \in BatchRecords
        BY <2>1, BatchType DEF TypeOK
    <2> HIDE DEF q
    <2> QED BY <1>1, <2>2, <2>3, BatchMoves DEF TypeOK, LocksOK
<1> QED BY <1>2, <1>3

\* The bytes reserved for a digest are given back.
LEMMA ReclaimType ==
    ASSUME TypeOK, NEW b \in Batches, NEW d \in Digests, NEW s \in Stages,
           NEW o \in {"ok", "failed"}, Reclaim(b, d, s, o), UNCHANGED <<cached, older>>
    PROVE  /\ BatchesOK' /\ MapsOK'
           /\ globalLock' \in Fetchers \cup Batches \cup {None}
<1>1. /\ BatchesOK'
      /\ pending' \in [Digests -> Batches \cup {None}]
      /\ PendingNames' = PendingNames \ {d}
      /\ globalLock' \in Fetchers \cup Batches \cup {None}
    BY SettledType DEF Reclaim
<1>2. current' \in Int
    BY Shrinks DEF Reclaim, TypeOK
<1> QED BY <1>1, <1>2 DEF TypeOK, MapsOK, CachedNames

\* The error handler of a batch tests for a file and unlinks it.
LEMMA CleanType ==
    ASSUME TypeOK, NEW b \in Batches, NEW d \in Digests, Clean(b, d)
    PROVE  TypeOK'
<1> DEFINE seen == batch[b].stage = "clean unlink"
<1>1. CASE ~seen /\ Exists(d)
    <2>1. BatchesOK'
        BY <1>1, StageMoves DEF Clean, TypeOK, Stages
    <2> QED BY <1>1, <2>1, Frames DEF Clean, TypeOK, diskVars, mapVars, lockVars
<1>2. CASE seen <=> Exists(d)
    <2>1. Reclaim(b, d, "clean", "failed")
        BY <1>2 DEF Clean
    <2>2. BatchesOK' /\ MapsOK' /\ globalLock' \in Fetchers \cup Batches \cup {None}
        BY <2>1, ReclaimType DEF Clean, Stages
    <2>3. DiskOK'
        BY <1>2, UnlinkType DEF Clean, TypeOK
    <2>4. LocksOK'
        BY <2>2 DEF Clean, TypeOK, LocksOK
    <2> QED BY <2>2, <2>3, <2>4, Frames DEF Clean, TypeOK
<1>3. CASE seen /\ ~Exists(d)
    <2>1. BatchesOK'
        BY <1>3, StageMoves DEF Clean, TypeOK, Stages
    <2>2. LocksOK'
        BY <1>3 DEF Clean, TypeOK, LocksOK
    <2> QED BY <1>3, <2>1, <2>2, Frames DEF Clean, TypeOK, diskVars, mapVars
<1> QED BY <1>1, <1>2, <1>3

\* A file enters _cached_files at the end, or its entry changes in place.
LEMMA AppendedType ==
    ASSUME MapsOK, NEW d \in Digests, NEW i \in Infos, i # NoInfo,
           cached' = [cached EXCEPT ![d] = i], older' = Appended(d)
    PROVE  /\ cached' \in [Digests -> Infos] /\ CachedNames' = CachedNames \cup {d}
           /\ Orders(older', CachedNames')
<1>1. cached' \in [Digests -> Infos]
    BY DEF MapsOK
<1>2. CachedNames' = CachedNames \cup {d}
    BY DEF MapsOK, CachedNames
<1>3. CASE d \in CachedNames
    BY <1>1, <1>2, <1>3 DEF Appended, MapsOK
<1>4. CASE d \notin CachedNames
    <2>1. Orders(older \cup (CachedNames \X {d}), CachedNames \cup {d})
        BY <1>4, OrderWith DEF MapsOK
    <2> QED BY <1>1, <1>2, <1>4, <2>1 DEF Appended
<1> QED BY <1>3, <1>4

\* What stat() returns for a file.
LEMMA StatType ==
    ASSUME DiskOK, NEW d \in Digests, Exists(d)
    PROVE  FileCacheInfo(disk[d]) \in Infos /\ FileCacheInfo(disk[d]) # NoInfo
<1>1. disk[d] \in Files /\ disk[d] # NoFile
    BY DEF DiskOK, Exists
<1>2. disk[d] \in [stamp : 1..MaxStamp, size : Nat, readonly : BOOLEAN, intact : BOOLEAN]
    BY <1>1 DEF Files
<1>3. FileCacheInfo(disk[d]) \in [stamp : 1..MaxStamp, size : Nat, readonly : BOOLEAN]
    BY <1>2 DEF FileCacheInfo
<1>4. FileCacheInfo(disk[d]).stamp # 0
    BY <1>3, FilesystemAssumption
<1>5. NoInfo.stamp = 0
    BY DEF NoInfo
<1>6. FileCacheInfo(disk[d]) # NoInfo
    BY <1>4, <1>5
<1> QED BY <1>3, <1>6 DEF Infos

\* A downloaded file is looked up, and enters _cached_files.
LEMMA RegisterType ==
    ASSUME TypeOK, NEW b \in Batches, NEW d \in Digests, Register(b, d)
    PROVE  TypeOK'
<1> DEFINE seen == batch[b].stage = "register stat"
<1>1. CASE ~seen /\ Exists(d)
    <2>1. BatchesOK'
        BY <1>1, StageMoves DEF Register, TypeOK, Stages
    <2> QED BY <1>1, <2>1, Frames DEF Register, TypeOK, lockVars
<1>2. CASE seen /\ Exists(d)
    <2>1. /\ BatchesOK'
          /\ pending' \in [Digests -> Batches \cup {None}]
          /\ PendingNames' = PendingNames \ {d}
          /\ globalLock' \in Fetchers \cup Batches \cup {None}
        BY <1>2, SettledType DEF Register, Stages
    <2>2. FileCacheInfo(disk[d]) \in Infos /\ FileCacheInfo(disk[d]) # NoInfo
        BY <1>2, StatType DEF TypeOK
    <2>3. /\ cached' \in [Digests -> Infos] /\ CachedNames' = CachedNames \cup {d}
          /\ Orders(older', CachedNames')
        BY <1>2, <2>2, AppendedType DEF Register, TypeOK
    <2>4. MapsOK'
        BY <1>2, <2>1, <2>3 DEF Register, TypeOK, MapsOK
    <2>5. LocksOK'
        BY <2>1 DEF Register, TypeOK, LocksOK
    <2> QED BY <2>1, <2>4, <2>5, Frames DEF Register, TypeOK
<1>3. CASE ~seen /\ ~Exists(d)
    <2>1. BatchesOK' /\ MapsOK' /\ globalLock' \in Fetchers \cup Batches \cup {None}
        BY <1>3, ReclaimType DEF Register, Stages
    <2>2. LocksOK'
        BY <2>1 DEF Register, TypeOK, LocksOK
    <2> QED BY <2>1, <2>2, Frames DEF Register, TypeOK
<1>4. CASE seen /\ ~Exists(d)
    <2> DEFINE q == [IdleBatch EXCEPT !.stage = "done", !.future = "failed"]
    <2>1. q \in BatchRecords
        BY Constants DEF BatchRecords, Stages
    <2>2. batch' = [batch EXCEPT ![b] = q]
        BY <1>4 DEF Register
    <2> HIDE DEF q
    <2>3. BatchesOK'
        BY <2>1, <2>2, BatchMoves DEF TypeOK
    <2>4. LocksOK'
        BY <1>4 DEF Register, TypeOK, LocksOK
    <2> QED BY <1>4, <2>3, <2>4, Frames DEF Register, TypeOK
<1> QED BY <1>1, <1>2, <1>3, <1>4

-----------------------------------------------------------------------------
(* Type correctness: the environment and init() *)

\* Others remove a file of the cache, or write through a hard link of it.
LEMMA EnvironmentType ==
    ASSUME TypeOK, NEW d \in Digests, Delete(d) \/ Rewrite(d)
    PROVE  TypeOK'
<1>1. DiskOK'
    <2>1. CASE Delete(d)
        BY <2>1, UnlinkType DEF Delete, TypeOK
    <2>2. CASE Rewrite(d)
        <3>1. PICK s \in 1..MaxStamp, n \in {0, Size[d]} :
                disk' = [disk EXCEPT ![d] =
                    [stamp |-> s, size |-> n, readonly |-> FALSE, intact |-> FALSE]]
            BY <2>2 DEF Rewrite
        <3> DEFINE f == [stamp |-> s, size |-> n, readonly |-> FALSE, intact |-> FALSE]
        <3>2. n \in Nat
            BY FilesystemAssumption
        <3>3. f \in Files
            BY <3>2 DEF Files
        <3>4. disk' = [disk EXCEPT ![d] = f]
            BY <3>1
        <3> HIDE DEF f
        <3> QED BY <2>2, <3>3, <3>4 DEF Rewrite, TypeOK, DiskOK
    <2> QED BY <2>1, <2>2
<1> QED BY <1>1, Frames DEF Delete, Rewrite, TypeOK

\* A restart leaves the directory and empties the object.
LEMMA RestartType ==
    ASSUME TypeOK, Restart
    PROVE  TypeOK'
<1>1. CachedNames' = {}
    BY DEF Restart, CachedNames
<1>2. MapsOK'
    BY <1>1, Constants DEF Restart, MapsOK, Orders
<1>3. ThreadsOK' /\ BatchesOK' /\ LocksOK' /\ BootOK'
    BY Constants DEF Restart, ThreadsOK, BatchesOK, LocksOK, BootOK
<1> QED BY <1>2, <1>3, Frames DEF Restart, TypeOK

\* init() removes the files that are not whole, and the ".tmp" files.
LEMMA VerifyType ==
    ASSUME TypeOK, Verify
    PROVE  TypeOK'
<1>1. DiskOK'
    BY Constants DEF Verify, TypeOK, DiskOK
<1>2. BootOK'
    BY DEF Verify, BootOK
<1> QED BY <1>1, <1>2, Frames DEF Verify, TypeOK

\* init() registers a verified file, or removes it when it does not fit.
LEMMA AdmitType ==
    ASSUME TypeOK, NEW d \in Digests, Exists(d), PendingNames = {}, Admit(d)
    PROVE  TypeOK'
<1>1. BootOK'
    BY DEF Admit, TypeOK, BootOK
<1> DEFINE fits == MaxSize = 0 \/ disk[d].size + current <= MaxSize
<1>2. CASE fits
    <2>1. FileCacheInfo(disk[d]) \in Infos /\ FileCacheInfo(disk[d]) # NoInfo
        BY StatType DEF TypeOK
    <2>2. cached' \in [Digests -> Infos] /\ Orders(older', CachedNames')
        BY <1>2, <2>1, AppendedType DEF Admit, TypeOK
    <2>3. current' \in Int
        <3>1. disk[d].size \in Nat /\ current \in Int
            BY DEF TypeOK, DiskOK, MapsOK, Files, NoFile
        <3>2. current' = current + disk[d].size
            BY <1>2 DEF Admit
        <3> QED BY <3>1, <3>2
    <2>4. pending' = pending /\ PendingNames' = {}
        BY DEF Admit, PendingNames
    <2>5. MapsOK'
        BY <2>2, <2>3, <2>4 DEF TypeOK, MapsOK
    <2> QED BY <1>1, <1>2, <2>5, Frames DEF Admit, TypeOK, diskVars
<1>3. CASE ~fits
    <2>1. DiskOK'
        BY <1>3, UnlinkType DEF Admit, TypeOK
    <2> QED BY <1>1, <1>3, <2>1, Frames DEF Admit, TypeOK, mapVars
<1> QED BY <1>2, <1>3

-----------------------------------------------------------------------------
(* Type correctness: planning *)

\* The digests of a list of nodes are digests.
LEMMA DigestsOfType ==
    ASSUME NEW files \in Seq(Nodes)
    PROVE  DigestsOf(files) \subseteq Digests
<1>1. \A i \in DOMAIN files : files[i] \in Nodes
    OBVIOUS
<1> QED BY <1>1, FilesystemAssumption DEF DigestsOf

\* The place of a digest in a list of files is the index of a file of it, so
\* two digests have two places.
LEMMA PosFacts ==
    ASSUME NEW files \in Seq(Nodes), NEW d \in DigestsOf(files)
    PROVE  Pos(files, d) \in Nat /\ DigestOf[files[Pos(files, d)]] = d
<1> DEFINE I == {i \in DOMAIN files : DigestOf[files[i]] = d}
<1>1. DOMAIN files = 1..Len(files) /\ Len(files) \in Nat
    OBVIOUS
<1>2. I \subseteq Nat /\ I # {}
    BY <1>1 DEF DigestsOf
<1>3. PICK i \in I : \A j \in I : ~(<<j, i>> \in OpToRel(<, Nat))
    <2> HIDE DEF I
    <2> QED BY <1>2, WFMin, NatLessThanWellFounded
<1>4. \A j \in I : ~(j < i)
    BY <1>2, <1>3 DEF OpToRel
<1>5. \A j \in 1..(i - 1) : DigestOf[files[j]] # d
    BY <1>1, <1>4
<1>6. /\ Pos(files, d) \in DOMAIN files
      /\ DigestOf[files[Pos(files, d)]] = d
    BY <1>5 DEF Pos
<1> QED BY <1>1, <1>6

\* Moving the hits to the end of _cached_files keeps it an order.
LEMMA OrderAfterOrders ==
    ASSUME MapsOK, NEW files \in Seq(Nodes), NEW S
    PROVE  Orders(OrderAfter(files, S), CachedNames \ S)
<1> DEFINE K == CachedNames \ S
           R == OrderAfter(files, S)
           H == Hits(files)
<1>1. \A d \in H : Pos(files, d) \in Nat /\ DigestOf[files[Pos(files, d)]] = d
    BY PosFacts DEF Hits
<1>2. \A d, e \in K : <<d, e>> \in R <=>
            IF e \in H THEN d \in H => Pos(files, d) < Pos(files, e)
            ELSE d \notin H /\ <<d, e>> \in older
    BY DEF OrderAfter
<1>3. R \subseteq K \X K
    BY DEF OrderAfter
<1>4. \A d, e \in H : d # e => Pos(files, d) # Pos(files, e)
    BY <1>1
<1>5. Orders(older, CachedNames)
    BY DEF MapsOK
<1>6. \A d \in K : <<d, d>> \notin R
    <2>1. \A d \in K : <<d, d>> \notin older
        BY <1>5 DEF Orders
    <2> HIDE DEF R, H, K
    <2> SUFFICES ASSUME NEW d \in K, <<d, d>> \in R PROVE FALSE
        OBVIOUS
    <2>2. CASE d \in H
        <3>1. Pos(files, d) < Pos(files, d) /\ Pos(files, d) \in Nat
            BY <1>1, <1>2, <2>2
        <3> QED BY <3>1
    <2>3. CASE d \notin H
        BY <1>2, <2>1, <2>3
    <2> QED BY <2>2, <2>3
<1>7. \A d, e \in K : d # e => <<d, e>> \in R \/ <<e, d>> \in R
    <2>1. \A d, e \in K : d # e => <<d, e>> \in older \/ <<e, d>> \in older
        BY <1>5 DEF Orders
    <2> HIDE DEF R, H, K
    <2> QED BY <1>1, <1>2, <1>4, <2>1
<1>8. \A d, e, f \in K : <<d, e>> \in R /\ <<e, f>> \in R => <<d, f>> \in R
    <2>1. \A d, e, f \in K : <<d, e>> \in older /\ <<e, f>> \in older => <<d, f>> \in older
        BY <1>5 DEF Orders
    <2> HIDE DEF R, H, K
    <2> SUFFICES ASSUME NEW d \in K, NEW e \in K, NEW f \in K,
                        <<d, e>> \in R, <<e, f>> \in R
                 PROVE  <<d, f>> \in R
        OBVIOUS
    <2>2. CASE f \in H /\ d \in H
        <3>1. e \in H
            BY <1>2, <2>2
        <3> QED BY <1>1, <1>2, <2>2, <3>1
    <2>3. CASE f \in H /\ d \notin H
        BY <1>2, <2>3
    <2>4. CASE f \notin H
        <3>1. e \notin H /\ <<e, f>> \in older
            BY <1>2, <2>4
        <3>2. d \notin H /\ <<d, e>> \in older
            BY <1>2, <3>1
        <3> QED BY <1>2, <2>1, <2>4, <3>1, <3>2
    <2> QED BY <2>2, <2>3, <2>4
<1> HIDE DEF R, H, K
<1>9. Orders(R, K)
    BY <1>3, <1>6, <1>7, <1>8 DEF Orders
<1> QED BY <1>9 DEF R, K

\* The bytes of the entries, and those of the missing files.
LEMMA StSizeType ==
    ASSUME MapsOK, NEW S \in SUBSET Digests
    PROVE  /\ [d \in Digests |-> cached[d].size] \in [Digests -> Nat]
           /\ IsFiniteSet(S) /\ StSize(S) \in Nat /\ SizeOf(Size, S) \in Nat
<1>1. \A d \in Digests : cached[d].size \in Nat
    BY DEF MapsOK, Infos, NoInfo
<1>2. [d \in Digests |-> cached[d].size] \in [Digests -> Nat]
    BY <1>1
<1>3. IsFiniteSet(S)
    BY FilesystemAssumption, FS_Subset
<1>4. Size \in [Digests -> Nat]
    BY FilesystemAssumption
<1> QED BY <1>2, <1>3, <1>4, SizeOfType DEF StSize

\* A plan moves the hits to the end of _cached_files, forgets the victims,
\* reserves the bytes of the files that are missing and makes their batches.
LEMMA PlanType ==
    ASSUME TypeOK, NEW t \in Fetchers, Plan(t)
    PROVE  TypeOK'
<1> DEFINE files == thread[t].files
           missing == Missing(files)
           victims == Victims(files)
<1>1. /\ files \in Seq(Nodes) /\ files # <<>> /\ thread[t] \in ThreadFields
      /\ MapsOK /\ ThreadsOK /\ BatchesOK
    BY ThreadType DEF Plan, TypeOK
<1>2. /\ missing \subseteq Digests /\ victims \subseteq CachedNames
      /\ CachedNames \subseteq Digests
    BY <1>1, DigestsOfType DEF Missing, Victims, CachedNames
<1>3. PICK place \in [missing -> FreeBatches], list \in [1..Cardinality(victims) -> victims] :
        /\ OldestFirst(list)
        /\ cached' = [d \in Digests |-> IF d \in victims THEN NoInfo ELSE cached[d]]
        /\ older' = OrderAfter(files, victims)
        /\ pending' = [d \in Digests |-> IF d \in missing THEN place[d] ELSE pending[d]]
        /\ current' = current - StSize(victims) + SizeOf(Size, missing)
        /\ batch' = [b \in Batches |->
                IF \E d \in missing : place[d] = b
                THEN NewBatch(files, {d \in missing : place[d] = b})
                ELSE batch[b]]
        /\ thread' = [thread EXCEPT
                ![t].evicting = list,
                ![t].planned = {place[d] : d \in missing},
                ![t].futures = {pending'[d] : d \in DigestsOf(files) \ CachedNames},
                ![t].pc = IF victims # {} THEN "evict"
                          ELSE IF missing # {} THEN "submit" ELSE "wait"]
    BY DEF Plan
<1>4. \A d \in missing : place[d] \in Batches
    BY <1>3 DEF FreeBatches
<1>5. MapsOK'
    <2>1. cached' \in [Digests -> Infos]
        BY <1>1, <1>3, Constants DEF MapsOK
    <2>2. CachedNames' = CachedNames \ victims
        BY <1>3 DEF CachedNames
    <2>3. Orders(OrderAfter(files, victims), CachedNames \ victims)
        BY <1>1, OrderAfterOrders
    <2>4. Orders(older', CachedNames')
        BY <1>3, <2>2, <2>3
    <2>5. pending' \in [Digests -> Batches \cup {None}]
        BY <1>1, <1>3, <1>4 DEF MapsOK
    <2>6. current' \in Int
        <3>1. StSize(victims) \in Nat /\ SizeOf(Size, missing) \in Nat /\ current \in Int
            BY <1>1, <1>2, StSizeType DEF MapsOK
        <3> DEFINE out == StSize(victims)
                   in == SizeOf(Size, missing)
        <3>2. current' = current - out + in
            BY <1>3
        <3> HIDE DEF out, in
        <3>3. out \in Nat /\ in \in Nat /\ current \in Int
            BY <3>1 DEF out, in
        <3> QED BY <3>2, <3>3
    <2>7. CachedNames' \cap PendingNames' = {}
        <3>1. PendingNames' \subseteq PendingNames \cup missing
            BY <1>3 DEF PendingNames
        <3>2. CachedNames \cap missing = {}
            BY DEF Missing, CachedNames
        <3> HIDE DEF missing, victims
        <3> QED BY <1>1, <2>2, <3>1, <3>2 DEF MapsOK
    <2> QED BY <2>1, <2>4, <2>5, <2>6, <2>7 DEF MapsOK
<1>6. BatchesOK'
    <2>1. \A b \in Batches : NewBatch(files, {d \in missing : place[d] = b}) \in BatchRecords
        <3> SUFFICES ASSUME NEW b \in Batches
                     PROVE  NewBatch(files, {d \in missing : place[d] = b}) \in BatchRecords
            OBVIOUS
        <3> DEFINE items == {d \in missing : place[d] = b}
        <3>1. items \in SUBSET Digests
            BY <1>2
        <3> HIDE DEF items, files
        <3>2. NewBatch(files, items) \in BatchRecords
            BY <1>1, <3>1, Constants DEF NewBatch, BatchRecords, Stages
        <3> QED BY <3>2 DEF items
    <2> HIDE DEF files, missing
    <2> QED BY <1>1, <1>3, <2>1 DEF BatchesOK
<1>7. ThreadsOK'
    <2> DEFINE planned == {place[d] : d \in missing}
               futures == {pending'[d] : d \in DigestsOf(files) \ CachedNames}
               p == IF victims # {} THEN "evict" ELSE IF missing # {} THEN "submit" ELSE "wait"
               r == [thread[t] EXCEPT !.evicting = list, !.planned = planned,
                                      !.futures = futures, !.pc = p]
    <2>1. IsFiniteSet(victims) /\ Cardinality(victims) \in Nat
        BY <1>2, FilesystemAssumption, FS_Subset, FS_CardinalityType
    <2>2. list \in Seq(Digests)
        <3> DEFINE n == Cardinality(victims)
        <3> HIDE DEF victims
        <3>1. list \in [1..n -> Digests] /\ n \in Nat
            BY <1>2, <1>3, <2>1
        <3> HIDE DEF n
        <3> QED BY <3>1
    <2>3. planned \in SUBSET Batches
        BY <1>4
    <2>4. futures \in SUBSET Batches
        <3>1. DigestsOf(files) \subseteq Digests
            BY <1>1, DigestsOfType
        <3>2. \A d \in DigestsOf(files) \ CachedNames : d \notin missing => pending[d] \in Batches
            BY <1>1, <3>1 DEF Missing, CachedNames, MapsOK
        <3> HIDE DEF missing, files
        <3>3. \A d \in DigestsOf(files) \ CachedNames : pending'[d] \in Batches
            BY <1>3, <1>4, <3>1, <3>2
        <3> QED BY <3>3
    <2>5. p \in Points /\ p \in {"evict", "submit", "wait"}
        BY DEF Points
    <2>6. p = "evict" => list # <<>>
        <3>1. ASSUME victims # {} PROVE list # <<>>
            <4>1. Cardinality(victims) # 0
                BY <2>1, <3>1, FS_EmptySet
            <4> DEFINE n == Cardinality(victims)
            <4>2. DOMAIN list = 1..n /\ n \in Nat /\ n # 0
                BY <1>3, <2>1, <4>1
            <4> HIDE DEF n, victims
            <4>3. 1 \in DOMAIN list /\ DOMAIN <<>> = {}
                BY <4>2
            <4> QED BY <4>3
        <3> QED BY <3>1
    <2>7. thread' = [thread EXCEPT ![t] = r]
        BY <1>1, <1>3 DEF ThreadsOK
    <2> HIDE DEF planned, futures, p
    <2>8. r \in ThreadFields
        BY <1>1, <2>2, <2>3, <2>4, <2>5 DEF ThreadFields
    <2>9. r.pc = p /\ r.evicting = list /\ r.files = files
        BY <1>1 DEF ThreadFields
    <2> HIDE DEF r, files
    <2> QED BY <1>1, <2>5, <2>6, <2>7, <2>8, <2>9, ThreadMoves
<1> QED BY <1>5, <1>6, <1>7, Frames DEF Plan, TypeOK

-----------------------------------------------------------------------------
(* Type correctness *)

\* Nothing runs and nothing is pending before init() returns, and the files
\* it has yet to look at are there.
BootQuiet ==
    phase # "up" => /\ \A t \in Fetchers : thread[t].pc = "idle"
                    /\ \A b \in Batches : batch[b].stage = "idle"
                    /\ \A d \in Digests : pending[d] = None
                    /\ \A d \in booting : Exists(d)

\* A step of a thread or of a batch finds init() done, and leaves it so.
LEMMA StepsWhenUp ==
    /\ \A t \in Fetchers : FetchStep(t) => thread[t].pc # "idle" /\ UNCHANGED bootVars
    /\ \A t \in Fetchers, files \in Requests :
            Fetch(t, files) => phase = "up" /\ UNCHANGED bootVars
    /\ \A b \in Batches : BatchStep(b) => batch[b].stage # "idle" /\ UNCHANGED bootVars
    /\ \A d \in Digests : Delete(d) \/ Rewrite(d) => phase = "up" /\ UNCHANGED bootVars
<1>1. \A t \in Fetchers : FetchStep(t) => thread[t].pc # "idle" /\ UNCHANGED bootVars
    BY DEF FetchStep, Plan, PlanRaise, Evict, Submit, WaitOk, WaitRaise, Snapshot,
           Link, LinkStat, LinkFile, DropLock, Drop
<1>2. \A t \in Fetchers, files \in Requests :
            Fetch(t, files) => phase = "up" /\ UNCHANGED bootVars
    BY DEF Fetch, bootVars
<1>3. \A b \in Batches : BatchStep(b) => batch[b].stage # "idle" /\ UNCHANGED bootVars
    <2> SUFFICES ASSUME NEW b \in Batches, BatchStep(b)
                 PROVE  batch[b].stage # "idle" /\ UNCHANGED bootVars
        OBVIOUS
    <2>1. CASE Received(b) \/ Lock(b)
        BY <2>1 DEF Received, Lock
    <2>2. ASSUME NEW d \in Digests, Receive(b, d) \/ ReceiveFault(b, d)
          PROVE  batch[b].stage # "idle" /\ UNCHANGED bootVars
        BY <2>2 DEF Receive, ReceiveFault, Incoming
    <2>3. ASSUME NEW d \in Digests, Install(b, d) \/ Rename(b, d) \/ Chmod(b, d)
          PROVE  batch[b].stage # "idle" /\ UNCHANGED bootVars
        BY <2>3 DEF Install, Rename, Chmod
    <2>4. ASSUME NEW d \in Digests, Clean(b, d) \/ Register(b, d)
          PROVE  batch[b].stage # "idle" /\ UNCHANGED bootVars
        BY <2>4 DEF Clean, Register
    <2> QED BY <2>1, <2>2, <2>3, <2>4 DEF BatchStep
<1>4. \A d \in Digests : Delete(d) \/ Rewrite(d) => phase = "up" /\ UNCHANGED bootVars
    BY DEF Delete, Rewrite, bootVars
<1> QED BY <1>1, <1>2, <1>3, <1>4

\* No call and no batch starts before init() is done, and what init() has
\* yet to look at is not removed by anybody else.
LEMMA BootQuietStep ==
    ASSUME TypeOK, BootQuiet, [Next]_vars
    PROVE  BootQuiet'
<1>1. CASE phase = "up" /\ UNCHANGED bootVars
    BY <1>1 DEF BootQuiet, bootVars
<1>2. CASE Restart
    BY <1>2 DEF Restart, BootQuiet, IdleThread, IdleBatch
<1>3. CASE Verify
    <2>1. \A d \in Digests : Verified(d) => Exists(d)
        BY DEF Verified, Exists, NoFile
    <2>2. \A d \in booting' : disk'[d] # NoFile
        BY <1>3, <2>1 DEF Verify, Exists
    <2> QED BY <1>3, <2>2 DEF Verify, BootQuiet, Exists, mapVars
<1>4. ASSUME NEW d \in Digests, Admit(d) PROVE BootQuiet'
    <2>1. \A e \in booting' : disk'[e] = disk[e]
        BY <1>4 DEF Admit, TypeOK, DiskOK, BootOK
    <2> QED BY <1>4, <2>1 DEF Admit, BootQuiet, Exists
<1>5. CASE UNCHANGED vars
    BY <1>5 DEF vars, bootVars, diskVars, mapVars, BootQuiet, Exists
<1> QED BY <1>1, <1>2, <1>3, <1>4, <1>5, StepsWhenUp DEF Next, BootQuiet, Boot

\* Every action keeps the types.
LEMMA TypeStep ==
    ASSUME TypeOK, BootQuiet, [Next]_vars
    PROVE  TypeOK'
<1>1. ASSUME NEW t \in Fetchers, FetchStep(t) PROVE TypeOK'
    BY <1>1, PlanType, ThreadStepType, EvictType, SubmitType, WaitOkType, SnapshotType,
       LinkType, LinkStatType, LinkFileType, DropLockType, DropType DEF FetchStep
<1>2. ASSUME NEW t \in Fetchers, NEW files \in Requests, Fetch(t, files) PROVE TypeOK'
    BY <1>2, FetchType
<1>3. ASSUME NEW b \in Batches, BatchStep(b) PROVE TypeOK'
    BY <1>3, ReceivedType, LockType, ReceiveType, ReceiveFaultType, InstallType, RenameType,
       ChmodType, CleanType, RegisterType DEF BatchStep
<1>4. ASSUME NEW d \in Digests, Delete(d) \/ Rewrite(d) PROVE TypeOK'
    BY <1>4, EnvironmentType
<1>5. ASSUME Restart PROVE TypeOK'
    BY <1>5, RestartType
<1>6. ASSUME Boot PROVE TypeOK'
    <2>1. ASSUME NEW d \in Digests, Admit(d) PROVE TypeOK'
        <3>1. Exists(d) /\ PendingNames = {}
            BY <2>1 DEF Admit, BootQuiet, PendingNames
        <3> QED BY <2>1, <3>1, AdmitType
    <2> QED BY <1>6, <2>1, VerifyType DEF Boot
<1>7. ASSUME UNCHANGED vars PROVE TypeOK'
    BY <1>7, Frames DEF vars, TypeOK
<1> QED BY <1>1, <1>2, <1>3, <1>4, <1>5, <1>6, <1>7 DEF Next

\* The object, the cache directory and the threads that use them stay within
\* their types whatever the faults: the lists a step takes the head of are
\* not empty, and the order of _cached_files is one of its entries.
THEOREM TypeCorrect == Spec => []TypeOK
<1>1. Init => TypeOK /\ BootQuiet
    BY InitType DEF Init, BootQuiet
<1>2. TypeOK /\ BootQuiet /\ [Next]_vars => TypeOK' /\ BootQuiet'
    BY TypeStep, BootQuietStep
<1> QED BY <1>1, <1>2, PTL DEF Spec

-----------------------------------------------------------------------------
(* The budget *)

\* Members of a finite set that R orders have a first one.
LEMMA OrderHasFirst ==
    ASSUME NEW S, IsFiniteSet(S), NEW R, Orders(R, S), NEW T, T \subseteq S, T # {}
    PROVE  \E d \in T : \A e \in T : <<e, d>> \notin R
<1> DEFINE Before(d) == {e \in S : <<e, d>> \in R}
           rank == [d \in S |-> Cardinality(Before(d))]
           N == {rank[d] : d \in T}
<1>1. \A d \in S : IsFiniteSet(Before(d)) /\ rank[d] \in Nat
    <2> SUFFICES ASSUME NEW d \in S PROVE IsFiniteSet(Before(d)) /\ rank[d] \in Nat
        OBVIOUS
    <2>1. Before(d) \subseteq S
        OBVIOUS
    <2> QED BY <2>1, FS_Subset, FS_CardinalityType
<1>2. N \subseteq Nat /\ N # {}
    BY <1>1
<1>3. PICK n \in N : \A m \in N : ~(<<m, n>> \in OpToRel(<, Nat))
    <2> HIDE DEF N
    <2> QED BY <1>2, WFMin, NatLessThanWellFounded
<1>4. \A m \in N : ~(m < n)
    BY <1>2, <1>3 DEF OpToRel
<1>5. PICK d \in T : n = rank[d]
    OBVIOUS
<1>6. ASSUME NEW e \in T, <<e, d>> \in R PROVE FALSE
    <2>1. e \in S /\ d \in S
        OBVIOUS
    <2>2. Before(e) \subseteq Before(d)
        BY <1>6, <2>1 DEF Orders
    <2>3. e \in Before(d) /\ e \notin Before(e)
        BY <1>6, <2>1 DEF Orders
    <2>4. Cardinality(Before(e)) < Cardinality(Before(d))
        <3> HIDE DEF Before
        <3>1. Before(e) # Before(d)
            BY <2>3
        <3> QED BY <1>1, <2>1, <2>2, <3>1, FS_Subset
    <2>5. rank[e] < rank[d] /\ rank[e] \in N
        BY <2>1, <2>4
    <2> QED BY <1>4, <1>5, <2>5
<1> QED BY <1>6

\* The entries that the order of _cached_files orders have an oldest one, and
\* a newest.
LEMMA OldestEntry ==
    ASSUME MapsOK, NEW T, T \subseteq CachedNames, T # {}
    PROVE  \E d \in T : \A e \in T : <<e, d>> \notin older
<1>1. IsFiniteSet(CachedNames)
    BY FilesystemAssumption, FS_Subset DEF CachedNames
<1> QED BY <1>1, OrderHasFirst DEF MapsOK

LEMMA NewestEntry ==
    ASSUME MapsOK, NEW T, T \subseteq CachedNames, T # {}
    PROVE  \E d \in T : \A e \in T : <<d, e>> \notin older
<1> DEFINE newer == {p \in CachedNames \X CachedNames : <<p[2], p[1]>> \in older}
<1>1. IsFiniteSet(CachedNames)
    BY FilesystemAssumption, FS_Subset DEF CachedNames
<1>2. /\ older \subseteq CachedNames \X CachedNames
      /\ \A d \in CachedNames : <<d, d>> \notin older
      /\ \A d, e \in CachedNames : d # e => <<d, e>> \in older \/ <<e, d>> \in older
      /\ \A d, e, f \in CachedNames :
            <<d, e>> \in older /\ <<e, f>> \in older => <<d, f>> \in older
    BY DEF MapsOK, Orders
<1>3. \A d, e \in CachedNames : <<d, e>> \in newer <=> <<e, d>> \in older
    OBVIOUS
<1>4. newer \subseteq CachedNames \X CachedNames
    OBVIOUS
<1> HIDE DEF newer
<1>5. Orders(newer, CachedNames)
    BY <1>2, <1>3, <1>4 DEF Orders
<1>6. PICK d \in T : \A e \in T : <<e, d>> \notin newer
    BY <1>1, <1>5, OrderHasFirst
<1> QED BY <1>3, <1>6

\* The evictions release the bytes the missing files need, unless the whole
\* cache would not.
LEMMA VictimsSuffice ==
    ASSUME MapsOK, NEW files, MaxSize > 0, ~(StSize(CachedNames) < Need(files)),
           Need(files) \in Int
    PROVE  StSize(Victims(files)) >= Need(files)
<1> DEFINE V == Victims(files)
           K == CachedNames \ V
<1>1. CachedNames \subseteq Digests
    BY DEF CachedNames
<1>2. \A d \in CachedNames :
        d \in V <=> StSize({e \in CachedNames : <<e, d>> \in older}) < Need(files)
    BY FilesystemAssumption DEF Victims
<1>3. V \subseteq CachedNames
    BY DEF Victims
<1>4. CASE K = {}
    <2>1. V = CachedNames
        BY <1>3, <1>4
    <2>2. StSize(CachedNames) \in Nat
        BY <1>1, StSizeType
    <2> HIDE DEF V
    <2>3. StSize(V) \in Nat /\ ~(StSize(V) < Need(files))
        BY <2>1, <2>2
    <2> QED BY <2>3 DEF V
<1>5. CASE K # {}
    <2>1. PICK d \in K : \A e \in K : <<e, d>> \notin older
        BY <1>5, OldestEntry
    <2> DEFINE B == {e \in CachedNames : <<e, d>> \in older}
    <2>2. B \subseteq V
        BY <2>1
    <2>3. StSize(B) \in Nat /\ StSize(V) \in Nat /\ StSize(B) >= Need(files)
        <3>1. StSize(B) \in Nat /\ StSize(V) \in Nat
            BY <1>1, <1>3, <2>2, StSizeType
        <3>2. ~(StSize(B) < Need(files))
            BY <1>2
        <3> HIDE DEF B, V
        <3> QED BY <3>1, <3>2
    <2>4. StSize(B) <= StSize(V)
        <3> DEFINE sz == [e \in Digests |-> cached[e].size]
        <3>1. sz \in [Digests -> Nat] /\ IsFiniteSet(V) /\ V \in SUBSET Digests
            BY <1>1, <1>3, StSizeType
        <3> HIDE DEF B, V, sz
        <3>2. /\ SizeOf(sz, V) = SizeOf(sz, B) + SizeOf(sz, V \ B)
              /\ SizeOf(sz, B) \in Nat /\ SizeOf(sz, V \ B) \in Nat
            BY <2>2, <3>1, SizeOfSplit
        <3>3. SizeOf(sz, B) <= SizeOf(sz, V)
            BY <3>2
        <3> QED BY <3>3 DEF StSize, sz
    <2> HIDE DEF B, V
    <2>5. StSize(V) >= Need(files)
        BY <2>3, <2>4
    <2> QED BY <2>5 DEF V
<1> QED BY <1>4, <1>5

\* A plan reserves no more than is free or released.
LEMMA PlanWithinBudget ==
    ASSUME TypeOK, WithinBudget, NEW t \in Fetchers, Plan(t)
    PROVE  WithinBudget'
<1> SUFFICES ASSUME MaxSize > 0 PROVE current' <= MaxSize
    BY DEF WithinBudget
<1> DEFINE files == thread[t].files
           V == Victims(files)
           in == SizeOf(Size, Missing(files))
           out == StSize(V)
<1>1. MapsOK /\ files \in Seq(Nodes)
    BY ThreadType DEF TypeOK
<1>2. Missing(files) \in SUBSET Digests /\ V \in SUBSET Digests
    BY <1>1, DigestsOfType DEF Missing, Victims, CachedNames
<1>3. in \in Nat /\ out \in Nat /\ current \in Int /\ MaxSize \in Nat
    BY <1>1, <1>2, StSizeType, FilesystemAssumption DEF MapsOK
<1>4. current' = current - out + in
    BY DEF Plan
<1>5. Need(files) = in - (MaxSize - current)
    BY DEF Need
<1>6. ~(StSize(CachedNames) < Need(files))
    BY DEF Plan, MaxSizeReached
<1> HIDE DEF in, out, files, V
<1>7. Need(files) \in Int
    BY <1>3, <1>5
<1>8. out >= Need(files)
    BY <1>1, <1>6, <1>7, VictimsSuffice DEF out, V
<1> QED BY <1>3, <1>4, <1>5, <1>8

\* Every other step of a thread, and every step of a batch, leaves the total
\* or lowers it.
LEMMA ThreadsLower ==
    ASSUME TypeOK, NEW t \in Fetchers, FetchStep(t), ~Plan(t)
    PROVE  current' \in Int /\ current' <= current
<1>1. current \in Int /\ MapsOK
    BY DEF TypeOK, MapsOK
<1>2. CASE UNCHANGED current
    BY <1>1, <1>2
<1>3. CASE Drop(t)
    <2> DEFINE d == DigestOf[Corrupted(t)]
    <2>1. d \in Digests
        <3>1. thread[t].corrupted \in Seq(Nodes) /\ thread[t].corrupted # <<>>
            BY <1>3, ThreadType DEF Drop, TypeOK
        <3> QED BY <3>1, TailFacts, FilesystemAssumption DEF Corrupted
    <2>2. UNCHANGED current \/ current' = current - Size[d]
        BY <1>3 DEF Drop, Forget, mapVars
    <2> HIDE DEF d
    <2>3. current - Size[d] \in Int /\ current - Size[d] <= current
        BY <1>1, <2>1, Shrinks
    <2> QED BY <1>1, <2>2, <2>3
<1> QED BY <1>2, <1>3 DEF FetchStep, PlanRaise, Evict, Submit, WaitOk, WaitRaise, Snapshot,
           Link, LinkStat, LinkFile, DropLock, mapVars

\* A batch gives back the bytes of what it failed to bring, and takes none.
LEMMA BatchesLower ==
    ASSUME TypeOK, NEW b \in Batches, BatchStep(b)
    PROVE  current' \in Int /\ current' <= current
<1>1. current \in Int /\ MapsOK
    BY DEF TypeOK, MapsOK
<1>2. CASE UNCHANGED current
    BY <1>1, <1>2
<1>3. ASSUME NEW d \in Digests, current' = current - Size[d]
      PROVE  current' \in Int /\ current' <= current
    BY <1>1, <1>3, Shrinks
<1>4. ASSUME NEW d \in Digests, Clean(b, d) \/ Register(b, d)
      PROVE  UNCHANGED current \/ current' = current - Size[d]
    BY <1>4 DEF Clean, Register, Reclaim, mapVars
<1>5. ASSUME NEW d \in Digests,
             \/ Receive(b, d) \/ ReceiveFault(b, d) \/ Install(b, d)
             \/ Rename(b, d) \/ Chmod(b, d)
      PROVE  UNCHANGED current
    BY <1>5 DEF Receive, ReceiveFault, Install, Rename, Chmod, mapVars
<1>6. ASSUME Received(b) \/ Lock(b) PROVE UNCHANGED current
    BY <1>6 DEF Received, Lock, mapVars
<1> QED BY <1>2, <1>3, <1>4, <1>5, <1>6 DEF BatchStep

\* Only a plan and init() add to the total, within the limit.
LEMMA BudgetStep ==
    ASSUME TypeOK, BootQuiet, WithinBudget, [Next]_vars
    PROVE  WithinBudget'
<1>1. current \in Int /\ MaxSize \in Nat
    BY FilesystemAssumption DEF TypeOK, MapsOK
<1>2. ASSUME current' \in Int, current' <= current PROVE WithinBudget'
    BY <1>1, <1>2 DEF WithinBudget
<1>3. CASE UNCHANGED current
    BY <1>1, <1>2, <1>3
<1>4. ASSUME NEW t \in Fetchers, FetchStep(t) PROVE WithinBudget'
    BY <1>2, <1>4, PlanWithinBudget, ThreadsLower
<1>5. ASSUME NEW b \in Batches, BatchStep(b) PROVE WithinBudget'
    BY <1>2, <1>5, BatchesLower
<1>6. CASE Restart
    BY <1>1, <1>6 DEF Restart, WithinBudget
<1>7. ASSUME NEW d \in Digests, Admit(d) PROVE WithinBudget'
    <2>1. CASE UNCHANGED current
        BY <1>3, <2>1
    <2>2. CASE /\ MaxSize = 0 \/ disk[d].size + current <= MaxSize
               /\ current' = current + disk[d].size
        <3>1. disk[d].size \in Nat
            BY DEF TypeOK, DiskOK, Files, NoFile
        <3> QED BY <1>1, <2>2, <3>1 DEF WithinBudget
    <2> QED BY <1>7, <2>1, <2>2 DEF Admit
<1>8. CASE \/ \E t \in Fetchers, files \in Requests : Fetch(t, files)
           \/ \E d \in Digests : Delete(d) \/ Rewrite(d)
           \/ Verify \/ UNCHANGED vars
    <2>1. UNCHANGED current
        BY <1>8 DEF Fetch, Delete, Rewrite, Verify, vars, mapVars
    <2> QED BY <1>3, <2>1
<1> QED BY <1>4, <1>5, <1>6, <1>7, <1>8 DEF Next, Boot

\* A cache with a limit never accounts for more bytes than its limit, the
\* bytes reserved for downloads that are on their way included: whatever
\* fails, whoever removes or rewrites files, and across restarts.
THEOREM BudgetHolds == Spec => []WithinBudget
<1>1. Init => TypeOK /\ BootQuiet /\ WithinBudget
    BY InitType, FilesystemAssumption DEF Init, BootQuiet, WithinBudget
<1>2. TypeOK /\ BootQuiet /\ WithinBudget /\ [Next]_vars
            => TypeOK' /\ BootQuiet' /\ WithinBudget'
    BY TypeStep, BootQuietStep, BudgetStep
<1> QED BY <1>1, <1>2, PTL DEF Spec

-----------------------------------------------------------------------------
(* What init() achieves, whatever a crash left in the cache directory *)


\* Before the verification the object is empty.  After it every file is a
\* verified one, which is either entered in _cached_files or yet to be looked
\* at, and the total is the size of the entries.
Sound(d) ==
    /\ tmp[d] = NoTmp
    /\ Exists(d) => disk[d].intact /\ disk[d].size = Size[d]
    /\ Exists(d) <=> d \in booting \cup CachedNames
Recovering ==
    /\ phase = "verify" => CachedNames = {} /\ current = 0
    /\ phase = "admit" => /\ \A d \in Digests : Sound(d)
                          /\ booting \cap CachedNames = {}
                          /\ current = SizeOf(Size, CachedNames)

\* The same when init() has looked at every file.
Recovered ==
    /\ \A d \in Digests : Sound(d)
    /\ booting = {} /\ current = SizeOf(Size, CachedNames)

\* Bytes are only counted where there are files.
LEMMA DiskSize ==
    ASSUME \A d \in Digests : /\ Exists(d) <=> d \in CachedNames
                              /\ Exists(d) => disk[d].size = Size[d]
    PROVE  SizeOf([d \in Digests |-> disk[d].size], Digests) = SizeOf(Size, CachedNames)
<1> DEFINE f == [d \in Digests |-> disk[d].size]
<1>1. CachedNames \subseteq Digests /\ \A d \in CachedNames : f[d] = Size[d]
    BY DEF CachedNames
<1>2. \A d \in Digests : d \notin CachedNames => f[d] = 0
    BY DEF Exists, NoFile
<1>3. 1..0 = {}
    OBVIOUS
<1> HIDE DEF f
<1>4. Bytes(f, Digests) = Bytes(f, CachedNames)
    BY <1>1, <1>2, <1>3 DEF Bytes
<1>5. SizeOf(f, CachedNames) = SizeOf(Size, CachedNames)
    BY <1>1, SizeOfAgree
<1> QED BY <1>4, <1>5 DEF SizeOf, f

\* The verification leaves what it verified, to be looked at.
LEMMA VerifyRecovers ==
    ASSUME TypeOK, Recovering, Verify
    PROVE  Recovering' /\ (phase' = "up" => Recovered')
<1> DEFINE good == {d \in Digests : Verified(d)}
<1>1. /\ disk' = [d \in Digests |-> IF d \in good THEN disk[d] ELSE NoFile]
      /\ tmp' = [d \in Digests |-> NoTmp] /\ booting' = good
      /\ phase' = (IF good = {} THEN "up" ELSE "admit") /\ UNCHANGED <<cached, current>>
    BY DEF Verify, mapVars
<1>2. CachedNames' = {} /\ current' = 0
    BY <1>1 DEF Verify, Recovering, CachedNames
<1>3. ASSUME NEW d \in Digests PROVE Sound(d)'
    <2>1. d \in good => disk[d] # NoFile /\ disk[d].intact /\ disk[d].size = Size[d]
        BY DEF Verified, NoFile
    <2> QED BY <1>1, <1>2, <2>1 DEF Sound, Exists
<1>4. SizeOf(Size, {}) = 0
    BY SizeOfEmpty
<1> QED BY <1>1, <1>2, <1>3, <1>4 DEF Recovering, Recovered

\* A file that fits is entered, another one is removed.
LEMMA AdmitRecovers ==
    ASSUME TypeOK, Recovering, NEW d \in Digests, Admit(d)
    PROVE  Recovering' /\ (phase' = "up" => Recovered')
<1>1. /\ phase = "admit" /\ d \in booting /\ booting' = booting \ {d} /\ UNCHANGED tmp
      /\ phase' \in {"admit", "up"} /\ (phase' = "up" => booting' = {})
    BY DEF Admit
<1>2. /\ \A e \in Digests : Sound(e)
      /\ booting \cap CachedNames = {} /\ current = SizeOf(Size, CachedNames)
      /\ d \notin CachedNames /\ Exists(d)
    BY <1>1 DEF Recovering, Sound
<1>3. disk \in [Digests -> Files] /\ cached \in [Digests -> Infos]
    BY DEF TypeOK, DiskOK, MapsOK
<1>4. CASE MaxSize = 0 \/ disk[d].size + current <= MaxSize
    <2>1. /\ cached' = [cached EXCEPT ![d] = FileCacheInfo(disk[d])]
          /\ current' = current + disk[d].size /\ UNCHANGED disk
        BY <1>4 DEF Admit
    <2>2. FileCacheInfo(disk[d]) # NoInfo
        BY <1>2, StatType DEF TypeOK
    <2>3. CachedNames' = CachedNames \cup {d}
        BY <1>3, <2>1, <2>2 DEF CachedNames
    <2>4. \A e \in Digests : Sound(e)'
        BY <1>1, <1>2, <2>1, <2>3 DEF Sound, Exists
    <2>5. current' = SizeOf(Size, CachedNames')
        <3>1. Size \in [Digests -> Nat] /\ CachedNames \in SUBSET Digests /\ IsFiniteSet(CachedNames)
            BY FilesystemAssumption, FS_Subset DEF CachedNames
        <3>2. SizeOf(Size, CachedNames \cup {d}) = SizeOf(Size, CachedNames) + Size[d]
            BY <1>2, <3>1, SizeOfAdd
        <3>3. disk[d].size = Size[d]
            BY <1>2 DEF Sound
        <3> QED BY <1>2, <2>1, <2>3, <3>2, <3>3
    <2>6. booting' \cap CachedNames' = {}
        BY <1>1, <1>2, <2>3
    <2> QED BY <1>1, <2>4, <2>5, <2>6 DEF Recovering, Recovered
<1>5. CASE ~(MaxSize = 0 \/ disk[d].size + current <= MaxSize)
    <2>1. UNCHANGED <<cached, current>> /\ disk' = [disk EXCEPT ![d] = NoFile]
        BY <1>5 DEF Admit
    <2>2. CachedNames' = CachedNames
        BY <2>1 DEF CachedNames
    <2>3. \A e \in Digests : Sound(e)'
        BY <1>1, <1>2, <1>3, <2>1, <2>2 DEF Sound, Exists
    <2>4. booting' \cap CachedNames' = {} /\ current' = SizeOf(Size, CachedNames')
        BY <1>1, <1>2, <2>1, <2>2
    <2> QED BY <1>1, <2>3, <2>4 DEF Recovering, Recovered
<1> QED BY <1>4, <1>5

\* Nothing else runs before init() returns, but for another restart.
LEMMA RecoveringStep ==
    ASSUME TypeOK, BootQuiet, Recovering, [Next]_vars
    PROVE  Recovering' /\ (phase # "up" /\ phase' = "up" => Recovered')
<1>1. CASE Restart
    <2>1. CachedNames' = {} /\ current' = 0 /\ phase' = "verify"
        BY <1>1 DEF Restart, CachedNames
    <2> QED BY <2>1 DEF Recovering
<1>2. CASE Boot
    BY <1>2, VerifyRecovers, AdmitRecovers DEF Boot
<1>3. CASE UNCHANGED vars
    BY <1>3 DEF vars, diskVars, mapVars, bootVars, Recovering, Sound, Exists, CachedNames
<1>4. CASE \/ \E t \in Fetchers : FetchStep(t) \/ \E files \in Requests : Fetch(t, files)
           \/ \E b \in Batches : BatchStep(b)
           \/ \E d \in Digests : Delete(d) \/ Rewrite(d)
    <2>1. phase = "up" /\ phase' = "up"
        BY <1>4, StepsWhenUp DEF BootQuiet, Delete, Rewrite, bootVars
    <2> QED BY <2>1 DEF Recovering
<1> QED BY <1>1, <1>2, <1>3, <1>4 DEF Next

\* Whenever init() ends the cache directory, _cached_files and the total
\* agree on a set of whole files that fits, whatever a crash left behind: a
\* ".tmp" file, a file without its mode, one that a program wrote to, or
\* entries of a batch that was only half installed.
THEOREM RestartsRecover == Spec => RestartRecovers
<1>1. Init => TypeOK /\ BootQuiet /\ WithinBudget /\ Recovering
    BY InitType, FilesystemAssumption DEF Init, BootQuiet, WithinBudget, Recovering
<1>2. TypeOK /\ BootQuiet /\ WithinBudget /\ Recovering /\ [Next]_vars
            => TypeOK' /\ BootQuiet' /\ WithinBudget' /\ Recovering'
    BY TypeStep, BootQuietStep, BudgetStep, RecoveringStep
<1>3. (TypeOK /\ (\A d \in Digests : Sound(d)) /\ booting = {} =>
            SizeOf([d \in Digests |-> disk[d].size], Digests) = SizeOf(Size, CachedNames))'
    <2>1. TypeOK /\ (\A d \in Digests : Sound(d)) /\ booting = {} =>
            SizeOf([d \in Digests |-> disk[d].size], Digests) = SizeOf(Size, CachedNames)
        BY DiskSize DEF Sound
    <2> QED BY <2>1, PTL
<1>4. ASSUME TypeOK, TypeOK', WithinBudget', BootQuiet, Recovering, [Next]_vars,
             phase # "up", phase' = "up"
      PROVE  /\ \A d \in Digests : /\ tmp'[d] = NoTmp
                                   /\ (disk'[d] # NoFile) <=> (cached'[d] # NoInfo)
                                   /\ disk'[d] # NoFile => disk'[d].intact
             /\ current' = SizeOf([d \in Digests |-> disk'[d].size], Digests)
             /\ MaxSize > 0 => current' <= MaxSize
    <2>1. Recovered'
        BY <1>4, RecoveringStep
    <2>2. current' = SizeOf([d \in Digests |-> disk'[d].size], Digests)
        BY <1>4, <1>3, <2>1 DEF Recovered
    <2>3. \A d \in Digests : /\ tmp'[d] = NoTmp
                             /\ (disk'[d] # NoFile) <=> (cached'[d] # NoInfo)
                             /\ disk'[d] # NoFile => disk'[d].intact
        BY <2>1 DEF Recovered, Sound, Exists, CachedNames
    <2> QED BY <1>4, <2>2, <2>3 DEF WithinBudget
<1>5. TypeOK /\ BootQuiet /\ WithinBudget /\ Recovering /\ TypeOK' /\ WithinBudget' /\ [Next]_vars =>
        [phase # "up" /\ phase' = "up" =>
            /\ \A d \in Digests : /\ tmp'[d] = NoTmp
                                  /\ (disk'[d] # NoFile) <=> (cached'[d] # NoInfo)
                                  /\ disk'[d] # NoFile => disk'[d].intact
            /\ current' = SizeOf([d \in Digests |-> disk'[d].size], Digests)
            /\ MaxSize > 0 => current' <= MaxSize]_vars
    BY <1>4
<1> QED BY <1>1, <1>2, <1>5, PTL DEF Spec, RestartRecovers
=============================================================================
