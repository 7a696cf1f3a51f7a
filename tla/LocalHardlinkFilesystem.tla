----------------------- MODULE LocalHardlinkFilesystem -----------------------
(***************************************************************************)
(* The file cache of the worker (src/bbworker/filesystem.py).  Threads     *)
(* call fetch_to to hard-link a list of files into a directory of theirs:  *)
(* a call plans downloads and evictions under the global lock, waits for   *)
(* the futures of the batches that bring its files, links what the cache   *)
(* holds, and starts over with the files it could not link.  The threads   *)
(* of a pool download the batches, verify the bytes, move the files into   *)
(* the cache directory and register them.                                  *)
(*                                                                         *)
(* Two kinds of lock protect the cache directory: the evictor, the linker  *)
(* and the installer hold the lock of one file, while the code that drops  *)
(* corrupted files, the error handler of a batch and its registration hold *)
(* the global lock.  They do not exclude each other, so each of these      *)
(* tests, stats, links and unlinks is a step of its own here; what happens *)
(* to the maps of the object under the global lock is one step.            *)
(***************************************************************************)
EXTENDS Integers, Sequences, FiniteSets, CacheSizes

CONSTANTS
    Fetchers,       \* the threads that call fetch_to
    Nodes,          \* the FileNodes of the requests
    Digests,        \* the contents; a file of the cache is named by one
    DigestOf,       \* the digest of each node
    Size,           \* digest.size_bytes
    MaxSize,        \* max_cache_size_bytes, 0 when the cache is not limited
    BatchSize,      \* download_batch_size_bytes
    MessageLimit,   \* blobs of this size and more are streamed in blocks
    Requests,       \* the lists of nodes that are fetched
    MaxBatches,     \* bound: batches whose future somebody may still look at
    MaxStamp,       \* bound: modification times told apart for one file
    Faults,         \* what the environment may do, see below
    None

\* backend: the CAS refuses a blob, or a call fails.  corrupt: a blob has
\* another content than its digest, or more bytes.  truncate: it has fewer
\* bytes, or is not answered at all.  delete, rewrite: a program removes a
\* file of the cache, or changes it through one of its hard links.  restart:
\* the worker stops and starts.
FaultKinds == {"backend", "corrupt", "truncate", "delete", "rewrite", "restart"}

ASSUME FilesystemAssumption ==
    /\ DigestOf \in [Nodes -> Digests]
    /\ Size \in [Digests -> Nat]
    /\ MaxSize \in Nat /\ BatchSize \in Nat /\ MessageLimit \in Nat \ {0}
    /\ MaxBatches \in Nat /\ MaxStamp \in Nat
    /\ Requests \subseteq Seq(Nodes) \ {<<>>}
    /\ Faults \subseteq FaultKinds
    /\ IsFiniteSet(Digests)
    /\ None \notin Fetchers \cup Digests \cup Nat
    /\ Fetchers \cap Nat = {}

Batches == 1..MaxBatches

VARIABLES
    disk,           \* the cache directory: the file named by each digest
    tmp,            \* the bytes written to each ".tmp" file, -1 for no file
    cached,         \* _cached_files: the FileCacheInfo of each digest
    older,          \* the order of _cached_files, an OrderedDict
    pending,        \* _pending_files: the batch that brings each digest
    current,        \* _current_size_bytes
    globalLock,     \* the holder of _global_lock
    fileLock,       \* the holder of the lock of each path, _file_lock
    thread,         \* the call of fetch_to each fetcher is in
    batch,          \* the DownloadBatch objects
    phase,          \* "up", or init() is running: "verify", then "admit"
    booting         \* the verified files init() has yet to look at

lockVars == <<globalLock, fileLock>>
mapVars == <<cached, older, pending, current>>
diskVars == <<disk, tmp>>
bootVars == <<phase, booting>>
vars == <<diskVars, mapVars, lockVars, thread, batch, bootVars>>

-----------------------------------------------------------------------------
(* Files and maps *)

\* What stat() says of a file, and whether its content is the digest's.
NoInfo == [stamp |-> 0, size |-> 0, readonly |-> FALSE]
NoFile == [stamp |-> 0, size |-> 0, readonly |-> FALSE, intact |-> FALSE]
Infos == {NoInfo} \cup [stamp : 1..MaxStamp, size : Nat, readonly : BOOLEAN]
Files == {NoFile} \cup
    [stamp : 1..MaxStamp, size : Nat, readonly : BOOLEAN, intact : BOOLEAN]
NoTmp == -1

FileCacheInfo(file) ==
    [stamp |-> file.stamp, size |-> file.size, readonly |-> file.readonly]
Exists(d) == disk[d] # NoFile

CachedNames == {d \in Digests : cached[d] # NoInfo}
PendingNames == {d \in Digests : pending[d] # None}
\* A new key goes to the end of the OrderedDict, a known one stays in place.
Appended(d) == IF d \in CachedNames THEN older ELSE older \cup (CachedNames \X {d})
StSize(S) == SizeOf([d \in Digests |-> cached[d].size], S)

\* Modification times no stat or map still holds: a new file gets the least.
FreshStamp(d, s) ==
    LET used == {disk[d].stamp, cached[d].stamp}
                    \cup {thread[t].snap[d].stamp : t \in Fetchers}
    IN  s \in (1..MaxStamp) \ used /\ 1..(s - 1) \subseteq used

DigestsOf(files) == {DigestOf[files[i]] : i \in DOMAIN files}
Pos(files, d) == CHOOSE i \in DOMAIN files :
                    /\ DigestOf[files[i]] = d
                    /\ \A j \in 1..(i - 1) : DigestOf[files[j]] # d
Earlier(files, S, d) == {e \in S : Pos(files, e) < Pos(files, d)}

IdleThread ==
    [pc |-> "idle", request |-> <<>>, files |-> <<>>, evicting |-> <<>>,
     planned |-> {}, futures |-> {}, snap |-> [d \in Digests |-> NoInfo],
     corrupted |-> <<>>, missing |-> <<>>,
     linked |-> [n \in Nodes |-> "no"], outcome |-> "none"]
IdleBatch ==
    [stage |-> "idle", items |-> {}, order |-> <<>>, todo |-> {}, at |-> None,
     unread |-> FALSE, future |-> "none"]

Init ==
    /\ disk = [d \in Digests |-> NoFile] /\ tmp = [d \in Digests |-> NoTmp]
    /\ cached = [d \in Digests |-> NoInfo] /\ older = {}
    /\ pending = [d \in Digests |-> None] /\ current = 0
    /\ globalLock = None /\ fileLock = [d \in Digests |-> None]
    /\ thread = [t \in Fetchers |-> IdleThread]
    /\ batch = [b \in Batches |-> IdleBatch]
    /\ phase = "up" /\ booting = {}

Unlock(d) == fileLock' = [fileLock EXCEPT ![d] = None]

\* fetch_to leaves by an exception, or returns.
Leave(t, outcome) ==
    thread' = [thread EXCEPT ![t] = [IdleThread EXCEPT !.outcome = outcome]]

-----------------------------------------------------------------------------
(* fetch_to and _download_missing_files: planning *)

Fetch(t, files) ==
    /\ thread[t].pc = "idle" /\ phase = "up"
    /\ thread' = [thread EXCEPT ![t] =
            [IdleThread EXCEPT !.pc = "plan", !.request = files, !.files = files]]
    /\ UNCHANGED <<diskVars, mapVars, lockVars, batch, bootVars>>

\* A plausible bug: files that are on their way are downloaded again.
Missing_Mutant(files) == {d \in DigestsOf(files) : cached[d] = NoInfo}

Missing(files) == {d \in DigestsOf(files) : cached[d] = NoInfo /\ pending[d] = None}
Hits(files) == DigestsOf(files) \cap CachedNames

\* A plausible bug: the room that is already taken is not counted.
Need_Mutant(files) == SizeOf(Size, Missing(files)) - MaxSize

\* The bytes that evictions must release before the missing files fit.
Need(files) == SizeOf(Size, Missing(files)) - (MaxSize - current)

\* A plausible bug: the eviction does not stop where it should.
Victims_Mutant(files) ==
    IF MaxSize = 0 THEN {}
    ELSE {d \in CachedNames :
            StSize({d} \cup {e \in CachedNames : <<e, d>> \in older}) < Need(files)}

\* The oldest entries, up to the first that releases enough.
Victims(files) ==
    IF MaxSize = 0 THEN {}
    ELSE {d \in CachedNames :
            StSize({e \in CachedNames : <<e, d>> \in older}) < Need(files)}

MaxSizeReached(files) ==
    /\ MaxSize > 0
    /\ \/ \E d \in Missing(files) : Size[d] > MaxSize
       \/ StSize(CachedNames) < Need(files)

\* The batch objects nothing refers to any more.
FreeBatches == {b \in Batches : /\ batch[b].stage \in {"idle", "done"}
                                /\ \A d \in Digests : pending[d] # b
                                /\ \A t \in Fetchers : b \notin thread[t].futures}

\* place[d] is the batch that will bring d.  A file above the batch size has
\* a batch for itself; the others fill one batch after the other, in the
\* order of the request.  The first batch of the small files comes first in
\* batch_list, the others follow in the order they were started.
Split(files, missing, place) ==
    LET small == {d \in missing : Size[d] <= BatchSize}
        before(d) == Earlier(files, small, d)
        last(d) == CHOOSE e \in before(d) : before(d) \ {e} = before(e)
        together(d) == {e \in before(d) : place[e] = place[last(d)]}
        starts(d) == \/ d \notin small
                     \/ before(d) = {}
                     \/ SizeOf(Size, together(d)) + Size[d] > BatchSize
        rank(d) == IF d \in small /\ before(d) = {} THEN 0 ELSE Pos(files, d)
        ahead(d) == {e \in missing : starts(e) /\ rank(e) < rank(d)}
    IN  \A d \in missing :
            IF starts(d)
            THEN {b \in FreeBatches : b < place[d]} = {place[e] : e \in ahead(d)}
            ELSE place[d] = place[last(d)]

\* _cached_files once the hits have moved to its end, in the order of the
\* request, and the entries of S have left.
OrderAfter(files, S) ==
    LET hits == Hits(files)
        kept == CachedNames \ S
    IN  {p \in kept \X kept :
            IF p[2] \in hits
            THEN p[1] \in hits => Pos(files, p[1]) < Pos(files, p[2])
            ELSE p[1] \notin hits /\ p \in older}

OldestFirst(list) ==
    \A i, j \in DOMAIN list : i < j => <<list[i], list[j]>> \in older

NewBatch(files, items) ==
    [IdleBatch EXCEPT !.stage = "planned", !.items = items, !.todo = items,
                      !.order = files, !.future = "unresolved"]

Plan(t) ==
    LET files == thread[t].files
        missing == Missing(files)
        victims == Victims(files)
    IN  /\ thread[t].pc = "plan" /\ globalLock = None
        /\ ~MaxSizeReached(files)
        /\ \E place \in [missing -> FreeBatches],
              list \in [1..Cardinality(victims) -> victims] :
            /\ Split(files, missing, place) /\ OldestFirst(list)
            /\ cached' = [d \in Digests |-> IF d \in victims THEN NoInfo ELSE cached[d]]
            /\ older' = OrderAfter(files, victims)
            /\ pending' = [d \in Digests |-> IF d \in missing THEN place[d] ELSE pending[d]]
            /\ current' = current - StSize(victims) + SizeOf(Size, missing)
            /\ batch' = [b \in Batches |->
                    IF \E d \in missing : place[d] = b
                    THEN NewBatch(files, {d \in missing : place[d] = b})
                    ELSE batch[b]]
            /\ thread' = [thread EXCEPT
                    ![t].evicting = list,
                    ![t].planned = {place[d] : d \in missing},
                    ![t].futures = {pending'[d] : d \in DigestsOf(files) \ CachedNames},
                    ![t].pc = IF victims # {} THEN "evict"
                              ELSE IF missing # {} THEN "submit" ELSE "wait"]
        /\ UNCHANGED <<diskVars, lockVars, bootVars>>

PlanRaise(t) ==
    /\ thread[t].pc = "plan" /\ globalLock = None
    /\ MaxSizeReached(thread[t].files)
    /\ Leave(t, "MaxSizeReached")
    /\ UNCHANGED <<diskVars, mapVars, lockVars, batch, bootVars>>

\* The evicted files are unlinked after the global lock is released, each
\* under its own lock.
Evicted(t) ==
    thread' = [thread EXCEPT
        ![t].evicting = Tail(@),
        ![t].pc = IF Len(thread[t].evicting) > 1 THEN "evict"
                  ELSE IF thread[t].planned # {} THEN "submit" ELSE "wait"]

Evict(t) ==
    LET d == Head(thread[t].evicting)
        seen == thread[t].pc = "unlink"
    IN  /\ thread[t].pc \in {"evict", "unlink"} /\ fileLock[d] = IF seen THEN t ELSE None
        /\ \/ /\ ~seen /\ Exists(d)
              /\ fileLock' = [fileLock EXCEPT ![d] = t]
              /\ thread' = [thread EXCEPT ![t].pc = "unlink"]
              /\ UNCHANGED disk
           \/ /\ seen <=> Exists(d)
              /\ Evicted(t)
              /\ disk' = [disk EXCEPT ![d] = NoFile] /\ Unlock(d)
           \/ /\ seen /\ ~Exists(d)
              /\ Leave(t, "FileNotFoundError")
              /\ Unlock(d) /\ UNCHANGED disk
        /\ UNCHANGED <<tmp, mapVars, globalLock, batch, bootVars>>

\* A plausible bug: only a plan of a single batch is submitted.
Submit_Mutant(t) ==
    /\ thread[t].pc = "submit"
    /\ batch' = [b \in Batches |-> IF thread[t].planned = {b}
                                   THEN [batch[b] EXCEPT !.stage = "receive"] ELSE batch[b]]
    /\ thread' = [thread EXCEPT ![t].planned = {}, ![t].pc = "wait"]
    /\ UNCHANGED <<diskVars, mapVars, lockVars, bootVars>>

\* The pool runs the submitted batches when it pleases.
Submit(t) ==
    /\ thread[t].pc = "submit"
    /\ batch' = [b \in Batches |-> IF b \in thread[t].planned
                                   THEN [batch[b] EXCEPT !.stage = "receive"] ELSE batch[b]]
    /\ thread' = [thread EXCEPT ![t].planned = {}, ![t].pc = "wait"]
    /\ UNCHANGED <<diskVars, mapVars, lockVars, bootVars>>

\* as_completed yields a future as soon as it is resolved.
WaitOk(t) ==
    /\ thread[t].pc = "wait"
    /\ \A b \in thread[t].futures : batch[b].future = "ok"
    /\ thread' = [thread EXCEPT ![t].pc = "snapshot", ![t].futures = {}]
    /\ UNCHANGED <<diskVars, mapVars, lockVars, batch, bootVars>>

WaitRaise(t) ==
    /\ thread[t].pc = "wait"
    /\ \E b \in thread[t].futures : batch[b].future = "failed"
    /\ Leave(t, "DownloadError")
    /\ UNCHANGED <<diskVars, mapVars, lockVars, batch, bootVars>>

-----------------------------------------------------------------------------
(* _link_existing_files *)

Snapshot(t) ==
    /\ thread[t].pc = "snapshot" /\ globalLock = None
    /\ thread' = [thread EXCEPT
            ![t].snap = [d \in Digests |-> IF d \in DigestsOf(thread[t].files)
                                           THEN cached[d] ELSE NoInfo],
            ![t].pc = "link"]
    /\ UNCHANGED <<diskVars, mapVars, lockVars, batch, bootVars>>

\* The node at hand; r is thread[t] after it: linked, corrupted or missing.
\* Its lock is released.
Node(t) == Head(thread[t].files)
Linked(t, r) ==
    thread' = [thread EXCEPT ![t] =
        [r EXCEPT !.files = Tail(@),
                  !.pc = IF Len(thread[t].files) > 1 THEN "link" ELSE "drop"]]

Link(t) ==
    LET d == DigestOf[Node(t)]
        known == thread[t].snap[d] # NoInfo
    IN  /\ thread[t].pc = "link" /\ fileLock[d] = None
        /\ IF Exists(d) /\ known
           THEN /\ fileLock' = [fileLock EXCEPT ![d] = t]
                /\ thread' = [thread EXCEPT ![t].pc = "stat"]
           ELSE /\ Linked(t, [thread[t] EXCEPT
                    !.corrupted = IF Exists(d) \/ known THEN Append(@, Node(t)) ELSE @,
                    !.missing = IF Exists(d) THEN @ ELSE Append(@, Node(t))])
                /\ UNCHANGED fileLock
        /\ UNCHANGED <<diskVars, mapVars, globalLock, batch, bootVars>>

LinkStat(t) ==
    LET d == DigestOf[Node(t)]
        match == thread[t].snap[d] = FileCacheInfo(disk[d])
    IN  /\ thread[t].pc = "stat"
        /\ IF Exists(d) /\ match
           THEN thread' = [thread EXCEPT ![t].pc = "link file"] /\ UNCHANGED fileLock
           ELSE /\ IF Exists(d)
                   THEN Linked(t, [thread[t] EXCEPT !.snap[d] = NoInfo,
                                        !.corrupted = Append(@, Node(t))])
                   ELSE Leave(t, "FileNotFoundError")
                /\ Unlock(d)
        /\ UNCHANGED <<diskVars, mapVars, globalLock, batch, bootVars>>

LinkFile(t) ==
    LET d == DigestOf[Node(t)]
    IN  /\ thread[t].pc = "link file"
        /\ IF Exists(d)
           THEN Linked(t, [thread[t] EXCEPT
                    !.linked[Node(t)] = IF disk[d].intact THEN "whole" ELSE "broken"])
           ELSE Leave(t, "FileNotFoundError")
        /\ Unlock(d)
        /\ UNCHANGED <<diskVars, mapVars, globalLock, batch, bootVars>>

\* A plausible bug: fetch_to does not start over for what it missed.
Dropped_Mutant(t, missing) == Leave(t, "ok")

\* Under the global lock the corrupted files are removed and forgotten; then
\* fetch_to returns, or plans again for the files it could not link.
Dropped(t, missing) ==
    IF missing = <<>> THEN Leave(t, "ok")
    ELSE thread' = [thread EXCEPT ![t] =
            [IdleThread EXCEPT !.pc = "plan", !.files = missing,
                    !.request = thread[t].request, !.linked = thread[t].linked]]

DropLock(t) ==
    /\ thread[t].pc = "drop" /\ globalLock = None
    /\ IF thread[t].corrupted = <<>>
       THEN Dropped(t, thread[t].missing) /\ UNCHANGED globalLock
       ELSE /\ globalLock' = t
            /\ thread' = [thread EXCEPT ![t].pc = "drop file"]
    /\ UNCHANGED <<diskVars, mapVars, fileLock, batch, bootVars>>

Corrupted(t) == Head(thread[t].corrupted)

\* del self._cached_files[...], the sizes, and the next corrupted file.
Forget(t) ==
    LET d == DigestOf[Corrupted(t)]
        missing == Append(thread[t].missing, Corrupted(t))
    IN  IF cached[d] = NoInfo
        THEN /\ Leave(t, "KeyError") /\ globalLock' = None
             /\ UNCHANGED mapVars
        ELSE /\ cached' = [cached EXCEPT ![d] = NoInfo]
             /\ older' = {p \in older : p[1] # d /\ p[2] # d}
             /\ current' = current - Size[d]
             /\ UNCHANGED pending
             /\ IF Len(thread[t].corrupted) = 1
                THEN Dropped(t, missing) /\ globalLock' = None
                ELSE /\ thread' = [thread EXCEPT ![t].pc = "drop file",
                            ![t].corrupted = Tail(@), ![t].missing = missing]
                     /\ UNCHANGED globalLock

Drop(t) ==
    LET d == DigestOf[Corrupted(t)]
        seen == thread[t].pc = "drop unlink"
    IN  /\ thread[t].pc \in {"drop file", "drop unlink"}
        /\ \/ /\ ~seen /\ Exists(d)
              /\ thread' = [thread EXCEPT ![t].pc = "drop unlink"]
              /\ UNCHANGED <<disk, mapVars, globalLock>>
           \/ /\ seen <=> Exists(d)
              /\ disk' = [disk EXCEPT ![d] = NoFile]
              /\ Forget(t)
           \/ /\ seen /\ ~Exists(d)
              /\ Leave(t, "FileNotFoundError")
              /\ globalLock' = None /\ UNCHANGED <<disk, mapVars>>
        /\ UNCHANGED <<tmp, fileLock, batch, bootVars>>

FetchStep(t) ==
    \/ Plan(t) \/ PlanRaise(t) \/ Evict(t) \/ Submit(t) \/ WaitOk(t)
    \/ WaitRaise(t) \/ Snapshot(t) \/ Link(t) \/ LinkStat(t) \/ LinkFile(t)
    \/ DropLock(t) \/ Drop(t)

-----------------------------------------------------------------------------
(* _download_thread_inner: download, verify, install *)

IsFirst(b, d) == d \in batch[b].todo /\ Earlier(batch[b].order, batch[b].todo, d) = {}

\* The blobs fetch_all_block may yield a block of: the small ones come in
\* whatever order the CAS answers, then each large one as a stream of blocks.
Large(d) == Size[d] >= MessageLimit
Incoming(b, d) ==
    /\ batch[b].stage = "receive" /\ d \in batch[b].todo
    /\ Large(d) => /\ \A e \in batch[b].todo : Large(e)
                   /\ IF batch[b].at = None THEN IsFirst(b, d) ELSE batch[b].at = d

\* The thread reaches the handler of _download_thread.
Fail(b) == batch' = [batch EXCEPT ![b].stage = "failed", ![b].at = None]

\* A file that this batch did not open itself stops the batch.
Receive(b, d) ==
    LET opened == batch[b].at = d
        written == IF opened THEN tmp[d] ELSE 0
    IN  /\ Incoming(b, d)
        /\ IF ~opened /\ tmp[d] # NoTmp
           THEN Fail(b) /\ UNCHANGED tmp
           ELSE \E n \in IF Large(d) THEN 1..(Size[d] - written) ELSE {Size[d]} :
                /\ tmp' = [tmp EXCEPT ![d] = written + n]
                /\ batch' = [batch EXCEPT
                        ![b].todo = IF written + n = Size[d] THEN @ \ {d} ELSE @,
                        ![b].at = IF written + n = Size[d] THEN None ELSE d]
        /\ UNCHANGED <<disk, mapVars, lockVars, thread, bootVars>>

\* Only the block that reaches the last byte is verified: a hash that is not
\* the one of the digest removes the file, bytes beyond the last one (one
\* stands for any number) trip the assert before that and leave it.  A blob
\* of fewer bytes is not looked at: a stream that ends early, a small blob
\* that is short, or one that is missing in the answer.  The CAS refuses a
\* blob, which is skipped until the others are read; a call fails.
ReceiveFault(b, d) ==
    /\ Incoming(b, d)
    /\ \/ /\ "corrupt" \in Faults /\ (batch[b].at = d \/ tmp[d] = NoTmp)
          /\ \E n \in {NoTmp, Size[d] + 1} : tmp' = [tmp EXCEPT ![d] = n]
          /\ Fail(b)
       \/ /\ "truncate" \in Faults
          /\ \/ UNCHANGED tmp
             \/ /\ ~Large(d) /\ tmp[d] = NoTmp
                /\ \E n \in 0..(Size[d] - 1) : tmp' = [tmp EXCEPT ![d] = n]
          /\ batch' = [batch EXCEPT ![b].todo = @ \ {d}, ![b].at = None]
       \/ /\ "backend" \in Faults
          /\ batch' = [batch EXCEPT ![b].todo = @ \ {d}, ![b].at = None, ![b].unread = TRUE]
          /\ UNCHANGED tmp
       \/ /\ "backend" \in Faults /\ ~Large(d)
          /\ Fail(b) /\ UNCHANGED tmp
    /\ UNCHANGED <<disk, mapVars, lockVars, thread, bootVars>>

Received(b) ==
    /\ batch[b].stage = "receive" /\ batch[b].todo = {}
    /\ IF batch[b].unread THEN Fail(b)
       ELSE batch' = [batch EXCEPT ![b].stage = "install", ![b].todo = batch[b].items]
    /\ UNCHANGED <<diskVars, mapVars, lockVars, thread, bootVars>>

\* A plausible bug: the installer does not look for an existing file.
Install_Mutant(b, d) ==
    /\ batch[b].stage = "install" /\ IsFirst(b, d) /\ fileLock[d] = None
    /\ batch' = [batch EXCEPT ![b].stage = "rename", ![b].at = d]
    /\ fileLock' = [fileLock EXCEPT ![d] = b]
    /\ UNCHANGED <<diskVars, mapVars, globalLock, thread, bootVars>>

\* Under the lock of the file: exists, rename, chmod.
Install(b, d) ==
    /\ batch[b].stage = "install" /\ IsFirst(b, d) /\ fileLock[d] = None
    /\ IF Exists(d) THEN Fail(b) /\ UNCHANGED fileLock
       ELSE /\ batch' = [batch EXCEPT ![b].stage = "rename", ![b].at = d]
            /\ fileLock' = [fileLock EXCEPT ![d] = b]
    /\ UNCHANGED <<diskVars, mapVars, globalLock, thread, bootVars>>

Rename(b, d) ==
    /\ batch[b].stage = "rename" /\ batch[b].at = d
    /\ IF tmp[d] = NoTmp
       THEN /\ Fail(b) /\ Unlock(d)
            /\ UNCHANGED diskVars
       ELSE /\ \E s \in 1..MaxStamp :
                /\ FreshStamp(d, s)
                /\ disk' = [disk EXCEPT ![d] =
                        [stamp |-> s, size |-> tmp[d], readonly |-> FALSE,
                         intact |-> tmp[d] = Size[d]]]
            /\ tmp' = [tmp EXCEPT ![d] = NoTmp]
            /\ batch' = [batch EXCEPT ![b].stage = "chmod"]
            /\ UNCHANGED fileLock
    /\ UNCHANGED <<mapVars, globalLock, thread, bootVars>>

Chmod(b, d) ==
    /\ batch[b].stage = "chmod" /\ batch[b].at = d
    /\ Unlock(d)
    /\ IF Exists(d)
       THEN /\ disk' = [disk EXCEPT ![d].readonly = TRUE]
            /\ batch' = [batch EXCEPT ![b].todo = @ \ {d}, ![b].at = None,
                    ![b].stage = IF batch[b].todo = {d} THEN "installed" ELSE "install"]
       ELSE Fail(b) /\ UNCHANGED disk
    /\ UNCHANGED <<tmp, mapVars, globalLock, thread, bootVars>>

-----------------------------------------------------------------------------
(* _download_thread: under the global lock, file by file, the error handler
   returns the reserved bytes of the batch, or its files are registered. *)

Lock(b) ==
    /\ batch[b].stage \in {"failed", "installed"} /\ globalLock = None
    /\ globalLock' = b
    /\ batch' = [batch EXCEPT
            ![b].stage = IF @ = "failed" THEN "clean" ELSE "register",
            ![b].todo = batch[b].items]
    /\ UNCHANGED <<diskVars, mapVars, fileLock, thread, bootVars>>

\* A plausible bug: what is settled keeps its entry of _pending_files.
Settled_Mutant(b, d, stage, result) ==
    /\ UNCHANGED pending
    /\ IF batch[b].todo = {d}
       THEN /\ batch' = [batch EXCEPT ![b] = [IdleBatch EXCEPT !.stage = "done", !.future = result]]
            /\ globalLock' = None
       ELSE /\ batch' = [batch EXCEPT ![b].stage = stage, ![b].todo = @ \ {d}]
            /\ UNCHANGED globalLock

\* The next item, and after the last one the future is resolved.
Settled(b, d, stage, result) ==
    /\ pending' = [pending EXCEPT ![d] = None]
    /\ IF batch[b].todo = {d}
       THEN /\ batch' = [batch EXCEPT ![b] = [IdleBatch EXCEPT !.stage = "done", !.future = result]]
            /\ globalLock' = None
       ELSE /\ batch' = [batch EXCEPT ![b].stage = stage, ![b].todo = @ \ {d}]
            /\ UNCHANGED globalLock

\* A plausible bug: the reserved bytes are not returned.
Reclaim_Mutant(b, d, stage, result) ==
    Settled(b, d, stage, result) /\ UNCHANGED current

Reclaim(b, d, stage, result) ==
    Settled(b, d, stage, result) /\ current' = current - Size[d]

\* An exception in the handler ends the task, and the lock is released; the
\* future is never resolved.
Clean(b, d) ==
    LET seen == batch[b].stage = "clean unlink"
    IN  /\ batch[b].stage \in {"clean", "clean unlink"} /\ IsFirst(b, d)
        /\ \/ /\ ~seen /\ Exists(d)
              /\ batch' = [batch EXCEPT ![b].stage = "clean unlink"]
              /\ UNCHANGED <<disk, pending, current, globalLock>>
           \/ /\ seen <=> Exists(d)
              /\ disk' = [disk EXCEPT ![d] = NoFile]
              /\ Reclaim(b, d, "clean", "failed")
           \/ /\ seen /\ ~Exists(d)
              /\ batch' = [batch EXCEPT ![b].stage = "dead"]
              /\ globalLock' = None /\ UNCHANGED <<disk, pending, current>>
        /\ UNCHANGED <<tmp, cached, older, fileLock, thread, bootVars>>

\* When the stat fails the future fails; the files that are left keep their
\* entries of _pending_files and their reserved bytes.
Register(b, d) ==
    LET seen == batch[b].stage = "register stat"
    IN  /\ batch[b].stage \in {"register", "register stat"} /\ IsFirst(b, d)
        /\ \/ /\ ~seen /\ Exists(d)
              /\ batch' = [batch EXCEPT ![b].stage = "register stat"]
              /\ UNCHANGED <<mapVars, globalLock>>
           \/ /\ seen /\ Exists(d)
              /\ cached' = [cached EXCEPT ![d] = FileCacheInfo(disk[d])]
              /\ older' = Appended(d)
              /\ Settled(b, d, "register", "ok") /\ UNCHANGED current
           \/ /\ ~seen /\ ~Exists(d)
              /\ Reclaim(b, d, "register", "ok") /\ UNCHANGED <<cached, older>>
           \/ /\ seen /\ ~Exists(d)
              /\ batch' = [batch EXCEPT ![b] =
                    [IdleBatch EXCEPT !.stage = "done", !.future = "failed"]]
              /\ globalLock' = None /\ UNCHANGED mapVars
        /\ UNCHANGED <<diskVars, fileLock, thread, bootVars>>

BatchStep(b) ==
    \/ Received(b) \/ Lock(b)
    \/ \E d \in Digests :
        \/ Receive(b, d) \/ ReceiveFault(b, d) \/ Install(b, d) \/ Rename(b, d)
        \/ Chmod(b, d) \/ Clean(b, d) \/ Register(b, d)

-----------------------------------------------------------------------------
(* What others do to the cache directory, and restarts *)

Delete(d) ==
    /\ "delete" \in Faults /\ phase = "up" /\ Exists(d)
    /\ disk' = [disk EXCEPT ![d] = NoFile]
    /\ UNCHANGED <<tmp, mapVars, lockVars, thread, batch, bootVars>>

Rewrite(d) ==
    /\ "rewrite" \in Faults /\ phase = "up" /\ disk[d].intact
    /\ \E s \in 1..MaxStamp, n \in {0, Size[d]} :
        /\ FreshStamp(d, s)
        /\ disk' = [disk EXCEPT ![d] =
                [stamp |-> s, size |-> n, readonly |-> FALSE, intact |-> FALSE]]
    /\ UNCHANGED <<tmp, mapVars, lockVars, thread, batch, bootVars>>

\* Only the cache directory survives.
Restart ==
    /\ "restart" \in Faults
    /\ cached' = [d \in Digests |-> NoInfo] /\ older' = {}
    /\ pending' = [d \in Digests |-> None] /\ current' = 0
    /\ globalLock' = None /\ fileLock' = [d \in Digests |-> None]
    /\ thread' = [t \in Fetchers |-> IdleThread]
    /\ batch' = [b \in Batches |-> IdleBatch]
    /\ phase' = "verify" /\ booting' = {}
    /\ UNCHANGED diskVars

\* A plausible bug: init() trusts the size and the mode of a file.
Verified_Mutant(d) == disk[d].readonly /\ disk[d].size = Size[d]

\* init(): the verify threads remove what is not a read-only file with the
\* size and the hash of its name, the ".tmp" files among them.
Verified(d) == disk[d].readonly /\ disk[d].size = Size[d] /\ disk[d].intact
Verify ==
    LET good == {d \in Digests : Verified(d)}
    IN  /\ phase = "verify"
        /\ disk' = [d \in Digests |-> IF d \in good THEN disk[d] ELSE NoFile]
        /\ tmp' = [d \in Digests |-> NoTmp]
        /\ booting' = good
        /\ phase' = IF good = {} THEN "up" ELSE "admit"
        /\ UNCHANGED <<mapVars, lockVars, thread, batch>>

\* The verified files are admitted in the order of their access times, which
\* nobody controls, the latest first; one that does not fit is removed.
\* Nothing else runs before init() returns.
Admit(d) ==
    LET fits == MaxSize = 0 \/ disk[d].size + current <= MaxSize
    IN  /\ phase = "admit" /\ d \in booting
        /\ booting' = booting \ {d}
        /\ phase' = IF booting = {d} THEN "up" ELSE "admit"
        /\ IF fits
           THEN /\ cached' = [cached EXCEPT ![d] = FileCacheInfo(disk[d])]
                /\ older' = Appended(d)
                /\ current' = current + disk[d].size
                /\ UNCHANGED disk
           ELSE /\ disk' = [disk EXCEPT ![d] = NoFile]
                /\ UNCHANGED <<cached, older, current>>
        /\ UNCHANGED <<tmp, pending, lockVars, thread, batch>>

Boot == Verify \/ \E d \in Digests : Admit(d)

Next ==
    \/ \E t \in Fetchers : FetchStep(t) \/ \E files \in Requests : Fetch(t, files)
    \/ \E b \in Batches : BatchStep(b)
    \/ \E d \in Digests : Delete(d) \/ Rewrite(d)
    \/ Restart \/ Boot

Spec == Init /\ [][Next]_vars

\* A thread that can run again and again does: it gets a lock that others
\* release again and again, and the pool runs what was submitted.
Fairness ==
    /\ \A t \in Fetchers : SF_vars(FetchStep(t))
    /\ \A b \in Batches : SF_vars(BatchStep(b))
    /\ WF_vars(Boot)
FairSpec == Spec /\ Fairness
=============================================================================
