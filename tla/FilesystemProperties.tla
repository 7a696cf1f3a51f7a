------------------------ MODULE FilesystemProperties ------------------------
(***************************************************************************)
(* What the file cache promises: the type of its state, the invariants of  *)
(* its maps and of the cache directory, what a step may never do, and that *)
(* a call of fetch_to returns.                                             *)
(***************************************************************************)
EXTENDS LocalHardlinkFilesystem

Outcomes == {"none", "ok", "MaxSizeReached", "DownloadError",
             "FileNotFoundError", "KeyError"}
Points == {"idle", "plan", "evict", "unlink", "submit", "wait", "snapshot",
           "link", "stat", "link file", "drop", "drop file", "drop unlink"}
Stages == {"idle", "planned", "receive", "install", "rename", "chmod",
           "installed", "register", "register stat", "failed", "clean",
           "clean unlink", "done", "dead"}

ThreadFields ==
    [pc : Points, request : Seq(Nodes), files : Seq(Nodes),
     evicting : Seq(Digests), planned : SUBSET Batches, futures : SUBSET Batches,
     snap : [Digests -> Infos], corrupted : Seq(Nodes), missing : Seq(Nodes),
     linked : [Nodes -> {"no", "whole", "broken"}], outcome : Outcomes]
\* A call works off lists that are not empty.
ThreadRecords ==
    {r \in ThreadFields :
        /\ r.pc \in {"evict", "unlink"} => r.evicting # <<>>
        /\ r.pc \notin {"idle", "drop", "drop file", "drop unlink"} => r.files # <<>>
        /\ r.pc \in {"drop file", "drop unlink"} => r.corrupted # <<>>}
BatchRecords ==
    [stage : Stages, items : SUBSET Digests, order : Seq(Nodes),
     todo : SUBSET Digests, at : Digests \cup {None}, unread : BOOLEAN,
     future : {"none", "unresolved", "ok", "failed"}]

\* R orders the members of S.
Orders(R, S) ==
    /\ R \subseteq S \X S
    /\ \A d \in S : <<d, d>> \notin R
    /\ \A d, e \in S : d # e => <<d, e>> \in R \/ <<e, d>> \in R
    /\ \A d, e, f \in S : <<d, e>> \in R /\ <<e, f>> \in R => <<d, f>> \in R

DiskOK == disk \in [Digests -> Files] /\ tmp \in [Digests -> Nat \cup {NoTmp}]
MapsOK ==
    /\ cached \in [Digests -> Infos] /\ Orders(older, CachedNames)
    /\ pending \in [Digests -> Batches \cup {None}] /\ current \in Int
    /\ CachedNames \cap PendingNames = {}
LocksOK ==
    /\ globalLock \in Fetchers \cup Batches \cup {None}
    /\ fileLock \in [Digests -> Fetchers \cup Batches \cup {None}]
ThreadsOK == thread \in [Fetchers -> ThreadRecords]
BatchesOK == batch \in [Batches -> BatchRecords]
BootOK == phase \in {"up", "verify", "admit"} /\ booting \subseteq Digests

\* The types of the object's maps, of its locks, of the cache directory and of
\* the local variables of the threads.  An OrderedDict has one order, which
\* the moves of _download_missing_files keep; a name is in _cached_files or
\* in _pending_files, never in both; and no step takes the first member of
\* an empty list.
TypeOK == DiskOK /\ MapsOK /\ LocksOK /\ ThreadsOK /\ BatchesOK /\ BootOK

-----------------------------------------------------------------------------
(* The maps *)

\* _current_size_bytes is the size of the entries of _cached_files plus the
\* bytes reserved for the downloads of _pending_files: every path of
\* _download_missing_files, of the two halves of _download_thread and of
\* _link_existing_files adds and subtracts the same sizes.
SizeAccounted == current = StSize(CachedNames) + SizeOf(Size, PendingNames)

\* Evicting before reserving keeps the accounted bytes within
\* max_cache_size_bytes, and so does init() when it admits files.
WithinBudget == MaxSize > 0 => current <= MaxSize

\* The batches whose thread is still to run or runs.
Active(b) == batch[b].stage \notin {"idle", "done", "dead"}

\* No content is downloaded twice at a time: _pending_files makes a call that
\* needs a file another one downloads wait for the same future.
SingleFlight ==
    \A b, c \in Batches : b # c /\ Active(b) /\ Active(c) =>
                                batch[b].items \cap batch[c].items = {}

\* A future others may wait for belongs to a batch somebody will run: one of
\* the pool, or one the planning thread has yet to submit.
PendingServed ==
    \A d \in Digests : pending[d] # None =>
        /\ Active(pending[d])
        /\ batch[pending[d]].stage = "planned" =>
                \E t \in Fetchers : pending[d] \in thread[t].planned

-----------------------------------------------------------------------------
(* fetch_to *)

\* When fetch_to returns, each file of the request was linked while its
\* content was whole: the files found corrupted, or evicted between the plan
\* and the link, were planned and linked again.
OkMeansLinked ==
    [][\A t \in Fetchers : thread[t].pc # "idle" /\ thread'[t].outcome = "ok" =>
        \A i \in DOMAIN thread[t].request :
            thread[t].linked[thread[t].request[i]] = "whole"]_vars

\* When the CAS answers and nothing else touches the cache directory, the
\* only exception fetch_to raises is MaxSizeReached.
NeverRaises ==
    \A t \in Fetchers : thread[t].outcome \in {"none", "ok", "MaxSizeReached"}

\* _link_existing_files returns the files that do not exist, as its docstring
\* says, and does not raise a KeyError for them.
ReturnsMissing == \A t \in Fetchers : thread[t].outcome # "KeyError"

\* A call of fetch_to comes to its end: it does not wait forever for a future
\* or a lock, nor does it plan and link again and again.
FetchReturns == \A t \in Fetchers : thread[t].pc = "plan" ~> thread[t].pc = "idle"

-----------------------------------------------------------------------------
(* The cache directory *)

\* A file of the cache is never replaced by another while its path exists:
\* the hard links and the FileCacheInfo others hold stay those of one file.
NoClobber ==
    [][\A d \in Digests : Exists(d) /\ Exists(d)' => disk'[d].stamp = disk[d].stamp]_vars

\* No call of fetch_to and no batch is under way.
Quiet == /\ phase = "up" /\ \A t \in Fetchers : thread[t].pc = "idle"
         /\ \A b \in Batches : ~Active(b)

\* With nothing under way the cache directory holds _current_size_bytes
\* bytes, the ".tmp" files among them: nothing is left behind or forgotten.
DiskMatchesLedger ==
    Quiet => current = SizeOf([d \in Digests |-> disk[d].size], Digests)
                + SizeOf([d \in Digests |-> tmp[d]], {d \in Digests : tmp[d] # NoTmp})

\* Only what is downloaded and verified is moved to the cache directory: a
\* blob is as long as its digest says and has its hash.
OnlyVerified == \A d \in Digests : Exists(d) => disk[d].intact

\* Whenever init() ends, whatever a crash left in the cache directory: there
\* is no ".tmp" file, the directory and _cached_files hold the same files,
\* all of them whole, and the total is that of their sizes and fits.
RestartRecovers ==
    [][phase # "up" /\ phase' = "up" =>
        /\ \A d \in Digests : /\ tmp'[d] = NoTmp
                              /\ (disk'[d] # NoFile) <=> (cached'[d] # NoInfo)
                              /\ disk'[d] # NoFile => disk'[d].intact
        /\ current' = SizeOf([d \in Digests |-> disk'[d].size], Digests)
        /\ MaxSize > 0 => current' <= MaxSize]_vars

-----------------------------------------------------------------------------
(* The store that callers count on *)

\* What a caller sees of a call of fetch_to.
CallOf(r) ==
    [state |-> CASE r.pc # "idle" -> "open"
                 [] r.pc = "idle" /\ r.outcome \in {"none", "ok"} -> r.outcome
                 [] OTHER -> "failed",
     request |-> r.request,
     given |-> {n \in Nodes : r.linked[n] = "whole"}]

Store == INSTANCE FileStore WITH
    held <- CachedNames, coming <- PendingNames,
    call <- [t \in Fetchers |-> CallOf(thread[t])], up <- phase = "up"

\* The file cache is such a store: the two kinds of lock, the batches and the
\* retries are internal, and each step of theirs that shows is one of the
\* store's.
ImplementsStore == Store!Spec
=============================================================================
