------------------------- MODULE DirectoryProperties -------------------------
(* What the directory cache must guarantee. *)
EXTENDS DirectoryBuilder

Frames ==
    [planned : BOOLEAN, cached : SUBSET Tops, skip : BOOLEAN,
     large : Seq(SUBSET Tops), victims : Seq(Tops), waits : SUBSET Tops,
     broken : BOOLEAN, links : SUBSET Tops]

MapsOK ==
    /\ cached \in Seq(Tops)
    /\ \A i, j \in 1..Len(cached) : cached[i] = cached[j] => i = j
    /\ pending \in [Tops -> {"none", "building", "failed"}]
    /\ \A d \in Members(cached) : pending[d] = "none"
    /\ count \in [Files -> Int] /\ current \in Int
DiskOK ==
    /\ disk \in [Nodes -> {"none", "made", "whole"}] /\ sealed \subseteq Nodes
    /\ dirLock \in [Tops -> Builders \cup {Pool, None}]
PoolOK ==
    /\ task \in [Nodes -> {"none", "queued", "fetch", "check", "join", "ok",
                           "failed", "stuck"}]
    /\ finish \in [Tops -> {"none", "remove", "release", "stuck"}]
BuildsOK ==
    /\ frames \in [Builders -> Seq(Frames)]
    /\ linked \in [Builders -> SUBSET Tops]
    /\ outcome \in [Builders -> {"none", "ok", "failed"}]
BootOK ==
    /\ phase \in {"up", "down", "admit"} /\ unseen \subseteq Tops
    /\ setting \in Setting

\* The maps, the disk, the tasks and the calls have their types; in
\* particular _cached_dir keeps one entry for a directory, and none for one
\* that is being built or has failed.
TypeOK == MapsOK /\ DiskOK /\ PoolOK /\ BuildsOK /\ BootOK

\* The directories the ledger stands for: those of the map, and those that
\* are being built, until a failed one is released.
Held == (Members(cached) \ unseen) \cup {d \in Tops : pending[d] = "building"}

\* The counts and the total of the directories D: files that directories
\* share are paid for once.
LedgerOf(D) ==
    /\ count = IF setting.copy THEN [f \in Files |-> 0] ELSE Uses(D)
    /\ current = IF setting.copy THEN CopySize(D)
                 ELSE SizeOf(Size, {f \in Files : Uses(D)[f] > 0})

\* The settings with which init() may have removed directories from disk and
\* kept them in the map, uncounted.
Shrunk == setting.limit > 0 /\ setting \in LaterSettings

\* The counts and the total are those of the directories held, whoever
\* plans, evicts, completes or fails meanwhile: the first directory to use a
\* file pays for it, and the last one to go gives it back.
Ledger == ~Shrunk => LedgerOf(Held)

\* The total never passes max_cache_size_bytes.
WithinBudget == setting.limit > 0 => current <= setting.limit

\* Without evictions every directory of the map is on disk as a whole and
\* read-only, whatever fails while others are built.
CachedComplete ==
    setting.limit = 0 /\ phase = "up" => \A d \in Members(cached) : Verified(d)

\* Without evictions the directories a build that returned has linked are
\* complete, and stay so while its action runs.
BuiltStays ==
    \A b \in Builders :
        setting.limit = 0 /\ outcome[b] = "ok" =>
            \A d \in linked[b] : Verified(d)

\* When the worker is up again, with the limit it had or another one, what is
\* left in the cache directory are complete, read-only directories of the
\* map, and the counts and the total are theirs: what init() found too large
\* in the order it looked at it is neither on disk nor counted.
RestartRecovers ==
    [][phase = "admit" /\ phase' = "up" =>
         LET Kept == {d \in Tops : OnDisk(d)}
         IN  /\ \A n \in Nodes : OnDisk(n) => n \in InTrees(Kept)
             /\ \A d \in Kept : d \in Members(cached) /\ Verified(d)
             /\ LedgerOf(Kept)]_vars

\* An exception was raised in a callback of a future, and swallowed.
Swallowed ==
    \/ \E n \in Nodes : task[n] = "stuck"
    \/ \E d \in Tops : finish[d] = "stuck"

\* Every build returns or raises: those who wait for a directory that fails
\* are told, and so are those whose directory others evict meanwhile.  Only
\* a callback that raised leaves them waiting.
BuildReturns ==
    \A b \in Builders : frames[b] # <<>> ~> frames[b] = <<>> \/ Swallowed

\* The test at the end of _build_toplevel_dirs: when a build returns, the
\* directories it linked exist.
LinkedExist ==
    [][\A b \in Builders :
         outcome[b] # "ok" /\ outcome'[b] = "ok" => \A d \in linked[b] : OnDisk(d)]_vars
=============================================================================
