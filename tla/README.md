# A verification of bb-remote-execution-py

bb-remote-execution-py is a Buildbarn worker in Python. It asks a scheduler
for build actions, fetches the inputs of each action from a content-addressed
store (CAS), runs its command in a build directory made of hard links and
directory links, uploads the outputs and reports every stage back. This
directory holds TLA+ models of it, the instances TLC checks and the proofs
TLAPS checks. Paths below are relative to the repository (`src/bbworker/...`);
in `PROJECT.json` they start with one more `src/`.

## 1. The system

### 1.1 Components

| Component | State | Operations | Correct when |
|---|---|---|---|
| `LocalHardlinkFilesystem` (`filesystem.py`), the file cache | `_cached_files` (an OrderedDict: name to `FileCacheInfo`), `_pending_files` (name to future), `_current_size_bytes`, the lock of each path, the global lock; on disk one file per content and `.tmp` files | `init`, `fetch_to` = plan, evict, download, wait, link, drop | The total is exact and within the limit; no content is downloaded twice at a time; a call that returns has linked every file, each whole; no cached file is replaced under its links; calls return; a restart recovers from whatever a crash left |
| `FileCacheInfo` (`cacheinfo.py`) | time stamp, size, mode of a file | `match` | It tells a changed file from the one that was registered |
| `VariableLock`, `VariableRLock` (`lock.py`) | the table of lock objects, the global lock | `lock`, `unlock`, `remove_lock` | One thread inside per variable, also while locks are removed and made again; somebody always gets in |
| `WorkerThreadMain` (`thread.py`) | two queues, `_sync_future`, `_shutdown_notified` | `run`, `graceful_shutdown` | Every state is reported in order; a dead runner is noticed; a shutdown ends |
| `RunnerThread` (`runner.py`) | `_stop_event`, the queues | `run`, `notify_stop`, `execute_command` | One action at a time, the newest instruction; it stops soon after it is told to |
| `WorkerMain` (`main.py`) | the worker threads, the channels | the signal handler, the closing of the channels | Every worker is notified and joined |
| `CASHelper` (`cas.py`) | the stubs | `fetch_all`, `fetch_all_block`, `update_all` | Every digest asked for is yielded or reported as failed; what is reported uploaded is |
| `CASCache` (`cas.py`) | an LRU list and a size | `fetch_all` | Bounded; only tests use it |
| `SharedTopLevelCachedDirectoryBuilder` (`directorybuilder.py`) | `_cached_dir`, `_pending_cached_dir`, `_current_size_bytes`, `_file_count`; directories on disk | `init`, `build` | The count of shared files and the total are exact; the links of a finished build lead to complete directories; builds finish |
| `DirectoryDataCache` (`directorybuilder.py`) | an LRU map of at most 5000 entries | `fetch_directory_data` | Bounded; an entry is the directory of its key |
| `ThreadWorkerState` (`state.py`) | the state of a worker, under a condition | get, set, wait | Nothing but its tests uses it |
| `util.py` | none | links, unlinks, mode changes, the Xcode environment | - |
| `config.py`, `metrics.py`, generated stubs | settings, counters | parsing, counting | - |

### 1.2 Interactions

- Each worker is a pair of threads: `WorkerThreadMain` talks to the scheduler
  with `Synchronize`, `RunnerThread` executes. They share two queues, nothing
  else. The signal handler of the main thread calls `graceful_shutdown` of each
  worker, which sets two events, puts an idle instruction in the runner's queue
  and cancels the call that is open.
- All runners of a process share one directory builder and one file cache. A
  build calls `fetch_to` for the files next to the command, and its pool calls
  it for each cached directory.
- `fetch_to` plans under the cache's global lock, submits its batches to a pool
  and waits for futures, its own or those other calls registered. The batches
  read blobs from `CASHelper.fetch_all_block`, write `.tmp` files, verify them,
  and move them into the cache under the lock of each path.
- Build directories hold hard links of cached files, so that an action can
  change a cached file behind the cache's back.

### 1.3 What is hard

Two kinds of lock protect the cache directory and do not exclude each other;
evicted files are unlinked after the lock that decided on them is released;
futures are resolved, or not, on four paths; the reserved bytes are returned on
four paths; a process may stop between any two steps and finds its cache
directory as it was; the store may refuse, damage, lengthen or shorten a blob; a lock
table's entries are removed while threads wait for them; a signal finds two
threads at any pair of points; queues are filled and drained at the same time;
directories of the directory cache share files that are paid for once, are
completed by callbacks whose exceptions nobody sees, and are removed after the
lock that decided on it is released. `PROJECT.json` lists these hazards at their
lines with the properties that would catch each.

## 2. Plan

The order is that of importance: what every action depends on, and what loses
or corrupts something, first.

1. **The file cache**: `CacheSizes`, `LocalHardlinkFilesystem`,
   `FilesystemProperties`, `MCFilesystem`. *Done; safety proved.*
2. **The lock table**: `VariableLock` refining `KeyedMutex`. *Done and proved.*
3. **The worker**: `WorkerThread` refining `ActionReports`. *Done; safety
   proved.*
4. **The directory builder**: `DirectoryBuilder`, `DirectoryProperties`,
   `MCDirectoryBuilder`. *Done; safety proved.*
5. **CAS and directory messages**: `CASHelper` (`fetch_all` as a generator)
   composed with `DirectoryDataCache`, its caller. *Done; safety proved.*
6. **Proofs about the file cache**: the accounting, the single download, what a
   call that returns has linked, what a restart recovers, what an unlimited cache
   promises besides. *Done.*
7. **Several workers** in `WorkerMain`: that one signal handler that raises
   leaves the others running. *Open.*
8. **An abstract file store**, `FileStore` (contents fetched once for all who
   want them, at most so many bytes, nothing thrown away without need), which the
   file cache implements. *Done and proved.*

## 3. The file cache

### 3.1 Modules

- `CacheSizes`: the size of a set of names, as the number of its bytes.
  `CacheSizesProofs`: what it is for a union, a split, a removal, a subset.
- `LocalHardlinkFilesystem`: the component. `FilesystemProperties`: what it
  promises. `MCFilesystem`: the instances. The theorems are in
  `FilesystemProofs`, `AccountingProofs` and `FetchProofs`.
- `FileStore`: what callers count on, without locks, batches, retries or a
  directory. The store holds contents, others are coming. A caller asks for
  files; what it wants and nobody has or fetches is reserved in one step, which
  evicts only as much as it needs (`Reserve`); contents arrive, fail or are
  lost; the caller is given files and returns once it has them all, or gives up.
  The store may stop, and finds what fits before it opens. `ImplementsStore`
  maps it: `held` is the key set of `_cached_files`, `coming` that of
  `_pending_files`, `call` the request of a call of `fetch_to` and the files it
  linked while they were whole.

### 3.2 State and actions

`disk[d]` is the file of the cache directory that the digest `d` names: its time
stamp, size and mode, which `stat` reports, and whether its bytes are those of
the digest. `tmp[d]` is the length of its `.tmp` file. `cached`, `older`,
`pending` and `current` are the maps of the object: `older` is the order of the
OrderedDict, as a relation. `thread[t]` has the local variables of a call of
`fetch_to`, `batch[b]` those of a `DownloadBatch` and its future.

| Code | Actions |
|---|---|
| `fetch_to`: entry, start over, return | `Fetch`, `Dropped` |
| `_download_missing_files` under the global lock | `Plan`, `PlanRaise` (one step each) |
| the unlinking of evicted files | `Evict` (the test and the unlink are two steps) |
| submission to the pool, `as_completed` | `Submit`, `WaitOk`, `WaitRaise` |
| `_link_existing_files`: snapshot, each file, corrupted files | `Snapshot`; `Link`, `LinkStat`, `LinkFile`; `DropLock`, `Drop` with `Forget` |
| `_download_thread_inner`: blobs and blocks, verification | `Receive`, `ReceiveFault`, `Received` |
| its loop that moves files into the cache | `Install`, `Rename`, `Chmod` |
| `_download_thread`: error handler, registration | `Lock`, then `Clean` or `Register` per file |
| `init`, `_verify_existing_files` | `Restart`, `Verify`, `Admit` |
| builds and users of the machine | `Delete`, `Rewrite` |

A section under the global lock that only touches the maps is one step, because
all accesses to them hold that lock. Tests, stats, links, unlinks, renames and
mode changes are steps of their own wherever a thread that does not hold the
same lock can come between. The choice among equals (which blob comes first,
access times at a restart) is left open; the order of requests, batches and
evictions is the code's.

What is abstracted: names, bytes and hashes (a file is whole or not), the
executable bit and the copying mode, `_file_lock` (a mutex for each path; that
`VariableLock` is one is section 4), and metrics. A modification time is a small number; a
new one is the least that no `stat`, snapshot or map still holds, so that two
different files never agree by accident: the model assumes what `FileCacheInfo`
assumes, that a change moves the modification time. A rewritten file is
distinguished from a whole one until it is replaced. `Verify` is one step: the
verify threads look at disjoint parts of the directory while nothing else runs.

What may come instead of a blob (`ReceiveFault`): the code compares size and hash
in the message that reaches the last byte of the digest, and nowhere else. A blob
with another content is found out there and its `.tmp` file removed; one with
more bytes trips the assert before that and leaves its `.tmp` file (`corrupt`; one
byte more stands for any number). A blob of fewer bytes never gets there and is
installed: a stream that ends early, a small blob that is short, or one the answer
of `BatchReadBlobs` does not have, whose rename then fails (`truncate`).

Batches whose future nobody can reach are garbage and are used again
(`MaxBatches`).

### 3.3 Runs

| Run | Instance | Shows |
|---|---|---|
| `fs_shared` | 2 calls, 3 files of size 1, limit 2, a CAS that may fail | `SizeAccounted`, `WithinBudget`, `NoClobber`, `OkMeansLinked`, `ImplementsStore` while the calls share downloads and evict each other's files |
| `fs_faults` | 1 call at a time, files of 1, 1 and 2 bytes, limit 2, all six faults, one damaged file at a time | `TypeOK`, `WithinBudget`, `RestartRecovers` |
| `fs_live` | 2 calls, one naming a content twice, no limit, fairness | `SingleFlight`, `PendingServed`, `NeverRaises`, `DiskMatchesLedger`, `FetchReturns` |
| `fs_evict_race` | as `fs_shared`, with no fault | finding: `KeyError` for an evicted file |
| `fs_leftover` | refused blobs | finding: `.tmp` files are left behind, uncounted |
| `fs_truncated` | blobs, streamed or small, of fewer bytes than their digest | finding: a short file is registered |

Bounds. Three contents against a limit of two force an eviction by every
request for the third; two concurrent calls already show every pair of points
the two kinds of lock leave open. The content of two bytes is streamed in
blocks and those of one byte are read in one message; a batch takes two bytes,
so that a request is split. Five batches (three or four in the smaller
instances) and three or four time stamps are more than the instances can hold
at once: a state in which no batch or stamp is free does not block an action
that the code would take. `Rewrite` happens again and again as stamps become
free. Symmetry is used only in runs without liveness; the view forgets what
garbage batches held. `fs_faults` has a bound on its faults (`OneDamaged`): at most
one file at a time is damaged, overlong or missing though in the map, and the
total is not below zero. Restarts and repairs make another one the damaged one
again and again; two at a time multiply the states tenfold, and the theorems, which
have no such bound, cover them. Deadlock is not checked in runs where the last call may
end for ever, in a future that is never resolved.

Why the properties are split like this. A short file is registered with the
size `stat` gives and released with the digest's, and a rewritten one likewise:
with these two faults the total drifts from the entries. (A `stat` that fails
while a batch is registered leaves the rest of the batch pending for ever; that
is no drift of the total, which goes on counting what is reserved.) So
`SizeAccounted` and `ImplementsStore` are checked with a failing CAS and proved
for all the other four faults, and `WithinBudget`, which survives all six, is
checked with every one. `FetchReturns` and `PendingServed` are checked for
the unlimited cache: under a limit, two calls may evict each other's files for
ever, and an evictor and a `Drop` that unlink one file leave a batch unsubmitted
or a future unresolved. The code promises no progress there.

Fairness. `FairSpec` has strong fairness for each thread of a call and of the
pool: a lock that is released again and again is had by each thread that waits
for it some time. `threading.Lock` does not promise that; it is an assumption on
the scheduling of threads, needed because others may call `fetch_to` for ever.
`init` has weak fairness. New calls, faults and restarts need never happen.

### 3.4 Findings

- `fs_evict_race`: `_link_existing_files` works with a snapshot of
  `_cached_files`. A file another call evicts after the snapshot is taken for
  corrupted, and `del self._cached_files[...]` raises `KeyError`, because the
  eviction has removed the entry. The call, and the action, fail where the
  docstring says "Return files not exists".
- `fs_leftover`: the error handler unlinks paths in the cache, never the `.tmp`
  files of the batch. They stay, uncounted, and every later download of that
  content stops at the check for an existing `.tmp` file, until a restart.
- `fs_truncated`: size and hash are compared only by the block that reaches the
  last byte. A stream that ends early never has one, nor has a small blob that is
  shorter than its digest, and the short file is moved to the cache.

### 3.5 Proofs

For all files, sizes, limits, requests, threads and, where nothing else is said,
faults:

- `TypeCorrect == Spec => []TypeOK`. The work is in `Plan` (the moves to the end
  and the removals keep one order), in the lists that each step takes the head
  of, in `Settled` and `Plan` (a name is never cached and pending at once), and in
  `Admit`: that init() admits files in an order needs that nothing else is under
  way, so `TypeOK` is proved together with `BootQuiet` (while init() runs, every
  call is idle, every batch object unused and nothing pending).
- `BudgetHolds == Spec => []WithinBudget`. The key is `VictimsSuffice`: the
  entries from the oldest to the first that releases enough do release enough
  when `MaxSizeReached` does not hold. It rests on `SizeOfUnion` and
  `SizeOfRemove` of `CacheSizesProofs` and on `OldestEntry`, the existence of a
  first entry in a finite order. Every other step lowers the total or, in
  `Admit`, tests it.
- `FlightsAreSingle == Spec => []SingleFlight`. An item of a batch is pending for
  that batch until, under the global lock, it is registered or cleaned up
  (`Owns`), so two batches under way share none. `Plan` keeps this because what
  it reserves was pending for nobody and a batch object that is used again is
  one nobody waits for; a call submits only what it planned itself (`Calls`).
- `SizesAreAccounted`, without short blobs and rewritten files:
  `Spec => []SizeAccounted`. Because the `.tmp` files of a batch are its own
  (`Owns` again), what it installs has the size of its digest (`TmpSized`,
  `FilesSized`), so entries and reservations are counted in one currency
  (`Entries`), and the total is the size of the set of digests that are cached
  or pending (`Books`): each of the paths moves one digest into, out of or
  within that set.
- `NothingIsReplaced`, `VerifiedOnly`, `ReturnsLinked`, without short blobs and
  rewritten files: `NoClobber`, `OnlyVerified`, `OkMeansLinked`. A batch that is
  about to rename has found no file at the path (`Whole`), and none appears until
  it does, as only another batch with that item could bring one. Every file of a
  request is linked, or in one of the three lists of the call (`Served`), and the
  lists are empty when the call returns. `VerifiedOnly` is the other side of the
  finding of `fs_truncated`: damaged and overlong blobs, whatever else fails,
  are never installed; what is, is short or was rewritten.
- `RestartsRecover == Spec => RestartRecovers`. While `init` admits files, the
  files are the verified ones, either entered or yet to be looked at
  (`Recovering`).
- `FuturesAreServed`, for a cache without a limit whose files nobody deletes:
  `Spec => []PendingServed`. No call evicts (`Unevicting`), so the only path on
  which a call stops between its plan and its submission is closed. A file that
  was there when the holder of the global lock looked is there until it is
  unlinked or its status is read (`Seen`), so no registration stops half-way.
  What is pending is then pending for a batch that runs, or that a call has yet
  to submit (`Brought`). With a limit, or with deletions, TLC finds a future that
  is never resolved.
- `NothingIsRaised` and `LedgerMatches`, for a cache without a limit when the CAS
  answers and nothing else touches the directory (restarts may come at any
  point): `NeverRaises`, `DiskMatchesLedger`. Without a limit, files leave the
  directory under the global lock only: the files of the directory are those of the
  entries and of the batches under way (`Placed`), no batch fails (`Unfailed`), and
  a call finds each file it waited for in the map and then in its snapshot
  (`Smooth`). `fs_leftover` shows that the CAS must answer, `fs_evict_race`
  that there must be no limit.
- `StoreImplemented`, without short blobs and rewritten files:
  `Spec => ImplementsStore`. A step of a call that leaves the maps alone shows to
  its caller as the end of the call, as one more file given, or not at all
  (`CallShows`, from `Served`). `Plan` is `Reserve`: what it reserves is wanted,
  for the lists of a call hold files of its request only; what results fits,
  because the total is the size of what is held and coming (`Books`) and within
  the limit; and its last victim is needed (`LastVictimNeeded`: the others are
  the entries older than the newest victim, and release too little). Forgetting
  a corrupted file is `Lose`, registering one `Arrive`, giving one up `Miss`,
  `init` a series of `Find`. With a short blob a call may return with a file
  that is not whole, with a rewritten one likewise: that is why both are left
  out.

Assumed: `FilesystemAssumption`, the types of the constants and that there are
finitely many digests. A limit of 0, none, is the default of `config.py` and of
the class. Only checked by TLC: `FetchReturns`, a liveness property.

## 4. The lock table

`VariableLock` has the table `_var_locks`, the owner of each lock object, and
each thread's place and local variables. Each section under the global lock is
one step (`LookUp`, `Delete`), so is each acquisition and release; `Check` reads
the table without the global lock, as the code does. Lock objects nothing
refers to are used again; when a thread needs a new one, the others and the
other variable refer to three at most, so of four `lock_factory` always finds one. Threads in
`Removers` may call `remove_lock` after they left.

`KeyedMutex` is what users count on: a thread wants a variable, gets in when
nobody else is in with it, and leaves. The refinement maps a thread to "wants"
from its call until it leaves: retries, removals and the table itself are
internal steps.

Nothing in the repository calls `remove_lock`: what is checked and proved about
removals is a promise of the lock's interface.

`lock_removal` checks three threads, two variables and two removers: the
smallest instance in which one thread is inside with a new lock, a second waits
for the removed one, and a third removes. It shows `MutualExclusion`,
`InsideIsCurrent`, `ImplementsMutex` and, under weak fairness of each thread
(the body of `with` ends; a thread that waits for a lock is not promised it),
`SomebodyEnters`. That *every* thread gets in is not claimed: `threading.Lock`
gives no order.

`VariableLockProofs` proves `LockTypeCorrect`, `LockInsideIsCurrent`,
`LockExcludes` and `LockImplements` for any number of threads and variables. The
inductive invariant is `TypeOK`, `Owned` (a thread past the acquisition owns its lock object) and `InsideIsCurrent` (while a thread
is inside, the table keeps its object): two threads inside with one variable
would own the same object. `InsideIsCurrent` is kept by `Delete` because a
remover owns the object it deletes. Assumed: `None` is not one of the objects.

`VariableRLock` differs: its owner may acquire again, and so remove the lock it
is inside with. Its only user, the directory builder, neither enters a lock it
holds nor removes one, so that there it is the holder of each directory's lock
(section 6).

## 5. The worker

`WorkerThread` models one worker: `WorkerThreadMain.run` (`First` to `Join`),
`RunnerThread.run` with the states `execute_command` reports (`Start` to
`UpdateActionResult`, and `Raise` for the exceptions nobody catches), and
`graceful_shutdown` statement by statement (`Signal`, `SetStop`, `PutIdle`,
`TestFuture`, `Cancel`). The scheduler is external: it answers an open call with
any instruction or none, again and again, up to `MaxInstructions`. Times are
left out: the queue may time out whenever it is empty. What is in an action, its
command, its inputs and its outputs is abstracted to how each stage may end.

`TestFuture` and `Cancel` are two steps because `graceful_shutdown` reads
`_sync_future` twice. When the worker sets it to `None` between them, the
`AttributeError` leaves the signal handler and `main`, whose exit closes the
channels: from then on (`handler = "raised"`) every call of both threads may
raise. An `RpcError` of `Synchronize` ends the worker thread, and its runner
stays blocked; the model keeps the runner waiting until a signal comes. A
process handles signals one after the other, so a second `Signal` waits for the
handler.

`ActionReports` is what the scheduler may conclude from the states it receives:
one action at a time, no stage skipped or reordered, a state maybe repeated.
The refinement maps the last state the worker thread took from the queue.

| Run | Shows |
|---|---|
| `worker_sync` | calls and runner may fail: `StopsSoon`, `ReportsInOrder` (the refinement), `OutcomeOrExcuse`, `DeadRunnerNoticed`, `ShutdownEnds` |
| `worker_outcome` | finding: a shutdown joins the runner, and the outcome of the action that was running is never reported, against what the protocol's documentation says of a worker |

Bounds: two instructions for two actions and idle let the second overtake, or
arrive after the stop; one signal, at every pair of points. A second signal
repeats the handler on events that are already set. Deadlock is not checked:
both threads end.

Fairness: weak, for each thread, the handler, and `Answer`. The last is an
assumption on the scheduler: the protocol lets it hold a call of an idle worker,
and a signal between the test of the event and the call then waits for as long
(hazard at `thread.py:80`). Commands terminate. Nothing needs to fail.

`WorkerThreadProofs` proves `WorkerTypeCorrect`, `WorkerStopsSoon` and
`WorkerReportsInOrder` for any actions, instructions, signals and faults.
`StopsSoon` needs the points of the runner at which a stopped runner may have
taken one instruction; the refinement needs that the last report, the queue and
the stage the runner is in form one chain in which each state may follow the one
before: `NextState` moves along it, and the runner only ever extends its end.
Assumed: `Idle` and `None` are not actions. Liveness (`OutcomeOrExcuse`,
`DeadRunnerNoticed`, `ShutdownEnds`) is checked by TLC only, which is true of
every liveness property here.

## 6. The directory cache

### 6.1 State and actions

`cached`, `pending`, `count` and `current` are the maps and the total of the
object; `setting` is what the worker was started with (the limit, and whether
files are copied or linked). `disk[n]` says whether the directory `n` of a tree
exists and has its files, `sealed` which are read-only, `dirLock` who holds
the lock of a cached directory. `frames[b]` are the nested calls of the functions that
make the top of an input root, with what each has planned and still to evict,
wait for and link; `linked[b]` are the directories the build directory links to.
`task[n]` is where the pool is with each directory of a tree, `finish[d]` what
the callback of a failed one still does.

| Code | Actions |
|---|---|
| `build`, the nested calls for large directories | `Build`, `Descend`, `SkipDone`, `TopFails`, `Return` |
| the plan under `_download_lock` | `Plan`, `PlanRaise` (one step each) |
| removal of the evicted directories | `EvictGone`, `EvictWalk`, `EvictRest`, `EvictRaise` |
| the futures, then the links | `WaitRaise`, `Link` |
| the tasks of the pool and their callbacks | `MakeDir`, `MakeDirFails`, `FetchFiles`, `FetchFails`, `CheckFiles`, `JoinDirs`, `JoinFails` |
| the callback of a cached directory | `Complete`, `Fail`, then `DropWalk`, `DropRest`, `DropRaise`, `Release` |
| a stop, `init` and its verification | `Stop`, `Verify`, `Admit`, `Up` |

What happens under `_download_lock` is one step: its sections are short, and no
thread that holds it waits for another that needs it. A removal is two steps
under the lock of its directory, because tasks that still write to it do not
take that lock. Files that directories share are counted as the code counts
them: `Required` and `Released` are the bytes a set of trees is the first, or
the last, to use. What the file cache does is a fetch that ends or fails.

What is abstracted: names, the access times a restart sorts by (any order), the
content of build directories beyond their links, the size of the pool. A
directory is known by one name in a build: with two names of one content the
plan counts it twice and releases it once, in one thread and whatever the others do.

### 6.2 Runs

| Run | Instance | Shows |
|---|---|---|
| `dir_build` | 2 builders; a tree with two sub-directories (two files of size 1) and a directory that shares one of them and has another of size 2; limit 3 by links, limit 3 by copies, no limit; failing fetches, restarts without a limit or with limit 2 | `TypeOK`, `Ledger`, `WithinBudget`, `CachedComplete`, `BuiltStays`, `RestartRecovers`, `BuildReturns` |
| `dir_dangling` | the same directories with files of size 1, limit 2, requests for one each, no faults | finding: a build returns with a link to nothing |

Bounds. The two directories fit one at a time, so that each build evicts what
the other has made; sharing makes what a directory costs depend on who was
first. One request nests a large directory under a top level with directories
that skip the cache. Two builders are at every pair of points of a plan, its
evictions and its links; callbacks that raise and removals that meet a running
task are reached. Deadlock is not checked: a swallowed exception leaves its
builders waiting.

Why the properties are split by the limit. With a limit the code lets an
incomplete directory into the map: the removal of an evicted directory happens
after the lock is released and may take what a new build of it has just made,
and the callback that should see it tests the last name only. So
`CachedComplete` and `BuiltStays` speak of the unlimited cache, where nothing is
evicted; what the limit does to a link is the finding. `init` under a limit removes
directories that do not fit and leaves them in the map (hazard at
`directorybuilder.py:662`): in a worker that was started again with a limit
(`Shrunk`) the ledger is not that of the map, and `Ledger` does not speak of it. What
holds for every restart is `RestartRecovers`: the counts and the total are those of
the directories that are left on disk, each complete, read-only and in the map.
The limit of 2, which the second directory alone passes, is there for this. After
such a restart a removed directory may be evicted or released uncounted; a count
that would fall below zero is a `KeyError`, in the plan (`PlanRaise`) or in the
callback of a failed directory, whose future is then never resolved (`Release`).
A plan that raises changes nothing, but a build that raises
between its plan and its removals leaves evicted directories on disk, which no
property denies.

Fairness. Strong fairness of each builder: two others that evict and build one
directory again and again may starve a builder that waits for the lock of that
directory, and a lock that is free again and again is had some time. Weak
fairness of the pool for each cached directory, its finisher included, and of
`init`. Fetches end; nothing needs to fail. `BuildReturns` has one excuse, an
exception raised in a callback (`Swallowed`), after which the code waits for
ever.

### 6.3 Finding

`dir_dangling`: `_build_toplevel_dirs` ends with a test that every linked
directory is there, but the generator it iterates is exhausted by then and the
test looks at nothing. Between the plan and the link another build may evict the
directory, so a build returns with a link to a removed directory and its action
runs without an input.

### 6.4 Proofs

`DirectoryProofs` proves, for any trees, sharing, sizes, settings, requests,
builders and faults:

- `DirectoryTypeCorrect == Spec => []TypeOK`: `_cached_dir` keeps one entry for a
  directory, and none for one that is being built. The strengthening is
  `Booting` (nothing is pending while `init` runs, and what it has yet to look
  at is not in the map) and `Finishing` (the finisher works on pending
  directories).
- `DirectoryBudgetHolds == Spec => []WithinBudget`: what a plan evicts is in the
  map, not among its hits, and releases enough (`VictimsFacts`).
- `LedgerHolds == Spec => []Ledger`. The trees of
  different directories are disjoint (`TreesDisjoint`), so the uses of a union
  are the sum of the uses; every step adds one set of directories to those held
  or takes one away, and `BooksGrow` and `BooksShrink` show that `Required` and
  `Released` are the difference in bytes although files are shared.

- `DirectoryRestarts == Spec => RestartRecovers`. While `init` admits directories,
  those on disk that are entered or yet to be looked at are verified and in the
  map, everything else in the cache directory is below one of them, and the
  ledger is that of those it kept (`Tidy`, with `BooksGrow` for each it admits).
- `CacheComplete == Spec => []CachedComplete` and `BuildsStay == Spec =>
  []BuiltStays`, which speak of a worker without a limit. The invariant
  (`Reliable`) follows the pool through a tree: a task that has run has left its
  directory, its files or its joined sub-directories on disk (`Growing`), a
  directory enters the map by a callback that saw all of them (`Entered`,
  `Readied` for the calls that wait for it), and what a build has linked is in the
  map (`LinkedIn`). It is
  inductive because without a limit a plan has no victims, so the only removals
  are those of the callback of a failed directory, which works on pending ones
  (`Finishing`).

Assumed: `DirectoryAssumption`, that every directory is in the tree of one
top-level directory, that what is below a directory is in one of its
sub-directories, and that there are finitely many. Only checked by TLC:
`BuildReturns`, a liveness property.

## 7. Directory messages and the CAS

`CASHelper` is `fetch_all` as a function from the state of the generator to the
states after its next step: one blob after the other is sorted, small ones into
batches strictly below the message limit, large ones for a stream each; then
come the answers of the batches, their blobs in any order, and the streams;
refused blobs are an error at the very end, a failing call is one at once.
`DirectoryDataCache` is its caller: a thread that misses a directory loops over
the generator of its sub-directories and calls itself for each blob that is
yielded, while the generator is suspended, then enters the whole tree; the lock
is held for the look-up and for the entry. `calls[th]` are the nested calls of a
thread. `Reach[d]`, what is below a directory, is the part of every set of
directories that has `d` and the sub-directories of its members: a recursive
definition without recursion, so that the provers can use it.

| Run | Instance | Shows |
|---|---|---|
| `cas_fetch` | 2 threads; two roots that share directories, one of them twice below a root; a pair of blobs that fits a request, one on the boundary, one that is streamed; a cache of 3 | `TypeOK`, `EntriesComplete`, `BuildsWholeTree`, `BatchesFit`, `NothingDropped`, `FetchEnds` |

A cache of three entries is smaller than a tree, so that a thread's own entries
are evicted while it works. A blob that the CAS does not answer at all, or a
stream that ends early, is not an error to `fetch_all`; it is not modelled, and
the cache would then keep an incomplete tree (hazard at `cas.py:217`). Fairness
is weak for each thread's fetch: the CAS answers or fails.

`DirectoryDataProofs` proves `DataCacheTypes`, `EntriesAreComplete`,
`TreesAreWhole`, `RequestsFit` and `NoBlobIsDropped` for any directories, sizes,
message limits, threads, cache limits and faults. What each step of the generator
keeps is the set of the blobs it was asked for (`Asked`: `GenSorts`, `GenCalls`,
`GenStreams`) and the bound on its batches (`BatchesGrow`, with `CacheSizes` for
the sum). A call is `Sound` when each sub-directory of its directory is asked for
still, or is what the next call down the stack fetches, or is in its result with
all that is below it; the calls of a thread form a `Stack` in which each is sound
with the next. The innermost call changes (`InnerMoves`), gets a callee
(`Deepens`) or returns what is then the whole of `Reach` (`CallEnds`, `Returns`),
and `ReachFacts` says what `Reach` is for a directory from its sub-directories.
The result is independent of the cache: a hit adds a whole tree because entries
are whole (`EntriesComplete`), which is part of the same invariant. Assumed:
`CASAssumption` and `DataCacheAssumption`, types and finitely many blobs. A tree
with a cycle has no digests; nothing here needs that there is none, but
`FetchEnds`, which only TLC checks.

`fetch_all_block` appears in the file cache as the orders and failures of the
blobs a batch receives (`Incoming`, `Receive`, `ReceiveFault`).

## 8. Not modelled

- `update_all`: it keeps no state; refused uploads are logged and dropped
  (hazard at `cas.py:328`).
- `CASCache` and `ThreadWorkerState`: only their tests use them.
- Several workers in one process: they meet in the two caches, whose modules
  have several callers, and in the signal handler, of which section 5 has one
  worker's part.
- Two names of one content in one build (section 6.1); a blob that is never
  answered in `fetch_all` (section 7).
- The digests and messages themselves, the command line of an action, the Xcode
  environment, Windows file semantics, configuration, metrics, generated code:
  data or I/O without a state the properties speak of.

## 9. Running the checks

    tlc -workers 2 -config fs_shared.cfg MCFilesystem
    tlc -workers 2 -config dir_build.cfg MCDirectoryBuilder
    tlc -workers 2 -config cas_fetch.cfg MCDirectoryDataCache
    tlapm FetchProofs.tla

`PROJECT.json` names the module and the configuration of each run, whether it
passes or shows a finding, the source lines each definition stands for, the
hazards and the theorems. It also has, for each property of a passing run, a
plausible bug (the definitions that end in `_Mutant`) which makes the property
fail.
