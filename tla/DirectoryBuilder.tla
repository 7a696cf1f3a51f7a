-------------------------- MODULE DirectoryBuilder --------------------------
(***************************************************************************)
(* The directory cache of the worker (SharedTopLevelCachedDirectoryBuilder *)
(* in src/bbworker/directorybuilder.py).  build() makes the input root of  *)
(* an action: the directories at its top are built once in the cache, made *)
(* read-only, and linked into the build directory.  Under _download_lock a *)
(* build plans what it finds, what others are building, what it builds and *)
(* what it evicts; the directories are built by a pool, one task for each  *)
(* directory of the tree; the plan's evictions are carried out after the   *)
(* lock is released, then the build waits for its futures and links.       *)
(*                                                                         *)
(* _download_lock is held for single steps and no thread that holds it     *)
(* waits for another that needs it, so what happens under it is one step.  *)
(* The lock of a directory (_dir_lock, which no thread here enters twice)  *)
(* is held while the directory is removed, over several steps.             *)
(***************************************************************************)
EXTENDS Integers, Sequences, FiniteSets, CacheSizes

CONSTANTS
    Builders,       \* the runner threads that call build()
    Nodes,          \* the directories of the trees that may be cached
    Above,          \* the directories each of them is in, up to the top one
    FilesOf,        \* the contents of the files in each of them
    Files, Size,    \* those contents, and their sizes
    Requests,       \* the input roots that are built, see Request
    Settings,       \* what the worker may be configured to, see Setting
    LaterSettings,  \* what it may be configured to when it starts again
    Faults,         \* what the environment may do
    None, Pool      \* no holder of a lock, and the threads of the pool

Tops == {n \in Nodes : Above[n] = {}}
Tree == [n \in Nodes |-> {m \in Nodes : m = n \/ n \in Above[m]}]
Children(n) == {m \in Nodes : Above[m] = Above[n] \cup {n}}

\* An input root: the directories at its top that are cached, whether it
\* has some that skip the cache, and the large directories, whose
\* directories are cached one by one.
Request == [cached : SUBSET Tops, skip : BOOLEAN, large : Seq(SUBSET Tops)]

\* max_cache_size_bytes, 0 for no limit, and copy_file.
Setting == [limit : Nat, copy : BOOLEAN]

\* fetch: a file cannot be fetched.  restart: the worker stops and starts.
FaultKinds == {"fetch", "restart"}

ASSUME DirectoryAssumption ==
    /\ IsFiniteSet(Nodes) /\ IsFiniteSet(Files)
    /\ Above \in [Nodes -> SUBSET Nodes]
    /\ \A n \in Nodes : n \notin Above[n]
    /\ \A n \in Nodes : \A m \in Above[n] : Above[m] \subseteq Above[n]
    /\ \A n \in Nodes : \E t \in Tops : \A u \in Tops : n \in Tree[u] <=> u = t
    /\ \A n \in Nodes : \A m \in Tree[n] \ {n} : \E c \in Children(n) : m \in Tree[c]
    /\ FilesOf \in [Nodes -> SUBSET Files]
    /\ Size \in [Files -> Nat]
    /\ Requests \subseteq Request
    /\ Settings \subseteq Setting /\ LaterSettings \subseteq Setting
    /\ Faults \subseteq FaultKinds
    /\ None \notin Builders \cup {Pool} /\ Pool \notin Builders

VARIABLES
    cached,         \* _cached_dir, an OrderedDict: the oldest first
    pending,        \* _pending_cached_dir: the state of the future, if any
    count,          \* _file_count: how often the directories use each file
    current,        \* _current_size_bytes
    setting,        \* the configuration the worker was started with
    disk,           \* what each directory of the cache is on disk
    sealed,         \* the directories on disk that are read-only
    dirLock,        \* who holds the lock of each cached directory
    task,           \* the task of the pool for each directory
    finish,         \* what _inner_finish has to do after a failed build
    frames,         \* the calls of _build_toplevel each builder is in
    linked,         \* the directories linked into each build directory
    outcome,        \* how the last build of each builder ended
    phase,          \* "up", or "down", or init() is running
    unseen          \* the verified directories init() has yet to admit

ledgerVars == <<cached, pending, count, current>>
diskVars == <<disk, sealed, dirLock>>
poolVars == <<task, finish>>
buildVars == <<frames, linked, outcome>>
bootVars == <<phase, unseen, setting>>
vars == <<ledgerVars, diskVars, poolVars, buildVars, bootVars>>

-----------------------------------------------------------------------------
(* Sizes: _calculate_required_size and _calculate_released_size *)

InTrees(D) == UNION {Tree[d] : d \in D}

\* How often the trees of D use each file.
Uses(D) == [f \in Files |-> Cardinality({n \in InTrees(D) : f \in FilesOf[n]})]

\* The copies a tree needs: copy_size_bytes counts every use of a file.
Places(D) == {p \in Nodes \X Files : p[1] \in InTrees(D) /\ p[2] \in FilesOf[p[1]]}
PlaceSize == [p \in Nodes \X Files |-> Size[p[2]]]
CopySize(D) == SizeOf(PlaceSize, Places(D))

\* The counts with and without the trees of D.  The counts of copies are
\* not kept (None).
With(counts, D) ==
    IF setting.copy THEN counts ELSE [f \in Files |-> counts[f] + Uses(D)[f]]
Without(counts, D) ==
    IF setting.copy THEN counts ELSE [f \in Files |-> counts[f] - Uses(D)[f]]

\* The bytes of the files the trees of D are the first to use, and of those
\* they are the last to use.
Required(counts, D) ==
    IF setting.copy THEN CopySize(D)
    ELSE SizeOf(Size, {f \in Files : counts[f] = 0 /\ Uses(D)[f] > 0})
Released(counts, D) ==
    IF setting.copy THEN CopySize(D)
    ELSE SizeOf(Size, {f \in Files : Uses(D)[f] > 0 /\ counts[f] = Uses(D)[f]})

\* Without them the counts would fall below zero: KeyError.
Underflow(counts, D) ==
    ~setting.copy /\ \E f \in Files : counts[f] < Uses(D)[f]

-----------------------------------------------------------------------------
(* The cache directory *)

Members(s) == {s[i] : i \in 1..Len(s)}

\* The orders of the members of S.
Orders(S) == {s \in [1..Cardinality(S) -> S] : Members(s) = S}

OnDisk(n) == disk[n] # "none"
Filled(n) == disk[n] = "whole" \/ (disk[n] = "made" /\ FilesOf[n] = {})
Whole(d) == \A n \in Tree[d] : Filled(n)

\* Tasks the pool may still run for the tree of d.
Active(d) == {n \in Tree[d] : task[n] \in {"queued", "fetch", "check"}}

\* _remove_cached_dir for x, the walk: under the lock, what exists is made
\* writable, and the files go unless they are copies.
RemoveWalk(x, d) ==
    /\ dirLock[d] = None /\ OnDisk(d)
    /\ dirLock' = [dirLock EXCEPT ![d] = x]
    /\ sealed' = sealed \ Tree[d]
    /\ disk' = [n \in Nodes |->
                   IF n \in Tree[d] /\ disk[n] = "whole" /\ ~setting.copy
                   THEN "made" ELSE disk[n]]

\* shutil.rmtree takes the rest, and the lock is released.
RemoveRest(x, d) ==
    /\ dirLock[d] = x
    /\ dirLock' = [dirLock EXCEPT ![d] = None]
    /\ disk' = [n \in Nodes |-> IF n \in Tree[d] THEN "none" ELSE disk[n]]
    /\ UNCHANGED sealed

\* A task that still writes to the tree makes the removal raise half-way.
RemoveRaise(x, d) ==
    /\ dirLock[d] = x /\ Active(d) # {}
    /\ dirLock' = [dirLock EXCEPT ![d] = None]
    /\ \E Left \in SUBSET {n \in Tree[d] : OnDisk(n)} :
          /\ d \in Left /\ \A n \in Left : Above[n] \subseteq Left
          /\ disk' = [n \in Nodes |->
                         IF n \in Tree[d] THEN IF n \in Left THEN "made" ELSE "none"
                         ELSE disk[n]]
    /\ UNCHANGED sealed

-----------------------------------------------------------------------------
(* Planning: _build_toplevel_dirs under _download_lock *)

Hits(S) == S \cap Members(cached)
Joined(S) == {d \in S \ Hits(S) : pending[d] # "none"}
New(S) == {d \in S \ Hits(S) : pending[d] = "none"}

\* The counts with the new directories, and what is left for others.
Counted(S) == With(count, New(S))
Available(S) == setting.limit - current - Required(count, New(S))
MustEvict_Mutant(S) == setting.limit > 0 /\ setting.limit < current
MustEvict(S) == setting.limit > 0 /\ Available(S) < 0

\* The oldest directories S does not need, one by one until they release
\* enough.
Oldest(S, k) == {cached[i] : i \in 1..k} \ Hits(S)
Enough(S, k) == Available(S) + Released(Counted(S), Oldest(S, k)) >= 0
FirstEnough(S, k) == Enough(S, k) /\ \A j \in 1..(k - 1) : ~Enough(S, j)
Fits(S) ==
    MustEvict(S) =>
        \E k \in 1..Len(cached) :
            FirstEnough(S, k) /\ ~Underflow(Counted(S), Oldest(S, k))
Victims(S) ==
    IF ~MustEvict(S) THEN {}
    ELSE Oldest(S, CHOOSE k \in 1..Len(cached) : FirstEnough(S, k))

\* The order of the map.
OldestFirst(list) ==
    \A i, j \in 1..Len(list) : i < j =>
        \E k, l \in 1..Len(cached) : k < l /\ cached[k] = list[i] /\ cached[l] = list[j]

-----------------------------------------------------------------------------
(* The builders *)

\* A call of _build_toplevel: what its plan found and what it still has to
\* do.  It raises after its evictions when a future of it is broken.
Frame(S, skip, large) ==
    [planned |-> FALSE, cached |-> S, skip |-> skip, large |-> large,
     victims |-> <<>>, waits |-> {}, broken |-> FALSE, links |-> {}]

Top(b) == frames[b][Len(frames[b])]
Busy(b) == phase = "up" /\ frames[b] # <<>>
Stepping(b) == Busy(b) /\ Top(b).planned /\ Top(b).large = <<>>
Waiting(b) == Stepping(b) /\ Top(b).victims = <<>>
ToLink_Mutant(b) == Waiting(b) /\ ~Top(b).skip /\ ~Top(b).broken
ToLink(b) == Waiting(b) /\ Top(b).waits = {} /\ ~Top(b).skip /\ ~Top(b).broken

TopBecomes(b, frame) == frames' = [frames EXCEPT ![b][Len(frames[b])] = frame]

\* An exception leaves all the calls the builder is in.
Raise(b) ==
    /\ frames' = [frames EXCEPT ![b] = <<>>]
    /\ outcome' = [outcome EXCEPT ![b] = "failed"]
    /\ UNCHANGED linked

\* build(): the links of the last build are removed first.
Build(b) ==
    /\ phase = "up" /\ frames[b] = <<>>
    /\ \E r \in Requests :
          frames' = [frames EXCEPT ![b] = <<Frame(r.cached, r.skip, r.large)>>]
    /\ linked' = [linked EXCEPT ![b] = {}]
    /\ outcome' = [outcome EXCEPT ![b] = "none"]
    /\ UNCHANGED <<ledgerVars, diskVars, poolVars, bootVars>>

\* The directory messages or the files at the top cannot be fetched.
TopFails(b) ==
    /\ Busy(b) /\ ~Top(b).planned /\ "fetch" \in Faults
    /\ Raise(b)
    /\ UNCHANGED <<ledgerVars, diskVars, poolVars, bootVars>>

\* The plan.  What it evicts leaves the map and the ledger now, and the disk
\* later; what it finds moves to the end of the map, in the order of a set;
\* what is new enters the ledger and is submitted to the pool.
Plan(b) ==
    /\ Busy(b) /\ ~Top(b).planned
    /\ LET S == Top(b).cached
           evicted == Victims(S)
       IN  /\ Fits(S)
           /\ \E rest \in Orders(Members(cached) \ (Hits(S) \cup evicted)), hits \in Orders(Hits(S)) :
                 OldestFirst(rest) /\ cached' = rest \o hits
           /\ count' = Without(Counted(S), evicted)
           /\ current' = current - Released(Counted(S), evicted) + Required(count, New(S))
           /\ pending' = [d \in Tops |-> IF d \in New(S) THEN "building" ELSE pending[d]]
           /\ task' = [n \in Nodes |-> IF n \in New(S) THEN "queued" ELSE task[n]]
           /\ \E list \in Orders(evicted) :
                 /\ OldestFirst(list)
                 /\ TopBecomes(b, [Top(b) EXCEPT
                       !.planned = TRUE, !.cached = {}, !.victims = list, !.links = S,
                       !.waits = New(S) \cup {d \in Joined(S) : pending[d] = "building"},
                       !.broken = \E d \in Joined(S) : pending[d] = "failed"])
    /\ UNCHANGED <<diskVars, finish, linked, outcome, bootVars>>

\* MaxSizeReached, or KeyError: nothing is changed yet.
PlanRaise(b) ==
    /\ Busy(b) /\ ~Top(b).planned /\ ~Fits(Top(b).cached)
    /\ Raise(b)
    /\ UNCHANGED <<ledgerVars, diskVars, poolVars, bootVars>>

\* The large directories are built one after the other, by the same thread.
Descend(b) ==
    /\ Busy(b) /\ Top(b).planned /\ Top(b).large # <<>>
    /\ frames' = [frames EXCEPT ![b] =
          SubSeq(@, 1, Len(@) - 1)
            \o <<[Top(b) EXCEPT !.large = Tail(@)], Frame(Head(Top(b).large), FALSE, <<>>)>>]
    /\ UNCHANGED <<ledgerVars, diskVars, poolVars, linked, outcome, bootVars>>

\* The directories that skip the cache are built in the build directory.
SkipDone(b) ==
    /\ Stepping(b) /\ Top(b).skip
    /\ \E failed \in {FALSE} \cup {f \in {TRUE} : "fetch" \in Faults} :
          TopBecomes(b, [Top(b) EXCEPT !.skip = FALSE, !.broken = @ \/ failed])
    /\ UNCHANGED <<ledgerVars, diskVars, poolVars, linked, outcome, bootVars>>

\* The next directory the plan evicted is removed.
EvictWalk(b) ==
    /\ Stepping(b) /\ Top(b).victims # <<>>
    /\ RemoveWalk(b, Head(Top(b).victims))
    /\ UNCHANGED <<ledgerVars, poolVars, buildVars, bootVars>>

EvictRest(b) ==
    /\ Stepping(b) /\ Top(b).victims # <<>>
    /\ RemoveRest(b, Head(Top(b).victims))
    /\ TopBecomes(b, [Top(b) EXCEPT !.victims = Tail(@)])
    /\ UNCHANGED <<ledgerVars, poolVars, linked, outcome, bootVars>>

EvictRaise(b) ==
    /\ Stepping(b) /\ Top(b).victims # <<>>
    /\ RemoveRaise(b, Head(Top(b).victims))
    /\ Raise(b)
    /\ UNCHANGED <<ledgerVars, poolVars, bootVars>>

EvictGone(b) ==
    /\ Stepping(b) /\ Top(b).victims # <<>>
    /\ dirLock[Head(Top(b).victims)] = None /\ ~OnDisk(Head(Top(b).victims))
    /\ TopBecomes(b, [Top(b) EXCEPT !.victims = Tail(@)])
    /\ UNCHANGED <<ledgerVars, diskVars, poolVars, linked, outcome, bootVars>>

\* A future the build waits for has failed.
WaitRaise(b) ==
    /\ Waiting(b) /\ Top(b).broken
    /\ Raise(b)
    /\ UNCHANGED <<ledgerVars, diskVars, poolVars, bootVars>>

\* A directory is linked, under its lock; nothing tests that it is there.
Link(b) ==
    /\ ToLink(b)
    /\ \E d \in Top(b).links :
          /\ dirLock[d] = None
          /\ linked' = [linked EXCEPT ![b] = @ \cup {d}]
          /\ TopBecomes(b, [Top(b) EXCEPT !.links = @ \ {d}])
    /\ UNCHANGED <<ledgerVars, diskVars, poolVars, outcome, bootVars>>

\* The call returns.  The test for missing directories at its end goes
\* through an iterator that is at its end already: it tests nothing.
Return(b) ==
    /\ ToLink(b) /\ Top(b).links = {}
    /\ frames' = [frames EXCEPT ![b] = SubSeq(@, 1, Len(@) - 1)]
    /\ outcome' = [outcome EXCEPT ![b] = IF Len(frames[b]) = 1 THEN "ok" ELSE @]
    /\ UNCHANGED <<ledgerVars, diskVars, poolVars, linked, bootVars>>

Builder(b) ==
    \/ TopFails(b) \/ Plan(b) \/ PlanRaise(b) \/ Descend(b) \/ SkipDone(b)
    \/ EvictWalk(b) \/ EvictRest(b) \/ EvictRaise(b) \/ EvictGone(b)
    \/ WaitRaise(b) \/ Link(b) \/ Return(b)

-----------------------------------------------------------------------------
(* The pool: _build_native for each directory of a tree *)

TaskBecomes(n, state) == task' = [task EXCEPT ![n] = state]

\* The sub-directories are submitted; without any the future is resolved.
Spawn(n) ==
    task' = [m \in Nodes |->
                IF m = n THEN IF Children(n) = {} THEN "ok" ELSE "join"
                ELSE IF m \in Children(n) THEN "queued" ELSE task[m]]

\* The directory is made unless it is there, with those it is in.
MakeDir(n) ==
    /\ task[n] = "queued"
    /\ disk' = [m \in Nodes |->
                   IF m \in {n} \cup Above[n] /\ ~OnDisk(m) THEN "made" ELSE disk[m]]
    /\ IF FilesOf[n] = {} THEN Spawn(n) ELSE TaskBecomes(n, "fetch")
    /\ UNCHANGED <<sealed, dirLock>>

\* It cannot be made in a read-only directory.
MakeDirFails(n) ==
    /\ task[n] = "queued" /\ ~OnDisk(n) /\ Above[n] \cap sealed # {}
    /\ TaskBecomes(n, "failed")
    /\ UNCHANGED diskVars

\* fetch_to links or copies the files; files that are there are replaced.
FetchFiles(n) ==
    /\ task[n] = "fetch" /\ OnDisk(n)
    /\ disk' = [disk EXCEPT ![n] = "whole"]
    /\ TaskBecomes(n, "check")
    /\ UNCHANGED <<sealed, dirLock>>

\* It fails in a directory that is gone; a read-only one stops it unless
\* the worker runs as root.
FetchFails(n) ==
    /\ task[n] = "fetch"
    /\ "fetch" \in Faults \/ ~OnDisk(n) \/ n \in sealed
    /\ TaskBecomes(n, "failed")
    /\ UNCHANGED diskVars

\* The files are looked for again.
CheckFiles(n) ==
    /\ task[n] = "check"
    /\ IF disk[n] = "whole" THEN Spawn(n) ELSE TaskBecomes(n, "failed")
    /\ UNCHANGED diskVars

\* The callback of the last sub-directory: the name it looks for is that of
\* the last one in order, whichever it loops over, and what it raises is
\* swallowed, so that the future is never resolved.
LastChild(n) == CHOOSE m \in Children(n) : TRUE
JoinDirs_Mutant(n) ==
    /\ task[n] = "join" /\ \E m \in Children(n) : task[m] = "ok"
    /\ TaskBecomes(n, IF OnDisk(LastChild(n)) THEN "ok" ELSE "stuck")
    /\ UNCHANGED diskVars
JoinDirs(n) ==
    /\ task[n] = "join" /\ \A m \in Children(n) : task[m] = "ok"
    /\ TaskBecomes(n, IF OnDisk(LastChild(n)) THEN "ok" ELSE "stuck")
    /\ UNCHANGED diskVars

\* The callback of the first sub-directory that fails; the others go on.
JoinFails_Mutant(n) ==
    /\ task[n] = "join" /\ \A m \in Children(n) : task[m] = "failed"
    /\ TaskBecomes(n, "failed")
    /\ UNCHANGED diskVars
JoinFails(n) ==
    /\ task[n] = "join" /\ \E m \in Children(n) : task[m] = "failed"
    /\ TaskBecomes(n, "failed")
    /\ UNCHANGED diskVars

Task(n) ==
    /\ phase = "up"
    /\ \/ MakeDir(n) \/ MakeDirFails(n) \/ FetchFiles(n) \/ FetchFails(n)
       \/ CheckFiles(n) \/ JoinDirs(n) \/ JoinFails(n)
    /\ UNCHANGED <<ledgerVars, finish, buildVars, bootVars>>

-----------------------------------------------------------------------------
(* The pool: _inner_finish for each cached directory *)

\* Those who wait for the future of d are told.
Resolved(d, failed) ==
    [b \in Builders |->
        [i \in 1..Len(frames[b]) |->
            IF d \notin frames[b][i].waits THEN frames[b][i]
            ELSE [frames[b][i] EXCEPT !.waits = @ \ {d}, !.broken = @ \/ failed]]]

Unfinished(d) == pending[d] = "building" /\ finish[d] = "none"

\* The tree is made read-only and the directory enters the map.
Complete_Mutant(d) ==
    /\ Unfinished(d) /\ task[d] = "ok" /\ dirLock[d] = None /\ OnDisk(d)
    /\ sealed' = sealed \cup {n \in Tree[d] : OnDisk(n)}
    /\ cached' = Append(cached, d)
    /\ task' = [n \in Nodes |-> IF n \in Tree[d] THEN "none" ELSE task[n]]
    /\ frames' = Resolved(d, FALSE)
    /\ UNCHANGED <<pending, count, current, disk, dirLock, finish>>
Complete(d) ==
    /\ Unfinished(d) /\ task[d] = "ok" /\ dirLock[d] = None /\ OnDisk(d)
    /\ sealed' = sealed \cup {n \in Tree[d] : OnDisk(n)}
    /\ cached' = Append(cached, d)
    /\ pending' = [pending EXCEPT ![d] = "none"]
    /\ task' = [n \in Nodes |-> IF n \in Tree[d] THEN "none" ELSE task[n]]
    /\ frames' = Resolved(d, FALSE)
    /\ UNCHANGED <<count, current, disk, dirLock, finish>>

\* The build failed, or what it built is gone again.
Fail(d) ==
    /\ Unfinished(d)
    /\ \/ task[d] = "failed"
       \/ task[d] = "ok" /\ dirLock[d] = None /\ ~OnDisk(d)
    /\ finish' = [finish EXCEPT ![d] = IF OnDisk(d) THEN "remove" ELSE "release"]
    /\ UNCHANGED <<ledgerVars, diskVars, task, frames>>

\* What there is of it is removed.
DropWalk(d) ==
    /\ finish[d] = "remove"
    /\ RemoveWalk(Pool, d)
    /\ UNCHANGED <<ledgerVars, poolVars, frames>>

DropRest(d) ==
    /\ finish[d] = "remove"
    /\ \/ RemoveRest(Pool, d)
       \/ dirLock[d] = None /\ ~OnDisk(d) /\ UNCHANGED diskVars
    /\ finish' = [finish EXCEPT ![d] = "release"]
    /\ UNCHANGED <<ledgerVars, task, frames>>

\* The removal raises in the callback: the future is never resolved.
DropRaise(d) ==
    /\ finish[d] = "remove"
    /\ RemoveRaise(Pool, d)
    /\ finish' = [finish EXCEPT ![d] = "stuck"]
    /\ UNCHANGED <<ledgerVars, task, frames>>

\* Its bytes are released; the failed future stays in the map.  A KeyError
\* leaves the future unresolved.
Release_Mutant(d) ==
    /\ finish[d] = "release"
    /\ pending' = [pending EXCEPT ![d] = "failed"]
    /\ finish' = [finish EXCEPT ![d] = "none"]
    /\ frames' = Resolved(d, TRUE)
    /\ UNCHANGED <<cached, count, current, diskVars, task>>
Release(d) ==
    /\ finish[d] = "release"
    /\ IF Underflow(count, {d})
       THEN /\ finish' = [finish EXCEPT ![d] = "stuck"]
            /\ UNCHANGED <<count, current, pending, frames>>
       ELSE /\ count' = Without(count, {d})
            /\ current' = current - Released(count, {d})
            /\ pending' = [pending EXCEPT ![d] = "failed"]
            /\ finish' = [finish EXCEPT ![d] = "none"]
            /\ frames' = Resolved(d, TRUE)
    /\ UNCHANGED <<cached, diskVars, task>>

Finisher(d) ==
    /\ phase = "up"
    /\ \/ Complete(d) \/ Fail(d) \/ DropWalk(d) \/ DropRest(d) \/ DropRaise(d)
       \/ Release(d)
    /\ UNCHANGED <<linked, outcome, bootVars>>

-----------------------------------------------------------------------------
(* Restart: init() *)

\* The worker stops: all that is left is on disk.
Stop ==
    /\ "restart" \in Faults /\ phase = "up"
    /\ phase' = "down"
    /\ setting' \in LaterSettings
    /\ cached' = <<>>
    /\ pending' = [d \in Tops |-> "none"]
    /\ count' = [f \in Files |-> 0]
    /\ current' = 0
    /\ dirLock' = [d \in Tops |-> None]
    /\ task' = [n \in Nodes |-> "none"]
    /\ finish' = [d \in Tops |-> "none"]
    /\ frames' = [b \in Builders |-> <<>>]
    /\ outcome' = [b \in Builders |-> "none"]
    /\ UNCHANGED <<disk, sealed, linked, unseen>>

\* _calculate_dir_digest: a directory is kept when it is read-only down to
\* its last sub-directory and has the content its name says.
Verified(d) == Whole(d) /\ Tree[d] \subseteq sealed

\* The threads of _verify_existing_dirs remove the others and enter the
\* verified ones in the map, in any order.
Verify ==
    /\ phase = "down"
    /\ LET Good == {d \in Tops : OnDisk(d) /\ Verified(d)}
       IN  /\ cached' \in Orders(Good)
           /\ unseen' = Good
           /\ disk' = [n \in Nodes |-> IF n \in InTrees(Good) THEN disk[n] ELSE "none"]
           /\ sealed' = InTrees(Good)
    /\ phase' = "admit"
    /\ UNCHANGED <<pending, count, current, dirLock, poolVars, buildVars, setting>>

\* A plausible bug: a directory that does not fit is not counted, and stays.
Admit_Mutant(d) ==
    /\ phase = "admit" /\ d \in unseen
    /\ unseen' = unseen \ {d}
    /\ IF current + Required(count, {d}) > setting.limit /\ setting.limit > 0
       THEN UNCHANGED <<count, current>>
       ELSE count' = With(count, {d}) /\ current' = current + Required(count, {d})
    /\ UNCHANGED <<diskVars, cached, pending, poolVars, buildVars, phase, setting>>

\* They are counted by their access times.  One that does not fit is removed
\* from disk and stays in the map.
Admit(d) ==
    /\ phase = "admit" /\ d \in unseen
    /\ unseen' = unseen \ {d}
    /\ IF current + Required(count, {d}) > setting.limit /\ setting.limit > 0
       THEN /\ disk' = [n \in Nodes |-> IF n \in Tree[d] THEN "none" ELSE disk[n]]
            /\ sealed' = sealed \ Tree[d]
            /\ UNCHANGED <<count, current>>
       ELSE /\ count' = With(count, {d})
            /\ current' = current + Required(count, {d})
            /\ UNCHANGED <<disk, sealed>>
    /\ UNCHANGED <<cached, pending, dirLock, poolVars, buildVars, phase, setting>>

Up ==
    /\ phase = "admit" /\ unseen = {}
    /\ phase' = "up"
    /\ UNCHANGED <<ledgerVars, diskVars, poolVars, buildVars, unseen, setting>>

Boot == Verify \/ (\E d \in Tops : Admit(d)) \/ Up

-----------------------------------------------------------------------------
Init ==
    /\ setting \in Settings
    /\ cached = <<>>
    /\ pending = [d \in Tops |-> "none"]
    /\ count = [f \in Files |-> 0]
    /\ current = 0
    /\ disk = [n \in Nodes |-> "none"]
    /\ sealed = {}
    /\ dirLock = [d \in Tops |-> None]
    /\ task = [n \in Nodes |-> "none"]
    /\ finish = [d \in Tops |-> "none"]
    /\ frames = [b \in Builders |-> <<>>]
    /\ linked = [b \in Builders |-> {}]
    /\ outcome = [b \in Builders |-> "none"]
    /\ phase = "up"
    /\ unseen = {}

Next ==
    \/ \E b \in Builders : Build(b) \/ Builder(b)
    \/ \E n \in Nodes : Task(n)
    \/ \E d \in Tops : Finisher(d)
    \/ Stop
    \/ Boot

Spec == Init /\ [][Next]_vars

\* What the pool does for the tree of one cached directory.
Work(d) == Finisher(d) \/ \E n \in Tree[d] : Task(n)

\* A thread that can go on does, and one that waits for the lock of a
\* directory gets it in the end.
FairSpec ==
    /\ Spec
    /\ \A b \in Builders : SF_vars(Builder(b))
    /\ \A d \in Tops : WF_vars(Work(d))
    /\ WF_vars(Boot)

=============================================================================
