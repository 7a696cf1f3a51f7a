-------------------------- MODULE AccountingProofs --------------------------
(***************************************************************************)
(* The file cache's books: no content is downloaded twice at a time, and   *)
(* the total is the size of what is cached or on its way.                  *)
(***************************************************************************)
EXTENDS FilesystemProofs

-----------------------------------------------------------------------------
(* Who owns an entry of _pending_files *)

\* Until a batch takes the global lock to register its files or to clean up,
\* all its items are pending; then they leave _pending_files one by one.
Early == {"planned", "receive", "install", "rename", "chmod", "installed", "failed"}
Late == {"register", "register stat", "clean", "clean unlink"}

Owns(b) ==
    /\ batch[b].todo \subseteq batch[b].items
    /\ batch[b].stage \in Early => \A d \in batch[b].items : pending[d] = b
    /\ batch[b].stage \in Late =>
            /\ globalLock = b
            /\ \A d \in batch[b].items :
                    pending[d] = IF d \in batch[b].todo THEN b ELSE None

\* A call alone submits the batches it planned, and holds the global lock
\* while it drops corrupted files.
Calls ==
    /\ \A t \in Fetchers : \A b \in thread[t].planned : batch[b].stage = "planned"
    /\ \A t, u \in Fetchers : t # u => thread[t].planned \cap thread[u].planned = {}
    /\ \A t \in Fetchers : thread[t].pc \in {"drop file", "drop unlink"} => globalLock = t

Flights == (\A b \in Batches : Owns(b)) /\ Calls

\* The holders of the locks are told apart.
LEMMA Holders ==
    /\ None \notin Batches /\ None \notin Fetchers /\ None \notin Digests
    /\ Fetchers \cap Batches = {}
BY FilesystemAssumption DEF Batches

\* Two batches that own an item both are one.
LEMMA FlightsSingle ==
    ASSUME TypeOK, Flights
    PROVE  SingleFlight
<1> SUFFICES ASSUME NEW b \in Batches, NEW c \in Batches, b # c, Active(b), Active(c),
                    NEW d \in batch[b].items, d \in batch[c].items
             PROVE  FALSE
    BY DEF SingleFlight
<1>1. /\ batch[b].stage \in Early \cup Late
      /\ batch[c].stage \in Early \cup Late
    <2>1. batch[b].stage \in Stages /\ batch[c].stage \in Stages
        BY DEF TypeOK, BatchesOK, BatchRecords
    <2> QED BY <2>1 DEF Active, Stages, Early, Late
<1>2. Owns(b) /\ Owns(c)
    BY DEF Flights
<1> QED BY <1>1, <1>2, Holders DEF Owns

\* A step that leaves a batch, its entries and its lock alone.
LEMMA OwnsFrame ==
    ASSUME NEW c \in Batches, Owns(c), batch'[c] = batch[c],
           \A d \in batch[c].items : pending'[d] = pending[d],
           globalLock' = globalLock \/ batch[c].stage \notin Late
    PROVE  Owns(c)'
BY DEF Owns

\* Steps of a call that make no batch: the calls keep their batches.
LEMMA CallsFrame ==
    ASSUME Calls, NEW t \in Fetchers,
           ThreadsOK, ThreadsOK',
           \A u \in Fetchers : u # t => thread'[u] = thread[u],
           thread'[t].planned \subseteq thread[t].planned,
           \A b \in Batches : batch'[b].stage = batch[b].stage,
           thread'[t].pc \in {"drop file", "drop unlink"} => globalLock' = t,
           globalLock' = globalLock \/ globalLock \in {t, None}
    PROVE  Calls'
<1>1. \A u \in Fetchers : thread[u].planned \subseteq Batches /\ thread'[u].planned \subseteq Batches
    BY DEF ThreadsOK, ThreadRecords, ThreadFields
<1>2. \A u \in Fetchers : thread'[u].planned \subseteq thread[u].planned
    OBVIOUS
<1>3. \A u \in Fetchers : \A b \in thread'[u].planned : batch'[b].stage = "planned"
    <2> SUFFICES ASSUME NEW u \in Fetchers, NEW b \in thread'[u].planned
                 PROVE  batch'[b].stage = "planned"
        OBVIOUS
    <2>1. b \in thread[u].planned
        BY <1>2
    <2>2. b \in Batches
        BY <1>1, <2>1
    <2> QED BY <2>1, <2>2 DEF Calls
<1>4. \A u, v \in Fetchers : u # v => thread'[u].planned \cap thread'[v].planned = {}
    <2> SUFFICES ASSUME NEW u \in Fetchers, NEW v \in Fetchers, u # v
                 PROVE  thread'[u].planned \cap thread'[v].planned = {}
        OBVIOUS
    <2>1. thread[u].planned \cap thread[v].planned = {}
        BY DEF Calls
    <2> QED BY <1>2, <2>1
<1>5. \A u \in Fetchers : thread'[u].pc \in {"drop file", "drop unlink"} => globalLock' = u
    BY Holders DEF Calls
<1> QED BY <1>3, <1>4, <1>5 DEF Calls

\* What the steps of a call before the last do to its batches and its lock.
LEMMA LeaveCalls ==
    ASSUME TypeOK, Calls, NEW t \in Fetchers, NEW o \in Outcomes, Leave(t, o), UNCHANGED batch,
           globalLock' = globalLock \/ globalLock \in {t, None}
    PROVE  Calls'
<1>1. /\ thread'[t].planned = {} /\ thread'[t].pc = "idle"
      /\ \A u \in Fetchers : u # t => thread'[u] = thread[u]
    BY DEF Leave, IdleThread, TypeOK, ThreadsOK
<1>2. ThreadsOK'
    BY LeaveType DEF TypeOK
<1> QED BY <1>1, <1>2, CallsFrame DEF TypeOK

\* The batches are not touched by a call that has made them.
LEMMA CallOwns ==
    ASSUME Flights, NEW t \in Fetchers, UNCHANGED <<batch, pending>>,
           globalLock' = globalLock \/ globalLock \in {t, None}
    PROVE  \A b \in Batches : Owns(b)'
<1> SUFFICES ASSUME NEW b \in Batches PROVE Owns(b)'
    OBVIOUS
<1>1. globalLock' = globalLock \/ batch[b].stage \notin Late
    BY Holders DEF Flights, Owns
<1> QED BY <1>1, OwnsFrame DEF Flights

\* The steps of a call from its plan to its links make and submit no batch.
LEMMA CallEffect ==
    ASSUME TypeOK, NEW t \in Fetchers,
           \/ PlanRaise(t) \/ Evict(t) \/ WaitOk(t) \/ WaitRaise(t) \/ Snapshot(t)
           \/ Link(t) \/ LinkStat(t) \/ LinkFile(t)
    PROVE  /\ UNCHANGED <<batch, pending, globalLock>>
           /\ \A u \in Fetchers : u # t => thread'[u] = thread[u]
           /\ thread'[t].planned \subseteq thread[t].planned
           /\ thread'[t].pc \notin {"drop file", "drop unlink"}
           /\ Evict(t) \/ thread'[t].pc \notin {"evict", "unlink", "submit"}
<1>1. UNCHANGED <<batch, pending, globalLock>>
    BY DEF PlanRaise, Evict, WaitOk, WaitRaise, Snapshot, Link, LinkStat, LinkFile,
           mapVars, lockVars
<1>3. /\ \A u \in Fetchers : u # t => thread'[u] = thread[u]
      /\ thread'[t].planned \subseteq thread[t].planned
      /\ thread'[t].pc \notin {"drop file", "drop unlink"}
      /\ Evict(t) \/ thread'[t].pc \notin {"evict", "unlink", "submit"}
    <2>1. thread[t] \in ThreadFields /\ DOMAIN thread = Fetchers
        BY ThreadType DEF TypeOK, ThreadsOK
    <2>2. ASSUME NEW o, Leave(t, o) PROVE <1>3
        BY <2>1, <2>2 DEF Leave, IdleThread
    <2>3. ASSUME NEW r \in ThreadFields, r.planned = thread[t].planned, Linked(t, r)
          PROVE  <1>3
        BY <2>1, <2>3 DEF Linked, ThreadFields
    <2>4. CASE PlanRaise(t) \/ WaitRaise(t)
        BY <2>2, <2>4 DEF PlanRaise, WaitRaise
    <2>5. CASE Evict(t)
        <3>1. CASE Evicted(t)
            BY <2>1, <2>5, <3>1 DEF Evicted, ThreadFields
        <3>2. CASE thread' = [thread EXCEPT ![t].pc = "unlink"]
            BY <2>1, <2>5, <3>2 DEF ThreadFields
        <3> QED BY <2>2, <2>5, <3>1, <3>2 DEF Evict
    <2>6. CASE WaitOk(t) \/ Snapshot(t)
        <3>1. ASSUME NEW f, thread' = [thread EXCEPT ![t].pc = "snapshot", ![t].futures = f]
              PROVE  <1>3
            BY <2>1, <3>1 DEF ThreadFields
        <3>2. ASSUME NEW s, thread' = [thread EXCEPT ![t].snap = s, ![t].pc = "link"]
              PROVE  <1>3
            BY <2>1, <3>2 DEF ThreadFields
        <3> QED BY <2>6, <3>1, <3>2 DEF WaitOk, Snapshot
    <2>7. CASE Link(t)
        <3>1. CASE thread' = [thread EXCEPT ![t].pc = "stat"]
            BY <2>1, <3>1 DEF ThreadFields
        <3>2. ASSUME NEW c, NEW m,
                     Linked(t, [thread[t] EXCEPT !.corrupted = c, !.missing = m])
              PROVE  <1>3
            BY <2>1, <3>2 DEF Linked, ThreadFields
        <3> QED BY <2>7, <3>1, <3>2 DEF Link
    <2>8. CASE LinkStat(t)
        <3>1. CASE thread' = [thread EXCEPT ![t].pc = "link file"]
            BY <2>1, <3>1 DEF ThreadFields
        <3>2. ASSUME NEW d, NEW c,
                     Linked(t, [thread[t] EXCEPT !.snap[d] = NoInfo, !.corrupted = c])
              PROVE  <1>3
            BY <2>1, <3>2 DEF Linked, ThreadFields
        <3> QED BY <2>2, <2>8, <3>1, <3>2 DEF LinkStat
    <2>9. CASE LinkFile(t)
        <3>1. ASSUME NEW n, NEW v, Linked(t, [thread[t] EXCEPT !.linked[n] = v])
              PROVE  <1>3
            BY <2>1, <3>1 DEF Linked, ThreadFields
        <3> QED BY <2>2, <2>9, <3>1 DEF LinkFile
    <2> QED BY <2>4, <2>5, <2>6, <2>7, <2>8, <2>9
<1> QED BY <1>1, <1>3

\* They keep the batches of the call.
LEMMA CallFlights ==
    ASSUME TypeOK, TypeOK', Flights, NEW t \in Fetchers,
           \/ PlanRaise(t) \/ Evict(t) \/ WaitOk(t) \/ WaitRaise(t) \/ Snapshot(t)
           \/ Link(t) \/ LinkStat(t) \/ LinkFile(t)
    PROVE  Flights'
<1>1. /\ UNCHANGED <<batch, pending, globalLock>>
      /\ \A u \in Fetchers : u # t => thread'[u] = thread[u]
      /\ thread'[t].planned \subseteq thread[t].planned
      /\ thread'[t].pc \notin {"drop file", "drop unlink"}
    BY CallEffect
<1>2. \A b \in Batches : Owns(b)'
    BY <1>1, CallOwns
<1>3. Calls'
    BY <1>1, CallsFrame DEF Flights, TypeOK
<1> QED BY <1>2, <1>3 DEF Flights

\* fetch_to is called.
LEMMA FetchFlights ==
    ASSUME TypeOK, TypeOK', Flights, NEW t \in Fetchers, NEW files \in Requests,
           Fetch(t, files)
    PROVE  Flights'
<1>1. UNCHANGED <<batch, pending, globalLock>>
    BY DEF Fetch, mapVars, lockVars
<1>2. /\ \A u \in Fetchers : u # t => thread'[u] = thread[u]
      /\ thread'[t].planned = {} /\ thread'[t].pc = "plan"
    BY DEF Fetch, IdleThread, TypeOK, ThreadsOK
<1>3. Calls'
    BY <1>1, <1>2, CallsFrame DEF Flights, TypeOK
<1> QED BY <1>1, <1>3, CallOwns DEF Flights

\* Corrupted files are dropped under the global lock, which the call gives
\* back whichever way it leaves.
LEMMA DropEffect ==
    ASSUME TypeOK, Flights, NEW t \in Fetchers, DropLock(t) \/ Drop(t)
    PROVE  /\ \A u \in Fetchers : u # t => thread'[u] = thread[u]
           /\ thread'[t].planned \subseteq thread[t].planned
           /\ thread'[t].pc \in {"idle", "plan", "drop file", "drop unlink"}
           /\ thread'[t].pc \in {"drop file", "drop unlink"} => globalLock' = t
           /\ globalLock' = globalLock \/ globalLock \in {t, None}
           /\ UNCHANGED <<batch, pending>>
<1>1. /\ thread[t] \in ThreadFields /\ DOMAIN thread = Fetchers
      /\ globalLock \in Fetchers \cup Batches \cup {None}
    BY ThreadType DEF TypeOK, ThreadsOK, LocksOK
<1>2. ASSUME NEW missing, Dropped(t, missing)
      PROVE  /\ \A u \in Fetchers : u # t => thread'[u] = thread[u]
             /\ thread'[t].planned = {} /\ thread'[t].pc \in {"idle", "plan"}
    BY <1>1, <1>2 DEF Dropped, Leave, IdleThread
<1>3. ASSUME NEW o, Leave(t, o)
      PROVE  /\ \A u \in Fetchers : u # t => thread'[u] = thread[u]
             /\ thread'[t].planned = {} /\ thread'[t].pc = "idle"
    BY <1>1, <1>3 DEF Leave, IdleThread
<1>4. /\ \A u \in Fetchers : u # t => thread'[u] = thread[u]
      /\ thread'[t].planned \subseteq thread[t].planned
      /\ thread'[t].pc \in {"idle", "plan", "drop file", "drop unlink"}
      /\ thread'[t].pc \in {"drop file", "drop unlink"} => globalLock' = t
      /\ globalLock' = globalLock \/ globalLock \in {t, None}
      /\ UNCHANGED <<batch, pending>>
    <2>1. CASE DropLock(t)
        <3>1. CASE thread[t].corrupted = <<>>
            BY <1>2, <2>1, <3>1 DEF DropLock, mapVars
        <3>2. CASE thread[t].corrupted # <<>>
            BY <1>1, <2>1, <3>2 DEF DropLock, mapVars, ThreadFields
        <3> QED BY <3>1, <3>2
    <2>2. CASE Drop(t)
        <3>1. globalLock = t
            BY <2>2 DEF Drop, Flights, Calls
        <3>2. ASSUME NEW c, NEW m,
                     thread' = [thread EXCEPT ![t].pc = "drop file",
                                    ![t].corrupted = c, ![t].missing = m]
              PROVE  /\ \A u \in Fetchers : u # t => thread'[u] = thread[u]
                     /\ thread'[t].planned = thread[t].planned
                     /\ thread'[t].pc = "drop file"
            BY <1>1, <3>2 DEF ThreadFields
        <3>3. CASE Forget(t)
            <4>1. CASE cached[DigestOf[Corrupted(t)]] = NoInfo
                BY <1>3, <2>2, <3>1, <3>3, <4>1 DEF Drop, Forget, mapVars
            <4>2. CASE cached[DigestOf[Corrupted(t)]] # NoInfo
                BY <1>2, <2>2, <3>1, <3>2, <3>3, <4>2 DEF Drop, Forget
            <4> QED BY <4>1, <4>2
        <3>4. CASE Leave(t, "FileNotFoundError") /\ UNCHANGED mapVars
            BY <1>3, <2>2, <3>1, <3>4 DEF Drop, mapVars
        <3>5. CASE thread' = [thread EXCEPT ![t].pc = "drop unlink"]
                   /\ UNCHANGED <<mapVars, globalLock>>
            BY <1>1, <2>2, <3>1, <3>5 DEF Drop, mapVars, ThreadFields
        <3> QED BY <2>2, <3>3, <3>4, <3>5 DEF Drop
    <2> QED BY <2>1, <2>2
<1> QED BY <1>4

\* The call has its batches and its lock.
LEMMA DropFlights ==
    ASSUME TypeOK, TypeOK', Flights, NEW t \in Fetchers, DropLock(t) \/ Drop(t)
    PROVE  Flights'
<1>1. /\ \A u \in Fetchers : u # t => thread'[u] = thread[u]
      /\ thread'[t].planned \subseteq thread[t].planned
      /\ thread'[t].pc \in {"drop file", "drop unlink"} => globalLock' = t
      /\ globalLock' = globalLock \/ globalLock \in {t, None}
      /\ UNCHANGED <<batch, pending>>
    BY DropEffect
<1>2. \A b \in Batches : Owns(b)'
    BY <1>1, CallOwns
<1>3. \A b \in Batches : batch'[b].stage = batch[b].stage
    BY <1>1
<1>4. Calls'
    BY <1>1, <1>3, CallsFrame DEF Flights, TypeOK
<1> QED BY <1>2, <1>4 DEF Flights

\* The batches that are submitted are those the call planned alone.
LEMMA SubmitFlights ==
    ASSUME TypeOK, Flights, NEW t \in Fetchers, Submit(t)
    PROVE  Flights'
<1>1. /\ thread[t] \in ThreadFields /\ DOMAIN thread = Fetchers
      /\ \A u \in Fetchers : thread[u].planned \subseteq Batches
    BY ThreadType DEF TypeOK, ThreadsOK
<1>2. \A b \in Batches : batch[b] \in BatchRecords
    BY DEF TypeOK, BatchesOK
<1>3. \A b \in thread[t].planned : batch[b].stage = "planned"
    BY DEF Flights, Calls
<1>4. \A b \in Batches :
        /\ batch'[b].items = batch[b].items /\ batch'[b].todo = batch[b].todo
        /\ b \in thread[t].planned => batch'[b].stage = "receive"
        /\ b \notin thread[t].planned => batch'[b].stage = batch[b].stage
    BY <1>2 DEF Submit, BatchRecords
<1>5. UNCHANGED <<pending, globalLock>>
    BY DEF Submit, mapVars, lockVars
<1>6. \A b \in Batches : Owns(b)'
    <2> SUFFICES ASSUME NEW b \in Batches PROVE Owns(b)'
        OBVIOUS
    <2>1. Owns(b)
        BY DEF Flights
    <2>2. CASE b \in thread[t].planned
        BY <1>3, <1>4, <1>5, <2>1, <2>2 DEF Owns, Early, Late
    <2>3. CASE b \notin thread[t].planned
        BY <1>4, <1>5, <2>1, <2>3 DEF Owns
    <2> QED BY <2>2, <2>3
<1>7. /\ \A u \in Fetchers : u # t => thread'[u] = thread[u]
      /\ thread'[t].planned = {} /\ thread'[t].pc = "wait"
    BY <1>1 DEF Submit, ThreadFields
<1>8. Calls'
    <2>1. \A u \in Fetchers : \A b \in thread'[u].planned : batch'[b].stage = "planned"
        <3> SUFFICES ASSUME NEW u \in Fetchers, NEW b \in thread'[u].planned
                     PROVE  batch'[b].stage = "planned"
            OBVIOUS
        <3>1. u # t /\ b \in thread[u].planned /\ b \in Batches
            BY <1>1, <1>7
        <3>2. b \notin thread[t].planned /\ batch[b].stage = "planned"
            BY <3>1 DEF Flights, Calls
        <3> QED BY <1>4, <3>1, <3>2
    <2>2. \A u, v \in Fetchers : u # v => thread'[u].planned \cap thread'[v].planned = {}
        BY <1>7 DEF Flights, Calls
    <2>3. \A u \in Fetchers : thread'[u].pc \in {"drop file", "drop unlink"} => globalLock' = u
        BY <1>5, <1>7 DEF Flights, Calls
    <2> QED BY <2>1, <2>2, <2>3 DEF Calls
<1> QED BY <1>6, <1>8 DEF Flights

\* What a plan does to the maps and the batches.
LEMMA PlanEffect ==
    ASSUME TypeOK, NEW t \in Fetchers, Plan(t)
    PROVE  /\ Missing(thread[t].files) \in SUBSET Digests
           /\ Victims(thread[t].files) \in SUBSET CachedNames
           /\ cached' = [d \in Digests |-> IF d \in Victims(thread[t].files)
                                           THEN NoInfo ELSE cached[d]]
           /\ current' = current - StSize(Victims(thread[t].files))
                                 + SizeOf(Size, Missing(thread[t].files))
           /\ globalLock = None /\ UNCHANGED <<globalLock, disk, tmp, phase, booting>>
           /\ \A u \in Fetchers : u # t => thread'[u] = thread[u]
           /\ thread'[t].pc \in {"evict", "submit", "wait"}
           /\ \E place \in [Missing(thread[t].files) -> FreeBatches] :
                /\ thread'[t].planned = {place[d] : d \in Missing(thread[t].files)}
                /\ pending' = [d \in Digests |-> IF d \in Missing(thread[t].files)
                                                 THEN place[d] ELSE pending[d]]
                /\ batch' = [b \in Batches |->
                        IF \E d \in Missing(thread[t].files) : place[d] = b
                        THEN NewBatch(thread[t].files,
                                      {d \in Missing(thread[t].files) : place[d] = b})
                        ELSE batch[b]]
<1> DEFINE files == thread[t].files
           missing == Missing(files)
           victims == Victims(files)
<1>1. files \in Seq(Nodes) /\ thread[t] \in ThreadFields /\ DOMAIN thread = Fetchers
    BY ThreadType DEF TypeOK, ThreadsOK
<1>2. missing \in SUBSET Digests /\ victims \in SUBSET CachedNames
    BY <1>1, DigestsOfType DEF Missing, Victims, CachedNames
<1>3. PICK place \in [missing -> FreeBatches], list \in [1..Cardinality(victims) -> victims] :
        /\ pending' = [d \in Digests |-> IF d \in missing THEN place[d] ELSE pending[d]]
        /\ batch' = [b \in Batches |->
                IF \E d \in missing : place[d] = b
                THEN NewBatch(files, {d \in missing : place[d] = b})
                ELSE batch[b]]
        /\ thread' = [thread EXCEPT
                ![t].evicting = list,
                ![t].planned = {place[d] : d \in missing},
                ![t].futures = {pending'[d] : d \in DigestsOf(files) \ CachedNames},
                ![t].pc = IF victims # {} THEN "evict"
                          ELSE IF missing # {} THEN "submit" ELSE "wait"]
    BY DEF Plan
<1>5. /\ \A u \in Fetchers : u # t => thread'[u] = thread[u]
      /\ thread'[t].planned = {place[d] : d \in missing}
      /\ thread'[t].pc = IF victims # {} THEN "evict"
                         ELSE IF missing # {} THEN "submit" ELSE "wait"
    <2> DEFINE p == {place[d] : d \in missing}
               f == {pending'[d] : d \in DigestsOf(files) \ CachedNames}
               q == IF victims # {} THEN "evict" ELSE IF missing # {} THEN "submit" ELSE "wait"
    <2>1. thread' = [thread EXCEPT ![t].evicting = list, ![t].planned = p,
                                   ![t].futures = f, ![t].pc = q]
        BY <1>3
    <2> HIDE DEF p, f, q
    <2>2. /\ \A u \in Fetchers : u # t => thread'[u] = thread[u]
          /\ thread'[t].planned = p /\ thread'[t].pc = q
        BY <1>1, <2>1 DEF ThreadFields
    <2> QED BY <2>2 DEF p, q
<1>6. thread'[t].pc \in {"evict", "submit", "wait"}
    BY <1>5
<1>7. /\ cached' = [d \in Digests |-> IF d \in victims THEN NoInfo ELSE cached[d]]
      /\ current' = current - StSize(victims) + SizeOf(Size, missing)
      /\ globalLock = None /\ UNCHANGED <<globalLock, disk, tmp, phase, booting>>
    BY DEF Plan, lockVars, diskVars, bootVars
<1> HIDE DEF missing, victims, files
<1>8. /\ \A u \in Fetchers : u # t => thread'[u] = thread[u]
      /\ thread'[t].pc \in {"evict", "submit", "wait"}
      /\ \E pl \in [missing -> FreeBatches] :
            /\ thread'[t].planned = {pl[d] : d \in missing}
            /\ pending' = [d \in Digests |-> IF d \in missing THEN pl[d] ELSE pending[d]]
            /\ batch' = [b \in Batches |->
                    IF \E d \in missing : pl[d] = b
                    THEN NewBatch(files, {d \in missing : pl[d] = b})
                    ELSE batch[b]]
    BY <1>3, <1>5, <1>6
<1> QED BY <1>2, <1>7, <1>8 DEF missing, victims, files

\* A plan gives its batches files that nobody brings, in objects nobody uses.
LEMMA PlanFlights ==
    ASSUME TypeOK, Flights, NEW t \in Fetchers, Plan(t)
    PROVE  Flights'
<1> DEFINE missing == Missing(thread[t].files)
<1>1. PICK place \in [missing -> FreeBatches] :
        /\ thread'[t].planned = {place[d] : d \in missing}
        /\ pending' = [d \in Digests |-> IF d \in missing THEN place[d] ELSE pending[d]]
        /\ batch' = [b \in Batches |->
                IF \E d \in missing : place[d] = b
                THEN NewBatch(thread[t].files, {d \in missing : place[d] = b})
                ELSE batch[b]]
    BY PlanEffect
<1>2. /\ missing \in SUBSET Digests
      /\ globalLock = None /\ globalLock' = None
      /\ \A u \in Fetchers : u # t => thread'[u] = thread[u]
      /\ thread'[t].pc \in {"evict", "submit", "wait"}
    BY PlanEffect
<1>3. \A d \in missing : /\ pending[d] = None /\ place[d] \in Batches
                         /\ batch[place[d]].stage \in {"idle", "done"}
    BY <1>1 DEF Missing, FreeBatches
<1>4. ASSUME NEW b \in Batches, \E d \in missing : place[d] = b
      PROVE  /\ batch'[b].stage = "planned"
             /\ batch'[b].items = {d \in missing : place[d] = b}
             /\ batch'[b].todo = batch'[b].items
    <2> HIDE DEF missing
    <2> QED BY <1>1, <1>4 DEF NewBatch, IdleBatch
<1>5. \A b \in Batches : (~ \E d \in missing : place[d] = b) => batch'[b] = batch[b]
    BY <1>1
<1>6. \A d \in Digests : d \in missing => pending'[d] = place[d]
    BY <1>1
<1>7. \A d \in Digests : d \notin missing => pending'[d] = pending[d]
    BY <1>1
<1> HIDE DEF missing
<1>8. \A b \in Batches : Owns(b)'
    <2> SUFFICES ASSUME NEW b \in Batches PROVE Owns(b)'
        OBVIOUS
    <2>1. Owns(b) /\ batch[b].items \in SUBSET Digests
        BY BatchType DEF Flights, TypeOK, Stages
    <2>2. CASE \E d \in missing : place[d] = b
        BY <1>2, <1>4, <1>6, <2>2 DEF Owns, Late
    <2>3. CASE ~ \E d \in missing : place[d] = b
        <3>1. batch[b].stage \notin Late
            BY <1>2, <2>1, Holders DEF Owns
        <3>2. CASE batch[b].stage \in Early
            <4>1. \A d \in batch[b].items : d \notin missing
                BY <1>3, <2>1, <3>2, Holders DEF Owns
            <4>2. \A d \in batch[b].items : pending'[d] = pending[d]
                BY <1>7, <2>1, <4>1
            <4> QED BY <1>5, <2>1, <2>3, <3>1, <4>2, OwnsFrame
        <3>3. CASE batch[b].stage \notin Early
            BY <1>5, <2>1, <2>3, <3>1, <3>3 DEF Owns
        <3> QED BY <3>2, <3>3
    <2> QED BY <2>2, <2>3
<1>9. Calls'
    <2>1. \A u \in Fetchers : thread[u].planned \subseteq Batches
        BY ThreadType DEF TypeOK
    <2>2. \A u \in Fetchers : \A b \in thread[u].planned :
                batch[b].stage = "planned" /\ \A d \in missing : place[d] # b
        BY <1>3, <2>1 DEF Flights, Calls
    <2>3. \A u \in Fetchers : \A b \in thread'[u].planned : batch'[b].stage = "planned"
        <3> SUFFICES ASSUME NEW u \in Fetchers, NEW b \in thread'[u].planned
                     PROVE  batch'[b].stage = "planned"
            OBVIOUS
        <3>1. CASE u = t
            <4>1. PICK d \in missing : b = place[d]
                BY <1>1, <3>1
            <4> QED BY <1>3, <1>4, <4>1
        <3>2. CASE u # t
            <4>1. b \in thread[u].planned /\ b \in Batches
                BY <1>2, <2>1, <3>2
            <4> QED BY <1>5, <2>2, <4>1
        <3> QED BY <3>1, <3>2
    <2>4. \A u, v \in Fetchers : u # v => thread'[u].planned \cap thread'[v].planned = {}
        <3> SUFFICES ASSUME NEW u \in Fetchers, NEW v \in Fetchers, u # v,
                            NEW b, b \in thread'[u].planned, b \in thread'[v].planned
                     PROVE  FALSE
            OBVIOUS
        <3>1. u # t => b \in thread[u].planned
            BY <1>2
        <3>2. v # t => b \in thread[v].planned
            BY <1>2
        <3>3. CASE u # t /\ v # t
            BY <3>1, <3>2, <3>3 DEF Flights, Calls
        <3>4. CASE u = t \/ v = t
            <4>1. PICK d \in missing : b = place[d]
                BY <1>1, <3>4
            <4> QED BY <2>2, <3>1, <3>2, <4>1
        <3> QED BY <3>3, <3>4
    <2>5. \A u \in Fetchers : thread'[u].pc \in {"drop file", "drop unlink"} => globalLock' = u
        BY <1>2 DEF Flights, Calls
    <2> QED BY <2>3, <2>4, <2>5 DEF Calls
<1> QED BY <1>8, <1>9 DEF Flights

\* A step of one batch leaves the others what they own.
LEMMA OneBatch ==
    ASSUME TypeOK, Flights, NEW b \in Batches, batch[b].stage # "planned",
           \A c \in Batches : c # b => batch'[c] = batch[c],
           UNCHANGED thread,
           globalLock' = globalLock \/ globalLock \in {b, None},
           \A d \in Digests : pending'[d] = pending[d] \/ pending[d] = b,
           Owns(b)'
    PROVE  Flights'
<1>1. ASSUME NEW c \in Batches, c # b PROVE Owns(c)'
    <2>1. Owns(c) /\ batch[c].items \in SUBSET Digests
        BY BatchType DEF Flights, TypeOK, Stages
    <2>2. batch[c].stage \in Late => globalLock' = globalLock
        BY <1>1, <2>1, Holders DEF Owns
    <2>3. CASE batch[c].stage \in Early \cup Late
        <3>1. \A d \in batch[c].items : pending[d] # b
            BY <1>1, <2>1, <2>3, Holders DEF Owns
        <3>2. \A d \in batch[c].items : pending'[d] = pending[d]
            BY <2>1, <3>1
        <3> QED BY <1>1, <2>1, <2>2, <3>2, OwnsFrame
    <2>4. CASE batch[c].stage \notin Early \cup Late
        BY <1>1, <2>1, <2>4 DEF Owns
    <2> QED BY <2>3, <2>4
<1>2. \A t \in Fetchers : thread[t].planned \subseteq Batches
    BY ThreadType DEF TypeOK
<1>3. \A t \in Fetchers : \A c \in thread[t].planned : batch'[c].stage = "planned"
    <2> SUFFICES ASSUME NEW t \in Fetchers, NEW c \in thread[t].planned
                 PROVE  batch'[c].stage = "planned"
        OBVIOUS
    <2>1. batch[c].stage = "planned" /\ c \in Batches
        BY <1>2 DEF Flights, Calls
    <2> QED BY <2>1
<1>4. \A t \in Fetchers : thread[t].pc \in {"drop file", "drop unlink"} => globalLock' = t
    BY Holders DEF Flights, Calls
<1>5. Calls'
    BY <1>3, <1>4 DEF Flights, Calls
<1> QED BY <1>1, <1>5 DEF Flights

\* Until a batch takes the global lock it keeps its items.
LEMMA EarlyEffect ==
    ASSUME TypeOK, NEW b \in Batches,
           \/ Received(b)
           \/ \E d \in Digests : \/ Receive(b, d) \/ ReceiveFault(b, d)
                                 \/ Install(b, d) \/ Rename(b, d) \/ Chmod(b, d)
    PROVE  /\ batch[b].stage \in {"receive", "install", "rename", "chmod"}
           /\ batch'[b].stage \in Early \ {"planned"} /\ batch'[b].items = batch[b].items
           /\ batch'[b].todo \subseteq batch[b].todo \cup batch[b].items
           /\ \A c \in Batches : c # b => batch'[c] = batch[c]
           /\ UNCHANGED <<thread, pending, cached, older, current, globalLock, bootVars>>
<1> DEFINE Result == /\ batch'[b].stage \in Early \ {"planned"} /\ batch'[b].items = batch[b].items
                     /\ batch'[b].todo \subseteq batch[b].todo \cup batch[b].items
                     /\ \A c \in Batches : c # b => batch'[c] = batch[c]
<1>1. batch[b] \in BatchRecords /\ DOMAIN batch = Batches
    BY DEF TypeOK, BatchesOK
<1>2. ASSUME Fail(b) PROVE Result
    BY <1>1, <1>2 DEF Fail, BatchRecords, Early
<1>3. CASE Received(b)
    <2>1. CASE batch[b].unread
        BY <1>2, <1>3, <2>1 DEF Received, mapVars, lockVars
    <2>2. CASE ~batch[b].unread
        <3>1. batch' = [batch EXCEPT ![b].stage = "install", ![b].todo = batch[b].items]
            BY <1>3, <2>2 DEF Received
        <3>2. Result
            BY <1>1, <3>1 DEF BatchRecords, Early
        <3> QED BY <1>3, <3>2 DEF Received, mapVars, lockVars
    <2> QED BY <2>1, <2>2
<1>4. ASSUME NEW d \in Digests, Receive(b, d) PROVE Result
    <2>1. ASSUME NEW T, NEW a, T \subseteq batch[b].todo,
                 batch' = [batch EXCEPT ![b].todo = T, ![b].at = a]
          PROVE  Result
        BY <1>1, <1>4, <2>1 DEF Receive, Incoming, BatchRecords, Early
    <2> DEFINE written == IF batch[b].at = d THEN tmp[d] ELSE 0
    <2>2. CASE ~Fail(b)
        <3>1. PICK n \in IF Large(d) THEN 1..(Size[d] - written) ELSE {Size[d]} :
                batch' = [batch EXCEPT
                    ![b].todo = IF written + n = Size[d] THEN @ \ {d} ELSE @,
                    ![b].at = IF written + n = Size[d] THEN None ELSE d]
            BY <1>4, <2>2 DEF Receive
        <3> DEFINE T == IF written + n = Size[d] THEN batch[b].todo \ {d} ELSE batch[b].todo
                   a == IF written + n = Size[d] THEN None ELSE d
        <3>2. T \subseteq batch[b].todo /\ batch' = [batch EXCEPT ![b].todo = T, ![b].at = a]
            BY <3>1
        <3> HIDE DEF T, a
        <3> QED BY <2>1, <3>2
    <2> QED BY <1>2, <2>2
<1>5. ASSUME NEW d \in Digests, ReceiveFault(b, d) PROVE Result
    <2>1. CASE batch' = [batch EXCEPT ![b].todo = @ \ {d}, ![b].at = None]
        BY <1>1, <1>5, <2>1 DEF ReceiveFault, Incoming, BatchRecords, Early
    <2>2. CASE batch' = [batch EXCEPT ![b].todo = @ \ {d}, ![b].at = None, ![b].unread = TRUE]
        BY <1>1, <1>5, <2>2 DEF ReceiveFault, Incoming, BatchRecords, Early
    <2> QED BY <1>2, <1>5, <2>1, <2>2 DEF ReceiveFault
<1>6. ASSUME NEW d \in Digests, Install(b, d) PROVE Result
    BY <1>1, <1>2, <1>6 DEF Install, BatchRecords, Early
<1>7. ASSUME NEW d \in Digests, Rename(b, d) PROVE Result
    BY <1>1, <1>2, <1>7 DEF Rename, BatchRecords, Early
<1>8. ASSUME NEW d \in Digests, Chmod(b, d) PROVE Result
    <2>1. ASSUME NEW s \in Early \ {"planned"},
                 batch' = [batch EXCEPT ![b].todo = @ \ {d}, ![b].at = None, ![b].stage = s]
          PROVE  Result
        BY <1>1, <2>1 DEF BatchRecords
    <2>2. \A x, y : x = "installed" \/ x = "install" => x \in Early \ {"planned"}
        BY DEF Early
    <2> QED BY <1>2, <1>8, <2>1, <2>2 DEF Chmod
<1>9. ASSUME NEW d \in Digests,
             \/ Receive(b, d) \/ ReceiveFault(b, d)
             \/ Install(b, d) \/ Rename(b, d) \/ Chmod(b, d)
      PROVE  /\ batch[b].stage \in {"receive", "install", "rename", "chmod"}
             /\ UNCHANGED <<thread, pending, cached, older, current, globalLock, bootVars>>
    BY <1>9 DEF Receive, ReceiveFault, Incoming, Install, Rename, Chmod, mapVars, lockVars
<1> HIDE DEF Result
<1>10. Result /\ /\ batch[b].stage \in {"receive", "install", "rename", "chmod"}
                 /\ UNCHANGED <<thread, pending, cached, older, current, globalLock, bootVars>>
    <2>1. CASE Received(b)
        BY <1>3, <2>1 DEF Received, mapVars, lockVars, Result
    <2> QED BY <1>4, <1>5, <1>6, <1>7, <1>8, <1>9, <2>1
<1> QED BY <1>10 DEF Result

\* The download and the installation of a batch.
LEMMA EarlyFlights ==
    ASSUME TypeOK, Flights, NEW b \in Batches,
           \/ Received(b)
           \/ \E d \in Digests : \/ Receive(b, d) \/ ReceiveFault(b, d)
                                 \/ Install(b, d) \/ Rename(b, d) \/ Chmod(b, d)
    PROVE  Flights'
<1>1. /\ batch[b].stage \in Early /\ batch'[b].stage \in Early
      /\ batch'[b].items = batch[b].items
      /\ batch'[b].todo \subseteq batch[b].todo \cup batch[b].items
      /\ UNCHANGED pending
    BY EarlyEffect DEF Early
<1>2. batch'[b].stage \notin Late
    BY <1>1 DEF Early, Late
<1>3. Owns(b)'
    BY <1>1, <1>2 DEF Flights, Owns
<1>4. /\ batch[b].stage # "planned" /\ UNCHANGED <<thread, globalLock>>
      /\ \A c \in Batches : c # b => batch'[c] = batch[c]
    BY EarlyEffect
<1> QED BY <1>1, <1>3, <1>4, OneBatch

\* A batch takes the global lock, and all its items are still pending.
LEMMA LockFlights ==
    ASSUME TypeOK, Flights, NEW b \in Batches, Lock(b)
    PROVE  Flights'
<1>1. batch[b] \in BatchRecords /\ DOMAIN batch = Batches
    BY DEF TypeOK, BatchesOK
<1>2. /\ batch[b].stage \in Early /\ batch[b].stage # "planned" /\ batch'[b].stage \in Late
      /\ batch'[b].items = batch[b].items /\ batch'[b].todo = batch[b].items
      /\ \A c \in Batches : c # b => batch'[c] = batch[c]
      /\ UNCHANGED <<thread, pending>> /\ globalLock = None /\ globalLock' = b
    BY <1>1 DEF Lock, BatchRecords, Early, Late, mapVars
<1>3. Owns(b)'
    BY <1>2 DEF Flights, Owns, Early, Late
<1> QED BY <1>2, <1>3, OneBatch

\* An item leaves _pending_files; after the last one the batch is done.
LEMMA SettledEffect ==
    ASSUME TypeOK, NEW b \in Batches, NEW d \in Digests, NEW s \in Late,
           NEW o \in {"ok", "failed"}, Settled(b, d, s, o)
    PROVE  /\ \A c \in Batches : c # b => batch'[c] = batch[c]
           /\ pending' = [pending EXCEPT ![d] = None]
           /\ \/ /\ batch'[b].items = {} /\ batch'[b].todo = {}
                 /\ batch'[b].stage = "done" /\ globalLock' = None
              \/ /\ batch'[b].items = batch[b].items /\ batch'[b].todo = batch[b].todo \ {d}
                 /\ batch'[b].stage = s /\ globalLock' = globalLock
<1>1. batch[b] \in BatchRecords /\ DOMAIN batch = Batches
    BY DEF TypeOK, BatchesOK
<1>2. CASE batch[b].todo = {d}
    BY <1>1, <1>2 DEF Settled, IdleBatch
<1>3. CASE batch[b].todo # {d}
    BY <1>1, <1>3 DEF Settled, BatchRecords
<1> QED BY <1>2, <1>3 DEF Settled

\* An item that leaves _pending_files was the batch's own.
LEMMA SettledFlights ==
    ASSUME TypeOK, Flights, NEW b \in Batches, NEW d \in batch[b].todo, NEW s \in Late,
           NEW o \in {"ok", "failed"}, batch[b].stage \in Late, Settled(b, d, s, o),
           UNCHANGED thread
    PROVE  Flights'
<1>1. /\ Owns(b) /\ d \in batch[b].items /\ batch[b].items \in SUBSET Digests
      /\ pending[d] = b /\ globalLock = b /\ d \in Digests
    <2>1. Owns(b) /\ batch[b].items \in SUBSET Digests
        BY BatchType DEF Flights, TypeOK, Stages
    <2> QED BY <2>1 DEF Owns
<1>2. pending' = [pending EXCEPT ![d] = None] /\ DOMAIN pending = Digests
    BY <1>1, SettledEffect DEF TypeOK, MapsOK
<1>3. /\ Owns(b)'
      /\ globalLock' = globalLock \/ globalLock \in {b, None}
      /\ \A c \in Batches : c # b => batch'[c] = batch[c]
    <2>1. CASE /\ batch'[b].items = {} /\ batch'[b].todo = {}
               /\ batch'[b].stage = "done" /\ globalLock' = None
        <3>1. batch'[b].stage \notin Early \cup Late
            BY <2>1 DEF Early, Late
        <3>2. Owns(b)'
            BY <2>1, <3>1 DEF Owns
        <3> QED BY <1>1, <2>1, <3>2, SettledEffect
    <2>2. CASE /\ batch'[b].items = batch[b].items /\ batch'[b].todo = batch[b].todo \ {d}
               /\ batch'[b].stage = s /\ globalLock' = globalLock
        <3>1. s \notin Early
            BY DEF Early, Late
        <3>2. \A e \in batch[b].items :
                pending'[e] = IF e \in batch'[b].todo THEN b ELSE None
            BY <1>1, <1>2, <2>2 DEF Owns
        <3>3. Owns(b)'
            BY <1>1, <2>2, <3>1, <3>2 DEF Owns
        <3> QED BY <1>1, <2>2, <3>3, SettledEffect
    <2> QED BY <1>1, <2>1, <2>2, SettledEffect
<1>4. batch[b].stage # "planned"
    BY DEF Late
<1>5. \A e \in Digests : pending'[e] = pending[e] \/ pending[e] = b
    BY <1>1, <1>2
<1> QED BY <1>3, <1>4, <1>5, OneBatch

\* The error handler of a batch and its registration.
LEMMA LateFlights ==
    ASSUME TypeOK, Flights, NEW b \in Batches, NEW d \in Digests,
           Clean(b, d) \/ Register(b, d)
    PROVE  Flights'
<1>1. /\ batch[b].stage \in Late /\ batch[b].stage # "planned" /\ d \in batch[b].todo
      /\ UNCHANGED thread /\ Owns(b) /\ globalLock = b
    BY DEF Clean, Register, IsFirst, Late, Flights, Owns
<1>2. batch[b] \in BatchRecords /\ DOMAIN batch = Batches
    BY DEF TypeOK, BatchesOK
<1>3. ASSUME NEW s \in Late, NEW o \in {"ok", "failed"}, Settled(b, d, s, o) PROVE Flights'
    BY <1>1, <1>3, SettledFlights
<1>4. ASSUME NEW s \in Late, batch' = [batch EXCEPT ![b].stage = s],
             UNCHANGED <<pending, globalLock>>
      PROVE  Flights'
    <2>1. /\ batch'[b].stage \in Late /\ batch'[b].items = batch[b].items
          /\ batch'[b].todo = batch[b].todo
          /\ \A c \in Batches : c # b => batch'[c] = batch[c]
        BY <1>2, <1>4 DEF BatchRecords
    <2>2. Owns(b)'
        BY <1>1, <1>4, <2>1 DEF Owns, Early, Late
    <2> QED BY <1>1, <1>4, <2>1, <2>2, OneBatch
<1>5. ASSUME batch'[b].stage \in {"done", "dead"},
             batch'[b].todo \subseteq batch'[b].items,
             \A c \in Batches : c # b => batch'[c] = batch[c],
             globalLock' = None, UNCHANGED pending
      PROVE  Flights'
    <2>1. Owns(b)'
        BY <1>5 DEF Owns, Early, Late
    <2> QED BY <1>1, <1>5, <2>1, OneBatch
<1>6. \A s : s \in {"register", "register stat", "clean", "clean unlink"} <=> s \in Late
    BY DEF Late
<1>7. CASE Clean(b, d)
    <2>1. CASE Reclaim(b, d, "clean", "failed")
        BY <1>3, <1>6, <2>1 DEF Reclaim
    <2>2. CASE /\ batch' = [batch EXCEPT ![b].stage = "clean unlink"]
               /\ UNCHANGED <<pending, globalLock>>
        BY <1>4, <1>6, <2>2
    <2>3. CASE /\ batch' = [batch EXCEPT ![b].stage = "dead"]
               /\ globalLock' = None /\ UNCHANGED pending
        <3>1. /\ batch'[b].stage = "dead" /\ batch'[b].todo \subseteq batch'[b].items
              /\ \A c \in Batches : c # b => batch'[c] = batch[c]
            BY <1>1, <1>2, <2>3 DEF BatchRecords, Owns
        <3> QED BY <1>5, <2>3, <3>1
    <2> QED BY <1>7, <2>1, <2>2, <2>3 DEF Clean
<1>8. CASE Register(b, d)
    <2>1. CASE Settled(b, d, "register", "ok")
        BY <1>3, <1>6, <2>1
    <2>2. CASE /\ batch' = [batch EXCEPT ![b].stage = "register stat"]
               /\ UNCHANGED <<pending, globalLock>>
        BY <1>4, <1>6, <2>2
    <2>3. CASE /\ batch' = [batch EXCEPT ![b] =
                        [IdleBatch EXCEPT !.stage = "done", !.future = "failed"]]
               /\ globalLock' = None /\ UNCHANGED pending
        <3>1. /\ batch'[b].stage = "done" /\ batch'[b].todo \subseteq batch'[b].items
              /\ \A c \in Batches : c # b => batch'[c] = batch[c]
            BY <1>2, <2>3 DEF IdleBatch
        <3> QED BY <1>5, <2>3, <3>1
    <2> QED BY <1>8, <2>1, <2>2, <2>3 DEF Register, Reclaim, mapVars
<1> QED BY <1>7, <1>8

\* Every step keeps the batches' ownership of their items.
LEMMA FlightsStep ==
    ASSUME TypeOK, TypeOK', Flights, [Next]_vars
    PROVE  Flights'
<1>1. ASSUME NEW t \in Fetchers, FetchStep(t) PROVE Flights'
    BY <1>1, PlanFlights, SubmitFlights, CallFlights, DropFlights DEF FetchStep
<1>2. ASSUME NEW t \in Fetchers, NEW files \in Requests, Fetch(t, files) PROVE Flights'
    BY <1>2, FetchFlights
<1>3. ASSUME NEW b \in Batches, BatchStep(b) PROVE Flights'
    BY <1>3, EarlyFlights, LockFlights, LateFlights DEF BatchStep
<1>4. CASE Restart
    BY <1>4, Holders DEF Restart, Flights, Owns, Calls, IdleThread, IdleBatch, Early, Late
<1>5. CASE \/ \E d \in Digests : Delete(d) \/ Rewrite(d)
           \/ Boot \/ UNCHANGED vars
    <2>1. UNCHANGED <<batch, thread, pending, globalLock>>
        BY <1>5 DEF Delete, Rewrite, Boot, Verify, Admit, vars, mapVars, lockVars
    <2> QED BY <2>1 DEF Flights, Owns, Calls
<1> QED BY <1>1, <1>2, <1>3, <1>4, <1>5 DEF Next

\* No content is downloaded twice at a time, whatever fails, whoever removes
\* or rewrites files, and across restarts (filesystem.py, _pending_files).
THEOREM FlightsAreSingle == Spec => []SingleFlight
<1>1. Init => TypeOK /\ BootQuiet /\ Flights
    <2> SUFFICES ASSUME Init PROVE TypeOK /\ BootQuiet /\ Flights
        OBVIOUS
    <2>1. Flights
        BY Holders DEF Init, Flights, Owns, Calls, IdleThread, IdleBatch, Early, Late
    <2> QED BY <2>1, InitType DEF Init, BootQuiet
<1>2. TypeOK /\ BootQuiet /\ Flights /\ [Next]_vars => TypeOK' /\ BootQuiet' /\ Flights'
    BY TypeStep, BootQuietStep, FlightsStep
<1>3. TypeOK /\ Flights => SingleFlight
    BY FlightsSingle
<1> QED BY <1>1, <1>2, <1>3, PTL DEF Spec

-----------------------------------------------------------------------------
(* The total *)

\* The ".tmp" files of a batch have the size of their digests once they are
\* received, and until they are installed.
TmpSized(b) ==
    /\ batch[b].stage = "planned" => batch[b].todo = batch[b].items
    /\ batch[b].stage = "receive" /\ ~batch[b].unread =>
            \A d \in batch[b].items \ batch[b].todo : tmp[d] = Size[d]
    /\ batch[b].stage \in {"install", "rename"} =>
            \A d \in batch[b].todo : tmp[d] = Size[d]
    /\ batch[b].stage = "chmod" =>
            \A d \in batch[b].todo \ {batch[b].at} : tmp[d] = Size[d]
    /\ batch[b].stage = "rename" => batch[b].at \in batch[b].todo

\* So have the files of the cache and their entries, none of which is pending.
FilesSized == \A d \in Digests : Exists(d) => disk[d].size = Size[d]
Entries == \A d \in CachedNames : cached[d].size = Size[d] /\ pending[d] = None

\* Each digest that is cached or on its way is paid for once.
Books == current = SizeOf(Size, CachedNames \cup PendingNames)

\* init() starts with nothing, and enters a file once.
Booted ==
    /\ phase # "up" => PendingNames = {}
    /\ phase = "verify" => CachedNames = {}
    /\ phase = "admit" => booting \cap CachedNames = {}

Sized ==
    /\ \A b \in Batches : TmpSized(b)
    /\ FilesSized /\ Entries /\ Books /\ Booted

\* The total is then what the entries and the downloads sum up to.
LEMMA SizedAccounts ==
    ASSUME TypeOK, Sized
    PROVE  SizeAccounted
<1>1. /\ CachedNames \in SUBSET Digests /\ PendingNames \in SUBSET Digests
      /\ Size \in [Digests -> Nat]
    BY FilesystemAssumption DEF CachedNames, PendingNames
<1>2. IsFiniteSet(CachedNames) /\ IsFiniteSet(PendingNames)
    BY <1>1, FilesystemAssumption, FS_Subset
<1>3. CachedNames \cap PendingNames = {}
    BY DEF Sized, Entries, PendingNames
<1>4. SizeOf(Size, CachedNames \cup PendingNames)
        = SizeOf(Size, CachedNames) + SizeOf(Size, PendingNames)
    BY <1>1, <1>2, <1>3, SizeOfUnion
<1>5. \A d \in CachedNames : [e \in Digests |-> cached[e].size][d] = Size[d]
    BY <1>1 DEF Sized, Entries
<1>6. StSize(CachedNames) = SizeOf(Size, CachedNames)
    BY <1>5, SizeOfAgree DEF StSize
<1> QED BY <1>4, <1>6 DEF SizeAccounted, Sized, Books

\* What a step that leaves the maps alone keeps.
LEMMA MapsFrame ==
    ASSUME Entries, Books, Booted, UNCHANGED <<cached, pending, current, bootVars>>
    PROVE  Entries' /\ Books' /\ Booted'
BY DEF Entries, Books, Booted, CachedNames, PendingNames, bootVars

\* Files that only disappear keep their sizes.
LEMMA FilesFrame ==
    ASSUME FilesSized, \A d \in Digests : disk'[d] = disk[d] \/ disk'[d] = NoFile
    PROVE  FilesSized'
BY DEF FilesSized, Exists

\* A step that touches no map, no batch and no ".tmp" file.
LEMMA QuietSized ==
    ASSUME Sized, UNCHANGED <<tmp, batch, cached, pending, current, bootVars>>,
           \A d \in Digests : disk'[d] = disk[d] \/ disk'[d] = NoFile
    PROVE  Sized'
<1>1. \A b \in Batches : TmpSized(b)'
    BY DEF Sized, TmpSized
<1> QED BY <1>1, MapsFrame, FilesFrame DEF Sized

\* A batch that is left alone, and whose ".tmp" files are.
LEMMA TmpFrame ==
    ASSUME NEW c \in Batches, TmpSized(c), Owns(c), batch'[c] = batch[c],
           batch[c].stage \in Early => \A d \in batch[c].items : tmp'[d] = tmp[d]
    PROVE  TmpSized(c)'
BY DEF TmpSized, Owns, Early

\* A batch alone writes the ".tmp" files of its items.
LEMMA OthersTmp ==
    ASSUME TypeOK, Flights, Sized, NEW b \in Batches, NEW d \in Digests, pending[d] = b,
           \A e \in Digests : e # d => tmp'[e] = tmp[e],
           NEW c \in Batches, c # b, batch'[c] = batch[c]
    PROVE  TmpSized(c)'
<1>1. Owns(c) /\ TmpSized(c) /\ batch[c].items \in SUBSET Digests
    BY BatchType DEF Flights, Sized, TypeOK, Stages
<1>2. batch[c].stage \in Early => d \notin batch[c].items
    BY <1>1 DEF Owns
<1> QED BY <1>1, <1>2, TmpFrame

\* The size of a set with one more digest, and with one less.
LEMMA HeldAdds ==
    ASSUME NEW S \in SUBSET Digests, NEW d \in Digests
    PROVE  /\ SizeOf(Size, S) \in Nat
           /\ d \notin S => SizeOf(Size, S \cup {d}) = SizeOf(Size, S) + Size[d]
           /\ d \in S => SizeOf(Size, S \ {d}) = SizeOf(Size, S) - Size[d]
<1>1. IsFiniteSet(S) /\ Size \in [Digests -> Nat]
    BY FilesystemAssumption, FS_Subset
<1> QED BY <1>1, SizeOfType, SizeOfAdd, SizeOfRemove

\* The steps of a call that leave the maps alone.
LEMMA CallSized ==
    ASSUME TypeOK, Sized, NEW t \in Fetchers,
           \/ PlanRaise(t) \/ Evict(t) \/ WaitOk(t) \/ WaitRaise(t) \/ Snapshot(t)
           \/ Link(t) \/ LinkStat(t) \/ LinkFile(t) \/ DropLock(t)
           \/ \E files \in Requests : Fetch(t, files)
    PROVE  Sized'
<1>1. UNCHANGED <<tmp, batch, cached, pending, current, bootVars>>
    BY DEF PlanRaise, Evict, WaitOk, WaitRaise, Snapshot, Link, LinkStat, LinkFile,
           DropLock, Fetch, diskVars, mapVars
<1>2. \A d \in Digests : disk'[d] = disk[d] \/ disk'[d] = NoFile
    <2>1. CASE Evict(t)
        <3>1. disk' = disk \/ disk' = [disk EXCEPT ![Head(thread[t].evicting)] = NoFile]
            BY <2>1 DEF Evict
        <3> QED BY <3>1 DEF TypeOK, DiskOK
    <2>2. CASE UNCHANGED disk
        BY <2>2
    <2> QED BY <2>1, <2>2 DEF PlanRaise, WaitOk, WaitRaise, Snapshot, Link, LinkStat,
                              LinkFile, DropLock, Fetch, diskVars
<1> QED BY <1>1, <1>2, QuietSized

\* An entry leaves _cached_files, with its size.
LEMMA EntryLeaves ==
    ASSUME TypeOK, Entries, Books, Booted, NEW d \in Digests, cached[d] # NoInfo,
           cached' = [cached EXCEPT ![d] = NoInfo], current' = current - Size[d],
           UNCHANGED <<pending, bootVars>>
    PROVE  Entries' /\ Books' /\ Booted'
<1>1. CachedNames' = CachedNames \ {d} /\ PendingNames' = PendingNames
    BY DEF TypeOK, MapsOK, CachedNames, PendingNames
<1>2. d \in CachedNames /\ d \notin PendingNames
    BY DEF Entries, CachedNames, PendingNames
<1>3. Entries'
    <2>1. \A e \in CachedNames' : e \in CachedNames /\ cached'[e] = cached[e]
        BY <1>1 DEF TypeOK, MapsOK, CachedNames
    <2> QED BY <2>1 DEF Entries
<1>4. Books'
    <2> DEFINE S == CachedNames \cup PendingNames
    <2>1. S \in SUBSET Digests /\ d \in S
        BY <1>2 DEF CachedNames, PendingNames
    <2>2. CachedNames' \cup PendingNames' = S \ {d}
        BY <1>1, <1>2
    <2>3. SizeOf(Size, S \ {d}) = SizeOf(Size, S) - Size[d]
        <3> HIDE DEF S
        <3> QED BY <2>1, HeldAdds
    <2> QED BY <2>2, <2>3 DEF Books
<1>5. Booted'
    BY <1>1 DEF Booted, bootVars
<1> QED BY <1>3, <1>4, <1>5

\* A corrupted file is unlinked and its entry forgotten.
LEMMA DropSized ==
    ASSUME TypeOK, Sized, NEW t \in Fetchers, Drop(t)
    PROVE  Sized'
<1> DEFINE d == DigestOf[Corrupted(t)]
<1>1. d \in Digests
    <2>1. thread[t].corrupted \in Seq(Nodes) /\ thread[t].corrupted # <<>>
        BY ThreadType DEF Drop, TypeOK
    <2> QED BY <2>1, TailFacts, FilesystemAssumption DEF Corrupted
<1>2. UNCHANGED <<tmp, batch, bootVars>>
    BY DEF Drop
<1>3. \A e \in Digests : disk'[e] = disk[e] \/ disk'[e] = NoFile
    <2>1. disk' = disk \/ disk' = [disk EXCEPT ![d] = NoFile]
        BY DEF Drop
    <2> QED BY <2>1 DEF TypeOK, DiskOK
<1>4. CASE UNCHANGED mapVars
    BY <1>2, <1>3, <1>4, QuietSized DEF mapVars
<1>5. CASE Forget(t) /\ cached[d] # NoInfo
    <2>1. /\ cached' = [cached EXCEPT ![d] = NoInfo] /\ current' = current - Size[d]
          /\ UNCHANGED pending
        BY <1>5 DEF Forget
    <2>2. Entries' /\ Books' /\ Booted'
        BY <1>1, <1>2, <1>5, <2>1, EntryLeaves DEF Sized
    <2>3. \A b \in Batches : TmpSized(b)'
        BY <1>2 DEF Sized, TmpSized
    <2> QED BY <1>3, <2>2, <2>3, FilesFrame DEF Sized
<1> QED BY <1>4, <1>5 DEF Drop, Forget

\* The batches that are submitted have nothing yet.
LEMMA SubmitSized ==
    ASSUME TypeOK, Flights, Sized, NEW t \in Fetchers, Submit(t)
    PROVE  Sized'
<1>1. \A b \in Batches : batch[b] \in BatchRecords
    BY DEF TypeOK, BatchesOK
<1>2. \A b \in thread[t].planned : batch[b].stage = "planned"
    BY DEF Flights, Calls
<1>3. \A b \in Batches :
        /\ batch'[b].items = batch[b].items /\ batch'[b].todo = batch[b].todo
        /\ batch'[b].at = batch[b].at /\ batch'[b].unread = batch[b].unread
        /\ b \in thread[t].planned => batch'[b].stage = "receive"
        /\ b \notin thread[t].planned => batch'[b].stage = batch[b].stage
    BY <1>1 DEF Submit, BatchRecords
<1>4. UNCHANGED <<disk, tmp, cached, pending, current, bootVars>>
    BY DEF Submit, diskVars, mapVars
<1>5. \A b \in Batches : TmpSized(b)'
    <2> SUFFICES ASSUME NEW b \in Batches PROVE TmpSized(b)'
        OBVIOUS
    <2>1. CASE b \in thread[t].planned
        <3>1. batch'[b].todo = batch'[b].items /\ batch'[b].stage = "receive"
            BY <1>2, <1>3, <2>1 DEF Sized, TmpSized
        <3> QED BY <3>1 DEF TmpSized
    <2>2. CASE b \notin thread[t].planned
        BY <1>3, <1>4, <2>2 DEF Sized, TmpSized
    <2> QED BY <2>1, <2>2
<1>6. FilesSized'
    BY <1>4, FilesFrame DEF Sized
<1> QED BY <1>4, <1>5, <1>6, MapsFrame DEF Sized

\* A plan pays for the missing files and takes back the size of the victims.
LEMMA PlanSized ==
    ASSUME TypeOK, BootQuiet, Sized, NEW t \in Fetchers, Plan(t)
    PROVE  Sized'
<1> DEFINE missing == Missing(thread[t].files)
           victims == Victims(thread[t].files)
<1>1. /\ missing \in SUBSET Digests /\ victims \in SUBSET CachedNames
      /\ cached' = [d \in Digests |-> IF d \in victims THEN NoInfo ELSE cached[d]]
      /\ current' = current - StSize(victims) + SizeOf(Size, missing)
      /\ UNCHANGED <<disk, tmp, phase, booting>>
    BY PlanEffect
<1>2. PICK place \in [missing -> FreeBatches] :
        /\ pending' = [d \in Digests |-> IF d \in missing THEN place[d] ELSE pending[d]]
        /\ batch' = [b \in Batches |->
                IF \E d \in missing : place[d] = b
                THEN NewBatch(thread[t].files, {d \in missing : place[d] = b})
                ELSE batch[b]]
    BY PlanEffect
<1>3. \A d \in missing : /\ cached[d] = NoInfo /\ pending[d] = None
                         /\ place[d] \in Batches /\ place[d] # None
    BY <1>2, Holders DEF Missing, FreeBatches
<1>4. phase = "up"
    BY DEF Plan, BootQuiet
<1> HIDE DEF missing, victims
<1>5. /\ CachedNames' = CachedNames \ victims
      /\ PendingNames' = PendingNames \cup missing
    BY <1>1, <1>2, <1>3 DEF CachedNames, PendingNames
<1>6. \A b \in Batches : TmpSized(b)'
    <2> SUFFICES ASSUME NEW b \in Batches PROVE TmpSized(b)'
        OBVIOUS
    <2>1. CASE \E d \in missing : place[d] = b
        <3>1. batch'[b].stage = "planned" /\ batch'[b].todo = batch'[b].items
            BY <1>2, <2>1 DEF NewBatch, IdleBatch
        <3> QED BY <3>1 DEF TmpSized
    <2>2. CASE ~ \E d \in missing : place[d] = b
        <3>1. batch'[b] = batch[b] /\ UNCHANGED tmp
            BY <1>1, <1>2, <2>2
        <3> QED BY <3>1 DEF Sized, TmpSized
    <2> QED BY <2>1, <2>2
<1>7. Entries'
    <2> SUFFICES ASSUME NEW d \in CachedNames'
                 PROVE  cached'[d].size = Size[d] /\ pending'[d] = None
        BY DEF Entries
    <2>1. d \in CachedNames /\ d \notin victims /\ d \in Digests /\ d \notin missing
        BY <1>1, <1>3, <1>5 DEF CachedNames
    <2> QED BY <1>1, <1>2, <2>1 DEF Sized, Entries
<1>8. Books'
    <2> DEFINE S == CachedNames \cup PendingNames
    <2>1. S \in SUBSET Digests /\ victims \in SUBSET S /\ S \ victims \in SUBSET Digests
        BY <1>1 DEF CachedNames, PendingNames
    <2>2. missing \cap (S \ victims) = {} /\ PendingNames \cap victims = {}
        BY <1>1, <1>3 DEF Sized, Entries, CachedNames, PendingNames
    <2>3. CachedNames' \cup PendingNames' = (S \ victims) \cup missing
        BY <1>5, <2>2
    <2> HIDE DEF S
    <2>4. IsFiniteSet(S) /\ IsFiniteSet(missing) /\ Size \in [Digests -> Nat]
          /\ IsFiniteSet(S \ victims)
        BY <1>1, <2>1, FilesystemAssumption, FS_Subset
    <2>5. /\ SizeOf(Size, S) = SizeOf(Size, victims) + SizeOf(Size, S \ victims)
          /\ SizeOf(Size, victims) \in Nat /\ SizeOf(Size, S \ victims) \in Nat
        BY <2>1, <2>4, SizeOfSplit
    <2>6. SizeOf(Size, (S \ victims) \cup missing)
            = SizeOf(Size, S \ victims) + SizeOf(Size, missing)
        BY <1>1, <2>1, <2>2, <2>4, SizeOfUnion
    <2>7. StSize(victims) = SizeOf(Size, victims)
        <3>1. \A d \in victims : [e \in Digests |-> cached[e].size][d] = Size[d]
            BY <1>1 DEF Sized, Entries, CachedNames
        <3> QED BY <3>1, SizeOfAgree DEF StSize
    <2>8. SizeOf(Size, missing) \in Nat
        BY <1>1, StSizeType DEF TypeOK
    <2>9. current = SizeOf(Size, S)
        BY DEF Sized, Books, S
    <2>10. current' = SizeOf(Size, (S \ victims) \cup missing)
        <3> DEFINE v == SizeOf(Size, victims)
                   k == SizeOf(Size, S \ victims)
                   m == SizeOf(Size, missing)
        <3>1. current' = current - v + m /\ current = v + k
            BY <1>1, <2>5, <2>7, <2>9
        <3>2. v \in Nat /\ k \in Nat /\ m \in Nat
            BY <2>5, <2>8
        <3> HIDE DEF v, k, m
        <3>3. current' = k + m
            BY <3>1, <3>2
        <3> QED BY <2>6, <3>3 DEF k, m
    <2> QED BY <2>3, <2>10 DEF Books
<1>9. Booted'
    BY <1>1, <1>4 DEF Booted
<1>10. FilesSized'
    BY <1>1, FilesFrame DEF Sized
<1> QED BY <1>6, <1>7, <1>8, <1>9, <1>10 DEF Sized

\* A step of one batch that leaves the maps alone.
LEMMA BatchSized ==
    ASSUME TypeOK, Flights, Sized, NEW b \in Batches,
           \A c \in Batches : c # b => batch'[c] = batch[c],
           UNCHANGED <<cached, pending, current, bootVars>>,
           TmpSized(b)', FilesSized',
           \/ UNCHANGED tmp
           \/ \E d \in Digests : /\ pending[d] = b
                                 /\ \A e \in Digests : e # d => tmp'[e] = tmp[e]
    PROVE  Sized'
<1>1. ASSUME NEW c \in Batches, c # b PROVE TmpSized(c)'
    <2>1. CASE UNCHANGED tmp
        BY <1>1, <2>1, TmpFrame DEF Flights, Sized
    <2>2. CASE \E d \in Digests : /\ pending[d] = b
                                  /\ \A e \in Digests : e # d => tmp'[e] = tmp[e]
        BY <1>1, <2>2, OthersTmp
    <2> QED BY <2>1, <2>2
<1> QED BY <1>1, MapsFrame DEF Sized

\* A batch that has failed owes nothing.
LEMMA FailedSized ==
    ASSUME TypeOK, NEW b \in Batches, Fail(b)
    PROVE  TmpSized(b)'
<1>1. batch'[b].stage = "failed"
    BY DEF Fail, TypeOK, BatchesOK, BatchRecords
<1> QED BY <1>1 DEF TmpSized

\* A blob has the size of its digest when it leaves the list.
LEMMA ReceiveSized ==
    ASSUME TypeOK, Flights, Sized, NEW b \in Batches, NEW d \in Digests, Receive(b, d)
    PROVE  Sized'
<1>1. /\ batch[b] \in BatchRecords /\ DOMAIN batch = Batches /\ tmp \in [Digests -> Nat \cup {NoTmp}]
      /\ Owns(b) /\ TmpSized(b)
    BY DEF TypeOK, BatchesOK, DiskOK, Flights, Sized
<1>2. batch[b].stage = "receive" /\ d \in batch[b].todo
    BY DEF Receive, Incoming
<1>3. pending[d] = b
    BY <1>1, <1>2 DEF Owns, Early
<1>4. /\ \A c \in Batches : c # b => batch'[c] = batch[c]
      /\ UNCHANGED <<cached, pending, current, bootVars>>
    BY EarlyEffect
<1>5. FilesSized'
    BY FilesFrame DEF Receive, Sized
<1> DEFINE written == IF batch[b].at = d THEN tmp[d] ELSE 0
<1>6. CASE Fail(b) /\ UNCHANGED tmp
    BY <1>4, <1>5, <1>6, FailedSized, BatchSized
<1>7. CASE ~(Fail(b) /\ UNCHANGED tmp)
    <2>1. PICK n \in IF Large(d) THEN 1..(Size[d] - written) ELSE {Size[d]} :
            /\ tmp' = [tmp EXCEPT ![d] = written + n]
            /\ batch' = [batch EXCEPT
                ![b].todo = IF written + n = Size[d] THEN @ \ {d} ELSE @,
                ![b].at = IF written + n = Size[d] THEN None ELSE d]
        BY <1>7 DEF Receive
    <2> DEFINE m == written + n
    <2>2. tmp' = [tmp EXCEPT ![d] = m]
        BY <2>1
    <2>3. batch' = [batch EXCEPT ![b].todo = IF m = Size[d] THEN @ \ {d} ELSE @,
                                 ![b].at = IF m = Size[d] THEN None ELSE d]
        BY <2>1
    <2> HIDE DEF m, written
    <2>4. /\ batch'[b].stage = "receive" /\ batch'[b].items = batch[b].items
          /\ batch'[b].unread = batch[b].unread
          /\ batch'[b].todo = IF m = Size[d] THEN batch[b].todo \ {d} ELSE batch[b].todo
        BY <1>1, <1>2, <2>3 DEF BatchRecords
    <2>5. \A e \in Digests : tmp'[e] = IF e = d THEN m ELSE tmp[e]
        BY <1>1, <2>2
    <2>6. batch[b].items \in SUBSET Digests
        BY <1>1 DEF BatchRecords
    <2>7. ASSUME ~batch[b].unread, NEW e \in batch'[b].items \ batch'[b].todo
          PROVE  tmp'[e] = Size[e]
        <3>1. e \in Digests
            BY <2>4, <2>6, <2>7
        <3>2. CASE e = d
            BY <1>2, <2>4, <2>5, <2>7, <3>1, <3>2
        <3>3. CASE e # d
            BY <1>1, <1>2, <2>4, <2>5, <2>7, <3>1, <3>3 DEF TmpSized
        <3> QED BY <3>2, <3>3
    <2>8. TmpSized(b)'
        BY <2>4, <2>7 DEF TmpSized
    <2> QED BY <1>3, <1>4, <1>5, <2>5, <2>8, BatchSized
<1> QED BY <1>6, <1>7

\* A blob that is refused makes the batch fail in the end.
LEMMA ReceiveFaultSized ==
    ASSUME TypeOK, Flights, Sized, "truncate" \notin Faults,
           NEW b \in Batches, NEW d \in Digests, ReceiveFault(b, d)
    PROVE  Sized'
<1>1. /\ batch[b] \in BatchRecords /\ DOMAIN batch = Batches /\ tmp \in [Digests -> Nat \cup {NoTmp}]
      /\ Owns(b) /\ TmpSized(b)
    BY DEF TypeOK, BatchesOK, DiskOK, Flights, Sized
<1>2. batch[b].stage = "receive" /\ d \in batch[b].todo
    BY DEF ReceiveFault, Incoming
<1>3. pending[d] = b
    BY <1>1, <1>2 DEF Owns, Early
<1>4. /\ \A c \in Batches : c # b => batch'[c] = batch[c]
      /\ UNCHANGED <<cached, pending, current, bootVars>>
    BY EarlyEffect
<1>5. FilesSized'
    BY FilesFrame DEF ReceiveFault, Sized
<1>6. ASSUME Fail(b), NEW n, tmp' = [tmp EXCEPT ![d] = n] PROVE Sized'
    <2>1. \A e \in Digests : e # d => tmp'[e] = tmp[e]
        BY <1>1, <1>6
    <2> QED BY <1>3, <1>4, <1>5, <1>6, <2>1, FailedSized, BatchSized
<1>7. CASE Fail(b) /\ UNCHANGED tmp
    BY <1>4, <1>5, <1>7, FailedSized, BatchSized
<1>8. CASE /\ batch' = [batch EXCEPT ![b].todo = @ \ {d}, ![b].at = None, ![b].unread = TRUE]
           /\ UNCHANGED tmp
    <2>1. batch'[b].stage = "receive" /\ batch'[b].unread
        BY <1>1, <1>2, <1>8 DEF BatchRecords
    <2>2. TmpSized(b)'
        BY <2>1 DEF TmpSized
    <2> QED BY <1>4, <1>5, <1>8, <2>2, BatchSized
<1> QED BY <1>6, <1>7, <1>8 DEF ReceiveFault

\* Once all is received, all the items have their sizes.
LEMMA ReceivedSized ==
    ASSUME TypeOK, Flights, Sized, NEW b \in Batches, Received(b) \/ Lock(b)
    PROVE  Sized'
<1>1. batch[b] \in BatchRecords /\ DOMAIN batch = Batches /\ TmpSized(b)
    BY DEF TypeOK, BatchesOK, Sized
<1>2. UNCHANGED <<disk, tmp, cached, pending, current, bootVars>>
    BY DEF Received, Lock, diskVars, mapVars
<1>3. FilesSized'
    BY <1>2, FilesFrame DEF Sized
<1>4. \A c \in Batches : c # b => batch'[c] = batch[c]
    BY <1>1 DEF Received, Lock, Fail
<1>5. TmpSized(b)'
    <2>1. CASE Received(b) /\ batch[b].unread
        BY <2>1, FailedSized DEF Received
    <2>2. CASE Received(b) /\ ~batch[b].unread
        <3>1. /\ batch'[b].stage = "install" /\ batch'[b].todo = batch[b].items
              /\ batch[b].stage = "receive" /\ batch[b].todo = {}
            BY <1>1, <2>2 DEF Received, BatchRecords
        <3> QED BY <1>1, <1>2, <2>2, <3>1 DEF TmpSized
    <2>3. CASE Lock(b)
        <3>1. batch'[b].stage \in {"clean", "register"}
            BY <1>1, <2>3 DEF Lock, BatchRecords
        <3> QED BY <3>1 DEF TmpSized
    <2> QED BY <2>1, <2>2, <2>3
<1> QED BY <1>2, <1>3, <1>4, <1>5, BatchSized

\* What is installed has the size it was received with.
LEMMA InstallSized ==
    ASSUME TypeOK, Flights, Sized, NEW b \in Batches, NEW d \in Digests,
           Install(b, d) \/ Rename(b, d) \/ Chmod(b, d)
    PROVE  Sized'
<1>1. /\ batch[b] \in BatchRecords /\ DOMAIN batch = Batches /\ tmp \in [Digests -> Nat \cup {NoTmp}]
      /\ disk \in [Digests -> Files] /\ Owns(b) /\ TmpSized(b) /\ FilesSized
    BY DEF TypeOK, BatchesOK, DiskOK, Flights, Sized
<1>2. /\ \A c \in Batches : c # b => batch'[c] = batch[c]
      /\ UNCHANGED <<cached, pending, current, bootVars>>
    BY EarlyEffect
<1>3. CASE Fail(b) /\ UNCHANGED <<disk, tmp>>
    <2>1. FilesSized'
        BY <1>1, <1>3, FilesFrame
    <2> QED BY <1>2, <1>3, <2>1, FailedSized, BatchSized
<1>4. CASE Install(b, d) /\ ~Exists(d)
    <2>1. /\ batch'[b].stage = "rename" /\ batch'[b].at = d
          /\ batch'[b].todo = batch[b].todo /\ batch[b].stage = "install"
          /\ d \in batch[b].todo /\ UNCHANGED <<disk, tmp>>
        BY <1>1, <1>4 DEF Install, IsFirst, BatchRecords, diskVars
    <2>2. TmpSized(b)'
        BY <1>1, <2>1 DEF TmpSized
    <2>3. FilesSized'
        BY <1>1, <2>1, FilesFrame
    <2> QED BY <1>2, <2>1, <2>2, <2>3, BatchSized
<1>5. CASE Rename(b, d) /\ tmp[d] # NoTmp
    <2>1. /\ batch'[b].stage = "chmod" /\ batch'[b].at = d
          /\ batch'[b].todo = batch[b].todo /\ batch[b].stage = "rename" /\ batch[b].at = d
          /\ tmp' = [tmp EXCEPT ![d] = NoTmp]
        BY <1>1, <1>5 DEF Rename, BatchRecords
    <2>2. d \in batch[b].todo /\ tmp[d] = Size[d] /\ pending[d] = b
        BY <1>1, <2>1 DEF TmpSized, Owns, Early
    <2>3. \A e \in Digests : e # d => tmp'[e] = tmp[e]
        BY <1>1, <2>1
    <2>4. TmpSized(b)'
        <3>1. batch[b].todo \in SUBSET Digests
            BY <1>1 DEF BatchRecords
        <3> QED BY <1>1, <2>1, <2>3, <3>1 DEF TmpSized
    <2>5. PICK s \in 1..MaxStamp :
            disk' = [disk EXCEPT ![d] = [stamp |-> s, size |-> tmp[d], readonly |-> FALSE,
                                         intact |-> tmp[d] = Size[d]]]
        BY <1>5 DEF Rename
    <2>6. FilesSized'
        <3>1. disk'[d].size = Size[d]
            BY <1>1, <2>2, <2>5
        <3>2. \A e \in Digests : e # d => disk'[e] = disk[e]
            BY <1>1, <2>5
        <3> QED BY <1>1, <3>1, <3>2 DEF FilesSized, Exists
    <2> QED BY <1>2, <2>2, <2>3, <2>4, <2>6, BatchSized
<1>6. CASE Chmod(b, d) /\ Exists(d)
    <2>1. /\ batch'[b].stage \in {"installed", "install"}
          /\ batch'[b].todo = batch[b].todo \ {d}
          /\ batch[b].stage = "chmod" /\ batch[b].at = d /\ UNCHANGED tmp
        BY <1>1, <1>6 DEF Chmod, BatchRecords
    <2>2. TmpSized(b)'
        BY <1>1, <2>1 DEF TmpSized
    <2>3. FilesSized'
        <3>1. disk' = [disk EXCEPT ![d].readonly = TRUE]
            BY <1>6 DEF Chmod
        <3>2. disk[d] \in [stamp : 1..MaxStamp, size : Nat, readonly : BOOLEAN, intact : BOOLEAN]
            BY <1>1, <1>6 DEF Exists, Files
        <3>3. disk'[d].size = disk[d].size /\ \A e \in Digests : e # d => disk'[e] = disk[e]
            BY <1>1, <3>1, <3>2
        <3> QED BY <1>1, <1>6, <3>3 DEF FilesSized, Exists
    <2> QED BY <1>2, <2>1, <2>2, <2>3, BatchSized
<1> QED BY <1>3, <1>4, <1>5, <1>6 DEF Install, Rename, Chmod, diskVars

\* A reservation is given back.
LEMMA ReservationLeaves ==
    ASSUME TypeOK, Entries, Books, Booted, NEW d \in Digests, pending[d] # None,
           pending' = [pending EXCEPT ![d] = None], current' = current - Size[d],
           UNCHANGED <<cached, bootVars>>
    PROVE  Entries' /\ Books' /\ Booted'
<1>1. CachedNames' = CachedNames /\ PendingNames' = PendingNames \ {d}
    BY DEF TypeOK, MapsOK, CachedNames, PendingNames
<1>2. d \notin CachedNames /\ d \in PendingNames
    BY DEF Entries, PendingNames
<1>3. Entries'
    BY <1>1 DEF Entries, TypeOK, MapsOK, CachedNames
<1>4. Books'
    <2> DEFINE S == CachedNames \cup PendingNames
    <2>1. S \in SUBSET Digests /\ d \in S
        BY <1>2 DEF CachedNames, PendingNames
    <2>2. CachedNames' \cup PendingNames' = S \ {d}
        BY <1>1, <1>2
    <2>3. SizeOf(Size, S \ {d}) = SizeOf(Size, S) - Size[d]
        <3> HIDE DEF S
        <3> QED BY <2>1, HeldAdds
    <2> QED BY <2>2, <2>3 DEF Books
<1>5. Booted'
    BY <1>1 DEF Booted, bootVars
<1> QED BY <1>3, <1>4, <1>5

\* A download becomes an entry of the same size.
LEMMA EntryMade ==
    ASSUME TypeOK, Entries, Books, Booted, NEW d \in Digests, pending[d] # None,
           NEW i \in Infos, i # NoInfo, i.size = Size[d], cached' = [cached EXCEPT ![d] = i],
           pending' = [pending EXCEPT ![d] = None], UNCHANGED <<current, bootVars>>
    PROVE  Entries' /\ Books' /\ Booted'
<1>1. CachedNames' = CachedNames \cup {d} /\ PendingNames' = PendingNames \ {d}
    BY DEF TypeOK, MapsOK, CachedNames, PendingNames
<1>2. d \in PendingNames /\ phase = "up"
    BY DEF PendingNames, Booted
<1>3. Entries'
    <2> SUFFICES ASSUME NEW e \in CachedNames'
                 PROVE  cached'[e].size = Size[e] /\ pending'[e] = None
        BY DEF Entries
    <2>1. e \in Digests
        BY DEF CachedNames
    <2>2. CASE e = d
        BY <2>2 DEF TypeOK, MapsOK
    <2>3. CASE e # d
        BY <1>1, <2>1, <2>3 DEF Entries, TypeOK, MapsOK
    <2> QED BY <2>2, <2>3
<1>4. Books'
    <2>1. CachedNames' \cup PendingNames' = CachedNames \cup PendingNames
        BY <1>1, <1>2
    <2> QED BY <2>1 DEF Books
<1>5. Booted'
    BY <1>2 DEF Booted, bootVars
<1> QED BY <1>3, <1>4, <1>5

\* The error handler of a batch gives back what it failed to bring; what was
\* installed is registered.
LEMMA LateSized ==
    ASSUME TypeOK, Flights, Sized, NEW b \in Batches, NEW d \in Digests,
           Clean(b, d) \/ Register(b, d)
    PROVE  Sized'
<1>1. /\ batch[b] \in BatchRecords /\ DOMAIN batch = Batches /\ Owns(b)
      /\ batch[b].stage \in Late /\ d \in batch[b].todo
      /\ UNCHANGED <<tmp, bootVars>>
    BY DEF TypeOK, BatchesOK, Flights, Clean, Register, IsFirst, Late, diskVars
<1>2. pending[d] = b /\ pending[d] # None
    BY <1>1, Holders DEF Owns
<1>3. FilesSized'
    <2>1. disk' = disk \/ disk' = [disk EXCEPT ![d] = NoFile]
        BY DEF Clean, Register, diskVars
    <2>2. \A e \in Digests : disk'[e] = disk[e] \/ disk'[e] = NoFile
        BY <2>1 DEF TypeOK, DiskOK
    <2> QED BY <2>2, FilesFrame DEF Sized
<1>4. ASSUME NEW s \in Late, NEW o \in {"ok", "failed"}, Settled(b, d, s, o)
      PROVE  /\ batch'[b].stage \in Late \cup {"done"}
             /\ \A c \in Batches : c # b => batch'[c] = batch[c]
    BY <1>4, SettledEffect
<1>5. \A s : s \in {"register", "register stat", "clean", "clean unlink"} <=> s \in Late
    BY DEF Late
<1>6. /\ batch'[b].stage \in Late \cup {"done", "dead"}
      /\ \A c \in Batches : c # b => batch'[c] = batch[c]
    <2>1. CASE \E s \in Late \cup {"dead"} : batch' = [batch EXCEPT ![b].stage = s]
        BY <1>1, <2>1 DEF BatchRecords
    <2>2. CASE batch' = [batch EXCEPT ![b] = [IdleBatch EXCEPT !.stage = "done", !.future = "failed"]]
        BY <1>1, <2>2 DEF IdleBatch
    <2> QED BY <1>4, <1>5, <2>1, <2>2 DEF Clean, Register, Reclaim
<1>7. \A c \in Batches : TmpSized(c)'
    <2>1. batch'[b].stage \notin {"planned", "receive", "install", "rename", "chmod"}
        BY <1>6 DEF Late
    <2>2. TmpSized(b)'
        BY <2>1 DEF TmpSized
    <2> QED BY <1>1, <1>6, <2>2, TmpFrame DEF Flights, Sized
<1>8. Entries' /\ Books' /\ Booted'
    <2>1. CASE UNCHANGED <<cached, pending, current>>
        BY <1>1, <2>1, MapsFrame DEF Sized
    <2>2. ASSUME NEW s, NEW o, Reclaim(b, d, s, o), UNCHANGED cached PROVE <1>8
        BY <1>1, <1>2, <2>2, ReservationLeaves DEF Reclaim, Settled, Sized
    <2>3. CASE /\ Exists(d) /\ cached' = [cached EXCEPT ![d] = FileCacheInfo(disk[d])]
               /\ Settled(b, d, "register", "ok") /\ UNCHANGED current
        <3>1. FileCacheInfo(disk[d]) \in Infos /\ FileCacheInfo(disk[d]) # NoInfo
            BY <2>3, StatType DEF TypeOK
        <3>2. FileCacheInfo(disk[d]).size = Size[d]
            BY <2>3 DEF Sized, FilesSized, FileCacheInfo
        <3> QED BY <1>1, <1>2, <2>3, <3>1, <3>2, EntryMade DEF Settled, Sized
    <2> QED BY <2>1, <2>2, <2>3 DEF Clean, Register, mapVars
<1> QED BY <1>3, <1>7, <1>8 DEF Sized

\* Others remove files, and none is changed.
LEMMA EnvironmentSized ==
    ASSUME TypeOK, Sized, "rewrite" \notin Faults, NEW d \in Digests, Delete(d) \/ Rewrite(d)
    PROVE  Sized'
<1>1. /\ UNCHANGED <<tmp, batch, cached, pending, current, bootVars>>
      /\ disk' = [disk EXCEPT ![d] = NoFile]
    BY DEF Delete, Rewrite, mapVars
<1>2. \A e \in Digests : disk'[e] = disk[e] \/ disk'[e] = NoFile
    BY <1>1 DEF TypeOK, DiskOK
<1> QED BY <1>1, <1>2, QuietSized

\* Restarts begin with nothing; what init() admits enters with its size.
LEMMA BootSized ==
    ASSUME TypeOK, BootQuiet, Sized, Restart \/ Boot
    PROVE  Sized'
<1>1. CASE Restart
    <2>1. CachedNames' = {} /\ PendingNames' = {} /\ current' = 0
        BY <1>1 DEF Restart, CachedNames, PendingNames
    <2>2. Entries' /\ Books' /\ Booted'
        BY <1>1, <2>1, SizeOfEmpty DEF Restart, Entries, Books, Booted
    <2>3. \A b \in Batches : TmpSized(b)'
        BY <1>1 DEF Restart, TmpSized, IdleBatch
    <2>4. FilesSized'
        BY <1>1, FilesFrame DEF Restart, Sized, diskVars
    <2> QED BY <2>2, <2>3, <2>4 DEF Sized
<1>2. ASSUME phase # "up", UNCHANGED batch PROVE \A b \in Batches : TmpSized(b)'
    BY <1>2 DEF BootQuiet, TmpSized
<1>3. CASE Verify
    <2>1. FilesSized'
        BY <1>3, FilesFrame DEF Verify, Sized
    <2>2. CachedNames' = CachedNames /\ PendingNames' = PendingNames /\ CachedNames = {}
        BY <1>3 DEF Verify, mapVars, CachedNames, PendingNames, Sized, Booted
    <2>3. Entries' /\ Books' /\ Booted'
        BY <1>3, <2>2 DEF Verify, mapVars, Sized, Entries, Books, Booted
    <2> QED BY <1>2, <1>3, <2>1, <2>3 DEF Verify, Sized
<1>4. ASSUME NEW d \in Digests, Admit(d) PROVE Sized'
    <2>1. /\ phase = "admit" /\ d \in booting /\ booting' = booting \ {d}
          /\ phase' \in {"admit", "up"} /\ UNCHANGED <<tmp, pending, batch>>
        BY <1>4 DEF Admit
    <2>2. Exists(d) /\ d \notin CachedNames /\ PendingNames = {} /\ PendingNames' = {}
        BY <2>1 DEF BootQuiet, Sized, Booted, PendingNames
    <2>3. CASE MaxSize = 0 \/ disk[d].size + current <= MaxSize
        <3>1. FileCacheInfo(disk[d]) \in Infos /\ FileCacheInfo(disk[d]) # NoInfo
            BY <2>2, StatType DEF TypeOK
        <3>2. FileCacheInfo(disk[d]).size = Size[d] /\ disk[d].size = Size[d]
            BY <2>2 DEF Sized, FilesSized, FileCacheInfo
        <3>3. /\ cached' = [cached EXCEPT ![d] = FileCacheInfo(disk[d])]
              /\ current' = current + disk[d].size /\ UNCHANGED disk
            BY <1>4, <2>3 DEF Admit
        <3>4. CachedNames' = CachedNames \cup {d}
            BY <3>1, <3>3 DEF TypeOK, MapsOK, CachedNames
        <3>5. Entries'
            <4> SUFFICES ASSUME NEW e \in CachedNames'
                         PROVE  cached'[e].size = Size[e] /\ pending'[e] = None
                BY DEF Entries
            <4>1. e \in Digests
                BY DEF CachedNames
            <4>2. CASE e = d
                BY <2>1, <2>2, <3>2, <3>3, <4>2 DEF TypeOK, MapsOK, PendingNames
            <4>3. CASE e # d
                BY <2>1, <3>3, <3>4, <4>1, <4>3 DEF Sized, Entries, TypeOK, MapsOK
            <4> QED BY <4>2, <4>3
        <3>6. Books'
            <4>1. CachedNames \in SUBSET Digests
                BY DEF CachedNames
            <4>2. SizeOf(Size, CachedNames \cup {d}) = SizeOf(Size, CachedNames) + Size[d]
                BY <2>2, <4>1, HeldAdds
            <4>3. /\ CachedNames \cup PendingNames = CachedNames
                  /\ CachedNames' \cup PendingNames' = CachedNames \cup {d}
                BY <2>2, <3>4
            <4> QED BY <3>2, <3>3, <4>2, <4>3 DEF Sized, Books
        <3>7. Booted'
            BY <2>1, <2>2, <3>4 DEF Sized, Booted
        <3>8. FilesSized'
            BY <3>3, FilesFrame DEF Sized
        <3> QED BY <1>2, <2>1, <3>5, <3>6, <3>7, <3>8 DEF Sized
    <2>4. CASE ~(MaxSize = 0 \/ disk[d].size + current <= MaxSize)
        <3>1. UNCHANGED <<cached, current>> /\ disk' = [disk EXCEPT ![d] = NoFile]
            BY <1>4, <2>4 DEF Admit
        <3>2. FilesSized'
            <4>1. \A e \in Digests : disk'[e] = disk[e] \/ disk'[e] = NoFile
                BY <3>1 DEF TypeOK, DiskOK
            <4> QED BY <4>1, FilesFrame DEF Sized
        <3>3. CachedNames' = CachedNames
            BY <3>1 DEF CachedNames
        <3>4. Entries' /\ Books' /\ Booted'
            BY <2>1, <2>2, <3>1, <3>3 DEF Sized, Entries, Books, Booted
        <3> QED BY <1>2, <2>1, <3>2, <3>4 DEF Sized
    <2> QED BY <2>3, <2>4
<1> QED BY <1>1, <1>3, <1>4 DEF Boot

\* Every step keeps the sizes, unless bytes are lost on the way or rewritten.
LEMMA SizedStep ==
    ASSUME TypeOK, BootQuiet, Flights, Sized, Faults \cap {"truncate", "rewrite"} = {},
           [Next]_vars
    PROVE  Sized'
<1>1. ASSUME NEW t \in Fetchers, FetchStep(t) PROVE Sized'
    BY <1>1, PlanSized, SubmitSized, CallSized, DropSized DEF FetchStep
<1>2. ASSUME NEW t \in Fetchers, NEW files \in Requests, Fetch(t, files) PROVE Sized'
    BY <1>2, CallSized
<1>3. ASSUME NEW b \in Batches, BatchStep(b) PROVE Sized'
    BY <1>3, ReceiveSized, ReceiveFaultSized, ReceivedSized, InstallSized, LateSized
       DEF BatchStep
<1>4. ASSUME NEW d \in Digests, Delete(d) \/ Rewrite(d) PROVE Sized'
    BY <1>4, EnvironmentSized
<1>5. ASSUME UNCHANGED vars PROVE Sized'
    BY <1>5, QuietSized DEF vars, diskVars, mapVars
<1> QED BY <1>1, <1>2, <1>3, <1>4, <1>5, BootSized DEF Next

\* The total of the file cache is the size of its entries and of what is
\* reserved for downloads, whoever downloads, evicts, fails, removes files or
\* restarts: the four paths that return bytes return what was taken.  Bytes a
\* blob lacks, or a program writes to a cached file, are outside of it.
THEOREM SizesAreAccounted ==
    ASSUME Faults \cap {"truncate", "rewrite"} = {}
    PROVE  Spec => []SizeAccounted
<1>1. Init => TypeOK /\ BootQuiet /\ Flights /\ Sized
    <2> SUFFICES ASSUME Init PROVE TypeOK /\ BootQuiet /\ Flights /\ Sized
        OBVIOUS
    <2>1. Flights
        BY Holders DEF Init, Flights, Owns, Calls, IdleThread, IdleBatch, Early, Late
    <2>2. CachedNames = {} /\ PendingNames = {}
        BY DEF Init, CachedNames, PendingNames
    <2>3. Sized
        BY <2>2, SizeOfEmpty DEF Init, Sized, TmpSized, FilesSized, Exists, Entries, Books,
                                 Booted, IdleBatch
    <2> QED BY <2>1, <2>3, InitType DEF Init, BootQuiet
<1>2. TypeOK /\ BootQuiet /\ Flights /\ Sized /\ [Next]_vars
            => TypeOK' /\ BootQuiet' /\ Flights' /\ Sized'
    BY TypeStep, BootQuietStep, FlightsStep, SizedStep
<1>3. TypeOK /\ Sized => SizeAccounted
    BY SizedAccounts
<1> QED BY <1>1, <1>2, <1>3, PTL DEF Spec
=============================================================================
