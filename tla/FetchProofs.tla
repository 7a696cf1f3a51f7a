----------------------------- MODULE FetchProofs -----------------------------
(***************************************************************************)
(* What fetch_to promises.  A file of the cache is not replaced under its  *)
(* links, and a call that returns has linked every file, whole.  Without a *)
(* limit on the size (max_cache_size_bytes 0) no call evicts, so files     *)
(* leave the cache directory under the global lock only: a future somebody *)
(* waits for is then the future of a batch that runs; and when the CAS     *)
(* answers and nothing else touches the directory, no call raises and the  *)
(* directory holds what the total says.  Last, the cache implements the    *)
(* store of module FileStore.                                              *)
(***************************************************************************)
EXTENDS AccountingProofs

-----------------------------------------------------------------------------
(* The files of the cache directory *)

\* The files are whole, and a batch that is about to rename a ".tmp" file
\* under the lock of the path has found none there.
Whole ==
    /\ \A d \in Digests : Exists(d) => disk[d].intact
    /\ \A b \in Batches : batch[b].stage = "rename" => disk[batch[b].at] = NoFile

\* A file appears by a rename, which finds none.
LEMMA RenameEffect ==
    ASSUME TypeOK, Flights, Sized, Whole, NEW b \in Batches, NEW d \in Digests, Rename(b, d)
    PROVE  /\ Whole' /\ ~Exists(d)
           /\ \A e \in Digests : e # d => disk'[e] = disk[e]
<1>1. /\ batch[b] \in BatchRecords /\ DOMAIN batch = Batches /\ disk \in [Digests -> Files]
      /\ Owns(b) /\ TmpSized(b)
    BY DEF TypeOK, BatchesOK, DiskOK, Flights, Sized
<1>2. batch[b].stage = "rename" /\ batch[b].at = d /\ d \in batch[b].todo
    BY <1>1 DEF Rename, TmpSized
<1>3. ~Exists(d) /\ tmp[d] = Size[d] /\ pending[d] = b
    BY <1>1, <1>2 DEF Whole, Exists, TmpSized, Owns, Early
<1>4. \A c \in Batches : c # b => batch'[c] = batch[c]
    BY EarlyEffect
<1>5. batch'[b].stage # "rename"
    <2>1. CASE Fail(b)
        BY <1>1, <2>1 DEF Fail, BatchRecords
    <2>2. CASE batch' = [batch EXCEPT ![b].stage = "chmod"]
        BY <1>1, <2>2 DEF BatchRecords
    <2> QED BY <2>1, <2>2 DEF Rename
<1>6. ASSUME NEW c \in Batches, c # b, batch[c].stage = "rename"
      PROVE  batch[c].at # d /\ batch[c].at \in Digests
    <2>1. Owns(c) /\ TmpSized(c) /\ batch[c].items \in SUBSET Digests
        BY BatchType DEF Flights, Sized, TypeOK, Stages
    <2>2. batch[c].at \in batch[c].items
        BY <1>6, <2>1 DEF TmpSized, Owns
    <2>3. pending[batch[c].at] = c
        BY <1>6, <2>1, <2>2 DEF Owns, Early
    <2> QED BY <1>3, <1>6, <2>1, <2>2, <2>3
<1>7. /\ \A e \in Digests : e # d => disk'[e] = disk[e]
      /\ disk'[d] = NoFile \/ disk'[d].intact
    <2>1. CASE UNCHANGED disk
        BY <1>3, <2>1 DEF Exists
    <2>2. ASSUME NEW s, disk' = [disk EXCEPT ![d] =
                    [stamp |-> s, size |-> tmp[d], readonly |-> FALSE,
                     intact |-> tmp[d] = Size[d]]]
          PROVE  <1>7
        BY <1>1, <1>3, <2>2
    <2> QED BY <2>1, <2>2 DEF Rename, diskVars
<1>8. Whole'
    <2>1. \A e \in Digests : Exists(e)' => disk'[e].intact
        BY <1>7 DEF Whole, Exists
    <2>2. \A c \in Batches : batch'[c].stage = "rename" => disk'[batch'[c].at] = NoFile
        <3> SUFFICES ASSUME NEW c \in Batches, batch'[c].stage = "rename"
                     PROVE  disk'[batch'[c].at] = NoFile
            OBVIOUS
        <3>1. c # b /\ batch'[c] = batch[c]
            BY <1>4, <1>5
        <3> QED BY <1>6, <1>7, <3>1 DEF Whole
    <2> QED BY <2>1, <2>2 DEF Whole
<1> QED BY <1>3, <1>7, <1>8

\* The mode of a file changes, not the file.
LEMMA ChmodEffect ==
    ASSUME TypeOK, Flights, Sized, Whole, NEW b \in Batches, NEW d \in Digests, Chmod(b, d)
    PROVE  /\ Whole'
           /\ \A e \in Digests : /\ Exists(e)' <=> Exists(e)
                                 /\ Exists(e) => disk'[e].stamp = disk[e].stamp
<1>1. /\ batch[b] \in BatchRecords /\ DOMAIN batch = Batches /\ disk \in [Digests -> Files]
    BY DEF TypeOK, BatchesOK, DiskOK
<1>2. \A e \in Digests : /\ Exists(e)' <=> Exists(e)
                         /\ Exists(e) => /\ disk'[e].stamp = disk[e].stamp
                                         /\ disk'[e].intact = disk[e].intact
    <2>1. CASE Exists(d)
        <3>1. disk' = [disk EXCEPT ![d].readonly = TRUE]
            BY <2>1 DEF Chmod
        <3>2. disk[d] \in [stamp : 1..MaxStamp, size : Nat, readonly : BOOLEAN, intact : BOOLEAN]
            BY <1>1, <2>1 DEF Exists, Files
        <3>3. /\ disk'[d].stamp = disk[d].stamp /\ disk'[d].intact = disk[d].intact
              /\ disk[d].stamp # 0 /\ \A e \in Digests : e # d => disk'[e] = disk[e]
            BY <1>1, <3>1, <3>2, FilesystemAssumption
        <3>4. disk'[d] # NoFile
            BY <3>3 DEF NoFile
        <3> QED BY <2>1, <3>3, <3>4 DEF Exists
    <2>2. CASE ~Exists(d)
        BY <2>2 DEF Chmod, Exists
    <2> QED BY <2>1, <2>2
<1>3. \A c \in Batches : batch'[c].stage = "rename" =>
            batch[c].stage = "rename" /\ batch'[c].at = batch[c].at
    <2>1. CASE Fail(b)
        BY <1>1, <2>1 DEF Fail, BatchRecords
    <2>2. ASSUME NEW s, s # "rename",
                 batch' = [batch EXCEPT ![b].todo = @ \ {d}, ![b].at = None, ![b].stage = s]
          PROVE  <1>3
        BY <1>1, <2>2 DEF BatchRecords
    <2>3. CASE Exists(d)
        <3> DEFINE s == IF batch[b].todo = {d} THEN "installed" ELSE "install"
        <3>1. batch' = [batch EXCEPT ![b].todo = @ \ {d}, ![b].at = None, ![b].stage = s]
            BY <2>3 DEF Chmod
        <3>2. s # "rename"
            OBVIOUS
        <3> HIDE DEF s
        <3> QED BY <2>2, <3>1, <3>2
    <2>4. CASE ~Exists(d)
        BY <2>1, <2>4 DEF Chmod
    <2> QED BY <2>3, <2>4
<1>4. \A c \in Batches : batch'[c].stage = "rename" => disk'[batch'[c].at] = NoFile
    <2> SUFFICES ASSUME NEW c \in Batches, batch'[c].stage = "rename"
                 PROVE  disk'[batch[c].at] = NoFile /\ batch'[c].at = batch[c].at
        OBVIOUS
    <2>1. disk[batch[c].at] = NoFile /\ batch'[c].at = batch[c].at
        BY <1>3 DEF Whole
    <2>2. Owns(c) /\ TmpSized(c) /\ batch[c].items \in SUBSET Digests
        BY BatchType DEF Flights, Sized, TypeOK, Stages
    <2>3. batch[c].at \in Digests
        BY <1>3, <2>2 DEF Owns, TmpSized
    <2> QED BY <1>2, <2>1, <2>3 DEF Exists
<1> QED BY <1>2, <1>4 DEF Whole, Exists

\* What a step that creates no file may do: files disappear, and a batch is
\* about to rename a file only where there is none.
Removes == \A d \in Digests : disk'[d] = disk[d] \/ disk'[d] = NoFile
Renames ==
    \A b \in Batches : batch'[b].stage = "rename" =>
        /\ batch'[b].at \in Digests
        /\ disk[batch'[b].at] = NoFile

LEMMA WholeFrame ==
    ASSUME Whole, Removes, Renames
    PROVE  Whole'
<1>1. \A d \in Digests : disk'[d] # NoFile => disk'[d].intact
    BY DEF Whole, Removes, Exists
<1>2. \A b \in Batches : batch'[b].stage = "rename" => disk'[batch'[b].at] = NoFile
    BY DEF Renames, Removes
<1> QED BY <1>1, <1>2 DEF Whole, Exists

\* The path a batch is about to rename to is that of one of its items.
LEMMA RenamesFrame ==
    ASSUME TypeOK, Flights, Sized, Whole,
           \A b \in Batches : batch'[b].stage = "rename" => batch'[b] = batch[b]
    PROVE  Renames
<1> SUFFICES ASSUME NEW b \in Batches, batch'[b].stage = "rename"
             PROVE  batch[b].at \in Digests /\ disk[batch[b].at] = NoFile
    BY DEF Renames
<1>1. batch'[b] = batch[b] /\ Owns(b) /\ TmpSized(b) /\ batch[b] \in BatchRecords
    BY DEF Flights, Sized, TypeOK, BatchesOK
<1>2. batch[b].items \subseteq Digests
    BY <1>1 DEF BatchRecords
<1> QED BY <1>1, <1>2 DEF Owns, TmpSized, Whole

\* The steps of calls, of the environment and of init().
LEMMA OthersWhole ==
    ASSUME TypeOK, Flights, Sized, Whole, "rewrite" \notin Faults,
           \/ \E t \in Fetchers : FetchStep(t)
           \/ \E t \in Fetchers, files \in Requests : Fetch(t, files)
           \/ \E d \in Digests : Delete(d) \/ Rewrite(d)
           \/ Restart \/ Boot \/ UNCHANGED vars
    PROVE  Removes /\ Renames
<1>1. disk \in [Digests -> Files] /\ batch \in [Batches -> BatchRecords]
    BY DEF TypeOK, DiskOK, BatchesOK
<1>2. ASSUME NEW t \in Fetchers, FetchStep(t) PROVE Removes /\ Renames
    <2>1. Removes
        BY <1>1, <1>2 DEF FetchStep, Plan, PlanRaise, Evict, Submit, WaitOk, WaitRaise,
               Snapshot, Link, LinkStat, LinkFile, DropLock, Drop, diskVars, Removes
    <2>2. CASE Plan(t)
        <3> DEFINE missing == Missing(thread[t].files)
        <3>0. PICK place \in [missing -> FreeBatches] : batch' = [b \in Batches |->
                IF \E d \in missing : place[d] = b
                THEN NewBatch(thread[t].files, {d \in missing : place[d] = b})
                ELSE batch[b]]
            BY <2>2, PlanEffect
        <3>1. \A b \in Batches : batch'[b] = batch[b] \/ batch'[b].stage = "planned"
            BY <3>0 DEF NewBatch, IdleBatch
        <3> QED BY <2>1, <3>1, RenamesFrame
    <2>3. CASE Submit(t)
        <3>1. \A b \in Batches : batch'[b] = batch[b] \/ batch'[b].stage = "receive"
            BY <2>3, <1>1 DEF Submit, BatchRecords
        <3> QED BY <2>1, <3>1, RenamesFrame
    <2>4. CASE ~Plan(t) /\ ~Submit(t)
        <3>1. UNCHANGED batch
            BY <1>2, <2>4 DEF FetchStep, PlanRaise, Evict, WaitOk, WaitRaise,
                   Snapshot, Link, LinkStat, LinkFile, DropLock, Drop
        <3> QED BY <2>1, <3>1, RenamesFrame
    <2> QED BY <2>2, <2>3, <2>4
<1>3. ASSUME UNCHANGED batch, Removes PROVE Removes /\ Renames
    BY <1>3, RenamesFrame
<1>4. ASSUME NEW t \in Fetchers, NEW files \in Requests, Fetch(t, files)
      PROVE  UNCHANGED batch /\ Removes
    BY <1>4 DEF Fetch, diskVars, Removes
<1>5. ASSUME NEW d \in Digests, Delete(d) \/ Rewrite(d) PROVE UNCHANGED batch /\ Removes
    BY <1>1, <1>5 DEF Delete, Rewrite, Removes
<1>6. ASSUME Restart PROVE Removes /\ Renames
    BY <1>6 DEF Restart, diskVars, IdleBatch, Removes, Renames
<1>7. ASSUME Boot PROVE UNCHANGED batch /\ Removes
    BY <1>1, <1>7 DEF Boot, Verify, Admit, Removes
<1>8. ASSUME UNCHANGED vars PROVE UNCHANGED batch /\ Removes
    BY <1>8 DEF vars, diskVars, Removes
<1> QED BY <1>2, <1>3, <1>4, <1>5, <1>6, <1>7, <1>8

\* The steps of batches but for the rename and the chmod.
LEMMA BatchWhole ==
    ASSUME TypeOK, Flights, Sized, Whole, NEW b \in Batches,
           \/ Received(b) \/ Lock(b)
           \/ \E d \in Digests : \/ Receive(b, d) \/ ReceiveFault(b, d) \/ Install(b, d)
                                 \/ Clean(b, d) \/ Register(b, d)
    PROVE  Removes /\ Renames
<1>1. /\ disk \in [Digests -> Files] /\ batch \in [Batches -> BatchRecords]
      /\ batch[b] \in BatchRecords /\ DOMAIN batch = Batches
    BY DEF TypeOK, DiskOK, BatchesOK
<1>2. Removes
    BY <1>1 DEF Received, Lock, Receive, ReceiveFault, Install, Clean, Register, diskVars, Removes
<1>3. ASSUME NEW d \in Digests, Install(b, d) PROVE Renames
    <2>1. CASE Exists(d)
        <3>1. \A c \in Batches : batch'[c] = batch[c] \/ batch'[c].stage = "failed"
            BY <1>1, <1>3, <2>1 DEF Install, Fail, BatchRecords
        <3> QED BY <3>1, RenamesFrame
    <2>2. CASE ~Exists(d)
        <3>1. batch' = [batch EXCEPT ![b].stage = "rename", ![b].at = d]
            BY <1>3, <2>2 DEF Install
        <3>2. \A c \in Batches : c # b => batch'[c] = batch[c]
            BY <1>1, <3>1
        <3>3. batch'[b].at = d
            BY <1>1, <3>1 DEF BatchRecords
        <3>4. ASSUME NEW c \in Batches, batch[c].stage = "rename"
              PROVE  batch[c].at \in Digests /\ disk[batch[c].at] = NoFile
            <4>1. Owns(c) /\ TmpSized(c) /\ batch[c].items \in SUBSET Digests
                BY BatchType DEF Flights, Sized, TypeOK, Stages
            <4> QED BY <3>4, <4>1 DEF Owns, TmpSized, Whole
        <3> QED BY <2>2, <3>2, <3>3, <3>4 DEF Renames, Exists
    <2> QED BY <2>1, <2>2
<1>4. ASSUME \A c \in Batches : batch'[c] = batch[c] \/ batch'[c].stage # "rename"
      PROVE  Renames
    BY <1>4, RenamesFrame
<1>5. ASSUME NEW s \in Stages \ {"rename"}, NEW d \in Digests, NEW o, Settled(b, d, s, o)
      PROVE  \A c \in Batches : batch'[c] = batch[c] \/ batch'[c].stage # "rename"
    BY <1>1, <1>5 DEF Settled, IdleBatch, BatchRecords
<1>6. ASSUME NEW d \in Digests, Clean(b, d) \/ Register(b, d)
      PROVE  \A c \in Batches : batch'[c] = batch[c] \/ batch'[c].stage # "rename"
    BY <1>1, <1>5, <1>6 DEF Clean, Register, Reclaim, IdleBatch, BatchRecords, Stages
<1>7. ASSUME Received(b) \/ Lock(b)
      PROVE  \A c \in Batches : batch'[c] = batch[c] \/ batch'[c].stage # "rename"
    BY <1>1, <1>7 DEF Received, Lock, Fail, BatchRecords
<1>8. ASSUME NEW d \in Digests, Receive(b, d) \/ ReceiveFault(b, d)
      PROVE  \A c \in Batches : batch'[c] = batch[c] \/ batch'[c].stage # "rename"
    <2>1. batch'[b].stage # "rename"
        <3>1. CASE Fail(b)
            BY <1>1, <3>1 DEF Fail, BatchRecords
        <3>2. ASSUME NEW T, NEW a, batch' = [batch EXCEPT ![b].todo = T, ![b].at = a]
              PROVE  batch'[b].stage = batch[b].stage
            BY <1>1, <3>2 DEF BatchRecords
        <3>3. ASSUME NEW T, NEW a,
                     batch' = [batch EXCEPT ![b].todo = T, ![b].at = a, ![b].unread = TRUE]
              PROVE  batch'[b].stage = batch[b].stage
            BY <1>1, <3>3 DEF BatchRecords
        <3>4. batch[b].stage = "receive"
            BY <1>8 DEF Receive, ReceiveFault, Incoming
        <3>5. CASE Receive(b, d) /\ ~Fail(b)
            <4> DEFINE written == IF batch[b].at = d THEN tmp[d] ELSE 0
            <4>1. PICK n \in IF Large(d) THEN 1..(Size[d] - written) ELSE {Size[d]} :
                    batch' = [batch EXCEPT
                        ![b].todo = IF written + n = Size[d] THEN @ \ {d} ELSE @,
                        ![b].at = IF written + n = Size[d] THEN None ELSE d]
                BY <3>5 DEF Receive
            <4> DEFINE T == IF written + n = Size[d] THEN batch[b].todo \ {d} ELSE batch[b].todo
                       a == IF written + n = Size[d] THEN None ELSE d
            <4>2. batch' = [batch EXCEPT ![b].todo = T, ![b].at = a]
                BY <4>1
            <4> HIDE DEF T, a
            <4> QED BY <3>2, <3>4, <4>2
        <3>6. CASE ReceiveFault(b, d) /\ ~Fail(b)
            BY <3>2, <3>3, <3>4, <3>6 DEF ReceiveFault
        <3> QED BY <3>1, <3>5, <3>6, <1>8
    <2>2. \A c \in Batches : c # b => batch'[c] = batch[c]
        BY <1>8, EarlyEffect
    <2> QED BY <2>1, <2>2
<1> QED BY <1>2, <1>3, <1>4, <1>6, <1>7, <1>8

\* Every step keeps the files whole, and no step replaces one.
LEMMA WholeStep ==
    ASSUME TypeOK, Flights, Sized, Whole, "rewrite" \notin Faults, [Next]_vars
    PROVE  /\ Whole'
           /\ \A d \in Digests : disk[d] # NoFile /\ disk'[d] # NoFile =>
                                    disk'[d].stamp = disk[d].stamp
<1> DEFINE Same == \A d \in Digests : disk[d] # NoFile /\ disk'[d] # NoFile =>
                                    disk'[d].stamp = disk[d].stamp
<1>1. ASSUME Removes, Renames PROVE Whole' /\ Same
    BY <1>1, WholeFrame DEF Removes
<1>2. ASSUME NEW b \in Batches, NEW d \in Digests, Rename(b, d) PROVE Whole' /\ Same
    BY <1>2, RenameEffect DEF Exists
<1>3. ASSUME NEW b \in Batches, NEW d \in Digests, Chmod(b, d) PROVE Whole' /\ Same
    BY <1>3, ChmodEffect DEF Exists
<1>4. ASSUME NEW b \in Batches, BatchStep(b) PROVE Whole' /\ Same
    <2>1. CASE \E d \in Digests : Rename(b, d) \/ Chmod(b, d)
        BY <1>2, <1>3, <2>1
    <2>2. CASE \/ Received(b) \/ Lock(b)
               \/ \E d \in Digests : \/ Receive(b, d) \/ ReceiveFault(b, d) \/ Install(b, d)
                                     \/ Clean(b, d) \/ Register(b, d)
        <3>1. Removes /\ Renames
            BY <2>2, BatchWhole
        <3> HIDE DEF Same
        <3> QED BY <1>1, <3>1
    <2> HIDE DEF Same
    <2> QED BY <1>4, <2>1, <2>2 DEF BatchStep
<1>5. ASSUME \/ \E t \in Fetchers : FetchStep(t)
             \/ \E t \in Fetchers, files \in Requests : Fetch(t, files)
             \/ \E d \in Digests : Delete(d) \/ Rewrite(d)
             \/ Restart \/ Boot \/ UNCHANGED vars
      PROVE  Whole' /\ Same
    <2>1. Removes /\ Renames
        BY <1>5, OthersWhole
    <2> HIDE DEF Same
    <2> QED BY <1>1, <2>1
<1> HIDE DEF Same
<1>6. Whole' /\ Same
    BY <1>4, <1>5 DEF Next
<1> QED BY <1>6 DEF Same

\* The invariant the theorems of this module use.
Kept == TypeOK /\ BootQuiet /\ Flights /\ Sized /\ Whole

LEMMA KeptInit == Init => Kept
<1> SUFFICES ASSUME Init PROVE Kept
    OBVIOUS
<1>1. Flights
    BY Holders DEF Init, Flights, Owns, Calls, IdleThread, IdleBatch, Early, Late
<1>2. CachedNames = {} /\ PendingNames = {}
    BY DEF Init, CachedNames, PendingNames
<1>3. Sized
    BY <1>2, SizeOfEmpty DEF Init, Sized, TmpSized, FilesSized, Exists, Entries, Books,
                             Booted, IdleBatch
<1>4. Whole
    BY DEF Init, Whole, Exists, IdleBatch
<1> QED BY <1>1, <1>3, <1>4, InitType DEF Init, BootQuiet, Kept

LEMMA KeptStep ==
    ASSUME Kept, Faults \cap {"truncate", "rewrite"} = {}, [Next]_vars
    PROVE  /\ Kept'
           /\ \A d \in Digests : disk[d] # NoFile /\ disk'[d] # NoFile =>
                                    disk'[d].stamp = disk[d].stamp
BY TypeStep, BootQuietStep, FlightsStep, SizedStep, WholeStep DEF Kept

\* A file of the cache is not replaced under the hard links to it, in the
\* interleavings of evictions, installations and error handlers: the rename
\* of a batch finds no file, for no other batch brings the same one.
THEOREM NothingIsReplaced ==
    ASSUME Faults \cap {"truncate", "rewrite"} = {}
    PROVE  Spec => NoClobber
<1>1. Kept /\ [Next]_vars => Kept'
    BY KeptStep
<1>2. Kept /\ [Next]_vars =>
        [\A d \in Digests : Exists(d) /\ Exists(d)' => disk'[d].stamp = disk[d].stamp]_vars
    BY KeptStep DEF Exists
<1> QED BY <1>1, <1>2, KeptInit, PTL DEF Spec, NoClobber

\* Only what is downloaded and verified stands in the cache directory, when
\* no blob, streamed or small, comes shorter than its digest and nobody
\* writes to the files: what is damaged or too long is never installed.
THEOREM VerifiedOnly ==
    ASSUME Faults \cap {"truncate", "rewrite"} = {}
    PROVE  Spec => []OnlyVerified
<1>1. Kept /\ [Next]_vars => Kept'
    BY KeptStep
<1>2. Kept => OnlyVerified
    BY DEF Kept, Whole, OnlyVerified
<1> QED BY <1>1, <1>2, KeptInit, PTL DEF Spec

-----------------------------------------------------------------------------
(* The files of a request *)

Members(s) == {s[i] : i \in DOMAIN s}
Listed(r) == Members(r.files) \cup Members(r.corrupted) \cup Members(r.missing)

\* Every file of the request is linked or in one of the lists of the call,
\* which hold no other, and the loop over the files is over when the
\* corrupted ones are dropped.
ServedBy(r) ==
    r.pc # "idle" =>
        /\ r.outcome = "none" /\ Listed(r) \subseteq Members(r.request)
        /\ \A i \in DOMAIN r.request : \/ r.linked[r.request[i]] = "whole"
                                       \/ r.request[i] \in Listed(r)
        /\ r.pc \in {"drop", "drop file", "drop unlink"} => r.files = <<>>
Served == \A t \in Fetchers : ServedBy(thread[t])

\* A step of the call keeps that, and returns when everything is linked; one
\* that goes on links at most a file of its lists, and puts none in.
AllLinked(r) == \A i \in DOMAIN r.request : r.linked[r.request[i]] = "whole"
Serves(t) ==
    /\ ServedBy(thread'[t])
    /\ thread[t].pc # "idle" /\ thread'[t].outcome = "ok" => AllLinked(thread[t])
    /\ thread[t].pc # "idle" /\ thread'[t].pc = "idle" =>
            \/ phase' # "up"
            \/ \E o \in Outcomes \ {"none"} : thread'[t] = [IdleThread EXCEPT !.outcome = o]
    /\ thread[t].pc # "idle" /\ thread'[t].pc # "idle" =>
            /\ thread'[t].request = thread[t].request
            /\ Listed(thread'[t]) \subseteq Listed(thread[t])
            /\ \/ thread'[t].linked = thread[t].linked
               \/ \E n \in Listed(thread[t]) :
                    thread'[t].linked = [thread[t].linked EXCEPT ![n] = "whole"]

LEMMA NoMembers == Members(<<>>) = {}
BY DEF Members

LEMMA MembersType ==
    ASSUME NEW s \in Seq(Nodes)
    PROVE  /\ Members(s) \subseteq Nodes
           /\ \A i \in DOMAIN s : s[i] \in Nodes
<1>1. DOMAIN s = 1..Len(s)
    OBVIOUS
<1> QED BY <1>1 DEF Members

LEMMA AppendMembers ==
    ASSUME NEW s \in Seq(Nodes), NEW e \in Nodes
    PROVE  Members(Append(s, e)) = Members(s) \cup {e}
<1>1. /\ DOMAIN Append(s, e) = 1..(Len(s) + 1) /\ DOMAIN s = 1..Len(s)
      /\ Append(s, e)[Len(s) + 1] = e
      /\ \A i \in 1..Len(s) : Append(s, e)[i] = s[i]
    OBVIOUS
<1>2. Len(s) \in Nat
    OBVIOUS
<1> QED BY <1>1, <1>2 DEF Members

LEMMA TailMembers ==
    ASSUME NEW s \in Seq(Nodes), s # <<>>
    PROVE  /\ Members(s) = {Head(s)} \cup Members(Tail(s))
           /\ Head(s) \in Nodes /\ Tail(s) \in Seq(Nodes)
           /\ Len(s) = 1 => Members(s) = {Head(s)}
<1>1. /\ DOMAIN s = 1..Len(s) /\ Len(s) \in Nat /\ Len(s) > 0
      /\ DOMAIN Tail(s) = 1..(Len(s) - 1)
      /\ Head(s) = s[1] /\ \A i \in 1..(Len(s) - 1) : Tail(s)[i] = s[i + 1]
    OBVIOUS
<1>2. ASSUME NEW i \in 1..Len(s) PROVE i = 1 \/ (i - 1 \in 1..(Len(s) - 1) /\ (i - 1) + 1 = i)
    BY <1>1
<1>3. \A i \in 1..(Len(s) - 1) : i + 1 \in 1..Len(s)
    BY <1>1
<1>4. Members(s) \subseteq {Head(s)} \cup Members(Tail(s))
    <2> SUFFICES ASSUME NEW i \in 1..Len(s) PROVE s[i] \in {Head(s)} \cup Members(Tail(s))
        BY <1>1 DEF Members
    <2>1. CASE i = 1
        BY <1>1, <2>1
    <2>2. CASE i # 1
        <3>1. i - 1 \in 1..(Len(s) - 1) /\ Tail(s)[i - 1] = s[(i - 1) + 1] /\ (i - 1) + 1 = i
            BY <1>1, <1>2, <2>2
        <3> QED BY <1>1, <3>1 DEF Members
    <2> QED BY <2>1, <2>2
<1>5. {Head(s)} \cup Members(Tail(s)) \subseteq Members(s)
    BY <1>1, <1>3 DEF Members
<1>6. Head(s) \in Nodes /\ Tail(s) \in Seq(Nodes)
    BY TailFacts
<1>7. ASSUME Len(s) = 1 PROVE Members(s) = {Head(s)}
    <2>1. DOMAIN Tail(s) = {}
        BY <1>1, <1>7
    <2> QED BY <1>4, <1>5, <2>1 DEF Members
<1> QED BY <1>4, <1>5, <1>6, <1>7

\* A call that leaves with an exception has not returned.
LEMMA LeaveServes ==
    ASSUME TypeOK, NEW t \in Fetchers, NEW o \in Outcomes \ {"none"}, Leave(t, o),
           o # "ok" \/ AllLinked(thread[t])
    PROVE  Serves(t)
<1>1. /\ thread'[t].pc = "idle" /\ thread'[t].outcome = o
      /\ thread'[t] = [IdleThread EXCEPT !.outcome = o]
    BY DEF Leave, IdleThread, TypeOK, ThreadsOK
<1> QED BY <1>1 DEF Serves, ServedBy

\* The other steps of a call, which lose no file.
LEMMA ListedServes ==
    ASSUME TypeOK, NEW t \in Fetchers, thread[t].pc # "idle", ServedBy(thread[t]),
           thread'[t].pc # "idle",
           thread'[t].request = thread[t].request, thread'[t].outcome = thread[t].outcome,
           Listed(thread'[t]) \subseteq Listed(thread[t]),
           \/ /\ thread'[t].linked = thread[t].linked
              /\ Listed(thread[t]) \subseteq Listed(thread'[t])
           \/ \E n \in Listed(thread[t]) :
                /\ thread'[t].linked = [thread[t].linked EXCEPT ![n] = "whole"]
                /\ Listed(thread[t]) \subseteq Listed(thread'[t]) \cup {n},
           thread'[t].pc \in {"drop", "drop file", "drop unlink"} => thread'[t].files = <<>>
    PROVE  Serves(t)
<1>1. /\ thread[t].linked \in [Nodes -> {"no", "whole", "broken"}]
      /\ \A i \in DOMAIN thread[t].request : thread[t].request[i] \in Nodes
    <2>1. /\ thread[t].linked \in [Nodes -> {"no", "whole", "broken"}]
          /\ thread[t].request \in Seq(Nodes)
        BY ThreadType DEF TypeOK
    <2>2. \A i \in DOMAIN thread[t].request : thread[t].request[i] \in Nodes
        BY <2>1, MembersType
    <2> QED BY <2>1, <2>2
<1>2. \A i \in DOMAIN thread[t].request :
        \/ thread'[t].linked[thread[t].request[i]] = "whole"
        \/ thread[t].request[i] \in Listed(thread'[t])
    <2> SUFFICES ASSUME NEW i \in DOMAIN thread[t].request
                 PROVE  \/ thread'[t].linked[thread[t].request[i]] = "whole"
                        \/ thread[t].request[i] \in Listed(thread'[t])
        OBVIOUS
    <2>1. thread[t].request[i] \in Nodes
        BY <1>1
    <2>2. \/ thread[t].linked[thread[t].request[i]] = "whole"
          \/ thread[t].request[i] \in Listed(thread[t])
        BY DEF ServedBy
    <2> QED BY <1>1, <2>1, <2>2
<1>3. ServedBy(thread'[t])
    BY <1>2 DEF ServedBy
<1> QED BY <1>3 DEF Serves, ServedBy

\* The steps before the files are linked.
LEMMA PlanServes ==
    ASSUME TypeOK, NEW t \in Fetchers, ServedBy(thread[t]),
           \/ Plan(t) \/ PlanRaise(t) \/ Evict(t) \/ Submit(t) \/ WaitOk(t) \/ WaitRaise(t)
           \/ Snapshot(t)
    PROVE  Serves(t)
<1>1. thread[t] \in ThreadFields /\ DOMAIN thread = Fetchers
    BY ThreadType DEF TypeOK, ThreadsOK
<1>2. thread[t].pc # "idle"
    BY DEF Plan, PlanRaise, Evict, Submit, WaitOk, WaitRaise, Snapshot
<1> DEFINE Still == /\ thread'[t].request = thread[t].request
                    /\ thread'[t].outcome = thread[t].outcome
                    /\ thread'[t].files = thread[t].files
                    /\ thread'[t].corrupted = thread[t].corrupted
                    /\ thread'[t].missing = thread[t].missing
                    /\ thread'[t].linked = thread[t].linked
                    /\ thread'[t].pc \notin {"idle", "drop", "drop file", "drop unlink"}
<1>3. CASE Still
    BY <1>2, <1>3, ListedServes DEF Listed
<1>4. CASE PlanRaise(t) \/ WaitRaise(t)
    BY <1>4, LeaveServes DEF PlanRaise, WaitRaise, Outcomes
<1>5. CASE Plan(t)
    <2>1. ASSUME NEW e, NEW p, NEW f, NEW c, c \in {"evict", "submit", "wait"},
                 thread' = [thread EXCEPT ![t].evicting = e, ![t].planned = p,
                                          ![t].futures = f, ![t].pc = c]
          PROVE  Still
        BY <1>1, <2>1 DEF ThreadFields
    <2> HIDE DEF Still
    <2>2. \E e, p, f, c : /\ c \in {"evict", "submit", "wait"}
                          /\ thread' = [thread EXCEPT ![t].evicting = e, ![t].planned = p,
                                                      ![t].futures = f, ![t].pc = c]
        <3> DEFINE files == thread[t].files
                   missing == Missing(files)
                   victims == Victims(files)
                   c == IF victims # {} THEN "evict"
                        ELSE IF missing # {} THEN "submit" ELSE "wait"
        <3>1. PICK place \in [missing -> FreeBatches], list \in [1..Cardinality(victims) -> victims] :
                thread' = [thread EXCEPT
                    ![t].evicting = list,
                    ![t].planned = {place[d] : d \in missing},
                    ![t].futures = {pending'[d] : d \in DigestsOf(files) \ CachedNames},
                    ![t].pc = c]
            BY <1>5 DEF Plan
        <3>2. c \in {"evict", "submit", "wait"}
            OBVIOUS
        <3> HIDE DEF c, missing, victims, files
        <3> QED BY <3>1, <3>2
    <2>3. Still
        <3>1. PICK e, p, f, c : /\ c \in {"evict", "submit", "wait"}
                                /\ thread' = [thread EXCEPT ![t].evicting = e, ![t].planned = p,
                                                            ![t].futures = f, ![t].pc = c]
            BY <2>2
        <3> QED BY <2>1, <3>1
    <2> QED BY <1>3, <2>3
<1>6. CASE Evict(t)
    <2>1. CASE Leave(t, "FileNotFoundError")
        BY <2>1, LeaveServes DEF Outcomes
    <2>2. CASE thread' = [thread EXCEPT ![t].pc = "unlink"]
        BY <1>1, <1>3, <2>2 DEF ThreadFields
    <2>3. CASE Evicted(t)
        BY <1>1, <1>3, <2>3 DEF Evicted, ThreadFields
    <2> QED BY <1>6, <2>1, <2>2, <2>3 DEF Evict
<1>7. CASE Submit(t) \/ WaitOk(t) \/ Snapshot(t)
    <2>1. ASSUME Submit(t) PROVE Still
        BY <1>1, <2>1 DEF Submit, ThreadFields
    <2>2. ASSUME WaitOk(t) PROVE Still
        BY <1>1, <2>2 DEF WaitOk, ThreadFields
    <2>3. ASSUME Snapshot(t) PROVE Still
        BY <1>1, <2>3 DEF Snapshot, ThreadFields
    <2> QED BY <1>3, <1>7, <2>1, <2>2, <2>3
<1> QED BY <1>4, <1>5, <1>6, <1>7

\* The node at hand leaves the files; r tells whether it is linked, or in
\* one of the other two lists.
LEMMA LinkedServes ==
    ASSUME TypeOK, NEW t \in Fetchers, ServedBy(thread[t]), NEW r \in ThreadFields,
           thread[t].pc # "idle", thread[t].files # <<>>, Linked(t, r),
           r.files = thread[t].files, r.request = thread[t].request,
           r.outcome = thread[t].outcome,
           LET others == Members(thread[t].corrupted) \cup Members(thread[t].missing)
               now == Members(r.corrupted) \cup Members(r.missing)
           IN  \/ r.linked = thread[t].linked /\ now = others \cup {Node(t)}
               \/ r.linked = [thread[t].linked EXCEPT ![Node(t)] = "whole"] /\ now = others
    PROVE  Serves(t)
<1>1. /\ thread[t].files \in Seq(Nodes) /\ thread[t].request \in Seq(Nodes)
      /\ DOMAIN thread = Fetchers
    BY ThreadType DEF TypeOK, ThreadsOK
<1> DEFINE c == IF Len(thread[t].files) > 1 THEN "link" ELSE "drop"
<1>2. thread' = [thread EXCEPT ![t] = [r EXCEPT !.files = Tail(@), !.pc = c]]
    BY DEF Linked
<1> HIDE DEF c
<1>3. /\ thread'[t].files = Tail(thread[t].files) /\ thread'[t].pc = c
      /\ thread'[t].request = r.request /\ thread'[t].outcome = r.outcome
      /\ thread'[t].corrupted = r.corrupted /\ thread'[t].missing = r.missing
      /\ thread'[t].linked = r.linked
    BY <1>1, <1>2 DEF ThreadFields
<1>4. Members(thread[t].files) = {Node(t)} \cup Members(Tail(thread[t].files))
    BY <1>1, TailMembers DEF Node
<1>5. /\ Listed(thread'[t]) \subseteq Listed(thread[t])
      /\ Listed(thread[t]) \subseteq Listed(thread'[t]) \cup {Node(t)}
      /\ Node(t) \in Listed(thread[t])
      /\ \/ r.linked = thread[t].linked /\ Listed(thread[t]) \subseteq Listed(thread'[t])
         \/ r.linked = [thread[t].linked EXCEPT ![Node(t)] = "whole"]
    BY <1>3, <1>4 DEF Listed
<1>6. c \in {"drop", "drop file", "drop unlink"} => Tail(thread[t].files) = <<>>
    BY <1>1 DEF c
<1>7. c # "idle"
    BY DEF c
<1> QED BY <1>3, <1>5, <1>6, <1>7, ListedServes

\* _link_existing_files: a file of the cache is whole when it is linked.
LEMMA LinkServes ==
    ASSUME TypeOK, Whole, NEW t \in Fetchers, ServedBy(thread[t]),
           Link(t) \/ LinkStat(t) \/ LinkFile(t)
    PROVE  Serves(t)
<1> DEFINE d == DigestOf[Node(t)]
           known == thread[t].snap[d] # NoInfo
<1>1. /\ thread[t] \in ThreadFields /\ DOMAIN thread = Fetchers
      /\ thread[t].pc \in {"link", "stat", "link file"} /\ thread[t].files # <<>>
      /\ thread[t].corrupted \in Seq(Nodes) /\ thread[t].missing \in Seq(Nodes)
      /\ thread[t].snap \in [Digests -> Infos]
      /\ thread[t].linked \in [Nodes -> {"no", "whole", "broken"}]
    BY ThreadType DEF TypeOK, ThreadsOK, Link, LinkStat, LinkFile, ThreadRecords, ThreadFields
<1>2. Node(t) \in Nodes /\ d \in Digests
    BY <1>1, NodeType DEF TypeOK
<1>3. /\ Members(Append(thread[t].corrupted, Node(t))) = Members(thread[t].corrupted) \cup {Node(t)}
      /\ Members(Append(thread[t].missing, Node(t))) = Members(thread[t].missing) \cup {Node(t)}
      /\ Append(thread[t].corrupted, Node(t)) \in Seq(Nodes)
      /\ Append(thread[t].missing, Node(t)) \in Seq(Nodes)
    <2>1. /\ Append(thread[t].corrupted, Node(t)) \in Seq(Nodes)
          /\ Append(thread[t].missing, Node(t)) \in Seq(Nodes)
        BY <1>1, NodeType DEF TypeOK
    <2>2. Members(Append(thread[t].corrupted, Node(t))) = Members(thread[t].corrupted) \cup {Node(t)}
        BY <1>1, <1>2, AppendMembers
    <2>3. Members(Append(thread[t].missing, Node(t))) = Members(thread[t].missing) \cup {Node(t)}
        BY <1>1, <1>2, AppendMembers
    <2> QED BY <2>1, <2>2, <2>3
<1>4. ASSUME NEW c \in {"stat", "link file"}, thread' = [thread EXCEPT ![t].pc = c]
      PROVE  Serves(t)
    <2>1. /\ thread'[t].request = thread[t].request /\ thread'[t].outcome = thread[t].outcome
          /\ Listed(thread'[t]) = Listed(thread[t]) /\ thread'[t].linked = thread[t].linked
          /\ thread'[t].pc = c
        BY <1>1, <1>4 DEF ThreadFields, Listed
    <2> QED BY <1>1, <2>1, ListedServes
<1>5. CASE Link(t)
    <2>1. CASE Exists(d) /\ known
        BY <1>4, <1>5, <2>1 DEF Link
    <2>2. CASE ~(Exists(d) /\ known)
        <3> DEFINE bad == IF Exists(d) \/ known THEN Append(thread[t].corrupted, Node(t))
                         ELSE thread[t].corrupted
                   gone == IF Exists(d) THEN thread[t].missing
                           ELSE Append(thread[t].missing, Node(t))
                   r == [thread[t] EXCEPT !.corrupted = bad, !.missing = gone]
        <3>1. Linked(t, r)
            BY <1>5, <2>2 DEF Link
        <3>2. /\ bad \in Seq(Nodes) /\ gone \in Seq(Nodes)
              /\ Members(bad) \cup Members(gone)
                    = Members(thread[t].corrupted) \cup Members(thread[t].missing) \cup {Node(t)}
            BY <1>1, <1>3
        <3> HIDE DEF bad, gone
        <3>3. /\ r \in ThreadFields /\ r.files = thread[t].files
              /\ r.request = thread[t].request /\ r.outcome = thread[t].outcome
              /\ r.corrupted = bad /\ r.missing = gone /\ r.linked = thread[t].linked
            BY <1>1, <3>2 DEF ThreadFields
        <3> HIDE DEF r
        <3> QED BY <1>1, <3>1, <3>2, <3>3, LinkedServes
    <2> QED BY <2>1, <2>2
<1>6. CASE LinkStat(t)
    <2>1. CASE thread' = [thread EXCEPT ![t].pc = "link file"]
        BY <1>4, <2>1
    <2>2. CASE Leave(t, "FileNotFoundError")
        BY <2>2, LeaveServes DEF Outcomes
    <2>3. CASE Linked(t, [thread[t] EXCEPT !.snap[d] = NoInfo,
                                !.corrupted = Append(@, Node(t))])
        <3> DEFINE bad == Append(thread[t].corrupted, Node(t))
                   snap == [thread[t].snap EXCEPT ![d] = NoInfo]
                   r == [thread[t] EXCEPT !.snap[d] = NoInfo, !.corrupted = bad]
        <3>1. Linked(t, r)
            BY <2>3
        <3>2. r = [thread[t] EXCEPT !.snap = snap, !.corrupted = bad] /\ snap \in [Digests -> Infos]
            BY <1>1 DEF ThreadFields, Infos
        <3> HIDE DEF bad, snap
        <3>3. bad \in Seq(Nodes) /\ Members(bad) = Members(thread[t].corrupted) \cup {Node(t)}
            BY <1>3 DEF bad
        <3>4. /\ r \in ThreadFields /\ r.files = thread[t].files
              /\ r.request = thread[t].request /\ r.outcome = thread[t].outcome
              /\ r.corrupted = bad /\ r.missing = thread[t].missing
              /\ r.linked = thread[t].linked
            BY <1>1, <3>2, <3>3 DEF ThreadFields
        <3> HIDE DEF r
        <3> QED BY <1>1, <3>1, <3>3, <3>4, LinkedServes
    <2> QED BY <1>6, <2>1, <2>2, <2>3 DEF LinkStat
<1>7. CASE LinkFile(t)
    <2>1. CASE ~Exists(d)
        BY <1>7, <2>1, LeaveServes DEF LinkFile, Outcomes
    <2>2. CASE Exists(d)
        <3> DEFINE linked == [thread[t].linked EXCEPT ![Node(t)] = "whole"]
                   r == [thread[t] EXCEPT !.linked[Node(t)] = "whole"]
        <3>1. Linked(t, r)
            BY <1>2, <1>7, <2>2 DEF LinkFile, Whole
        <3>2. /\ linked \in [Nodes -> {"no", "whole", "broken"}]
              /\ r = [thread[t] EXCEPT !.linked = linked]
            BY <1>1, <1>2 DEF ThreadFields
        <3> HIDE DEF linked
        <3>3. /\ r \in ThreadFields /\ r.files = thread[t].files
              /\ r.request = thread[t].request /\ r.outcome = thread[t].outcome
              /\ r.corrupted = thread[t].corrupted /\ r.missing = thread[t].missing
              /\ r.linked = linked
            BY <1>1, <3>2 DEF ThreadFields
        <3> HIDE DEF r
        <3> QED BY <1>1, <3>1, <3>2, <3>3, LinkedServes DEF linked
    <2> QED BY <2>1, <2>2
<1> QED BY <1>5, <1>6, <1>7

\* fetch_to returns with nothing missing, or starts over with what is.
LEMMA DroppedServes ==
    ASSUME TypeOK, NEW t \in Fetchers, ServedBy(thread[t]), NEW missing \in Seq(Nodes),
           thread[t].pc \in {"drop", "drop file", "drop unlink"},
           Dropped(t, missing),
           Members(thread[t].corrupted) \cup Members(thread[t].missing) = Members(missing)
    PROVE  Serves(t)
<1>1. /\ thread[t] \in ThreadFields /\ DOMAIN thread = Fetchers
      /\ thread[t].files = <<>> /\ thread[t].outcome = "none"
    BY ThreadType DEF TypeOK, ThreadsOK, ServedBy
<1>2. Listed(thread[t]) = Members(missing)
    BY <1>1, NoMembers DEF Listed
<1>3. CASE missing = <<>>
    <2>1. AllLinked(thread[t])
        <3>1. Listed(thread[t]) = {}
            BY <1>2, <1>3, NoMembers
        <3> QED BY <3>1 DEF ServedBy, AllLinked
    <2> QED BY <1>3, <2>1, LeaveServes DEF Dropped, Outcomes
<1>4. CASE missing # <<>>
    <2>1. thread' = [thread EXCEPT ![t] =
            [IdleThread EXCEPT !.pc = "plan", !.files = missing,
                    !.request = thread[t].request, !.linked = thread[t].linked]]
        BY <1>4 DEF Dropped
    <2>2. /\ thread'[t].request = thread[t].request /\ thread'[t].outcome = "none"
          /\ thread'[t].files = missing /\ thread'[t].linked = thread[t].linked
          /\ thread'[t].pc = "plan" /\ Listed(thread'[t]) = Members(missing)
        BY <1>1, <2>1, NoMembers DEF IdleThread, Listed
    <2> QED BY <1>1, <1>2, <2>2, ListedServes
<1> QED BY <1>3, <1>4

\* The corrupted files go to the missing ones, one by one.
LEMMA DropServes ==
    ASSUME TypeOK, NEW t \in Fetchers, ServedBy(thread[t]), DropLock(t) \/ Drop(t)
    PROVE  Serves(t)
<1>1. /\ thread[t] \in ThreadFields /\ DOMAIN thread = Fetchers
      /\ thread[t].pc \in {"drop", "drop file", "drop unlink"}
      /\ thread[t].corrupted \in Seq(Nodes) /\ thread[t].missing \in Seq(Nodes)
      /\ thread[t].files = <<>>
    BY ThreadType DEF TypeOK, ThreadsOK, DropLock, Drop, ServedBy
<1>2. ASSUME NEW c \in {"drop file", "drop unlink"}, thread' = [thread EXCEPT ![t].pc = c]
      PROVE  Serves(t)
    <2>1. /\ thread'[t].request = thread[t].request /\ thread'[t].outcome = thread[t].outcome
          /\ Listed(thread'[t]) = Listed(thread[t]) /\ thread'[t].linked = thread[t].linked
          /\ thread'[t].files = thread[t].files /\ thread'[t].pc = c
        BY <1>1, <1>2 DEF ThreadFields, Listed
    <2> QED BY <1>1, <2>1, ListedServes
<1>3. CASE DropLock(t)
    <2>1. CASE thread[t].corrupted = <<>>
        <3>1. Dropped(t, thread[t].missing)
            BY <1>3, <2>1 DEF DropLock
        <3>2. Members(thread[t].corrupted) \cup Members(thread[t].missing)
                    = Members(thread[t].missing)
            BY <2>1, NoMembers
        <3> QED BY <1>1, <3>1, <3>2, DroppedServes
    <2>2. CASE thread[t].corrupted # <<>>
        BY <1>2, <1>3, <2>2 DEF DropLock
    <2> QED BY <2>1, <2>2
<1>4. CASE Drop(t)
    <2>1. CASE thread' = [thread EXCEPT ![t].pc = "drop unlink"]
        BY <1>2, <2>1
    <2>2. CASE Leave(t, "FileNotFoundError")
        BY <2>2, LeaveServes DEF Outcomes
    <2>3. CASE Forget(t)
        <3>1. thread[t].corrupted # <<>>
            BY <1>4, ThreadType DEF Drop, TypeOK
        <3>2. CASE Leave(t, "KeyError")
            BY <3>2, LeaveServes DEF Outcomes
        <3> DEFINE missing == Append(thread[t].missing, Corrupted(t))
        <3>3. /\ Corrupted(t) \in Nodes /\ missing \in Seq(Nodes)
              /\ Tail(thread[t].corrupted) \in Seq(Nodes)
              /\ Members(thread[t].corrupted)
                    = {Corrupted(t)} \cup Members(Tail(thread[t].corrupted))
              /\ Len(thread[t].corrupted) = 1 => Members(thread[t].corrupted) = {Corrupted(t)}
            <4>1. /\ Corrupted(t) \in Nodes /\ Tail(thread[t].corrupted) \in Seq(Nodes)
                  /\ Members(thread[t].corrupted)
                        = {Corrupted(t)} \cup Members(Tail(thread[t].corrupted))
                  /\ Len(thread[t].corrupted) = 1
                        => Members(thread[t].corrupted) = {Corrupted(t)}
                BY <1>1, <3>1, TailMembers DEF Corrupted
            <4>2. missing \in Seq(Nodes)
                <5>1. \A q \in Seq(Nodes), e \in Nodes : Append(q, e) \in Seq(Nodes)
                    OBVIOUS
                <5> QED BY <1>1, <4>1, <5>1
            <4> HIDE DEF missing
            <4> QED BY <4>1, <4>2
        <3>4. Members(missing) = Members(thread[t].missing) \cup {Corrupted(t)}
            BY <1>1, <3>3, AppendMembers
        <3> HIDE DEF missing
        <3>5. CASE Len(thread[t].corrupted) = 1 /\ Dropped(t, missing)
            BY <1>1, <3>3, <3>4, <3>5, DroppedServes
        <3>6. CASE thread' = [thread EXCEPT ![t].pc = "drop file",
                        ![t].corrupted = Tail(@), ![t].missing = missing]
            <4>1. /\ thread'[t].request = thread[t].request
                  /\ thread'[t].outcome = thread[t].outcome
                  /\ thread'[t].files = thread[t].files /\ thread'[t].linked = thread[t].linked
                  /\ thread'[t].corrupted = Tail(thread[t].corrupted)
                  /\ thread'[t].missing = missing /\ thread'[t].pc = "drop file"
                BY <1>1, <3>6 DEF ThreadFields
            <4>2. Listed(thread[t]) = Listed(thread'[t]) /\ thread'[t].pc # "idle"
                BY <3>3, <3>4, <4>1 DEF Listed
            <4> QED BY <1>1, <4>1, <4>2, ListedServes
        <3> QED BY <2>3, <3>2, <3>5, <3>6 DEF Forget, missing
    <2> QED BY <1>4, <2>1, <2>2, <2>3 DEF Drop
<1> QED BY <1>3, <1>4

\* A call begins with its request in the files, and a step of another thread
\* or of a batch leaves it alone.
LEMMA ServedStep ==
    ASSUME TypeOK, Whole, Served, [Next]_vars, NEW t \in Fetchers
    PROVE  Serves(t)
<1>1. ServedBy(thread[t]) /\ DOMAIN thread = Fetchers
    BY DEF Served, TypeOK, ThreadsOK
<1>2. CASE thread'[t] = thread[t]
    BY <1>1, <1>2 DEF Serves, ServedBy
<1>3. CASE FetchStep(t)
    BY <1>1, <1>3, PlanServes, LinkServes, DropServes DEF FetchStep
<1>4. ASSUME NEW u \in Fetchers, u # t, FetchStep(u) PROVE thread'[t] = thread[t]
    BY <1>1, <1>4 DEF FetchStep, Plan, PlanRaise, Evict, Evicted, Submit, WaitOk, WaitRaise,
           Snapshot, Link, LinkStat, LinkFile, Linked, DropLock, Drop, Forget, Dropped, Leave
<1>5. ASSUME NEW u \in Fetchers, u # t, NEW files \in Requests, Fetch(u, files)
      PROVE  thread'[t] = thread[t]
    BY <1>1, <1>5 DEF Fetch
<1>6. ASSUME NEW files \in Requests, Fetch(t, files) PROVE Serves(t)
    <2>1. /\ thread[t].pc = "idle" /\ thread'[t].pc = "plan" /\ thread'[t].outcome = "none"
          /\ thread'[t].request = files /\ thread'[t].files = files
        BY <1>1, <1>6 DEF Fetch, IdleThread
    <2>2. Listed(thread'[t]) = Members(files)
        <3>1. thread'[t].corrupted = <<>> /\ thread'[t].missing = <<>>
            BY <1>1, <1>6 DEF Fetch, IdleThread
        <3> QED BY <2>1, <3>1, NoMembers DEF Listed
    <2> QED BY <2>1, <2>2 DEF Serves, ServedBy, Members
<1>7. ASSUME NEW b \in Batches, BatchStep(b) PROVE thread' = thread
    BY <1>7 DEF BatchStep, Received, Lock, Receive, ReceiveFault, Install, Rename, Chmod,
           Clean, Register
<1>8. ASSUME NEW d \in Digests, Delete(d) \/ Rewrite(d) PROVE thread' = thread
    BY <1>8 DEF Delete, Rewrite
<1>9. CASE Restart
    <2>1. thread'[t].pc = "idle" /\ thread'[t].outcome = "none" /\ phase' # "up"
        BY <1>9 DEF Restart, IdleThread
    <2> QED BY <2>1 DEF Serves, ServedBy
<1>10. CASE Boot \/ UNCHANGED vars
    BY <1>2, <1>10 DEF Boot, Verify, Admit, vars
<1> QED BY <1>2, <1>3, <1>4, <1>5, <1>6, <1>7, <1>8, <1>9, <1>10 DEF Next

\* When fetch_to returns, it has linked each file of the request while the
\* file was whole, however often its files were evicted, failed or dropped
\* between the plan and the link.
THEOREM ReturnsLinked ==
    ASSUME Faults \cap {"truncate", "rewrite"} = {}
    PROVE  Spec => OkMeansLinked
<1>1. Init => Served
    <2>1. Init => \A t \in Fetchers : thread[t].pc = "idle"
        BY DEF Init, IdleThread
    <2> QED BY <2>1 DEF Served, ServedBy
<1>2. Kept /\ Served /\ [Next]_vars => Kept' /\ Served'
    BY KeptStep, ServedStep DEF Kept, Serves, Served
<1>3. Kept /\ Served /\ [Next]_vars =>
        [\A t \in Fetchers : thread[t].pc # "idle" /\ thread'[t].outcome = "ok" =>
            \A i \in DOMAIN thread[t].request :
                thread[t].linked[thread[t].request[i]] = "whole"]_vars
    BY ServedStep DEF Kept, Serves, AllLinked
<1> QED BY <1>1, <1>2, <1>3, KeptInit, PTL DEF Spec, OkMeansLinked

-----------------------------------------------------------------------------
(* Nobody evicts *)

\* A call has planned batches until it submits them, and evicts nothing.
Unevicting ==
    \A t \in Fetchers : /\ thread[t].pc \notin {"evict", "unlink"}
                        /\ thread[t].planned # {} => thread[t].pc = "submit"

\* Without a limit a plan has no victims.
LEMMA PlanCall ==
    ASSUME TypeOK, MaxSize = 0, NEW t \in Fetchers, Plan(t)
    PROVE  /\ thread'[t].pc = IF Missing(thread[t].files) # {} THEN "submit" ELSE "wait"
           /\ thread'[t].futures =
                {pending'[d] : d \in DigestsOf(thread[t].files) \ CachedNames}
           /\ thread'[t].files = thread[t].files /\ thread'[t].outcome = thread[t].outcome
           /\ thread'[t].corrupted = thread[t].corrupted
           /\ thread'[t].missing = thread[t].missing
           /\ UNCHANGED cached
<1> DEFINE files == thread[t].files
           missing == Missing(files)
           f == {pending'[d] : d \in DigestsOf(files) \ CachedNames}
           q == IF missing # {} THEN "submit" ELSE "wait"
<1>1. Victims(files) = {}
    BY DEF Victims
<1>2. thread[t] \in ThreadFields /\ DOMAIN thread = Fetchers /\ DOMAIN cached = Digests
    BY ThreadType DEF TypeOK, ThreadsOK, MapsOK
<1>3. PICK list, p : thread' = [thread EXCEPT ![t].evicting = list, ![t].planned = p,
                                    ![t].futures = f, ![t].pc = q]
    BY <1>1 DEF Plan
<1>4. cached' = [d \in Digests |-> IF d \in Victims(files) THEN NoInfo ELSE cached[d]]
    BY DEF Plan
<1>5. UNCHANGED cached
    BY <1>1, <1>2, <1>4 DEF TypeOK, MapsOK
<1> HIDE DEF f, q
<1>6. /\ thread'[t].pc = q /\ thread'[t].futures = f
      /\ thread'[t].files = thread[t].files /\ thread'[t].outcome = thread[t].outcome
      /\ thread'[t].corrupted = thread[t].corrupted
      /\ thread'[t].missing = thread[t].missing
    BY <1>2, <1>3 DEF ThreadFields
<1> QED BY <1>5, <1>6 DEF f, q

LEMMA UnevictingStep ==
    ASSUME TypeOK, BootQuiet, Flights, Unevicting, MaxSize = 0, [Next]_vars
    PROVE  Unevicting'
<1> DEFINE Good(r) == /\ r.pc \notin {"evict", "unlink"}
                      /\ r.planned # {} => r.pc = "submit"
<1>1. ASSUME NEW t \in Fetchers, Good(thread'[t]),
             \A u \in Fetchers : u # t => thread'[u] = thread[u]
      PROVE  Unevicting'
    BY <1>1 DEF Unevicting
<1>2. ASSUME NEW t \in Fetchers, Plan(t) PROVE Unevicting'
    <2> DEFINE missing == Missing(thread[t].files)
    <2>1. PICK place \in [missing -> FreeBatches] :
            thread'[t].planned = {place[d] : d \in missing}
        BY <1>2, PlanEffect
    <2>2. missing = {} => thread'[t].planned = {}
        BY <2>1
    <2>3. thread'[t].pc = IF missing # {} THEN "submit" ELSE "wait"
        BY <1>2, PlanCall
    <2>4. Good(thread'[t])
        BY <2>2, <2>3
    <2>5. \A u \in Fetchers : u # t => thread'[u] = thread[u]
        BY <1>2, PlanEffect
    <2> HIDE DEF Good
    <2> QED BY <1>1, <2>4, <2>5
<1>3. ASSUME NEW t \in Fetchers, Submit(t) PROVE Unevicting'
    <2>1. thread[t] \in ThreadFields /\ DOMAIN thread = Fetchers
        BY ThreadType DEF TypeOK, ThreadsOK
    <2>2. /\ thread'[t].planned = {} /\ thread'[t].pc = "wait"
          /\ \A u \in Fetchers : u # t => thread'[u] = thread[u]
        BY <1>3, <2>1 DEF Submit, ThreadFields
    <2> QED BY <2>2 DEF Unevicting
<1>4. ASSUME NEW t \in Fetchers,
             \/ PlanRaise(t) \/ Evict(t) \/ WaitOk(t) \/ WaitRaise(t) \/ Snapshot(t)
             \/ Link(t) \/ LinkStat(t) \/ LinkFile(t)
      PROVE  Unevicting'
    <2>1. thread[t].pc \notin {"evict", "unlink", "submit"}
        BY <1>4 DEF PlanRaise, Evict, WaitOk, WaitRaise, Snapshot, Link, LinkStat, LinkFile,
                    Unevicting
    <2>2. ~Evict(t) /\ thread[t].planned = {}
        BY <2>1 DEF Evict, Unevicting
    <2>3. /\ thread'[t].planned = {} /\ thread'[t].pc \notin {"evict", "unlink", "submit"}
          /\ \A u \in Fetchers : u # t => thread'[u] = thread[u]
        BY <1>4, <2>2, CallEffect
    <2> QED BY <2>3 DEF Unevicting
<1>5. ASSUME NEW t \in Fetchers, DropLock(t) \/ Drop(t) PROVE Unevicting'
    <2>1. thread[t].planned = {}
        BY <1>5 DEF DropLock, Drop, Unevicting
    <2>2. /\ thread'[t].planned = {} /\ thread'[t].pc \notin {"evict", "unlink"}
          /\ \A u \in Fetchers : u # t => thread'[u] = thread[u]
        BY <1>5, <2>1, DropEffect
    <2> QED BY <2>2 DEF Unevicting
<1>6. ASSUME NEW t \in Fetchers, NEW files \in Requests, Fetch(t, files) PROVE Unevicting'
    BY <1>6 DEF Fetch, IdleThread, TypeOK, ThreadsOK, Unevicting
<1>7. CASE Restart
    BY <1>7 DEF Restart, IdleThread, Unevicting
<1>8. ASSUME UNCHANGED thread PROVE Unevicting'
    BY <1>8 DEF Unevicting
<1>9. ASSUME NEW b \in Batches, BatchStep(b) PROVE UNCHANGED thread
    BY <1>9 DEF BatchStep, Received, Lock, Receive, ReceiveFault, Install, Rename, Chmod,
                Clean, Register
<1>10. ASSUME \/ \E d \in Digests : Delete(d) \/ Rewrite(d)
              \/ Boot \/ UNCHANGED vars
       PROVE  UNCHANGED thread
    BY <1>10 DEF Delete, Rewrite, Boot, Verify, Admit, vars
<1> HIDE DEF Good
<1> QED BY <1>2, <1>3, <1>4, <1>5, <1>6, <1>7, <1>8, <1>9, <1>10 DEF Next, FetchStep

-----------------------------------------------------------------------------
(* What a thread has just seen is there *)

\* The items of a batch are among the files of the call that planned it.
Ordered == \A b \in Batches : batch[b].items \subseteq DigestsOf(batch[b].order)

\* A file that was there when the holder of the global lock looked is there
\* until it is unlinked or its status is read.
Seen ==
    /\ \A t \in Fetchers : thread[t].pc = "drop unlink" => Exists(DigestOf[Corrupted(t)])
    /\ \A b \in Batches, d \in Digests :
            batch[b].stage \in {"clean unlink", "register stat"} /\ IsFirst(b, d) => Exists(d)

\* One item is the first.
LEMMA OneFirst ==
    ASSUME TypeOK, Flights, Ordered, NEW b \in Batches, NEW d \in Digests, NEW e \in Digests,
           IsFirst(b, d), IsFirst(b, e)
    PROVE  d = e
<1> DEFINE order == batch[b].order
<1>1. /\ order \in Seq(Nodes) /\ batch[b].todo \subseteq batch[b].items
      /\ batch[b].items \subseteq DigestsOf(order)
    BY BatchType DEF TypeOK, Flights, Owns, Ordered, Stages
<1>2. d \in batch[b].todo /\ e \in batch[b].todo
    BY DEF IsFirst
<1>3. /\ ~(Pos(order, e) < Pos(order, d)) /\ ~(Pos(order, d) < Pos(order, e))
    BY <1>2 DEF IsFirst, Earlier
<1>4. /\ Pos(order, d) \in Nat /\ DigestOf[order[Pos(order, d)]] = d
      /\ Pos(order, e) \in Nat /\ DigestOf[order[Pos(order, e)]] = e
    BY <1>1, <1>2, PosFacts
<1> QED BY <1>3, <1>4

\* What a step of a batch leaves of its items, and of the other batches.
LEMMA BatchEffect ==
    ASSUME TypeOK, NEW b \in Batches, BatchStep(b)
    PROVE  /\ UNCHANGED thread
           /\ \A c \in Batches : c # b => batch'[c] = batch[c]
           /\ batch'[b].items = {} \/ /\ batch'[b].items = batch[b].items
                                      /\ batch'[b].order = batch[b].order
<1> DEFINE Same == /\ \A c \in Batches : c # b => batch'[c] = batch[c]
                   /\ batch'[b].items = {} \/ /\ batch'[b].items = batch[b].items
                                              /\ batch'[b].order = batch[b].order
<1>1. batch[b] \in BatchRecords /\ DOMAIN batch = Batches
    BY DEF TypeOK, BatchesOK
<1>2. UNCHANGED thread
    BY DEF BatchStep, Received, Lock, Receive, ReceiveFault, Install, Rename, Chmod,
           Clean, Register
<1>3. ASSUME NEW T, NEW a, NEW s, NEW u,
             batch' = [batch EXCEPT ![b].todo = T, ![b].at = a, ![b].stage = s, ![b].unread = u]
      PROVE  Same
    BY <1>1, <1>3 DEF BatchRecords
<1>4. ASSUME NEW T, NEW a, NEW s, batch' = [batch EXCEPT ![b].todo = T, ![b].at = a, ![b].stage = s]
      PROVE  Same
    BY <1>1, <1>4 DEF BatchRecords
<1>5. ASSUME NEW T, NEW a, batch' = [batch EXCEPT ![b].todo = T, ![b].at = a]
      PROVE  Same
    BY <1>1, <1>5 DEF BatchRecords
<1>6. ASSUME NEW T, NEW s, batch' = [batch EXCEPT ![b].stage = s, ![b].todo = T]
      PROVE  Same
    BY <1>1, <1>6 DEF BatchRecords
<1>7. ASSUME NEW s, NEW a, batch' = [batch EXCEPT ![b].stage = s, ![b].at = a]
      PROVE  Same
    BY <1>1, <1>7 DEF BatchRecords
<1>8. ASSUME NEW s, batch' = [batch EXCEPT ![b].stage = s]
      PROVE  Same
    BY <1>1, <1>8 DEF BatchRecords
<1>9. ASSUME NEW f, batch' = [batch EXCEPT ![b] = [IdleBatch EXCEPT !.stage = "done", !.future = f]]
      PROVE  Same
    BY <1>1, <1>9 DEF IdleBatch
<1>10. ASSUME NEW T, NEW a, NEW u,
              batch' = [batch EXCEPT ![b].todo = T, ![b].at = a, ![b].unread = u]
       PROVE  Same
    BY <1>1, <1>10 DEF BatchRecords
<1> HIDE DEF Same
<1>11. ASSUME Fail(b) PROVE Same
    BY <1>7, <1>11 DEF Fail
<1>12. ASSUME NEW d, NEW s, NEW o, Settled(b, d, s, o) PROVE Same
    BY <1>6, <1>9, <1>12 DEF Settled
<1>13. ASSUME Received(b) PROVE Same
    <2>1. CASE ~Fail(b)
        <3>1. batch' = [batch EXCEPT ![b].stage = "install", ![b].todo = batch[b].items]
            BY <1>13, <2>1 DEF Received
        <3> QED BY <1>6, <3>1
    <2> QED BY <1>11, <2>1
<1>14. ASSUME Lock(b) PROVE Same
    <2> DEFINE s == IF batch[b].stage = "failed" THEN "clean" ELSE "register"
    <2>1. batch' = [batch EXCEPT ![b].stage = s, ![b].todo = batch[b].items]
        BY <1>14 DEF Lock
    <2> HIDE DEF s
    <2> QED BY <1>6, <2>1
<1>15. ASSUME NEW d \in Digests, Receive(b, d) PROVE Same
    <2> DEFINE written == IF batch[b].at = d THEN tmp[d] ELSE 0
    <2>1. CASE ~Fail(b)
        <3>1. PICK n \in IF Large(d) THEN 1..(Size[d] - written) ELSE {Size[d]} :
                batch' = [batch EXCEPT
                    ![b].todo = IF written + n = Size[d] THEN @ \ {d} ELSE @,
                    ![b].at = IF written + n = Size[d] THEN None ELSE d]
            BY <1>15, <2>1 DEF Receive
        <3> QED BY <1>5, <3>1
    <2> QED BY <1>11, <2>1
<1>16. ASSUME NEW d \in Digests, ReceiveFault(b, d) PROVE Same
    BY <1>5, <1>10, <1>11, <1>16 DEF ReceiveFault
<1>17. ASSUME NEW d \in Digests, Install(b, d) PROVE Same
    BY <1>7, <1>11, <1>17 DEF Install
<1>18. ASSUME NEW d \in Digests, Rename(b, d) PROVE Same
    BY <1>8, <1>11, <1>18 DEF Rename
<1>19. ASSUME NEW d \in Digests, Chmod(b, d) PROVE Same
    <2> DEFINE s == IF batch[b].todo = {d} THEN "installed" ELSE "install"
    <2>1. CASE ~Fail(b)
        <3>1. batch' = [batch EXCEPT ![b].todo = @ \ {d}, ![b].at = None, ![b].stage = s]
            BY <1>19, <2>1 DEF Chmod
        <3> HIDE DEF s
        <3> QED BY <1>4, <3>1
    <2> QED BY <1>11, <2>1
<1>20. ASSUME NEW d \in Digests, Clean(b, d) PROVE Same
    BY <1>8, <1>12, <1>20 DEF Clean, Reclaim
<1>21. ASSUME NEW d \in Digests, Register(b, d) PROVE Same
    BY <1>8, <1>9, <1>12, <1>21 DEF Register, Reclaim
<1>22. Same
    <2>1. CASE Received(b) \/ Lock(b)
        BY <1>13, <1>14, <2>1
    <2>2. ASSUME NEW d \in Digests,
                 \/ Receive(b, d) \/ ReceiveFault(b, d) \/ Install(b, d) \/ Rename(b, d)
                 \/ Chmod(b, d) \/ Clean(b, d) \/ Register(b, d)
          PROVE  Same
        BY <1>15, <1>16, <1>17, <1>18, <1>19, <1>20, <1>21, <2>2
    <2> QED BY <2>1, <2>2 DEF BatchStep
<1> QED BY <1>2, <1>22 DEF Same

\* The steps of a call but for the plan and the submission leave the batches.
LEMMA CallKeeps ==
    ASSUME NEW t \in Fetchers, FetchStep(t), ~Plan(t), ~Submit(t)
    PROVE  UNCHANGED <<batch, pending>>
BY DEF FetchStep, PlanRaise, Evict, WaitOk, WaitRaise, Snapshot, Link, LinkStat, LinkFile,
       DropLock, Drop, Forget, mapVars

\* A batch is planned for what a call misses, in an object nobody uses.
LEMMA PlanBatches ==
    ASSUME TypeOK, NEW t \in Fetchers, Plan(t), NEW b \in Batches
    PROVE  \/ batch'[b] = batch[b]
           \/ /\ batch[b].stage \in {"idle", "done"} /\ batch'[b].stage = "planned"
              /\ batch'[b].items \subseteq DigestsOf(thread[t].files)
              /\ batch'[b].order = thread[t].files
<1> DEFINE missing == Missing(thread[t].files)
<1>1. PICK place \in [missing -> FreeBatches] :
        batch' = [c \in Batches |->
                IF \E d \in missing : place[d] = c
                THEN NewBatch(thread[t].files, {d \in missing : place[d] = c})
                ELSE batch[c]]
    BY PlanEffect
<1>2. missing \subseteq DigestsOf(thread[t].files)
    BY DEF Missing
<1> HIDE DEF missing
<1>3. ASSUME NEW d \in missing, place[d] = b PROVE batch[b].stage \in {"idle", "done"}
    BY <1>1, <1>3 DEF FreeBatches
<1> QED BY <1>1, <1>2, <1>3 DEF NewBatch, IdleBatch

\* A submitted batch is that the call has planned.
LEMMA SubmitBatches ==
    ASSUME TypeOK, Flights, NEW t \in Fetchers, Submit(t), NEW b \in Batches
    PROVE  /\ b \notin thread[t].planned => batch'[b] = batch[b]
           /\ b \in thread[t].planned =>
                /\ batch[b].stage = "planned" /\ batch'[b].stage = "receive"
                /\ batch'[b].items = batch[b].items /\ batch'[b].order = batch[b].order
                /\ batch'[b].todo = batch[b].todo /\ batch'[b].at = batch[b].at
                /\ batch'[b].unread = batch[b].unread /\ batch'[b].future = batch[b].future
<1>1. batch[b] \in BatchRecords /\ DOMAIN batch = Batches
    BY DEF TypeOK, BatchesOK
<1>2. batch'[b] = IF b \in thread[t].planned THEN [batch[b] EXCEPT !.stage = "receive"]
                  ELSE batch[b]
    BY DEF Submit
<1>3. b \in thread[t].planned => batch[b].stage = "planned"
    BY DEF Flights, Calls
<1> QED BY <1>1, <1>2, <1>3 DEF BatchRecords

LEMMA OrderedStep ==
    ASSUME TypeOK, Flights, Ordered, [Next]_vars
    PROVE  Ordered'
<1>1. ASSUME \A b \in Batches : \/ batch'[b].items = {}
                                \/ /\ batch'[b].items = batch[b].items
                                   /\ batch'[b].order = batch[b].order
                                \/ batch'[b].items \subseteq DigestsOf(batch'[b].order)
      PROVE  Ordered'
    BY <1>1 DEF Ordered
<1>2. ASSUME NEW t \in Fetchers, Plan(t) PROVE Ordered'
    <2>1. ASSUME NEW b \in Batches
          PROVE  \/ batch'[b].items = {}
                 \/ /\ batch'[b].items = batch[b].items
                    /\ batch'[b].order = batch[b].order
                 \/ batch'[b].items \subseteq DigestsOf(batch'[b].order)
        BY <1>2, PlanBatches
    <2> QED BY <1>1, <2>1
<1>3. ASSUME NEW t \in Fetchers, Submit(t) PROVE Ordered'
    <2>1. ASSUME NEW b \in Batches
          PROVE  batch'[b].items = batch[b].items /\ batch'[b].order = batch[b].order
        BY <1>3, SubmitBatches
    <2> QED BY <1>1, <2>1
<1>4. ASSUME NEW t \in Fetchers, FetchStep(t), ~Plan(t), ~Submit(t) PROVE Ordered'
    BY <1>1, <1>4, CallKeeps
<1>5. ASSUME NEW b \in Batches, BatchStep(b) PROVE Ordered'
    <2>1. ASSUME NEW c \in Batches
          PROVE  \/ batch'[c].items = {}
                 \/ /\ batch'[c].items = batch[c].items
                    /\ batch'[c].order = batch[c].order
        BY <1>5, BatchEffect
    <2> QED BY <1>1, <2>1
<1>6. CASE Restart
    BY <1>6 DEF Restart, Ordered, IdleBatch
<1>7. ASSUME \/ \E t \in Fetchers, files \in Requests : Fetch(t, files)
             \/ \E d \in Digests : Delete(d) \/ Rewrite(d)
             \/ Boot \/ UNCHANGED vars
      PROVE  Ordered'
    <2>1. UNCHANGED batch
        BY <1>7 DEF Fetch, Delete, Rewrite, Boot, Verify, Admit, vars
    <2> QED BY <2>1 DEF Ordered
<1> QED BY <1>2, <1>3, <1>4, <1>5, <1>6, <1>7 DEF Next

\* A step that removes no file and lets nobody see one.
LEMMA SeenFrame ==
    ASSUME TypeOK, Flights, Seen,
           \A t \in Fetchers : thread'[t].pc = "drop unlink" => thread'[t] = thread[t],
           \A b \in Batches : batch'[b].stage \in {"clean unlink", "register stat"} =>
                                batch'[b] = batch[b],
           \A d \in Digests : Exists(d) => disk'[d] # NoFile
    PROVE  Seen'
<1>1. ASSUME NEW t \in Fetchers, thread'[t].pc = "drop unlink"
      PROVE  disk'[DigestOf[Head(thread'[t].corrupted)]] # NoFile
    <2>1. thread[t].corrupted \in Seq(Nodes) /\ thread[t].corrupted # <<>>
        BY <1>1, ThreadType DEF TypeOK
    <2>2. DigestOf[Corrupted(t)] \in Digests
        BY <2>1, TailFacts, FilesystemAssumption DEF Corrupted
    <2>3. Exists(DigestOf[Corrupted(t)])
        BY <1>1 DEF Seen
    <2> QED BY <1>1, <2>2, <2>3 DEF Corrupted
<1>2. ASSUME NEW b \in Batches, NEW d \in Digests,
             batch'[b].stage \in {"clean unlink", "register stat"}, IsFirst(b, d)'
      PROVE  disk'[d] # NoFile
    <2>1. batch'[b] = batch[b]
        BY <1>2
    <2>2. IsFirst(b, d)
        BY <1>2, <2>1 DEF IsFirst
    <2> QED BY <1>2, <2>1, <2>2 DEF Seen
<1> QED BY <1>1, <1>2 DEF Seen, Exists, Corrupted

\* Who holds the global lock is alone to drop, clean up and register.
LEMMA LockAlone ==
    ASSUME TypeOK, Flights, NEW x, globalLock = x, x \in Fetchers \cup Batches \cup {None}
    PROVE  /\ \A t \in Fetchers : thread[t].pc \in {"drop file", "drop unlink"} => t = x
           /\ \A b \in Batches : batch[b].stage \in Late => b = x
BY Holders DEF Flights, Calls, Owns

LEMMA DropSeen ==
    ASSUME TypeOK, Flights, Seen, NEW t \in Fetchers, Drop(t)
    PROVE  Seen'
<1>1. /\ globalLock = t /\ UNCHANGED batch /\ thread[t] \in ThreadFields
      /\ DOMAIN thread = Fetchers
    BY ThreadType DEF Drop, Flights, Calls, TypeOK, ThreadsOK
<1>2. /\ \A b \in Batches : batch[b].stage \notin Late
      /\ \A u \in Fetchers : thread[u].pc \in {"drop file", "drop unlink"} => u = t
    BY <1>1, LockAlone, Holders
<1>3. \A u \in Fetchers : u # t => thread'[u] = thread[u]
    BY DropEffect
<1>4. thread'[t].pc = "drop unlink" =>
            disk'[DigestOf[Head(thread'[t].corrupted)]] # NoFile
    <2>1. ASSUME NEW o, Leave(t, o) PROVE thread'[t].pc # "drop unlink"
        BY <1>1, <2>1 DEF Leave, IdleThread
    <2>2. ASSUME NEW m, Dropped(t, m) PROVE thread'[t].pc # "drop unlink"
        BY <1>1, <2>1, <2>2 DEF Dropped, IdleThread
    <2>3. ASSUME NEW c, NEW m,
                 thread' = [thread EXCEPT ![t].pc = "drop file",
                                ![t].corrupted = c, ![t].missing = m]
          PROVE  thread'[t].pc # "drop unlink"
        BY <1>1, <2>3 DEF ThreadFields
    <2>4. CASE Forget(t)
        BY <2>1, <2>2, <2>3, <2>4 DEF Forget
    <2>5. CASE /\ Exists(DigestOf[Corrupted(t)]) /\ UNCHANGED disk
               /\ thread' = [thread EXCEPT ![t].pc = "drop unlink"]
        BY <1>1, <2>5 DEF Exists, Corrupted, ThreadFields
    <2> QED BY <2>1, <2>4, <2>5 DEF Drop
<1>5. \A u \in Fetchers : thread'[u].pc = "drop unlink" =>
            disk'[DigestOf[Head(thread'[u].corrupted)]] # NoFile
    BY <1>2, <1>3, <1>4
<1>6. \A b \in Batches : batch'[b].stage \notin {"clean unlink", "register stat"}
    BY <1>1, <1>2 DEF Late
<1> QED BY <1>5, <1>6 DEF Seen, Exists, Corrupted

\* A batch that holds the global lock sees the item it looks at, and unlinks
\* it or reads its status next.
LEMMA LateSeen ==
    ASSUME TypeOK, Flights, Ordered, Seen, NEW b \in Batches, NEW d \in Digests,
           Clean(b, d) \/ Register(b, d)
    PROVE  /\ Seen'
           /\ batch'[b].stage \in Late \cup {"done"}
           /\ batch'[b].stage \in Late => batch'[b].items = batch[b].items
           /\ batch'[b].stage = "done" => pending'[d] = None /\ batch[b].todo = {d}
           /\ \A e \in Digests : pending'[e] = pending[e] \/ pending'[e] = None
<1>1. /\ globalLock = b /\ UNCHANGED thread /\ batch[b] \in BatchRecords
      /\ DOMAIN batch = Batches /\ batch[b].stage \in Late /\ IsFirst(b, d)
    BY DEF Clean, Register, Late, Flights, Owns, TypeOK, BatchesOK
<1>2. /\ \A c \in Batches : c # b => batch[c].stage \notin Late
      /\ \A t \in Fetchers : thread[t].pc \notin {"drop file", "drop unlink"}
    BY <1>1, LockAlone, Holders
<1>3. \A c \in Batches : c # b => batch'[c] = batch[c]
    BY BatchEffect DEF BatchStep
<1>4. batch[b].stage \in {"clean unlink", "register stat"} => Exists(d)
    BY <1>1 DEF Seen
<1> DEFINE Fine == /\ batch'[b].stage \in Late \cup {"done"}
                   /\ batch'[b].stage \in Late => batch'[b].items = batch[b].items
                   /\ batch'[b].stage = "done" => pending'[d] = None /\ batch[b].todo = {d}
                   /\ \A e \in Digests : pending'[e] = pending[e] \/ pending'[e] = None
                   /\ \/ batch'[b].stage \notin {"clean unlink", "register stat"}
                      \/ /\ batch'[b].todo = batch[b].todo /\ batch'[b].order = batch[b].order
                         /\ UNCHANGED disk /\ Exists(d)
<1>5. ASSUME NEW s \in {"clean unlink", "register stat"}, Exists(d), UNCHANGED <<disk, pending>>,
             batch' = [batch EXCEPT ![b].stage = s]
      PROVE  Fine
    BY <1>1, <1>5 DEF BatchRecords, Late
<1>6. ASSUME NEW s \in {"clean", "register"}, NEW o, Settled(b, d, s, o)
      PROVE  Fine
    <2>1. CASE batch[b].todo = {d}
        BY <1>1, <1>6, <2>1 DEF Settled, IdleBatch, TypeOK, MapsOK, Late
    <2>2. CASE batch[b].todo # {d}
        <3>1. pending \in [Digests -> Batches \cup {None}]
            BY DEF TypeOK, MapsOK
        <3> QED BY <1>1, <1>6, <2>2, <3>1 DEF Settled, BatchRecords, Late
    <2> QED BY <2>1, <2>2
<1> HIDE DEF Fine
<1>7. ASSUME Clean(b, d) PROVE Fine
    BY <1>4, <1>5, <1>6, <1>7 DEF Clean, Reclaim
<1>8. Fine
    BY <1>4, <1>5, <1>6, <1>7 DEF Register, Reclaim, diskVars, mapVars
<1>9. ASSUME NEW c \in Batches, NEW e \in Digests,
             batch'[c].stage \in {"clean unlink", "register stat"}, IsFirst(c, e)'
      PROVE  disk'[e] # NoFile
    <2>1. c = b
        BY <1>2, <1>3, <1>9 DEF Late
    <2>2. /\ batch'[b].todo = batch[b].todo /\ batch'[b].order = batch[b].order
          /\ UNCHANGED disk /\ Exists(d)
        BY <1>8, <1>9, <2>1 DEF Fine
    <2>3. IsFirst(b, e)
        BY <1>9, <2>1, <2>2 DEF IsFirst
    <2>4. e = d
        BY <1>1, <2>3, OneFirst
    <2> QED BY <2>2, <2>4 DEF Exists
<1>10. \A t \in Fetchers : thread'[t].pc # "drop unlink"
    BY <1>1, <1>2
<1>11. Seen'
    BY <1>9, <1>10 DEF Seen, Exists, Corrupted
<1> QED BY <1>8, <1>11 DEF Fine

LEMMA SeenStep ==
    ASSUME TypeOK, BootQuiet, Flights, Unevicting, Ordered, Seen,
           "delete" \notin Faults, [Next]_vars
    PROVE  Seen'
<1>1. /\ disk \in [Digests -> Files] /\ thread \in [Fetchers -> ThreadRecords]
      /\ batch \in [Batches -> BatchRecords]
    BY DEF TypeOK, DiskOK, ThreadsOK, BatchesOK
<1>2. ASSUME NEW t \in Fetchers, FetchStep(t), ~Drop(t) PROVE Seen'
    <2>1. UNCHANGED disk
        <3>1. ~Evict(t)
            BY DEF Evict, Unevicting
        <3> QED BY <1>2, <3>1 DEF FetchStep, Plan, PlanRaise, Submit, WaitOk, WaitRaise,
                    Snapshot, Link, LinkStat, LinkFile, DropLock, diskVars
    <2>2. /\ \A u \in Fetchers : u # t => thread'[u] = thread[u]
          /\ thread'[t].pc # "drop unlink"
        <3>1. CASE Plan(t)
            BY <3>1, PlanEffect
        <3>2. CASE Submit(t)
            <4>1. thread[t] \in ThreadFields
                BY ThreadType DEF TypeOK
            <4> QED BY <1>1, <3>2, <4>1 DEF Submit, ThreadFields
        <3>3. CASE DropLock(t)
            <4>1. \A u \in Fetchers : u # t => thread'[u] = thread[u]
                BY <3>3, DropEffect
            <4>2. CASE thread[t].corrupted = <<>>
                BY <1>1, <3>3, <4>2 DEF DropLock, Dropped, Leave, IdleThread
            <4>3. CASE thread[t].corrupted # <<>>
                <5>1. thread[t] \in ThreadFields
                    BY ThreadType DEF TypeOK
                <5> QED BY <1>1, <3>3, <4>1, <4>3, <5>1 DEF DropLock, ThreadFields
            <4> QED BY <4>1, <4>2, <4>3
        <3>4. CASE \/ PlanRaise(t) \/ Evict(t) \/ WaitOk(t) \/ WaitRaise(t) \/ Snapshot(t)
                   \/ Link(t) \/ LinkStat(t) \/ LinkFile(t)
            BY <3>4, CallEffect
        <3> QED BY <1>2, <3>1, <3>2, <3>3, <3>4 DEF FetchStep
    <2>3. \A b \in Batches : batch'[b].stage \in {"clean unlink", "register stat"} =>
                                batch'[b] = batch[b]
        <3>1. CASE Plan(t)
            BY <3>1, PlanBatches
        <3>2. CASE Submit(t)
            BY <3>2, SubmitBatches
        <3>3. CASE ~Plan(t) /\ ~Submit(t)
            BY <1>2, <3>3, CallKeeps
        <3> QED BY <3>1, <3>2, <3>3
    <2>4. \A u \in Fetchers : thread'[u].pc = "drop unlink" => thread'[u] = thread[u]
        BY <2>2
    <2>5. \A d \in Digests : Exists(d) => disk'[d] # NoFile
        BY <2>1 DEF Exists
    <2> QED BY <2>3, <2>4, <2>5, SeenFrame
<1>3. ASSUME UNCHANGED <<thread, batch>>, \A d \in Digests : Exists(d) => disk'[d] # NoFile
      PROVE  Seen'
    BY <1>3, SeenFrame
<1>4. ASSUME NEW t \in Fetchers, NEW files \in Requests, Fetch(t, files) PROVE Seen'
    <2>1. /\ UNCHANGED <<batch, disk>> /\ thread'[t].pc = "plan"
          /\ \A u \in Fetchers : u # t => thread'[u] = thread[u]
        BY <1>1, <1>4 DEF Fetch, diskVars, IdleThread
    <2>2. \A u \in Fetchers : thread'[u].pc = "drop unlink" => thread'[u] = thread[u]
        BY <2>1
    <2> QED BY <2>1, <2>2, SeenFrame DEF Exists
<1>5. ASSUME NEW b \in Batches,
             \/ Received(b)
             \/ \E d \in Digests : \/ Receive(b, d) \/ ReceiveFault(b, d)
                                   \/ Install(b, d) \/ Rename(b, d) \/ Chmod(b, d)
      PROVE  Seen'
    <2>1. /\ batch'[b].stage \in Early /\ UNCHANGED thread
          /\ \A c \in Batches : c # b => batch'[c] = batch[c]
        BY <1>5, EarlyEffect
    <2>2. \A c \in Batches : batch'[c].stage \in {"clean unlink", "register stat"} =>
                                batch'[c] = batch[c]
        BY <2>1 DEF Early
    <2>3. \A e \in Digests : Exists(e) => disk'[e] # NoFile
        <3>1. ASSUME NEW d \in Digests, Rename(b, d) PROVE <2>3
            <4>1. ASSUME NEW s \in 1..MaxStamp, NEW n, NEW i,
                         disk' = [disk EXCEPT ![d] =
                            [stamp |-> s, size |-> n, readonly |-> FALSE, intact |-> i]]
                  PROVE  <2>3
                <5>1. s # 0
                    BY FilesystemAssumption
                <5>2. disk'[d].stamp = s /\ \A e \in Digests : e # d => disk'[e] = disk[e]
                    BY <1>1, <4>1
                <5> QED BY <5>1, <5>2 DEF Exists, NoFile
            <4> QED BY <3>1, <4>1 DEF Rename, Exists, diskVars
        <3>2. ASSUME NEW d \in Digests, Chmod(b, d) PROVE <2>3
            <4>1. disk' = disk \/ disk' = [disk EXCEPT ![d].readonly = TRUE]
                BY <3>2 DEF Chmod
            <4>2. ASSUME Exists(d), disk' = [disk EXCEPT ![d].readonly = TRUE]
                  PROVE  disk'[d] # NoFile
                <5>1. disk[d] \in [stamp : 1..MaxStamp, size : Nat, readonly : BOOLEAN,
                                   intact : BOOLEAN]
                    BY <1>1, <4>2 DEF Exists, Files
                <5>2. disk'[d].stamp # 0
                    BY <1>1, <4>2, <5>1, FilesystemAssumption
                <5> QED BY <5>2 DEF NoFile
            <4> QED BY <1>1, <4>1, <4>2 DEF Exists
        <3>3. ASSUME UNCHANGED disk PROVE <2>3
            BY <3>3 DEF Exists
        <3>4. \/ UNCHANGED disk \/ \E d \in Digests : Rename(b, d) \/ Chmod(b, d)
            BY <1>5 DEF Received, Receive, ReceiveFault, Install, diskVars
        <3> QED BY <3>1, <3>2, <3>3, <3>4
    <2> QED BY <2>1, <2>2, <2>3, SeenFrame
<1>6. ASSUME NEW b \in Batches, Lock(b) PROVE Seen'
    <2>1. /\ batch'[b].stage \in {"clean", "register"} /\ UNCHANGED <<thread, disk>>
          /\ \A c \in Batches : c # b => batch'[c] = batch[c]
        BY <1>1, <1>6 DEF Lock, diskVars, BatchRecords
    <2>2. \A c \in Batches : batch'[c].stage \in {"clean unlink", "register stat"} =>
                                batch'[c] = batch[c]
        BY <2>1
    <2> QED BY <2>1, <2>2, SeenFrame DEF Exists
<1>7. ASSUME NEW b \in Batches, BatchStep(b) PROVE Seen'
    BY <1>5, <1>6, <1>7, LateSeen DEF BatchStep
<1>8. ASSUME NEW d \in Digests, Delete(d) \/ Rewrite(d) PROVE Seen'
    <2>1. Rewrite(d) /\ UNCHANGED <<thread, batch>>
        BY <1>8 DEF Delete, Rewrite
    <2>2. PICK s \in 1..MaxStamp, n \in {0, Size[d]} : disk' = [disk EXCEPT ![d] =
                [stamp |-> s, size |-> n, readonly |-> FALSE, intact |-> FALSE]]
        BY <2>1 DEF Rewrite
    <2>3. disk'[d].stamp # 0 /\ \A e \in Digests : e # d => disk'[e] = disk[e]
        BY <1>1, <2>2, FilesystemAssumption
    <2>4. \A e \in Digests : Exists(e) => disk'[e] # NoFile
        BY <2>3 DEF Exists, NoFile
    <2> QED BY <1>3, <2>1, <2>4
<1>9. CASE Restart
    BY <1>9 DEF Restart, Seen, IdleThread, IdleBatch
<1>10. CASE Boot
    <2>1. phase # "up" /\ UNCHANGED <<thread, batch>>
        BY <1>10 DEF Boot, Verify, Admit
    <2> QED BY <2>1 DEF BootQuiet, Seen
<1>11. CASE UNCHANGED vars
    BY <1>3, <1>11 DEF vars, diskVars, Exists
<1> QED BY <1>2, <1>4, <1>7, <1>8, <1>9, <1>10, <1>11, DropSeen DEF Next

-----------------------------------------------------------------------------
(* The futures others wait for *)

\* A file is pending because of a batch that brings it, and that runs or that
\* the call that planned it has yet to submit.
Brought ==
    \A d \in Digests : pending[d] # None =>
        /\ Active(pending[d]) /\ d \in batch[pending[d]].items
        /\ batch[pending[d]].stage = "planned" =>
                \E t \in Fetchers : pending[d] \in thread[t].planned

LEMMA PlanBrought ==
    ASSUME TypeOK, Flights, Unevicting, Brought, NEW t \in Fetchers, Plan(t)
    PROVE  Brought'
<1> DEFINE missing == Missing(thread[t].files)
<1>1. PICK place \in [missing -> FreeBatches] :
        /\ thread'[t].planned = {place[d] : d \in missing}
        /\ pending' = [d \in Digests |-> IF d \in missing THEN place[d] ELSE pending[d]]
        /\ batch' = [b \in Batches |->
                IF \E d \in missing : place[d] = b
                THEN NewBatch(thread[t].files, {d \in missing : place[d] = b})
                ELSE batch[b]]
    BY PlanEffect
<1>2. \A u \in Fetchers : u # t => thread'[u] = thread[u]
    BY PlanEffect
<1>3. thread[t].planned = {}
    BY DEF Plan, Unevicting
<1> HIDE DEF missing
<1> SUFFICES ASSUME NEW d \in Digests, pending'[d] # None
             PROVE  /\ batch'[pending'[d]].stage \notin {"idle", "done", "dead"}
                    /\ d \in batch'[pending'[d]].items
                    /\ batch'[pending'[d]].stage = "planned" =>
                            \E u \in Fetchers : pending'[d] \in thread'[u].planned
    BY DEF Brought, Active
<1>4. CASE d \in missing
    <2>1. pending'[d] = place[d] /\ place[d] \in Batches
        BY <1>1, <1>4 DEF FreeBatches
    <2>2. /\ batch'[place[d]].stage = "planned" /\ d \in batch'[place[d]].items
        BY <1>1, <1>4, <2>1 DEF NewBatch, IdleBatch
    <2> QED BY <1>1, <1>4, <2>1, <2>2
<1>5. CASE d \notin missing
    <2>1. pending'[d] = pending[d] /\ pending[d] \in Batches
        BY <1>1, <1>5 DEF TypeOK, MapsOK
    <2>2. \A e \in missing : place[e] # pending[d]
        BY <1>1 DEF FreeBatches
    <2>3. batch'[pending[d]] = batch[pending[d]]
        BY <1>1, <2>1, <2>2
    <2>4. /\ Active(pending[d]) /\ d \in batch[pending[d]].items
          /\ batch[pending[d]].stage = "planned" =>
                \E u \in Fetchers : pending[d] \in thread[u].planned
        BY <2>1 DEF Brought
    <2> QED BY <1>2, <1>3, <2>1, <2>3, <2>4 DEF Active
<1> QED BY <1>4, <1>5

\* A step that takes nothing from a call that has yet to submit its batches.
LEMMA BroughtFrame ==
    ASSUME TypeOK, Brought,
           \A d \in Digests : pending'[d] = pending[d] \/ pending'[d] = None,
           \A t \in Fetchers, b \in Batches : b \in thread[t].planned =>
                b \in thread'[t].planned \/ batch'[b].stage # "planned",
           \A d \in Digests, b \in Batches : pending'[d] = b =>
                /\ batch'[b].stage \notin {"idle", "done", "dead"}
                /\ d \in batch'[b].items
                /\ batch'[b].stage = "planned" => batch[b].stage = "planned"
    PROVE  Brought'
<1> SUFFICES ASSUME NEW d \in Digests, pending'[d] # None
             PROVE  /\ batch'[pending'[d]].stage \notin {"idle", "done", "dead"}
                    /\ d \in batch'[pending'[d]].items
                    /\ batch'[pending'[d]].stage = "planned" =>
                            \E u \in Fetchers : pending'[d] \in thread'[u].planned
    BY DEF Brought, Active
<1>1. pending'[d] = pending[d] /\ pending[d] \in Batches
    BY DEF TypeOK, MapsOK
<1>2. batch[pending[d]].stage = "planned" =>
            \E u \in Fetchers : pending[d] \in thread[u].planned
    BY <1>1 DEF Brought
<1> QED BY <1>1, <1>2

LEMMA CallBrought ==
    ASSUME TypeOK, Flights, Unevicting, Brought, NEW t \in Fetchers, FetchStep(t)
    PROVE  Brought'
<1>1. ASSUME NEW d \in Digests, NEW b \in Batches, pending[d] = b
      PROVE  batch[b].stage \notin {"idle", "done", "dead"} /\ d \in batch[b].items
    BY <1>1, Holders DEF Brought, Active
<1>2. CASE Submit(t)
    <2>1. UNCHANGED pending /\ \A u \in Fetchers : u # t => thread'[u] = thread[u]
        BY <1>2 DEF Submit, mapVars, TypeOK, ThreadsOK
    <2>2. ASSUME NEW u \in Fetchers, NEW b \in Batches, b \in thread[u].planned
          PROVE  b \in thread'[u].planned \/ batch'[b].stage # "planned"
        <3>1. b \in thread[t].planned => batch'[b].stage # "planned"
            BY <1>2, SubmitBatches
        <3> QED BY <2>1, <2>2, <3>1
    <2>3. ASSUME NEW d \in Digests, NEW b \in Batches, pending'[d] = b
          PROVE  /\ batch'[b].stage \notin {"idle", "done", "dead"}
                 /\ d \in batch'[b].items
                 /\ batch'[b].stage = "planned" => batch[b].stage = "planned"
        BY <1>1, <1>2, <2>1, <2>3, SubmitBatches
    <2> QED BY <2>1, <2>2, <2>3, BroughtFrame
<1>3. CASE ~Submit(t) /\ ~Plan(t)
    <2>1. UNCHANGED <<batch, pending>>
        BY <1>3, CallKeeps
    <2>2. thread[t].planned = {}
        <3>1. thread[t].pc # "submit"
            BY <1>3 DEF FetchStep, PlanRaise, Evict, WaitOk, WaitRaise, Snapshot, Link,
                        LinkStat, LinkFile, DropLock, Drop
        <3> QED BY <3>1 DEF Unevicting
    <2>3. \A u \in Fetchers : u # t => thread'[u] = thread[u]
        BY <1>3, CallEffect, DropEffect DEF FetchStep
    <2>4. \A u \in Fetchers, b \in Batches : b \in thread[u].planned => b \in thread'[u].planned
        BY <2>2, <2>3
    <2> QED BY <1>1, <2>1, <2>4, BroughtFrame
<1> QED BY <1>2, <1>3, PlanBrought

LEMMA BatchBrought ==
    ASSUME TypeOK, Flights, Ordered, Seen, Brought, NEW b \in Batches, BatchStep(b)
    PROVE  Brought'
<1>1. ASSUME NEW d \in Digests, NEW c \in Batches, pending[d] = c
      PROVE  batch[c].stage \notin {"idle", "done", "dead"} /\ d \in batch[c].items
    BY <1>1, Holders DEF Brought, Active
<1>2. UNCHANGED thread /\ \A c \in Batches : c # b => batch'[c] = batch[c]
    BY BatchEffect
<1>3. ASSUME \A d \in Digests : pending'[d] = pending[d] \/ pending'[d] = None,
             batch'[b].stage \notin {"idle", "done", "dead", "planned"},
             batch'[b].items = batch[b].items
      PROVE  Brought'
    <2>1. \A d \in Digests, c \in Batches : pending'[d] = c =>
                /\ batch'[c].stage \notin {"idle", "done", "dead"}
                /\ d \in batch'[c].items
                /\ batch'[c].stage = "planned" => batch[c].stage = "planned"
        BY <1>1, <1>2, <1>3, Holders
    <2> QED BY <1>2, <1>3, <2>1, BroughtFrame
<1>4. ASSUME \/ Received(b)
             \/ \E d \in Digests : \/ Receive(b, d) \/ ReceiveFault(b, d)
                                   \/ Install(b, d) \/ Rename(b, d) \/ Chmod(b, d)
      PROVE  Brought'
    <2>1. /\ batch'[b].stage \in Early \ {"planned"} /\ batch'[b].items = batch[b].items
          /\ UNCHANGED pending
        BY <1>4, EarlyEffect
    <2> QED BY <1>3, <2>1 DEF Early
<1>5. ASSUME Lock(b) PROVE Brought'
    <2>1. /\ batch'[b].stage \in {"clean", "register"} /\ batch'[b].items = batch[b].items
          /\ UNCHANGED pending
        BY <1>5 DEF Lock, mapVars, TypeOK, BatchesOK, BatchRecords
    <2> QED BY <1>3, <2>1
<1>6. ASSUME NEW d \in Digests, Clean(b, d) \/ Register(b, d) PROVE Brought'
    <2>1. /\ batch'[b].stage \in Late \cup {"done"}
          /\ batch'[b].stage \in Late => batch'[b].items = batch[b].items
          /\ batch'[b].stage = "done" => pending'[d] = None /\ batch[b].todo = {d}
          /\ \A e \in Digests : pending'[e] = pending[e] \/ pending'[e] = None
        BY <1>6, LateSeen
    <2>2. CASE batch'[b].stage \in Late
        BY <1>3, <2>1, <2>2 DEF Late
    <2>3. CASE batch'[b].stage = "done"
        <3>1. batch[b].stage \in Late
            BY <1>6 DEF Clean, Register, Late
        <3>2. \A e \in Digests : pending[e] = b => e = d
            BY <1>1, <2>1, <2>3, <3>1, Holders DEF Flights, Owns
        <3>3. \A e \in Digests : pending'[e] # b
            BY <2>1, <2>3, <3>2, Holders
        <3>4. \A e \in Digests, c \in Batches : pending'[e] = c =>
                /\ batch'[c].stage \notin {"idle", "done", "dead"}
                /\ e \in batch'[c].items
                /\ batch'[c].stage = "planned" => batch[c].stage = "planned"
            BY <1>1, <1>2, <2>1, <3>3, Holders
        <3>5. \A e \in Digests : pending'[e] = pending[e] \/ pending'[e] = None
            BY <2>1
        <3> QED BY <1>2, <3>4, <3>5, BroughtFrame
    <2> QED BY <2>1, <2>2, <2>3
<1> QED BY <1>4, <1>5, <1>6 DEF BatchStep

LEMMA BroughtStep ==
    ASSUME TypeOK, Flights, Unevicting, Ordered, Seen, Brought, [Next]_vars
    PROVE  Brought'
<1>1. ASSUME NEW t \in Fetchers, NEW files \in Requests, Fetch(t, files) PROVE Brought'
    <2>1. /\ UNCHANGED <<batch, pending>> /\ thread[t].planned = {}
          /\ \A u \in Fetchers : u # t => thread'[u] = thread[u]
        BY <1>1 DEF Fetch, mapVars, Unevicting, TypeOK, ThreadsOK
    <2>2. \A u \in Fetchers, b \in Batches : b \in thread[u].planned => b \in thread'[u].planned
        BY <2>1
    <2>3. \A d \in Digests, b \in Batches : pending'[d] = b =>
                batch[b].stage \notin {"idle", "done", "dead"} /\ d \in batch[b].items
        BY <2>1, Holders DEF Brought, Active
    <2> QED BY <2>1, <2>2, <2>3, BroughtFrame
<1>2. CASE Restart
    BY <1>2 DEF Restart, Brought
<1>3. ASSUME \/ \E d \in Digests : Delete(d) \/ Rewrite(d)
             \/ Boot \/ UNCHANGED vars
      PROVE  Brought'
    <2>1. UNCHANGED <<batch, pending, thread>>
        BY <1>3 DEF Delete, Rewrite, Boot, Verify, Admit, vars, mapVars
    <2> QED BY <2>1 DEF Brought, Active
<1> QED BY <1>1, <1>2, <1>3, CallBrought, BatchBrought DEF Next

\* What holds of the cache without a limit, when nobody removes its files.
Unlimited == TypeOK /\ BootQuiet /\ Flights /\ Unevicting /\ Ordered /\ Seen /\ Brought

LEMMA UnlimitedInit == Init => Unlimited
<1> SUFFICES ASSUME Init PROVE Unlimited
    OBVIOUS
<1>1. Unevicting /\ Ordered /\ Seen /\ Brought
    BY DEF Init, Unevicting, Ordered, Seen, Brought, IdleThread, IdleBatch
<1> QED BY <1>1, KeptInit DEF Kept, Unlimited

LEMMA UnlimitedStep ==
    ASSUME Unlimited, MaxSize = 0, "delete" \notin Faults, [Next]_vars
    PROVE  Unlimited'
BY TypeStep, BootQuietStep, FlightsStep, UnevictingStep, OrderedStep, SeenStep, BroughtStep
   DEF Unlimited

\* A future somebody may wait for is that of a batch that runs, or that the
\* call that planned it is about to submit: whatever the CAS refuses, garbles
\* or cuts short, and whoever writes to the files, as long as they are not
\* removed while the error handler or the registration of a batch looks at
\* them.  With a limit the evictions of another call do just that.
THEOREM FuturesAreServed ==
    ASSUME MaxSize = 0, "delete" \notin Faults
    PROVE  Spec => []PendingServed
<1>1. Unlimited /\ [Next]_vars => Unlimited'
    BY UnlimitedStep
<1>2. Unlimited => PendingServed
    BY DEF Unlimited, Brought, PendingServed
<1> QED BY <1>1, <1>2, UnlimitedInit, PTL DEF Spec

-----------------------------------------------------------------------------
(* When nothing fails *)

\* The file an item of a batch has in the cache directory: none until it is
\* renamed there.  The ".tmp" file is made by the first bytes, and renamed.
Installed(b, d) ==
    \/ batch[b].stage \in {"installed", "register", "register stat"}
    \/ batch[b].stage \in {"install", "rename", "chmod"} /\ d \notin batch[b].todo
    \/ batch[b].stage = "chmod" /\ batch[b].at = d
Carried(b, d) ==
    /\ batch[b].future = "unresolved"
    /\ Installed(b, d) => Exists(d) /\ tmp[d] = NoTmp
    /\ ~Installed(b, d) => ~Exists(d)
    /\ batch[b].stage = "planned" => tmp[d] = NoTmp
    /\ batch[b].stage = "receive" /\ d \in batch[b].todo /\ batch[b].at # d => tmp[d] = NoTmp

\* The entries are those of the files, and there is nothing else in the cache
\* directory than the files of the entries and of the batches.
Placed(d) ==
    /\ cached[d] # NoInfo => tmp[d] = NoTmp /\ cached[d] = FileCacheInfo(disk[d])
    /\ pending[d] # None => Carried(pending[d], d)
    /\ cached[d] = NoInfo /\ pending[d] = None /\ phase = "up" => ~Exists(d) /\ tmp[d] = NoTmp
    /\ phase = "admit" => /\ tmp[d] = NoTmp
                          /\ d \notin booting /\ cached[d] = NoInfo => ~Exists(d)

\* No batch fails.  A large file is received when the small ones are there.
Unfailed(b) ==
    /\ batch[b].stage \notin {"failed", "clean", "clean unlink", "dead"}
    /\ batch[b].stage = "chmod" => batch[b].at \in batch[b].todo
    /\ batch[b].stage = "planned" => batch[b].at = None
    /\ batch[b].stage = "receive" /\ batch[b].at # None => \A d \in batch[b].todo : Large(d)
    /\ ~batch[b].unread /\ batch[b].future # "failed"

\* A call finds every file it waited for, and links it: it meets no corrupted
\* and no missing file.
SmoothCall(r) ==
    /\ r.corrupted = <<>> /\ r.missing = <<>>
    /\ r.pc \notin {"evict", "unlink", "drop file", "drop unlink"}
    /\ r.outcome \in {"none", "ok", "MaxSizeReached"}
Smooth(t) ==
    LET r == thread[t]
    IN  /\ SmoothCall(r)
        /\ r.pc \in {"submit", "wait"} => \A d \in DigestsOf(r.files) :
                cached[d] # NoInfo \/ pending[d] \in r.futures
        /\ r.pc = "snapshot" => \A d \in DigestsOf(r.files) : cached[d] # NoInfo
        /\ r.pc \in {"link", "stat", "link file"} => \A d \in DigestsOf(r.files) :
                cached[d] # NoInfo /\ r.snap[d] = cached[d]

Calm == /\ \A d \in Digests : Placed(d)
        /\ \A b \in Batches : Unfailed(b)
        /\ \A t \in Fetchers : Smooth(t)

\* The entries stay, and what is pending is cached next.
Grows ==
    \A d \in Digests : /\ cached[d] # NoInfo => cached'[d] = cached[d]
                       /\ pending[d] # None => pending'[d] = pending[d] \/ cached'[d] # NoInfo

\* There is no status of a file that is not there.
LEMMA NoFileInfo == FileCacheInfo(NoFile) = NoInfo
BY DEF FileCacheInfo, NoFile, NoInfo

\* The files of a list, its first and the others.
LEMMA ListDigests ==
    ASSUME NEW files \in Seq(Nodes), files # <<>>
    PROVE  /\ DigestOf[Head(files)] \in DigestsOf(files)
           /\ DigestsOf(Tail(files)) \subseteq DigestsOf(files)
<1>1. /\ Members(files) = {Head(files)} \cup Members(Tail(files))
    BY TailMembers
<1>2. \A s : DigestsOf(s) = {DigestOf[n] : n \in Members(s)}
    BY DEF DigestsOf, Members
<1> QED BY <1>1, <1>2

\* A call that does not move stays smooth while the entries grow.
LEMMA SmoothFrame ==
    ASSUME TypeOK, NEW t \in Fetchers, Smooth(t), thread'[t] = thread[t], Grows
    PROVE  Smooth(t)'
<1>1. /\ DigestsOf(thread[t].files) \subseteq Digests
      /\ None \notin thread[t].futures
    BY ThreadType, DigestsOfType, Holders DEF TypeOK
<1> QED BY <1>1 DEF Smooth, Grows

\* A call that leaves has an outcome.
LEMMA LeaveSmooth ==
    ASSUME TypeOK, NEW t \in Fetchers, NEW o \in {"ok", "MaxSizeReached"}, Leave(t, o)
    PROVE  Smooth(t)'
<1>1. thread'[t] = [IdleThread EXCEPT !.outcome = o]
    BY DEF Leave, TypeOK, ThreadsOK
<1>2. /\ thread'[t].pc = "idle" /\ thread'[t].outcome = o
      /\ thread'[t].corrupted = <<>> /\ thread'[t].missing = <<>>
    BY <1>1 DEF IdleThread
<1> QED BY <1>2 DEF Smooth, SmoothCall

\* The steps of a call, each from where the one before it has come to.
LEMMA WaitSmooth ==
    ASSUME TypeOK, Unlimited, Calm, MaxSize = 0, NEW t \in Fetchers,
           \/ Plan(t) \/ PlanRaise(t) \/ Submit(t) \/ WaitOk(t) \/ WaitRaise(t) \/ Snapshot(t)
    PROVE  Smooth(t)'
<1>1. /\ thread[t] \in ThreadFields /\ DOMAIN thread = Fetchers
      /\ thread[t].files \in Seq(Nodes) /\ DigestsOf(thread[t].files) \subseteq Digests
      /\ Smooth(t)
    BY ThreadType, DigestsOfType DEF TypeOK, ThreadsOK, Calm
<1>2. CASE Plan(t)
    <2>1. /\ thread'[t].pc \in {"submit", "wait"}
          /\ thread'[t].futures = {pending'[d] : d \in DigestsOf(thread[t].files) \ CachedNames}
          /\ thread'[t].files = thread[t].files /\ thread'[t].outcome = thread[t].outcome
          /\ thread'[t].corrupted = thread[t].corrupted
          /\ thread'[t].missing = thread[t].missing
          /\ UNCHANGED cached
        BY <1>2, PlanCall
    <2>2. \A d \in DigestsOf(thread[t].files) :
            cached'[d] # NoInfo \/ pending'[d] \in thread'[t].futures
        BY <1>1, <2>1 DEF CachedNames
    <2> QED BY <1>1, <2>1, <2>2 DEF Smooth, SmoothCall
<1>3. CASE PlanRaise(t)
    BY <1>3, LeaveSmooth DEF PlanRaise
<1>4. CASE Submit(t)
    <2>1. /\ thread'[t] = [thread[t] EXCEPT !.planned = {}, !.pc = "wait"]
          /\ thread[t].pc = "submit" /\ UNCHANGED <<cached, pending>>
        BY <1>1, <1>4 DEF Submit, mapVars
    <2>2. /\ thread'[t].pc = "wait" /\ thread'[t].files = thread[t].files
          /\ thread'[t].futures = thread[t].futures
          /\ thread'[t].corrupted = thread[t].corrupted
          /\ thread'[t].missing = thread[t].missing /\ thread'[t].outcome = thread[t].outcome
        BY <1>1, <2>1 DEF ThreadFields
    <2> QED BY <1>1, <2>1, <2>2 DEF Smooth, SmoothCall
<1>5. CASE WaitOk(t)
    <2>1. /\ thread'[t] = [thread[t] EXCEPT !.pc = "snapshot", !.futures = {}]
          /\ thread[t].pc = "wait" /\ UNCHANGED <<cached, pending>>
        BY <1>1, <1>5 DEF WaitOk, mapVars
    <2>2. /\ thread'[t].pc = "snapshot" /\ thread'[t].files = thread[t].files
          /\ thread'[t].corrupted = thread[t].corrupted
          /\ thread'[t].missing = thread[t].missing /\ thread'[t].outcome = thread[t].outcome
        BY <1>1, <2>1 DEF ThreadFields
    <2>3. ASSUME NEW d \in DigestsOf(thread[t].files) PROVE cached[d] # NoInfo
        <3>1. ASSUME pending[d] \in thread[t].futures PROVE FALSE
            <4>1. batch[pending[d]].future = "ok"
                BY <1>5, <3>1 DEF WaitOk
            <4>2. pending[d] # None
                BY <3>1, ThreadType, Holders DEF TypeOK
            <4>3. Carried(pending[d], d)
                BY <1>1, <4>2 DEF Calm, Placed
            <4> QED BY <4>1, <4>3 DEF Carried
        <3> QED BY <1>1, <2>1, <3>1 DEF Smooth
    <2> QED BY <1>1, <2>1, <2>2, <2>3 DEF Smooth, SmoothCall
<1>6. CASE WaitRaise(t)
    <2>1. PICK b \in thread[t].futures : batch[b].future = "failed"
        BY <1>6 DEF WaitRaise
    <2>2. b \in Batches
        BY ThreadType DEF TypeOK
    <2> QED BY <2>1, <2>2 DEF Calm, Unfailed
<1>7. CASE Snapshot(t)
    <2> DEFINE snap == [d \in Digests |-> IF d \in DigestsOf(thread[t].files)
                                          THEN cached[d] ELSE NoInfo]
    <2>1. /\ thread' = [thread EXCEPT ![t].snap = snap, ![t].pc = "link"]
          /\ thread[t].pc = "snapshot" /\ UNCHANGED cached
        BY <1>7 DEF Snapshot, mapVars
    <2>2. \A d \in DigestsOf(thread[t].files) : snap[d] = cached[d]
        BY <1>1
    <2> HIDE DEF snap
    <2>3. /\ thread'[t].pc = "link" /\ thread'[t].files = thread[t].files
          /\ thread'[t].snap = snap
          /\ thread'[t].corrupted = thread[t].corrupted
          /\ thread'[t].missing = thread[t].missing /\ thread'[t].outcome = thread[t].outcome
        BY <1>1, <2>1 DEF ThreadFields
    <2> QED BY <1>1, <2>1, <2>2, <2>3 DEF Smooth, SmoothCall
<1> QED BY <1>2, <1>3, <1>4, <1>5, <1>6, <1>7

LEMMA LinkSmooth ==
    ASSUME TypeOK, Calm, NEW t \in Fetchers,
           Link(t) \/ LinkStat(t) \/ LinkFile(t) \/ DropLock(t)
    PROVE  Smooth(t)'
<1> DEFINE d == DigestOf[Node(t)]
<1>1. /\ thread[t] \in ThreadFields /\ DOMAIN thread = Fetchers
      /\ thread[t].files \in Seq(Nodes) /\ DigestsOf(thread[t].files) \subseteq Digests
      /\ Smooth(t)
    BY ThreadType, DigestsOfType DEF TypeOK, ThreadsOK, Calm
<1>2. CASE DropLock(t)
    <2>1. thread[t].corrupted = <<>> /\ thread[t].missing = <<>>
        BY <1>1 DEF Smooth, SmoothCall
    <2>2. Leave(t, "ok")
        BY <1>2, <2>1 DEF DropLock, Dropped
    <2> QED BY <2>2, LeaveSmooth
<1>3. CASE Link(t) \/ LinkStat(t) \/ LinkFile(t)
    <2>1. thread[t].files # <<>> /\ thread[t].pc \in {"link", "stat", "link file"}
        BY <1>3, ThreadType DEF Link, LinkStat, LinkFile, TypeOK
    <2>2. d \in DigestsOf(thread[t].files)
        BY <1>1, <2>1, ListDigests DEF Node
    <2>3. /\ cached[d] # NoInfo /\ thread[t].snap[d] = cached[d]
          /\ cached[d] = FileCacheInfo(disk[d])
        BY <1>1, <2>1, <2>2 DEF Smooth, Calm, Placed
    <2>4. Exists(d)
        BY <2>3, NoFileInfo DEF Exists
    <2>5. UNCHANGED cached
        BY <1>3 DEF Link, LinkStat, LinkFile, mapVars
    <2>6. ASSUME NEW p \in {"stat", "link file"}, thread' = [thread EXCEPT ![t].pc = p]
          PROVE  Smooth(t)'
        <3>1. thread'[t] = [thread[t] EXCEPT !.pc = p]
            BY <1>1, <2>6
        <3>2. /\ thread'[t].pc = p /\ thread'[t].files = thread[t].files
              /\ thread'[t].snap = thread[t].snap
              /\ thread'[t].corrupted = thread[t].corrupted
              /\ thread'[t].missing = thread[t].missing /\ thread'[t].outcome = thread[t].outcome
            BY <1>1, <3>1 DEF ThreadFields
        <3> QED BY <1>1, <2>1, <2>5, <3>2 DEF Smooth, SmoothCall
    <2>7. ASSUME NEW n, NEW v, Linked(t, [thread[t] EXCEPT !.linked[n] = v])
          PROVE  Smooth(t)'
        <3> DEFINE p == IF Len(thread[t].files) > 1 THEN "link" ELSE "drop"
        <3>1. p \in {"link", "drop"}
            OBVIOUS
        <3>2. thread' = [thread EXCEPT ![t] =
                    [[thread[t] EXCEPT !.linked[n] = v] EXCEPT
                        !.files = Tail(thread[t].files), !.pc = p]]
            <4>1. [thread[t] EXCEPT !.linked[n] = v].files = thread[t].files
                BY <1>1 DEF ThreadFields
            <4> QED BY <2>7, <4>1 DEF Linked
        <3> HIDE DEF p
        <3>3. /\ thread'[t].pc = p /\ thread'[t].files = Tail(thread[t].files)
              /\ thread'[t].snap = thread[t].snap
              /\ thread'[t].corrupted = thread[t].corrupted
              /\ thread'[t].missing = thread[t].missing /\ thread'[t].outcome = thread[t].outcome
            BY <1>1, <3>2 DEF ThreadFields
        <3>4. DigestsOf(Tail(thread[t].files)) \subseteq DigestsOf(thread[t].files)
            BY <1>1, <2>1, ListDigests
        <3> QED BY <1>1, <2>1, <2>5, <3>1, <3>3, <3>4 DEF Smooth, SmoothCall
    <2>8. CASE Link(t)
        BY <2>3, <2>4, <2>6, <2>8 DEF Link
    <2>9. CASE LinkStat(t)
        BY <2>3, <2>4, <2>6, <2>9 DEF LinkStat
    <2>10. CASE LinkFile(t)
        <3>1. Linked(t, [thread[t] EXCEPT
                    !.linked[Node(t)] = IF disk[d].intact THEN "whole" ELSE "broken"])
            BY <2>4, <2>10 DEF LinkFile
        <3> QED BY <2>7, <3>1
    <2> QED BY <1>3, <2>8, <2>9, <2>10
<1> QED BY <1>2, <1>3

\* A step of a call but for the plan and the submission leaves files, entries
\* and batches alone.
LEMMA CallLeaves ==
    ASSUME TypeOK, Unevicting, Calm, NEW t \in Fetchers, FetchStep(t), ~Plan(t), ~Submit(t)
    PROVE  UNCHANGED <<disk, tmp, cached, pending, batch, bootVars>>
<1>1. thread[t].pc \notin {"evict", "unlink", "drop file", "drop unlink"}
    BY DEF Unevicting, Calm, Smooth, SmoothCall
<1>2. ~Evict(t) /\ ~Drop(t)
    BY <1>1 DEF Evict, Drop
<1> QED BY <1>2 DEF FetchStep, PlanRaise, WaitOk, WaitRaise, Snapshot, Link, LinkStat,
                    LinkFile, DropLock, mapVars, diskVars

\* A step that leaves the files, the maps and the batches alone.
LEMMA PlacedFrame ==
    ASSUME TypeOK, Calm, UNCHANGED <<disk, tmp, cached, pending, batch, bootVars>>
    PROVE  /\ \A d \in Digests : Placed(d)'
           /\ \A b \in Batches : Unfailed(b)'
           /\ Grows
<1>1. ASSUME NEW d \in Digests PROVE Placed(d)'
    <2>1. Placed(d)
        BY DEF Calm
    <2> QED BY <2>1 DEF Placed, Carried, Installed, Exists, bootVars
<1>2. ASSUME NEW b \in Batches PROVE Unfailed(b)'
    <2>1. Unfailed(b)
        BY DEF Calm
    <2> QED BY <2>1 DEF Unfailed
<1> QED BY <1>1, <1>2 DEF Grows

\* A file stays placed when the batch that brings it, if any, is left alone.
LEMMA SamePlace ==
    ASSUME NEW d \in Digests, Placed(d), pending'[d] = pending[d], cached'[d] = cached[d],
           disk'[d] = disk[d], tmp'[d] = tmp[d], UNCHANGED bootVars,
           pending[d] # None => batch'[pending[d]] = batch[pending[d]]
    PROVE  Placed(d)'
BY DEF Placed, Carried, Installed, Exists, bootVars

LEMMA PlanPlaced ==
    ASSUME TypeOK, Unlimited, Calm, MaxSize = 0, NEW t \in Fetchers, Plan(t)
    PROVE  /\ \A d \in Digests : Placed(d)'
           /\ \A b \in Batches : Unfailed(b)'
           /\ Grows
<1> DEFINE missing == Missing(thread[t].files)
<1>1. PICK place \in [missing -> FreeBatches] :
        /\ pending' = [d \in Digests |-> IF d \in missing THEN place[d] ELSE pending[d]]
        /\ batch' = [b \in Batches |->
                IF \E d \in missing : place[d] = b
                THEN NewBatch(thread[t].files, {d \in missing : place[d] = b})
                ELSE batch[b]]
    BY PlanEffect
<1>2. UNCHANGED <<disk, tmp, cached, bootVars>> /\ phase = "up"
    <2>1. thread[t].pc # "idle"
        BY DEF Plan
    <2>2. phase = "up"
        BY <2>1 DEF Unlimited, BootQuiet
    <2> QED BY <2>2, PlanCall, PlanEffect DEF bootVars
<1>3. \A d \in Digests : d \in missing => cached[d] = NoInfo /\ pending[d] = None
    BY DEF Missing
<1> HIDE DEF missing
<1>4. ASSUME NEW d \in Digests PROVE Placed(d)'
    <2>1. Placed(d)
        BY DEF Calm
    <2>2. CASE d \in missing
        <3>1. pending'[d] = place[d] /\ place[d] \in Batches
            BY <1>1, <2>2 DEF FreeBatches
        <3>2. /\ batch'[place[d]].stage = "planned" /\ batch'[place[d]].future = "unresolved"
            BY <1>1, <2>2, <3>1 DEF NewBatch, IdleBatch
        <3>3. ~Exists(d) /\ tmp[d] = NoTmp /\ cached[d] = NoInfo
            BY <1>2, <1>3, <2>1, <2>2 DEF Placed
        <3>4. Carried(place[d], d)'
            BY <1>2, <3>2, <3>3 DEF Carried, Installed, Exists
        <3> QED BY <1>2, <3>1, <3>3, <3>4, Holders DEF Placed, Carried, Installed, Exists, bootVars
    <2>3. CASE d \notin missing
        <3>1. pending'[d] = pending[d]
            BY <1>1, <2>3
        <3>2. ASSUME pending[d] # None PROVE batch'[pending[d]] = batch[pending[d]]
            <4>1. pending[d] \in Batches
                BY <3>2 DEF TypeOK, MapsOK
            <4>2. \A e \in missing : place[e] # pending[d]
                BY <1>1 DEF FreeBatches
            <4> QED BY <1>1, <4>1, <4>2
        <3> QED BY <1>2, <2>1, <3>1, <3>2, SamePlace
    <2> QED BY <2>2, <2>3
<1>5. ASSUME NEW b \in Batches PROVE Unfailed(b)'
    <2>1. Unfailed(b)
        BY DEF Calm
    <2> QED BY <1>1, <2>1 DEF Unfailed, NewBatch, IdleBatch
<1>6. Grows
    BY <1>1, <1>2, <1>3 DEF Grows
<1> QED BY <1>4, <1>5, <1>6

LEMMA SubmitPlaced ==
    ASSUME TypeOK, Unlimited, Calm, NEW t \in Fetchers, Submit(t)
    PROVE  /\ \A d \in Digests : Placed(d)'
           /\ \A b \in Batches : Unfailed(b)'
           /\ Grows
<1>1. UNCHANGED <<disk, tmp, cached, pending, bootVars>>
    BY DEF Submit, diskVars, mapVars
<1>2. ASSUME NEW b \in Batches
      PROVE  /\ b \notin thread[t].planned => batch'[b] = batch[b]
             /\ b \in thread[t].planned =>
                    /\ batch[b].stage = "planned" /\ batch'[b].stage = "receive"
                    /\ batch'[b].todo = batch[b].todo /\ batch'[b].at = batch[b].at
                    /\ batch'[b].unread = batch[b].unread /\ batch'[b].future = batch[b].future
    BY SubmitBatches DEF Unlimited
<1>3. ASSUME NEW d \in Digests PROVE Placed(d)'
    <2>1. Placed(d)
        BY DEF Calm
    <2>2. CASE pending[d] \in thread[t].planned
        <3>1. pending[d] \in Batches /\ pending[d] # None
            BY <2>2, ThreadType, Holders DEF TypeOK
        <3>2. Carried(pending[d], d)
            BY <2>1, <3>1 DEF Placed
        <3>3. Carried(pending[d], d)'
            BY <1>1, <1>2, <2>2, <3>1, <3>2 DEF Carried, Installed, Exists
        <3> QED BY <1>1, <2>1, <3>1, <3>3 DEF Placed, Carried, Installed, Exists, bootVars
    <2>3. CASE pending[d] \notin thread[t].planned
        <3>1. pending[d] # None => batch'[pending[d]] = batch[pending[d]]
            BY <1>2, <2>3 DEF TypeOK, MapsOK
        <3> QED BY <1>1, <2>1, <3>1, SamePlace
    <2> QED BY <2>2, <2>3
<1>4. ASSUME NEW b \in Batches PROVE Unfailed(b)'
    <2>1. Unfailed(b)
        BY DEF Calm
    <2> QED BY <1>2, <2>1 DEF Unfailed
<1> QED BY <1>1, <1>3, <1>4 DEF Grows

\* A step of one batch disturbs the files it brings, and leaves them placed.
LEMMA ItemsPlaced ==
    ASSUME TypeOK, Entries, Calm, NEW b \in Batches, UNCHANGED bootVars,
           \A c \in Batches : c # b => batch'[c] = batch[c],
           \A e \in Digests : pending[e] # b =>
                /\ disk'[e] = disk[e] /\ tmp'[e] = tmp[e]
                /\ cached'[e] = cached[e] /\ pending'[e] = pending[e],
           \A e \in Digests : pending[e] = b =>
                Placed(e)' /\ (pending'[e] = b \/ cached'[e] # NoInfo),
           Unfailed(b)'
    PROVE  /\ \A d \in Digests : Placed(d)'
           /\ \A c \in Batches : Unfailed(c)'
           /\ Grows
<1>1. ASSUME NEW d \in Digests, pending[d] # b PROVE Placed(d)'
    <2>1. Placed(d)
        BY DEF Calm
    <2>2. pending[d] # None => batch'[pending[d]] = batch[pending[d]]
        BY <1>1 DEF TypeOK, MapsOK
    <2> QED BY <1>1, <2>1, <2>2, SamePlace
<1>2. ASSUME NEW c \in Batches, c # b PROVE Unfailed(c)'
    <2>1. Unfailed(c)
        BY DEF Calm
    <2> QED BY <1>2, <2>1 DEF Unfailed
<1>3. Grows
    <2>1. \A d \in Digests : cached[d] # NoInfo => pending[d] # b
        BY Holders DEF Entries, CachedNames
    <2> QED BY <2>1 DEF Grows
<1> QED BY <1>1, <1>2, <1>3

\* Before it registers its files a batch leaves the maps alone.
LEMMA CarriedPlaced ==
    ASSUME TypeOK, Entries, Calm, phase = "up", NEW b \in Batches,
           UNCHANGED <<cached, pending, bootVars>>,
           \A c \in Batches : c # b => batch'[c] = batch[c],
           \A e \in Digests : pending[e] # b => disk'[e] = disk[e] /\ tmp'[e] = tmp[e],
           \A e \in Digests : pending[e] = b => Carried(b, e)',
           Unfailed(b)'
    PROVE  /\ \A d \in Digests : Placed(d)'
           /\ \A c \in Batches : Unfailed(c)'
           /\ Grows
<1>1. ASSUME NEW e \in Digests, pending[e] = b PROVE Placed(e)'
    <2>1. cached[e] = NoInfo /\ pending[e] # None
        BY <1>1, Holders DEF Entries, CachedNames
    <2> QED BY <1>1, <2>1 DEF Placed, Carried, Installed, Exists, bootVars
<1> QED BY <1>1, ItemsPlaced

\* What holds of a batch that runs and of the files it brings.
LEMMA Bringing ==
    ASSUME Unlimited, Sized, Calm, NEW b \in Batches, batch[b].stage # "idle"
    PROVE  /\ phase = "up" /\ Unfailed(b) /\ Owns(b) /\ TmpSized(b) /\ Entries
           /\ batch[b] \in BatchRecords /\ DOMAIN batch = Batches
           /\ batch[b].items \subseteq Digests /\ batch[b].todo \subseteq batch[b].items
           /\ \A e \in Digests : pending[e] = b => Carried(b, e) /\ e \in batch[b].items
<1>1. TypeOK /\ batch[b] \in BatchRecords /\ DOMAIN batch = Batches
    BY DEF Unlimited, TypeOK, BatchesOK
<1>2. batch[b].items \in SUBSET Digests
    BY <1>1 DEF BatchRecords
<1>3. phase = "up"
    BY DEF Unlimited, BootQuiet
<1>4. ASSUME NEW e \in Digests, pending[e] = b PROVE Carried(b, e) /\ e \in batch[b].items
    BY <1>4, Holders DEF Calm, Placed, Unlimited, Brought
<1> QED BY <1>1, <1>2, <1>3, <1>4 DEF Calm, Unlimited, Flights, Owns, Sized

LEMMA ReceivePlaced ==
    ASSUME Unlimited, Sized, Calm, NEW b \in Batches, NEW d \in Digests, Receive(b, d)
    PROVE  /\ \A e \in Digests : Placed(e)'
           /\ \A c \in Batches : Unfailed(c)'
           /\ Grows
<1> DEFINE written == IF batch[b].at = d THEN tmp[d] ELSE 0
<1>1. /\ batch[b].stage = "receive" /\ d \in batch[b].todo
      /\ Large(d) => /\ \A e \in batch[b].todo : Large(e)
                     /\ batch[b].at # None => batch[b].at = d
      /\ UNCHANGED <<disk, cached, pending, bootVars>>
    BY DEF Receive, Incoming, mapVars
<1>2. /\ phase = "up" /\ Unfailed(b) /\ Owns(b) /\ Entries /\ TypeOK
      /\ batch[b] \in BatchRecords /\ DOMAIN batch = Batches /\ d \in batch[b].items
      /\ \A e \in Digests : pending[e] = b => Carried(b, e)
    BY <1>1, Bringing DEF Unlimited
<1>3. pending[d] = b
    BY <1>1, <1>2 DEF Owns, Early
<1>4. batch[b].at # d => tmp[d] = NoTmp
    BY <1>1, <1>2, <1>3 DEF Carried
<1>5. batch[b].at # None => batch[b].at = d /\ Large(d)
    BY <1>1, <1>2 DEF Unfailed
<1>6. PICK n \in IF Large(d) THEN 1..(Size[d] - written) ELSE {Size[d]} :
        /\ tmp' = [tmp EXCEPT ![d] = written + n]
        /\ batch' = [batch EXCEPT
                ![b].todo = IF written + n = Size[d] THEN @ \ {d} ELSE @,
                ![b].at = IF written + n = Size[d] THEN None ELSE d]
    BY <1>4 DEF Receive
<1>7. ~Large(d) => written + n = Size[d]
    <2>1. Size[d] \in Nat /\ None # d
        BY FilesystemAssumption
    <2>2. ~Large(d) => batch[b].at # d
        BY <1>5, <2>1
    <2> QED BY <1>6, <2>1, <2>2
<1> DEFINE T == IF written + n = Size[d] THEN batch[b].todo \ {d} ELSE batch[b].todo
           a == IF written + n = Size[d] THEN None ELSE d
<1>8. /\ batch' = [batch EXCEPT ![b].todo = T, ![b].at = a]
      /\ T \subseteq batch[b].todo
      /\ d \in T => a = d
      /\ a # None => a = d /\ Large(d)
    BY <1>6, <1>7
<1> HIDE DEF T, a
<1>9. /\ batch'[b].todo = T /\ batch'[b].at = a /\ batch'[b].stage = batch[b].stage
      /\ batch'[b].future = batch[b].future /\ batch'[b].unread = batch[b].unread
      /\ \A c \in Batches : c # b => batch'[c] = batch[c]
    BY <1>2, <1>8 DEF BatchRecords
<1>10. \A e \in Digests : e # d => tmp'[e] = tmp[e]
    BY <1>2, <1>6 DEF TypeOK, DiskOK
<1>11. ASSUME NEW e \in Digests, pending[e] = b PROVE Carried(b, e)'
    <2>1. Carried(b, e)
        BY <1>2, <1>11
    <2>2. ASSUME e \in T, a # e PROVE tmp'[e] = NoTmp
        <3>1. e # d /\ e \in batch[b].todo
            BY <1>8, <2>2
        <3>2. batch[b].at # e
            BY <1>5, <3>1, Holders
        <3> QED BY <1>1, <1>10, <2>1, <3>1, <3>2 DEF Carried
    <2> QED BY <1>1, <1>9, <2>1, <2>2 DEF Carried, Installed, Exists
<1>12. Unfailed(b)'
    BY <1>1, <1>2, <1>8, <1>9 DEF Unfailed, Large
<1>13. \A e \in Digests : pending[e] # b => disk'[e] = disk[e] /\ tmp'[e] = tmp[e]
    BY <1>1, <1>3, <1>10
<1> QED BY <1>1, <1>2, <1>9, <1>11, <1>12, <1>13, CarriedPlaced

LEMMA ReceivedPlaced ==
    ASSUME Unlimited, Sized, Calm, NEW b \in Batches, Received(b)
    PROVE  /\ \A e \in Digests : Placed(e)'
           /\ \A c \in Batches : Unfailed(c)'
           /\ Grows
<1>1. batch[b].stage = "receive" /\ UNCHANGED <<disk, tmp, cached, pending, bootVars>>
    BY DEF Received, diskVars, mapVars
<1>2. /\ phase = "up" /\ Unfailed(b) /\ Entries /\ TypeOK
      /\ batch[b] \in BatchRecords /\ DOMAIN batch = Batches
      /\ \A e \in Digests : pending[e] = b => Carried(b, e) /\ e \in batch[b].items
    BY <1>1, Bringing DEF Unlimited
<1>3. batch' = [batch EXCEPT ![b].stage = "install", ![b].todo = batch[b].items]
    BY <1>2 DEF Received, Unfailed
<1>4. /\ batch'[b].todo = batch[b].items /\ batch'[b].stage = "install"
      /\ batch'[b].future = batch[b].future /\ batch'[b].unread = batch[b].unread
      /\ \A c \in Batches : c # b => batch'[c] = batch[c]
    BY <1>2, <1>3 DEF BatchRecords
<1>5. \A e \in Digests : pending[e] = b => Carried(b, e)'
    BY <1>1, <1>2, <1>4 DEF Carried, Installed, Exists
<1>6. Unfailed(b)'
    BY <1>2, <1>4 DEF Unfailed
<1> QED BY <1>1, <1>2, <1>4, <1>5, <1>6, CarriedPlaced

LEMMA InstallPlaced ==
    ASSUME Unlimited, Sized, Calm, NEW b \in Batches, NEW d \in Digests, Install(b, d)
    PROVE  /\ \A e \in Digests : Placed(e)'
           /\ \A c \in Batches : Unfailed(c)'
           /\ Grows
<1>1. /\ batch[b].stage = "install" /\ d \in batch[b].todo
      /\ UNCHANGED <<disk, tmp, cached, pending, bootVars>>
    BY DEF Install, IsFirst, diskVars, mapVars
<1>2. /\ phase = "up" /\ Unfailed(b) /\ Owns(b) /\ Entries /\ TypeOK
      /\ batch[b] \in BatchRecords /\ DOMAIN batch = Batches /\ d \in batch[b].items
      /\ \A e \in Digests : pending[e] = b => Carried(b, e)
    BY <1>1, Bringing DEF Unlimited
<1>3. pending[d] = b
    BY <1>1, <1>2 DEF Owns, Early
<1>4. ~Exists(d)
    BY <1>1, <1>2, <1>3 DEF Carried, Installed
<1>5. batch' = [batch EXCEPT ![b].stage = "rename", ![b].at = d]
    BY <1>4 DEF Install
<1>6. /\ batch'[b].todo = batch[b].todo /\ batch'[b].stage = "rename" /\ batch'[b].at = d
      /\ batch'[b].future = batch[b].future /\ batch'[b].unread = batch[b].unread
      /\ \A c \in Batches : c # b => batch'[c] = batch[c]
    BY <1>2, <1>5 DEF BatchRecords
<1>7. \A e \in Digests : pending[e] = b => Carried(b, e)'
    BY <1>1, <1>2, <1>6 DEF Carried, Installed, Exists
<1>8. Unfailed(b)'
    BY <1>2, <1>6 DEF Unfailed
<1> QED BY <1>1, <1>2, <1>6, <1>7, <1>8, CarriedPlaced

LEMMA RenamePlaced ==
    ASSUME Unlimited, Sized, Calm, NEW b \in Batches, NEW d \in Digests, Rename(b, d)
    PROVE  /\ \A e \in Digests : Placed(e)'
           /\ \A c \in Batches : Unfailed(c)'
           /\ Grows
<1>1. /\ batch[b].stage = "rename" /\ batch[b].at = d
      /\ UNCHANGED <<cached, pending, bootVars>>
    BY DEF Rename, mapVars
<1>2. /\ phase = "up" /\ Unfailed(b) /\ Owns(b) /\ TmpSized(b) /\ Entries /\ TypeOK
      /\ batch[b] \in BatchRecords /\ DOMAIN batch = Batches
      /\ batch[b].todo \subseteq batch[b].items
      /\ \A e \in Digests : pending[e] = b => Carried(b, e)
    BY <1>1, Bringing DEF Unlimited
<1>3. d \in batch[b].todo /\ pending[d] = b /\ tmp[d] = Size[d]
    BY <1>1, <1>2 DEF Owns, Early, TmpSized
<1>4. tmp[d] # NoTmp
    BY <1>3, FilesystemAssumption DEF NoTmp
<1>5. PICK s \in 1..MaxStamp :
        /\ disk' = [disk EXCEPT ![d] = [stamp |-> s, size |-> tmp[d], readonly |-> FALSE,
                                        intact |-> tmp[d] = Size[d]]]
        /\ tmp' = [tmp EXCEPT ![d] = NoTmp]
        /\ batch' = [batch EXCEPT ![b].stage = "chmod"]
    BY <1>4 DEF Rename
<1>6. /\ batch'[b].todo = batch[b].todo /\ batch'[b].stage = "chmod" /\ batch'[b].at = d
      /\ batch'[b].future = batch[b].future /\ batch'[b].unread = batch[b].unread
      /\ \A c \in Batches : c # b => batch'[c] = batch[c]
    BY <1>1, <1>2, <1>5 DEF BatchRecords
<1>7. /\ disk'[d].stamp = s /\ s # 0 /\ tmp'[d] = NoTmp
      /\ \A e \in Digests : e # d => disk'[e] = disk[e] /\ tmp'[e] = tmp[e]
    BY <1>2, <1>5, FilesystemAssumption DEF TypeOK, DiskOK
<1>8. disk'[d] # NoFile
    BY <1>7 DEF NoFile
<1>9. ASSUME NEW e \in Digests, pending[e] = b PROVE Carried(b, e)'
    <2>1. Carried(b, e)
        BY <1>2, <1>9
    <2>2. CASE e = d
        BY <1>1, <1>6, <1>7, <1>8, <2>1, <2>2 DEF Carried, Installed, Exists
    <2>3. CASE e # d
        BY <1>1, <1>6, <1>7, <2>1, <2>3 DEF Carried, Installed, Exists
    <2> QED BY <2>2, <2>3
<1>10. Unfailed(b)'
    BY <1>2, <1>3, <1>6 DEF Unfailed
<1>11. \A e \in Digests : pending[e] # b => disk'[e] = disk[e] /\ tmp'[e] = tmp[e]
    BY <1>3, <1>7
<1> QED BY <1>1, <1>2, <1>6, <1>9, <1>10, <1>11, CarriedPlaced

LEMMA ChmodPlaced ==
    ASSUME Unlimited, Sized, Calm, NEW b \in Batches, NEW d \in Digests, Chmod(b, d)
    PROVE  /\ \A e \in Digests : Placed(e)'
           /\ \A c \in Batches : Unfailed(c)'
           /\ Grows
<1>1. /\ batch[b].stage = "chmod" /\ batch[b].at = d
      /\ UNCHANGED <<tmp, cached, pending, bootVars>>
    BY DEF Chmod, mapVars
<1>2. /\ phase = "up" /\ Unfailed(b) /\ Owns(b) /\ Entries /\ TypeOK
      /\ batch[b] \in BatchRecords /\ DOMAIN batch = Batches
      /\ batch[b].todo \subseteq batch[b].items
      /\ \A e \in Digests : pending[e] = b => Carried(b, e)
    BY <1>1, Bringing DEF Unlimited
<1>3. d \in batch[b].todo /\ pending[d] = b
    BY <1>1, <1>2 DEF Owns, Early, Unfailed
<1>4. Exists(d) /\ tmp[d] = NoTmp
    BY <1>1, <1>2, <1>3 DEF Carried, Installed
<1> DEFINE s == IF batch[b].todo = {d} THEN "installed" ELSE "install"
<1>5. /\ disk' = [disk EXCEPT ![d].readonly = TRUE]
      /\ batch' = [batch EXCEPT ![b].todo = @ \ {d}, ![b].at = None, ![b].stage = s]
    BY <1>4 DEF Chmod
<1>6. (s = "installed" /\ batch[b].todo = {d}) \/ s = "install"
    OBVIOUS
<1> HIDE DEF s
<1>7. /\ batch'[b].todo = batch[b].todo \ {d} /\ batch'[b].stage = s
      /\ batch'[b].at = None
      /\ batch'[b].future = batch[b].future /\ batch'[b].unread = batch[b].unread
      /\ \A c \in Batches : c # b => batch'[c] = batch[c]
    BY <1>2, <1>5 DEF BatchRecords
<1>8. \A e \in Digests : e # d => disk'[e] = disk[e]
    BY <1>2, <1>5 DEF TypeOK, DiskOK
<1>9. disk'[d] # NoFile
    <2>1. disk[d] \in [stamp : 1..MaxStamp, size : Nat, readonly : BOOLEAN, intact : BOOLEAN]
        BY <1>2, <1>4 DEF TypeOK, DiskOK, Exists, Files
    <2>2. disk'[d].stamp = disk[d].stamp /\ disk[d].stamp # 0
        BY <1>2, <1>5, <2>1, FilesystemAssumption DEF TypeOK, DiskOK
    <2> QED BY <2>2 DEF NoFile
<1>10. ASSUME NEW e \in Digests, pending[e] = b PROVE Carried(b, e)'
    <2>1. Carried(b, e)
        BY <1>2, <1>10
    <2>2. CASE e = d
        BY <1>1, <1>4, <1>6, <1>7, <1>9, <2>1, <2>2 DEF Carried, Installed, Exists
    <2>3. CASE e # d
        BY <1>1, <1>6, <1>7, <1>8, <2>1, <2>3 DEF Carried, Installed, Exists
    <2> QED BY <2>2, <2>3
<1>11. Unfailed(b)'
    BY <1>2, <1>6, <1>7 DEF Unfailed
<1>12. \A e \in Digests : pending[e] # b => disk'[e] = disk[e] /\ tmp'[e] = tmp[e]
    BY <1>1, <1>3, <1>8
<1> QED BY <1>1, <1>2, <1>7, <1>10, <1>11, <1>12, CarriedPlaced

LEMMA LockPlaced ==
    ASSUME Unlimited, Sized, Calm, NEW b \in Batches, Lock(b)
    PROVE  /\ \A e \in Digests : Placed(e)'
           /\ \A c \in Batches : Unfailed(c)'
           /\ Grows
<1>1. /\ batch[b].stage \in {"failed", "installed"}
      /\ UNCHANGED <<disk, tmp, cached, pending, bootVars>>
    BY DEF Lock, diskVars, mapVars
<1>2. /\ phase = "up" /\ Unfailed(b) /\ Entries /\ TypeOK
      /\ batch[b] \in BatchRecords /\ DOMAIN batch = Batches
      /\ \A e \in Digests : pending[e] = b => Carried(b, e)
    BY <1>1, Bringing DEF Unlimited
<1>3. batch[b].stage = "installed"
    BY <1>1, <1>2 DEF Unfailed
<1>4. batch' = [batch EXCEPT ![b].stage = "register", ![b].todo = batch[b].items]
    BY <1>2, <1>3 DEF Lock, BatchRecords
<1>5. /\ batch'[b].stage = "register"
      /\ batch'[b].future = batch[b].future /\ batch'[b].unread = batch[b].unread
      /\ \A c \in Batches : c # b => batch'[c] = batch[c]
    BY <1>2, <1>4 DEF BatchRecords
<1>6. \A e \in Digests : pending[e] = b => Carried(b, e)'
    BY <1>1, <1>2, <1>3, <1>5 DEF Carried, Installed, Exists
<1>7. Unfailed(b)'
    BY <1>2, <1>5 DEF Unfailed
<1> QED BY <1>1, <1>2, <1>5, <1>6, <1>7, CarriedPlaced

LEMMA RegisterPlaced ==
    ASSUME Unlimited, Sized, Calm, NEW b \in Batches, NEW d \in Digests, Register(b, d)
    PROVE  /\ \A e \in Digests : Placed(e)'
           /\ \A c \in Batches : Unfailed(c)'
           /\ Grows
<1>1. /\ batch[b].stage \in {"register", "register stat"} /\ d \in batch[b].todo
      /\ UNCHANGED <<disk, tmp, bootVars>>
    BY DEF Register, IsFirst, diskVars
<1>2. /\ phase = "up" /\ Unfailed(b) /\ Owns(b) /\ Entries /\ TypeOK
      /\ batch[b] \in BatchRecords /\ DOMAIN batch = Batches
      /\ batch[b].todo \subseteq batch[b].items
      /\ \A e \in Digests : pending[e] = b => Carried(b, e) /\ e \in batch[b].items
    BY <1>1, Bringing DEF Unlimited
<1>3. pending[d] = b
    BY <1>1, <1>2 DEF Owns, Late
<1>4. Exists(d) /\ tmp[d] = NoTmp
    BY <1>1, <1>2, <1>3 DEF Carried, Installed
<1>5. CASE batch[b].stage = "register"
    <2>1. batch' = [batch EXCEPT ![b].stage = "register stat"] /\ UNCHANGED <<cached, pending>>
        BY <1>4, <1>5 DEF Register, mapVars
    <2>2. /\ batch'[b].stage = "register stat"
          /\ batch'[b].future = batch[b].future /\ batch'[b].unread = batch[b].unread
          /\ \A c \in Batches : c # b => batch'[c] = batch[c]
        BY <1>2, <2>1 DEF BatchRecords
    <2>3. \A e \in Digests : pending[e] = b => Carried(b, e)'
        BY <1>1, <1>2, <2>2 DEF Carried, Installed, Exists
    <2>4. Unfailed(b)'
        BY <1>2, <2>2 DEF Unfailed
    <2> QED BY <1>1, <1>2, <2>1, <2>2, <2>3, <2>4, CarriedPlaced
<1>6. CASE batch[b].stage = "register stat"
    <2>1. /\ cached' = [cached EXCEPT ![d] = FileCacheInfo(disk[d])]
          /\ Settled(b, d, "register", "ok")
        BY <1>4, <1>6 DEF Register
    <2>2. /\ cached'[d] = FileCacheInfo(disk[d]) /\ pending'[d] = None
          /\ \A e \in Digests : e # d => cached'[e] = cached[e] /\ pending'[e] = pending[e]
        BY <1>2, <2>1 DEF Settled, TypeOK, MapsOK
    <2>3. cached'[d] # NoInfo
        BY <1>2, <1>4, <2>2, StatType DEF TypeOK
    <2>4. /\ \A c \in Batches : c # b => batch'[c] = batch[c]
          /\ Unfailed(b)'
          /\ batch[b].todo # {d} => /\ batch'[b].stage = "register"
                                    /\ batch'[b].future = batch[b].future
        <3>1. CASE batch[b].todo = {d}
            <4>1. batch' = [batch EXCEPT ![b] =
                        [IdleBatch EXCEPT !.stage = "done", !.future = "ok"]]
                BY <2>1, <3>1 DEF Settled
            <4> QED BY <1>2, <3>1, <4>1 DEF Unfailed, IdleBatch
        <3>2. CASE batch[b].todo # {d}
            <4>1. batch' = [batch EXCEPT ![b].stage = "register", ![b].todo = @ \ {d}]
                BY <2>1, <3>2 DEF Settled
            <4> QED BY <1>2, <4>1 DEF Unfailed, BatchRecords
        <3> QED BY <3>1, <3>2
    <2>5. ASSUME NEW e \in Digests, pending[e] = b
          PROVE  Placed(e)' /\ (pending'[e] = b \/ cached'[e] # NoInfo)
        <3>1. CASE e = d
            BY <1>1, <1>2, <1>4, <2>2, <2>3, <3>1 DEF Placed, bootVars
        <3>2. CASE e # d
            <4>1. e \in batch[b].todo /\ Carried(b, e)
                BY <1>1, <1>2, <2>5, Holders DEF Owns, Late
            <4>2. batch[b].todo # {d}
                BY <3>2, <4>1
            <4>3. Carried(b, e)'
                BY <1>1, <1>6, <2>4, <4>1, <4>2 DEF Carried, Installed, Exists
            <4>4. cached[e] = NoInfo
                BY <2>5, Holders, <1>2 DEF Entries, CachedNames
            <4> QED BY <1>1, <1>2, <2>2, <2>5, <3>2, <4>3, <4>4, Holders DEF Placed, bootVars
        <3> QED BY <3>1, <3>2
    <2>6. \A e \in Digests : pending[e] # b =>
            /\ disk'[e] = disk[e] /\ tmp'[e] = tmp[e]
            /\ cached'[e] = cached[e] /\ pending'[e] = pending[e]
        BY <1>1, <1>3, <2>2
    <2> QED BY <1>1, <1>2, <2>4, <2>5, <2>6, ItemsPlaced
<1> QED BY <1>1, <1>5, <1>6

\* A batch goes from its download to its registration.
LEMMA BatchCalm ==
    ASSUME Unlimited, Sized, Calm, NEW b \in Batches, BatchStep(b), Faults \subseteq {"restart"}
    PROVE  Calm'
<1>1. ASSUME NEW d \in Digests PROVE ~ReceiveFault(b, d) /\ ~Clean(b, d)
    <2>1. ~Clean(b, d)
        BY DEF Clean, Calm, Unfailed
    <2> QED BY <2>1 DEF ReceiveFault
<1>2. /\ \A e \in Digests : Placed(e)'
      /\ \A c \in Batches : Unfailed(c)'
      /\ Grows
    BY <1>1, ReceivedPlaced, LockPlaced, ReceivePlaced, InstallPlaced, RenamePlaced,
       ChmodPlaced, RegisterPlaced DEF BatchStep
<1>3. UNCHANGED thread /\ TypeOK
    BY BatchEffect DEF Unlimited
<1>4. \A t \in Fetchers : Smooth(t)'
    BY <1>2, <1>3, SmoothFrame DEF Calm
<1> QED BY <1>2, <1>4 DEF Calm

\* A call finds what it waited for.
LEMMA CallCalm ==
    ASSUME Unlimited, Calm, MaxSize = 0, NEW t \in Fetchers, FetchStep(t)
    PROVE  Calm'
<1>1. TypeOK /\ Flights /\ Unevicting
    BY DEF Unlimited
<1>2. /\ \A e \in Digests : Placed(e)'
      /\ \A c \in Batches : Unfailed(c)'
      /\ Grows
    <2>1. CASE ~Plan(t) /\ ~Submit(t)
        BY <1>1, <2>1, CallLeaves, PlacedFrame
    <2> QED BY <1>1, <2>1, PlanPlaced, SubmitPlaced
<1>3. ~Evict(t) /\ ~Drop(t)
    BY DEF Evict, Drop, Calm, Smooth, SmoothCall
<1>4. Smooth(t)'
    BY <1>1, <1>3, WaitSmooth, LinkSmooth DEF FetchStep
<1>5. \A u \in Fetchers : u # t => thread'[u] = thread[u]
    <2>1. CASE Plan(t)
        BY <1>1, <2>1, PlanEffect
    <2>2. CASE Submit(t)
        BY <1>1, <2>2 DEF Submit, TypeOK, ThreadsOK
    <2>3. CASE ~Plan(t) /\ ~Submit(t)
        BY <1>1, <1>3, <2>3, CallEffect, DropEffect DEF FetchStep
    <2> QED BY <2>1, <2>2, <2>3
<1>6. \A u \in Fetchers : u # t => Smooth(u)'
    BY <1>1, <1>2, <1>5, SmoothFrame DEF Calm
<1> QED BY <1>2, <1>4, <1>6 DEF Calm

\* init() enters all it finds.
LEMMA BootCalm ==
    ASSUME Unlimited, Sized, Calm, MaxSize = 0, Boot
    PROVE  Calm'
<1>1. /\ phase # "up" /\ UNCHANGED <<thread, batch, pending>>
      /\ disk \in [Digests -> Files] /\ cached \in [Digests -> Infos]
    BY DEF Boot, Verify, Admit, mapVars, Unlimited, TypeOK, DiskOK, MapsOK
<1>2. /\ \A t \in Fetchers : thread[t].pc = "idle"
      /\ \A d \in booting : Exists(d)
      /\ \A d \in Digests : pending[d] = None
      /\ phase = "verify" => \A d \in Digests : cached[d] = NoInfo
    BY <1>1 DEF Unlimited, BootQuiet, Sized, Booted, PendingNames, CachedNames
<1>3. \A t \in Fetchers : Smooth(t)'
    BY <1>1, <1>2 DEF Calm, Smooth, SmoothCall
<1>4. \A b \in Batches : Unfailed(b)'
    BY <1>1 DEF Calm, Unfailed
<1>5. ASSUME NEW e \in Digests PROVE Placed(e)'
    <2>1. Placed(e)
        BY DEF Calm
    <2>2. CASE Verify
        <3>1. /\ cached'[e] = NoInfo /\ tmp'[e] = NoTmp
              /\ e \notin booting' => disk'[e] = NoFile
              /\ phase' = "up" => booting' = {}
            BY <1>2, <2>2 DEF Verify, mapVars
        <3> QED BY <1>1, <1>2, <3>1 DEF Placed, Exists
    <2>3. ASSUME NEW d \in Digests, Admit(d) PROVE Placed(e)'
        <3>1. /\ phase = "admit" /\ d \in booting /\ booting' = booting \ {d}
              /\ phase' = (IF booting = {d} THEN "up" ELSE "admit")
              /\ UNCHANGED <<disk, tmp>>
              /\ cached'[d] = FileCacheInfo(disk[d])
              /\ e # d => cached'[e] = cached[e]
            BY <1>1, <2>3 DEF Admit
        <3>2. Exists(d) /\ cached'[d] # NoInfo
            BY <1>1, <1>2, <3>1, StatType DEF DiskOK, Unlimited, TypeOK
        <3>3. tmp[e] = NoTmp /\ (e \notin booting /\ cached[e] = NoInfo => ~Exists(e))
            BY <2>1, <3>1 DEF Placed
        <3> QED BY <1>1, <1>2, <2>1, <3>1, <3>2, <3>3 DEF Placed, Exists
    <2> QED BY <2>2, <2>3 DEF Boot
<1> QED BY <1>3, <1>4, <1>5 DEF Calm

LEMMA CalmStep ==
    ASSUME Unlimited, Sized, Calm, MaxSize = 0, Faults \subseteq {"restart"}, [Next]_vars
    PROVE  Calm'
<1>1. TypeOK
    BY DEF Unlimited
<1>2. ASSUME NEW t \in Fetchers, NEW files \in Requests, Fetch(t, files) PROVE Calm'
    <2>1. /\ thread' = [thread EXCEPT ![t] =
                [IdleThread EXCEPT !.pc = "plan", !.request = files, !.files = files]]
          /\ UNCHANGED <<disk, tmp, cached, pending, batch, bootVars>>
        BY <1>2 DEF Fetch, diskVars, mapVars
    <2>2. /\ \A e \in Digests : Placed(e)'
          /\ \A c \in Batches : Unfailed(c)'
          /\ Grows
        BY <1>1, <2>1, PlacedFrame
    <2>3. Smooth(t)'
        BY <1>1, <2>1 DEF Smooth, SmoothCall, IdleThread, TypeOK, ThreadsOK
    <2>4. \A u \in Fetchers : u # t => Smooth(u)'
        BY <1>1, <2>1, <2>2, SmoothFrame DEF Calm, TypeOK, ThreadsOK
    <2> QED BY <2>2, <2>3, <2>4 DEF Calm
<1>3. CASE Restart
    <2>1. \A d \in Digests : Placed(d)'
        BY <1>3 DEF Restart, Placed
    <2>2. \A b \in Batches : Unfailed(b)'
        BY <1>3 DEF Restart, Unfailed, IdleBatch
    <2>3. \A t \in Fetchers : Smooth(t)'
        BY <1>3 DEF Restart, Smooth, SmoothCall, IdleThread
    <2> QED BY <2>1, <2>2, <2>3 DEF Calm
<1>4. ~ \E d \in Digests : Delete(d) \/ Rewrite(d)
    BY DEF Delete, Rewrite
<1>5. CASE UNCHANGED vars
    <2>1. UNCHANGED <<disk, tmp, cached, pending, batch, thread, bootVars>>
        BY <1>5 DEF vars, diskVars, mapVars
    <2>2. /\ \A e \in Digests : Placed(e)'
          /\ \A c \in Batches : Unfailed(c)'
          /\ Grows
        BY <1>1, <2>1, PlacedFrame
    <2>3. \A t \in Fetchers : Smooth(t)'
        BY <1>1, <2>1, <2>2, SmoothFrame DEF Calm
    <2> QED BY <2>2, <2>3 DEF Calm
<1> QED BY <1>2, <1>3, <1>4, <1>5, BatchCalm, CallCalm, BootCalm DEF Next

LEMMA CalmInit == Init => Calm
<1> SUFFICES ASSUME Init PROVE Calm
    OBVIOUS
<1>1. \A d \in Digests : Placed(d)
    BY DEF Init, Placed, Exists
<1>2. \A b \in Batches : Unfailed(b)
    BY DEF Init, Unfailed, IdleBatch
<1>3. \A t \in Fetchers : Smooth(t)
    BY DEF Init, Smooth, SmoothCall, IdleThread
<1> QED BY <1>1, <1>2, <1>3 DEF Calm

\* When the CAS answers with what it was asked for and nobody else touches the
\* cache directory, fetch_to raises nothing but MaxSizeReached, however calls,
\* batches and restarts interleave: what it waited for is in _cached_files
\* when it takes its snapshot, and there, with the same status, when it links.
THEOREM NothingIsRaised ==
    ASSUME MaxSize = 0, Faults \subseteq {"restart"}
    PROVE  Spec => []NeverRaises
<1>1. Init => Unlimited /\ Sized /\ Calm
    BY UnlimitedInit, CalmInit, KeptInit DEF Kept
<1>2. Unlimited /\ Sized /\ Calm /\ [Next]_vars => Unlimited' /\ Sized' /\ Calm'
    BY UnlimitedStep, SizedStep, CalmStep DEF Unlimited
<1>3. Calm => NeverRaises
    BY DEF Calm, Smooth, SmoothCall, NeverRaises
<1> QED BY <1>1, <1>2, <1>3, PTL DEF Spec

\* With nothing under way the files are those of the entries.
LEMMA QuietLedger ==
    ASSUME Unlimited, Sized, Calm, Quiet
    PROVE  current = SizeOf([d \in Digests |-> disk[d].size], Digests)
                        + SizeOf([d \in Digests |-> tmp[d]], {d \in Digests : tmp[d] # NoTmp})
<1>1. TypeOK /\ phase = "up"
    BY DEF Unlimited, Quiet
<1>2. \A d \in Digests : pending[d] = None
    BY DEF Unlimited, Brought, Quiet, TypeOK, MapsOK
<1>3. ASSUME NEW d \in Digests PROVE tmp[d] = NoTmp /\ (Exists(d) <=> d \in CachedNames)
    BY <1>1, <1>2, NoFileInfo DEF Calm, Placed, CachedNames, Exists
<1>4. current = SizeOf(Size, CachedNames)
    <2>1. PendingNames = {}
        BY <1>2 DEF PendingNames
    <2> QED BY <2>1 DEF Sized, Books
<1>5. SizeOf([d \in Digests |-> disk[d].size], Digests) = SizeOf(Size, CachedNames)
    BY <1>1, <1>3, DiskSize DEF Sized, FilesSized
<1>6. SizeOf([d \in Digests |-> tmp[d]], {d \in Digests : tmp[d] # NoTmp}) = 0
    <2>1. {d \in Digests : tmp[d] # NoTmp} = {}
        BY <1>3
    <2> QED BY <2>1, SizeOfEmpty
<1>7. SizeOf(Size, CachedNames) \in Nat
    <2>1. CachedNames \in SUBSET Digests
        BY DEF CachedNames
    <2> QED BY <2>1, HeldAdds
<1> QED BY <1>4, <1>5, <1>6, <1>7

\* Then the cache directory holds as many bytes as _current_size_bytes says
\* whenever nothing is under way: there is no ".tmp" file and no file without
\* an entry left behind, and no entry or reservation without its file.
THEOREM LedgerMatches ==
    ASSUME MaxSize = 0, Faults \subseteq {"restart"}
    PROVE  Spec => []DiskMatchesLedger
<1>1. Init => Unlimited /\ Sized /\ Calm
    BY UnlimitedInit, CalmInit, KeptInit DEF Kept
<1>2. Unlimited /\ Sized /\ Calm /\ [Next]_vars => Unlimited' /\ Sized' /\ Calm'
    BY UnlimitedStep, SizedStep, CalmStep DEF Unlimited
<1>3. Unlimited /\ Sized /\ Calm => DiskMatchesLedger
    BY QuietLedger DEF DiskMatchesLedger
<1> QED BY <1>1, <1>2, <1>3, PTL DEF Spec

-----------------------------------------------------------------------------
(* The store that callers count on *)

\* What fits is told by the same sums.
LEMMA StoreFits ==
    ASSUME NEW S
    PROVE  Store!Fits(S) <=> (MaxSize > 0 => SizeOf(Size, S) <= MaxSize)
<1>1. \A T : Store!Cardinality(T) = Cardinality(T)
    BY DEF Cardinality, Store!Cardinality
<1> QED BY <1>1 DEF Store!Fits, Store!SizeOf, Store!Bytes, SizeOf, Bytes

\* What is held and what is coming fit, for the total is their size.
Roomy == Kept /\ Served /\ WithinBudget

LEMMA HeldFits ==
    ASSUME Roomy
    PROVE  Store!Fits(CachedNames \cup PendingNames)
BY StoreFits DEF Roomy, Kept, Sized, Books, WithinBudget

\* A call under way is open, one that has ended keeps what it came to.
LEMMA OpenCall ==
    ASSUME NEW r, r.pc # "idle"
    PROVE  CallOf(r) = [state |-> "open", request |-> r.request,
                        given |-> {n \in Nodes : r.linked[n] = "whole"}]
BY DEF CallOf

LEMMA EndedCall ==
    ASSUME NEW o \in Outcomes \ {"none"}
    PROVE  CallOf([IdleThread EXCEPT !.outcome = o])
                = Store!Ended(IF o = "ok" THEN "ok" ELSE "failed")
<1> DEFINE r == [IdleThread EXCEPT !.outcome = o]
<1>1. r.pc = "idle" /\ r.outcome = o /\ r.request = <<>> /\ \A n \in Nodes : r.linked[n] = "no"
    BY DEF IdleThread
<1> HIDE DEF r
<1>2. {n \in Nodes : r.linked[n] = "whole"} = {}
    BY <1>1
<1> QED BY <1>1, <1>2 DEF CallOf, Store!Ended, r

\* Of a step of its call a caller sees the end, or that a file is linked.
LEMMA CallShows ==
    ASSUME TypeOK, NEW t \in Fetchers, thread[t].pc # "idle", phase' = "up", ServedBy(thread[t]),
           Serves(t)
    PROVE  \/ CallOf(thread'[t]) = Store!Ended("failed")
           \/ /\ CallOf(thread'[t]) = Store!Ended("ok")
              /\ Members(thread[t].request) \subseteq CallOf(thread[t]).given
           \/ CallOf(thread'[t]) = CallOf(thread[t])
           \/ \E n \in Members(thread[t].request) :
                CallOf(thread'[t]) = [CallOf(thread[t]) EXCEPT !.given = @ \cup {n}]
<1>1. /\ thread[t].linked \in [Nodes -> {"no", "whole", "broken"}]
      /\ thread[t].request \in Seq(Nodes) /\ Members(thread[t].request) \subseteq Nodes
    BY ThreadType, MembersType DEF TypeOK
<1> DEFINE given == {n \in Nodes : thread[t].linked[n] = "whole"}
<1>2. CallOf(thread[t]) = [state |-> "open", request |-> thread[t].request, given |-> given]
    BY OpenCall
<1>3. CASE thread'[t].pc = "idle"
    <2>1. PICK o \in Outcomes \ {"none"} : thread'[t] = [IdleThread EXCEPT !.outcome = o]
        BY <1>3 DEF Serves
    <2>2. CallOf(thread'[t]) = Store!Ended(IF o = "ok" THEN "ok" ELSE "failed")
        BY <2>1, EndedCall
    <2>3. CASE o = "ok"
        <3>1. thread'[t].outcome = "ok"
            BY <2>1, <2>3 DEF IdleThread
        <3>2. AllLinked(thread[t])
            BY <3>1 DEF Serves
        <3>3. Members(thread[t].request) \subseteq given
            BY <1>1, <3>2 DEF AllLinked, Members
        <3> QED BY <1>2, <2>2, <2>3, <3>3
    <2> QED BY <2>2, <2>3
<1>4. CASE thread'[t].pc # "idle"
    <2>1. thread'[t].request = thread[t].request /\ Listed(thread[t]) \subseteq Nodes
        BY <1>1, <1>4 DEF Serves, ServedBy
    <2>2. CallOf(thread'[t]) = [state |-> "open", request |-> thread[t].request,
                                given |-> {n \in Nodes : thread'[t].linked[n] = "whole"}]
        BY <1>4, <2>1, OpenCall
    <2>3. CASE thread'[t].linked = thread[t].linked
        BY <1>2, <2>2, <2>3
    <2>4. ASSUME NEW n \in Listed(thread[t]),
                 thread'[t].linked = [thread[t].linked EXCEPT ![n] = "whole"]
          PROVE  /\ n \in Members(thread[t].request)
                 /\ CallOf(thread'[t]) = [CallOf(thread[t]) EXCEPT !.given = @ \cup {n}]
        <3>1. n \in Members(thread[t].request) /\ n \in Nodes
            BY <2>1 DEF ServedBy
        <3>2. {m \in Nodes : thread'[t].linked[m] = "whole"} = given \cup {n}
            BY <1>1, <2>4, <3>1
        <3> HIDE DEF given
        <3> QED BY <1>2, <2>2, <3>1, <3>2
    <2> QED BY <1>4, <2>3, <2>4 DEF Serves
<1> QED BY <1>3, <1>4

\* One call moves.
LEMMA OneCall ==
    ASSUME NEW t \in Fetchers, \A u \in Fetchers : u # t => thread'[u] = thread[u],
           NEW c, CallOf(thread'[t]) = c
    PROVE  [u \in Fetchers |-> CallOf(thread'[u])]
                = [[u \in Fetchers |-> CallOf(thread[u])] EXCEPT ![t] = c]
OBVIOUS

\* No step of a call but its plan, and what it forgets, touches the maps.
LEMMA CallStore ==
    ASSUME Roomy, NEW t \in Fetchers, thread[t].pc # "idle", Serves(t),
           \A u \in Fetchers : u # t => thread'[u] = thread[u],
           UNCHANGED <<cached, pending, phase>>
    PROVE  [Store!Next]_(Store!vars)
<1> DEFINE call == [u \in Fetchers |-> CallOf(thread[u])]
           callNext == [u \in Fetchers |-> CallOf(thread'[u])]
<1>1. phase = "up" /\ TypeOK /\ ServedBy(thread[t])
    BY DEF Roomy, Kept, BootQuiet, Served
<1>2. UNCHANGED <<CachedNames, PendingNames, phase = "up">>
    BY DEF CachedNames, PendingNames
<1>3. \A c : CallOf(thread'[t]) = c => callNext = [call EXCEPT ![t] = c]
    BY OneCall
<1>4. /\ call[t] = CallOf(thread[t]) /\ call[t].state = "open"
      /\ call[t].request = thread[t].request
    BY OpenCall
<1>5. Store!Open(t) /\ Store!Asked(t) = Members(thread[t].request)
    BY <1>4 DEF Store!Open, Store!Asked, Members
<1>6. CASE CallOf(thread'[t]) = Store!Ended("failed")
    <2>1. Store!GiveUp(t)
        BY <1>2, <1>3, <1>5, <1>6 DEF Store!GiveUp
    <2> QED BY <2>1 DEF Store!Next
<1>7. CASE /\ CallOf(thread'[t]) = Store!Ended("ok")
           /\ Members(thread[t].request) \subseteq CallOf(thread[t]).given
    <2>1. Store!Return(t)
        BY <1>2, <1>3, <1>4, <1>5, <1>7 DEF Store!Return
    <2> QED BY <2>1 DEF Store!Next
<1>8. CASE CallOf(thread'[t]) = CallOf(thread[t])
    <2>1. callNext = call
        BY <1>8
    <2> QED BY <1>2, <2>1 DEF Store!vars
<1>9. ASSUME NEW n \in Members(thread[t].request),
             CallOf(thread'[t]) = [CallOf(thread[t]) EXCEPT !.given = @ \cup {n}]
      PROVE  Store!Next
    <2>1. callNext = [call EXCEPT ![t].given = @ \cup {n}]
        BY <1>3, <1>4, <1>9
    <2>2. Store!Give(t, n)
        BY <1>2, <1>5, <2>1 DEF Store!Give
    <2> QED BY <1>5, <2>2 DEF Store!Next
<1> QED BY <1>1, <1>6, <1>7, <1>8, <1>9, CallShows

\* A plan keeps what its caller sees.
LEMMA PlanShows ==
    ASSUME TypeOK, NEW t \in Fetchers, Plan(t)
    PROVE  CallOf(thread'[t]) = CallOf(thread[t])
<1> DEFINE files == thread[t].files
           f == {pending'[d] : d \in DigestsOf(files) \ CachedNames}
           q == IF Victims(files) # {} THEN "evict"
                ELSE IF Missing(files) # {} THEN "submit" ELSE "wait"
<1>1. thread[t] \in ThreadFields /\ DOMAIN thread = Fetchers /\ thread[t].pc # "idle"
    BY ThreadType DEF TypeOK, ThreadsOK, Plan
<1>2. PICK list, p : thread' = [thread EXCEPT ![t].evicting = list, ![t].planned = p,
                                    ![t].futures = f, ![t].pc = q]
    BY DEF Plan
<1>3. q # "idle"
    OBVIOUS
<1> HIDE DEF f, q
<1>4. /\ thread'[t].pc # "idle" /\ thread'[t].request = thread[t].request
      /\ thread'[t].linked = thread[t].linked
    BY <1>1, <1>2, <1>3 DEF ThreadFields
<1> QED BY <1>1, <1>4, OpenCall

\* The last entry that a plan evicts is needed: without it the rest of the
\* victims release too little.
LEMMA LastVictimNeeded ==
    ASSUME Roomy, MaxSize > 0, NEW files \in Seq(Nodes), Victims(files) # {}
    PROVE  \E d \in Victims(files) :
                ~Store!Fits((CachedNames \ (Victims(files) \ {d})) \cup PendingNames
                                \cup Missing(files))
<1> DEFINE V == Victims(files)
           missing == Missing(files)
           S == CachedNames \cup PendingNames
<1>1. /\ MapsOK /\ V \subseteq CachedNames /\ missing \in SUBSET Digests
      /\ S \in SUBSET Digests /\ missing \cap S = {}
    BY DigestsOfType DEF Roomy, Kept, TypeOK, Victims, Missing, CachedNames, PendingNames
<1>2. PICK d \in V : \A e \in V : <<d, e>> \notin older
    BY <1>1, NewestEntry
<1> DEFINE W == V \ {d}
           B == {e \in CachedNames : <<e, d>> \in older}
           sz == [e \in Digests |-> cached[e].size]
<1>3. StSize(B) < Need(files)
    BY FilesystemAssumption DEF Victims
<1>4. W \subseteq B
    BY <1>1, <1>2 DEF MapsOK, Orders
<1>5. /\ W \subseteq CachedNames /\ W \in SUBSET Digests /\ B \in SUBSET Digests
      /\ PendingNames \cap W = {}
    BY <1>1 DEF CachedNames, PendingNames, Roomy, Kept, Sized, Entries
<1> HIDE DEF B, W
<1>6. SizeOf(Size, W) < Need(files)
    <2>1. sz \in [Digests -> Nat] /\ IsFiniteSet(B)
        BY <1>1, <1>5, StSizeType
    <2>2. \A e \in W : sz[e] = Size[e]
        BY <1>5 DEF Roomy, Kept, Sized, Entries, CachedNames
    <2>3. SizeOf(Size, W) = SizeOf(sz, W)
        BY <2>2, SizeOfAgree
    <2> HIDE DEF sz
    <2>4. /\ SizeOf(sz, B) = SizeOf(sz, W) + SizeOf(sz, B \ W)
          /\ SizeOf(sz, W) \in Nat /\ SizeOf(sz, B \ W) \in Nat
        BY <1>4, <1>5, <2>1, SizeOfSplit
    <2>5. StSize(B) = SizeOf(sz, B)
        BY DEF StSize, sz
    <2>6. Need(files) \in Int
        <3>1. SizeOf(Size, missing) \in Nat /\ current \in Int /\ MaxSize \in Nat
            BY <1>1, StSizeType, FilesystemAssumption DEF MapsOK
        <3> QED BY <3>1 DEF Need
    <2> QED BY <1>3, <2>3, <2>4, <2>5, <2>6
<1>7. SizeOf(Size, (S \ W) \cup missing) > MaxSize
    <2> HIDE DEF S, V, missing
    <2>1. W \in SUBSET S /\ (S \ W) \cap missing = {} /\ S \ W \in SUBSET Digests
        BY <1>1, <1>5 DEF S
    <2>2. /\ IsFiniteSet(S) /\ IsFiniteSet(S \ W) /\ IsFiniteSet(missing)
          /\ Size \in [Digests -> Nat]
        BY <1>1, FilesystemAssumption, FS_Subset
    <2>3. /\ SizeOf(Size, S) = SizeOf(Size, W) + SizeOf(Size, S \ W)
          /\ SizeOf(Size, W) \in Nat /\ SizeOf(Size, S \ W) \in Nat
        BY <1>1, <2>1, <2>2, SizeOfSplit
    <2>4. /\ SizeOf(Size, (S \ W) \cup missing) = SizeOf(Size, S \ W) + SizeOf(Size, missing)
          /\ SizeOf(Size, missing) \in Nat
        <3> DEFINE rest == S \ W
        <3>1. /\ rest \in SUBSET Digests /\ missing \in SUBSET Digests
              /\ IsFiniteSet(rest) /\ IsFiniteSet(missing) /\ rest \cap missing = {}
            BY <1>1, <2>1, <2>2
        <3> HIDE DEF rest
        <3>2. SizeOf(Size, rest \cup missing) = SizeOf(Size, rest) + SizeOf(Size, missing)
            BY <2>2, <3>1, SizeOfUnion
        <3>3. SizeOf(Size, missing) \in Nat
            BY <2>2, <3>1, SizeOfType
        <3> QED BY <3>2, <3>3 DEF rest
    <2>5. current = SizeOf(Size, S) /\ MaxSize \in Nat
        BY FilesystemAssumption DEF Roomy, Kept, Sized, Books, S
    <2>6. Need(files) = SizeOf(Size, missing) - (MaxSize - current)
        BY DEF Need, missing
    <2> QED BY <1>6, <2>3, <2>4, <2>5, <2>6
<1>8. (CachedNames \ W) \cup PendingNames \cup missing = (S \ W) \cup missing
    BY <1>5 DEF S
<1>9. ~Store!Fits((CachedNames \ W) \cup PendingNames \cup missing)
    <2> DEFINE all == (CachedNames \ W) \cup PendingNames \cup missing
    <2>1. SizeOf(Size, all) > MaxSize /\ MaxSize \in Nat
        BY <1>7, <1>8, FilesystemAssumption
    <2>2. all \in SUBSET Digests
        BY <1>1, <1>8
    <2> HIDE DEF all
    <2>3. SizeOf(Size, all) \in Nat
        BY <1>1, <2>2, StSizeType
    <2>4. ~(SizeOf(Size, all) <= MaxSize)
        BY <2>1, <2>3
    <2> QED BY <2>4, StoreFits DEF all
<1> QED BY <1>9 DEF W

\* A plan reserves what its caller wants and nobody has or brings.
LEMMA PlanStore ==
    ASSUME Roomy, Roomy', NEW t \in Fetchers, Plan(t)
    PROVE  Store!Next
<1> DEFINE files == thread[t].files
           missing == Missing(files)
           victims == Victims(files)
           call == [u \in Fetchers |-> CallOf(thread[u])]
<1>1. /\ TypeOK /\ ServedBy(thread[t]) /\ thread[t].pc # "idle" /\ files \in Seq(Nodes)
    BY ThreadType DEF Roomy, Kept, TypeOK, Served, Plan
<1>2. /\ missing \in SUBSET Digests /\ victims \in SUBSET CachedNames
      /\ cached' = [d \in Digests |-> IF d \in victims THEN NoInfo ELSE cached[d]]
      /\ \A u \in Fetchers : u # t => thread'[u] = thread[u]
      /\ UNCHANGED phase
    BY <1>1, PlanEffect
<1>3. PICK place \in [missing -> FreeBatches] :
        pending' = [d \in Digests |-> IF d \in missing THEN place[d] ELSE pending[d]]
    BY <1>1, PlanEffect
<1>4. \A d \in missing : place[d] # None
    BY <1>3, Holders DEF FreeBatches
<1>5. /\ CachedNames' = CachedNames \ victims
      /\ PendingNames' = PendingNames \cup missing
    <2> HIDE DEF missing, victims
    <2> QED BY <1>2, <1>3, <1>4 DEF CachedNames, PendingNames
<1>6. [u \in Fetchers |-> CallOf(thread'[u])] = call
    <2>1. CallOf(thread'[t]) = CallOf(thread[t])
        BY <1>1, PlanShows
    <2> QED BY <1>2, <2>1
<1>7. /\ call[t].state = "open" /\ call[t].request = thread[t].request
    BY <1>1, OpenCall
<1>8. missing \subseteq Store!Wanted(t) \ (CachedNames \cup PendingNames)
    <2>1. Store!Wanted(t) = {DigestOf[n] : n \in Members(thread[t].request)}
        BY <1>7 DEF Store!Wanted, Store!Asked, Members
    <2>2. Members(files) \subseteq Members(thread[t].request)
        BY <1>1 DEF ServedBy, Listed
    <2>3. DigestsOf(files) = {DigestOf[n] : n \in Members(files)}
        BY DEF DigestsOf, Members
    <2>4. missing \subseteq DigestsOf(files) \ (CachedNames \cup PendingNames)
        BY DEF Missing, CachedNames, PendingNames
    <2> HIDE DEF missing, files
    <2> QED BY <2>1, <2>2, <2>3, <2>4
<1>9. ASSUME victims # {}
      PROVE  \E d \in victims : ~Store!Fits((CachedNames \ (victims \ {d})) \cup PendingNames
                                                \cup missing)
    <2>1. MaxSize > 0
        <3>1. MaxSize = 0 => victims = {}
            BY DEF Victims
        <3> HIDE DEF victims
        <3> QED BY <1>9, <3>1, FilesystemAssumption
    <2> QED BY <1>1, <1>9, <2>1, LastVictimNeeded
<1>10. Store!Fits((CachedNames \ victims) \cup PendingNames \cup missing)
    <2>1. Store!Fits(CachedNames' \cup PendingNames')
        BY StoreFits DEF Roomy, Kept, Sized, Books, WithinBudget
    <2>2. CachedNames' \cup PendingNames' = (CachedNames \ victims) \cup PendingNames \cup missing
        BY <1>5
    <2> QED BY <2>1, <2>2
<1>11. Store!Open(t)
    BY <1>7 DEF Store!Open
<1> HIDE DEF missing, victims, files
<1>12. Store!Reserve(t, missing, victims)
    BY <1>2, <1>5, <1>6, <1>8, <1>9, <1>10, <1>11 DEF Store!Reserve
<1>13. missing \in SUBSET Digests /\ victims \in SUBSET Digests
    BY <1>2 DEF CachedNames
<1> QED BY <1>12, <1>13 DEF Store!Next

\* A corrupted file that is forgotten leaves the store, and nothing else.
LEMMA DropStore ==
    ASSUME Roomy, NEW t \in Fetchers, Drop(t), Serves(t),
           \A u \in Fetchers : u # t => thread'[u] = thread[u]
    PROVE  [Store!Next]_(Store!vars)
<1> DEFINE d == DigestOf[Corrupted(t)]
           missing == Append(thread[t].missing, Corrupted(t))
<1>1. /\ thread[t] \in ThreadFields /\ DOMAIN thread = Fetchers /\ thread[t].pc # "idle"
      /\ thread[t].corrupted \in Seq(Nodes) /\ thread[t].corrupted # <<>>
      /\ DOMAIN cached = Digests /\ phase' = phase
    BY ThreadType DEF Roomy, Kept, TypeOK, ThreadsOK, MapsOK, Drop, bootVars
<1>2. d \in Digests
    BY <1>1, TailFacts, FilesystemAssumption DEF Corrupted
<1>3. CASE UNCHANGED mapVars
    BY <1>1, <1>3, CallStore DEF mapVars
<1>4. CASE Forget(t) /\ cached[d] # NoInfo
    <2>1. /\ cached' = [cached EXCEPT ![d] = NoInfo] /\ UNCHANGED pending
        BY <1>4 DEF Forget
    <2>2. CachedNames' = CachedNames \ {d} /\ d \in CachedNames /\ UNCHANGED PendingNames
        BY <1>1, <1>2, <1>4, <2>1 DEF CachedNames, PendingNames
    <2>3. missing # <<>>
        <3>1. thread[t].missing \in Seq(Nodes)
            BY ThreadType DEF Roomy, Kept, TypeOK
        <3>2. Corrupted(t) \in Nodes
            BY <1>1, TailMembers DEF Corrupted
        <3>3. Members(missing) # {}
            BY <3>1, <3>2, AppendMembers
        <3> QED BY <3>3, NoMembers
    <2>4. /\ thread'[t].pc # "idle" /\ thread'[t].request = thread[t].request
          /\ thread'[t].linked = thread[t].linked
        <3> HIDE DEF missing
        <3>1. CASE Dropped(t, missing)
            <4>1. thread' = [thread EXCEPT ![t] =
                    [IdleThread EXCEPT !.pc = "plan", !.files = missing,
                            !.request = thread[t].request, !.linked = thread[t].linked]]
                BY <2>3, <3>1 DEF Dropped
            <4> QED BY <1>1, <4>1 DEF IdleThread
        <3>2. CASE thread' = [thread EXCEPT ![t].pc = "drop file",
                        ![t].corrupted = Tail(@), ![t].missing = missing]
            BY <1>1, <3>2 DEF ThreadFields
        <3> QED BY <1>4, <3>1, <3>2 DEF Forget, missing
    <2>5. CallOf(thread'[t]) = CallOf(thread[t])
        <3>1. thread[t].pc # "idle" /\ thread'[t].pc # "idle"
            BY <1>1, <2>4
        <3> QED BY <2>4, <3>1, OpenCall
    <2>6. [u \in Fetchers |-> CallOf(thread'[u])] = [u \in Fetchers |-> CallOf(thread[u])]
        BY <2>5
    <2>7. Store!Lose(d)
        BY <1>1, <2>2, <2>6 DEF Store!Lose
    <2> QED BY <1>2, <2>7 DEF Store!Next
<1> QED BY <1>3, <1>4 DEF Drop, Forget

\* A call begins.
LEMMA FetchStore ==
    ASSUME Roomy, NEW t \in Fetchers, NEW files \in Requests, Fetch(t, files)
    PROVE  Store!Next
<1> DEFINE call == [u \in Fetchers |-> CallOf(thread[u])]
           c == [state |-> "open", request |-> files, given |-> {}]
<1>1. /\ DOMAIN thread = Fetchers /\ thread[t].pc = "idle" /\ phase = "up"
      /\ UNCHANGED <<cached, pending, phase>>
    BY DEF Roomy, Kept, TypeOK, ThreadsOK, Fetch, mapVars, bootVars
<1>2. /\ \A u \in Fetchers : u # t => thread'[u] = thread[u]
      /\ thread'[t].pc = "plan" /\ thread'[t].request = files
      /\ \A n \in Nodes : thread'[t].linked[n] = "no"
    BY <1>1 DEF Fetch, IdleThread
<1>3. UNCHANGED <<CachedNames, PendingNames, phase = "up">>
    BY <1>1 DEF CachedNames, PendingNames
<1>4. CallOf(thread'[t]) = c
    <2>1. {n \in Nodes : thread'[t].linked[n] = "whole"} = {}
        BY <1>2
    <2>2. thread'[t].pc # "idle"
        BY <1>2
    <2> QED BY <1>2, <2>1, <2>2, OpenCall
<1>5. [u \in Fetchers |-> CallOf(thread'[u])] = [call EXCEPT ![t] = c]
    BY <1>2, <1>4, OneCall
<1>6. call[t].state # "open"
    <2>1. CallOf(thread[t]).state \in {"none", "ok", "failed"}
        BY <1>1 DEF CallOf
    <2> QED BY <2>1
<1>7. ~Store!Open(t)
    BY <1>6 DEF Store!Open
<1>8. Store!Ask(t, files)
    BY <1>1, <1>3, <1>5, <1>7 DEF Store!Ask
<1> QED BY <1>8 DEF Store!Next

\* A batch shows only when one of its files is registered, or given up.
LEMMA BatchStore ==
    ASSUME Roomy, NEW b \in Batches, BatchStep(b)
    PROVE  [Store!Next]_(Store!vars)
<1>1. /\ TypeOK /\ Flights /\ DOMAIN cached = Digests /\ DOMAIN pending = Digests
      /\ UNCHANGED <<thread, phase>>
    BY BatchEffect, StepsWhenUp DEF Roomy, Kept, TypeOK, MapsOK, bootVars
<1>2. CASE UNCHANGED <<cached, pending>>
    BY <1>1, <1>2 DEF Store!vars, CachedNames, PendingNames
<1>3. CASE \/ Received(b)
           \/ \E d \in Digests : \/ Receive(b, d) \/ ReceiveFault(b, d)
                                 \/ Install(b, d) \/ Rename(b, d) \/ Chmod(b, d)
    BY <1>1, <1>2, <1>3, EarlyEffect
<1>4. CASE Lock(b)
    BY <1>2, <1>4 DEF Lock, mapVars
<1>5. ASSUME NEW d \in Digests, Clean(b, d) \/ Register(b, d)
      PROVE  [Store!Next]_(Store!vars)
    <2>1. d \in PendingNames
        <3>1. batch[b].stage \in Late /\ d \in batch[b].todo /\ Owns(b)
            BY <1>1, <1>5 DEF Clean, Register, IsFirst, Late, Flights
        <3>2. pending[d] = b
            BY <3>1 DEF Owns
        <3> QED BY <3>2, Holders DEF PendingNames
    <2>2. CASE UNCHANGED cached /\ pending' = [pending EXCEPT ![d] = None]
        <3>1. UNCHANGED CachedNames /\ PendingNames' = PendingNames \ {d}
            BY <1>1, <2>2 DEF CachedNames, PendingNames
        <3>2. Store!Miss(d)
            BY <1>1, <2>1, <3>1 DEF Store!Miss
        <3> QED BY <3>2 DEF Store!Next
    <2>3. CASE /\ Exists(d) /\ cached' = [cached EXCEPT ![d] = FileCacheInfo(disk[d])]
               /\ pending' = [pending EXCEPT ![d] = None]
        <3>1. FileCacheInfo(disk[d]) # NoInfo
            BY <1>1, <2>3, StatType DEF TypeOK
        <3>2. CachedNames' = CachedNames \cup {d} /\ PendingNames' = PendingNames \ {d}
            BY <1>1, <2>3, <3>1 DEF CachedNames, PendingNames
        <3>3. Store!Arrive(d)
            BY <1>1, <2>1, <3>2 DEF Store!Arrive
        <3> QED BY <3>3 DEF Store!Next
    <2> QED BY <1>2, <1>5, <2>2, <2>3 DEF Clean, Register, Reclaim, Settled, mapVars
<1> QED BY <1>3, <1>4, <1>5 DEF BatchStep

\* The store stops, and finds again what init() admits.
LEMMA BootStore ==
    ASSUME Roomy, Roomy', Restart \/ Boot
    PROVE  [Store!Next]_(Store!vars)
<1>1. DOMAIN cached = Digests
    BY DEF Roomy, Kept, TypeOK, MapsOK
<1>2. CASE Restart
    <2>1. CachedNames' = {} /\ PendingNames' = {} /\ phase' # "up"
        BY <1>2 DEF Restart, CachedNames, PendingNames
    <2>2. [t \in Fetchers |-> CallOf(thread'[t])] = [t \in Fetchers |-> Store!Ended("none")]
        <3>1. CallOf(IdleThread) = Store!Ended("none")
            <4>1. {n \in Nodes : IdleThread.linked[n] = "whole"} = {}
                BY DEF IdleThread
            <4>2. /\ IdleThread.pc = "idle" /\ IdleThread.outcome = "none"
                  /\ IdleThread.request = <<>>
                BY DEF IdleThread
            <4> QED BY <4>1, <4>2 DEF CallOf, Store!Ended
        <3> QED BY <1>2, <3>1 DEF Restart
    <2>3. Store!Stop
        BY <2>1, <2>2 DEF Store!Stop
    <2> QED BY <2>3 DEF Store!Next
<1>3. ASSUME NEW found \in SUBSET Digests, phase # "up", CachedNames' = CachedNames \cup found,
             UNCHANGED <<pending, thread>>
      PROVE  Store!Next
    <2>1. PendingNames = {} /\ UNCHANGED PendingNames
        BY <1>3 DEF Roomy, Kept, Sized, Booted, PendingNames
    <2>2. Store!Fits(CachedNames' \cup PendingNames')
        BY StoreFits DEF Roomy, Kept, Sized, Books, WithinBudget
    <2>3. Store!Fits(CachedNames \cup found)
        BY <1>3, <2>1, <2>2
    <2>4. Store!Find(found)
        BY <1>3, <2>1, <2>3 DEF Store!Find
    <2> QED BY <2>4 DEF Store!Next
<1>4. CASE Verify
    <2>1. CachedNames' = CachedNames \cup {}
        BY <1>4 DEF Verify, mapVars, CachedNames
    <2>2. phase # "up" /\ UNCHANGED <<pending, thread>> /\ {} \in SUBSET Digests
        BY <1>4 DEF Verify, mapVars
    <2> QED BY <1>3, <2>1, <2>2
<1>5. ASSUME NEW d \in Digests, Admit(d) PROVE Store!Next
    <2>1. /\ phase # "up" /\ UNCHANGED <<pending, thread>>
          /\ {} \in SUBSET Digests /\ {d} \in SUBSET Digests
        BY <1>5 DEF Admit
    <2>2. CASE UNCHANGED cached
        <3>1. CachedNames' = CachedNames \cup {}
            BY <2>2 DEF CachedNames
        <3> QED BY <1>3, <2>1, <3>1
    <2>3. CASE cached' = [cached EXCEPT ![d] = FileCacheInfo(disk[d])]
        <3>1. FileCacheInfo(disk[d]) # NoInfo
            <4>1. Exists(d)
                BY <1>5 DEF Admit, Roomy, Kept, BootQuiet
            <4> QED BY <4>1, StatType DEF Roomy, Kept, TypeOK
        <3>2. CachedNames' = CachedNames \cup {d}
            BY <1>1, <2>3, <3>1 DEF CachedNames
        <3> QED BY <1>3, <2>1, <3>2
    <2> QED BY <1>5, <2>2, <2>3 DEF Admit
<1> QED BY <1>2, <1>4, <1>5 DEF Boot

\* A step of a call is one of the store's, or does not show.
LEMMA CallStepStore ==
    ASSUME Roomy, Roomy', NEW t \in Fetchers, FetchStep(t), Serves(t)
    PROVE  [Store!Next]_(Store!vars)
<1>1. /\ TypeOK /\ Flights /\ thread[t].pc # "idle" /\ UNCHANGED phase
    BY StepsWhenUp DEF Roomy, Kept, bootVars
<1>2. CASE Plan(t)
    BY <1>2, PlanStore
<1>3. ASSUME ~Plan(t) PROVE \A u \in Fetchers : u # t => thread'[u] = thread[u]
    <2>1. CASE \/ PlanRaise(t) \/ Evict(t) \/ WaitOk(t) \/ WaitRaise(t) \/ Snapshot(t)
               \/ Link(t) \/ LinkStat(t) \/ LinkFile(t)
        BY <1>1, <2>1, CallEffect
    <2>2. CASE DropLock(t) \/ Drop(t)
        BY <1>1, <2>2, DropEffect
    <2>3. CASE Submit(t)
        BY <2>3 DEF Submit, Roomy, Kept, TypeOK, ThreadsOK
    <2> QED BY <1>3, <2>1, <2>2, <2>3 DEF FetchStep
<1>4. CASE Drop(t)
    <2>1. ~Plan(t)
        BY <1>4 DEF Drop, Plan
    <2> QED BY <1>3, <1>4, <2>1, DropStore
<1>5. ASSUME ~Plan(t), ~Drop(t) PROVE UNCHANGED <<cached, pending>>
    BY <1>5 DEF FetchStep, PlanRaise, Evict, Submit, WaitOk, WaitRaise, Snapshot,
           Link, LinkStat, LinkFile, DropLock, mapVars
<1> QED BY <1>1, <1>2, <1>3, <1>4, <1>5, CallStore

LEMMA StoreStep ==
    ASSUME Roomy, Roomy', [Next]_vars
    PROVE  [Store!Next]_(Store!vars)
<1>1. \A t \in Fetchers : Serves(t)
    BY ServedStep DEF Roomy, Kept
<1>2. CASE UNCHANGED <<cached, pending, thread, phase>>
    BY <1>2 DEF Store!vars, CachedNames, PendingNames
<1>3. ASSUME NEW t \in Fetchers, FetchStep(t) PROVE [Store!Next]_(Store!vars)
    BY <1>1, <1>3, CallStepStore
<1>4. ASSUME NEW t \in Fetchers, NEW files \in Requests, Fetch(t, files) PROVE Store!Next
    BY <1>4, FetchStore
<1>5. ASSUME NEW b \in Batches, BatchStep(b) PROVE [Store!Next]_(Store!vars)
    BY <1>5, BatchStore
<1>6. ASSUME NEW d \in Digests, Delete(d) \/ Rewrite(d)
      PROVE  UNCHANGED <<cached, pending, thread, phase>>
    BY <1>6 DEF Delete, Rewrite, mapVars, bootVars
<1>7. CASE Restart \/ Boot
    BY <1>7, BootStore
<1>8. CASE UNCHANGED vars
    BY <1>2, <1>8 DEF vars, mapVars, bootVars
<1> QED BY <1>2, <1>3, <1>4, <1>5, <1>6, <1>7, <1>8 DEF Next

LEMMA StoreInit ==
    ASSUME Init
    PROVE  Store!Init
<1>1. CallOf(IdleThread) = Store!Ended("none")
    <2>1. {n \in Nodes : IdleThread.linked[n] = "whole"} = {}
        BY DEF IdleThread
    <2>2. IdleThread.pc = "idle" /\ IdleThread.outcome = "none" /\ IdleThread.request = <<>>
        BY DEF IdleThread
    <2> QED BY <2>1, <2>2 DEF CallOf, Store!Ended
<1>2. CachedNames = {} /\ PendingNames = {}
    BY DEF Init, CachedNames, PendingNames
<1>3. [t \in Fetchers |-> CallOf(thread[t])] = [t \in Fetchers |-> Store!Ended("none")]
    BY <1>1 DEF Init
<1> QED BY <1>2, <1>3 DEF Init, Store!Init

\* The file cache is the store of FileStore: whatever the interleaving of
\* its calls, its batches and restarts, and whatever fails, a content is
\* fetched once for all that wait for it, nothing is evicted without need,
\* what is held and what is coming fit, and a call that returns was given
\* each file it asked for.
THEOREM StoreImplemented ==
    ASSUME Faults \cap {"truncate", "rewrite"} = {}
    PROVE  Spec => ImplementsStore
<1>1. Init => Roomy
    <2>1. Init => \A t \in Fetchers : thread[t].pc = "idle"
        BY DEF Init, IdleThread
    <2>2. Init => Served
        BY <2>1 DEF Served, ServedBy
    <2>3. Init => WithinBudget
        BY FilesystemAssumption DEF Init, WithinBudget
    <2> QED BY <2>2, <2>3, KeptInit DEF Roomy
<1>2. Roomy /\ [Next]_vars => Roomy'
    BY KeptStep, ServedStep, BudgetStep DEF Roomy, Kept, Serves, Served
<1>3. Roomy /\ Roomy' /\ [Next]_vars => [Store!Next]_(Store!vars)
    BY StoreStep
<1>4. Init => Store!Init
    BY StoreInit
<1> QED BY <1>1, <1>2, <1>3, <1>4, PTL DEF Spec, ImplementsStore, Store!Spec
=============================================================================
