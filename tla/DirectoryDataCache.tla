------------------------- MODULE DirectoryDataCache -------------------------
(***************************************************************************)
(* The cache of directory messages (DirectoryDataCache in                  *)
(* src/bbworker/directorybuilder.py).  Threads look up a directory by its  *)
(* digest; one that misses fetches the messages of the sub-directories     *)
(* through CASHelper.fetch_all, looks each of them up in turn, while the   *)
(* generator is suspended, and enters the result.  The lock is held for    *)
(* the look-up and for the entry, not in between, so threads may fetch one *)
(* directory together and enter it one after the other.                    *)
(***************************************************************************)
EXTENDS CASHelper

CONSTANTS
    Threads,        \* the runner threads that call build()
    SubdirsOf,      \* the directories named in each directory message
    Roots,          \* the input roots that are built
    MaxCached       \* max_cached

\* A directory with all that is below it: what is in every set of
\* directories that has it and has the sub-directories of its members.
Closed == {S \in SUBSET Digests : \A d \in S : SubdirsOf[d] \subseteq S}
Reach == [d \in Digests |-> {e \in Digests : \A S \in Closed : d \in S => e \in S}]

ASSUME DataCacheAssumption ==
    /\ SubdirsOf \in [Digests -> SUBSET Digests]
    /\ Roots \subseteq Digests
    /\ MaxCached \in Nat

VARIABLES
    order,          \* the keys of _cache, an OrderedDict: the oldest first
    value,          \* _cache: what the DirectoryData of each key holds
    calls,          \* the calls of fetch_directory_data each thread is in
    result          \* what the last call of build() got, or why it did not

vars == <<order, value, calls, result>>

\* A call that missed: the generator it loops over, and the directories it
\* has put together so far.
NewCall(d) == [digest |-> d, gen |-> FetchAll(SubdirsOf[d]), got |-> {d}]
Current(th) == Last(calls[th])
Idle(th) == calls[th] = <<>>
Failed == [state |-> "failed", root |-> {}, got |-> {}]
Running == [state |-> "running", root |-> {}, got |-> {}]
Done(d, got) == [state |-> "ok", root |-> {d}, got |-> got]

Hit(d) == d \in ToSet(order)
Refreshed(d) ==
    LET i == CHOOSE i \in 1..Len(order) : order[i] = d
    IN  Append(RemoveAt(order, i), d)

\* A sub-directory becomes part of the result of a call.
Merged_Mutant(call, got) == [call EXCEPT !.got = {call.digest} \cup got]
Merged(call, got) == [call EXCEPT !.got = @ \cup got]

\* The generator of the innermost call goes on.
Resume(th, gen) ==
    /\ calls' = [calls EXCEPT ![th] = Front(@) \o <<[Last(@) EXCEPT !.gen = gen]>>]
    /\ UNCHANGED <<order, value, result>>

\* An exception leaves all the calls of the thread.
Raise(th) ==
    /\ calls' = [calls EXCEPT ![th] = <<>>]
    /\ result' = [result EXCEPT ![th] = Failed]
    /\ UNCHANGED <<order, value>>

\* A build looks up its input root.
Lookup(th, d) ==
    /\ Idle(th)
    /\ IF Hit(d)
       THEN /\ order' = Refreshed(d)
            /\ result' = [result EXCEPT ![th] = Done(d, value[d])]
            /\ UNCHANGED calls
       ELSE /\ calls' = [calls EXCEPT ![th] = <<NewCall(d)>>]
            /\ result' = [result EXCEPT ![th] = Running]
            /\ UNCHANGED order
    /\ UNCHANGED value

\* The generator sorts the next sub-directory.
Sort(th) ==
    /\ ~Idle(th)
    /\ \E d \in Current(th).gen.rest : Resume(th, AfterSort(Current(th).gen, d))

\* The next batch of sub-directories is fetched.
CallBatch(th) ==
    /\ ~Idle(th) /\ AtCall(Current(th).gen)
    /\ \E gen \in AfterCall(Current(th).gen) : Resume(th, gen)

CallFails(th) ==
    /\ ~Idle(th) /\ AtCall(Current(th).gen) /\ "call" \in Faults
    /\ Raise(th)

\* The next large sub-directory is fetched.
ReadStream(th) ==
    /\ ~Idle(th) /\ AtStream(Current(th).gen)
    /\ \E d \in Current(th).gen.large :
          \E gen \in AfterStream(Current(th).gen, d) : Resume(th, gen)

\* A sub-directory that was yielded is looked up.  When it misses, its own
\* sub-directories are fetched first.
Descend(th) ==
    /\ ~Idle(th)
    /\ \E d \in Current(th).gen.yields :
          LET call == [Current(th) EXCEPT !.gen.yields = @ \ {d}]
          IN  IF Hit(d)
              THEN /\ order' = Refreshed(d)
                   /\ calls' = [calls EXCEPT ![th] = Front(@) \o <<Merged(call, value[d])>>]
              ELSE /\ calls' = [calls EXCEPT ![th] = Front(@) \o <<call, NewCall(d)>>]
                   /\ UNCHANGED order
    /\ UNCHANGED <<value, result>>

\* The generator ends with an error when blobs were refused.
FetchRaises(th) ==
    /\ ~Idle(th) /\ Raises(Current(th).gen)
    /\ Raise(th)

\* The directory is entered; a key that was entered meanwhile keeps its
\* place.  Then the oldest go until the map is within its limit.
Entered(d) == IF Hit(d) THEN order ELSE Append(order, d)
Newest_Mutant(s) == IF Len(s) > MaxCached + 1 THEN Tail(s) ELSE s
Newest(s) == SubSeq(s, 1 + (IF Len(s) > MaxCached THEN Len(s) - MaxCached ELSE 0), Len(s))
Store(th) ==
    /\ ~Idle(th) /\ Succeeds(Current(th).gen)
    /\ LET c == Current(th)
           outer == Front(calls[th])
       IN  /\ order' = Newest(Entered(c.digest))
           /\ value' = [d \in Digests |->
                           IF d \notin ToSet(order') THEN {}
                           ELSE IF d = c.digest THEN c.got ELSE value[d]]
           /\ IF outer = <<>>
              THEN /\ calls' = [calls EXCEPT ![th] = <<>>]
                   /\ result' = [result EXCEPT ![th] = Done(c.digest, c.got)]
              ELSE /\ calls' = [calls EXCEPT ![th] =
                         Front(outer) \o <<Merged(Last(outer), c.got)>>]
                   /\ UNCHANGED result

Fetch(th) ==
    \/ Sort(th) \/ CallBatch(th) \/ CallFails(th) \/ ReadStream(th)
    \/ Descend(th) \/ FetchRaises(th) \/ Store(th)

Init ==
    /\ order = <<>>
    /\ value = [d \in Digests |-> {}]
    /\ calls = [th \in Threads |-> <<>>]
    /\ result = [th \in Threads |-> Running]

Next == \E th \in Threads : (\E d \in Roots : Lookup(th, d)) \/ Fetch(th)

Spec == Init /\ [][Next]_vars

\* Calls to the CAS are answered or fail, and threads go on.
FairSpec == Spec /\ \A th \in Threads : WF_vars(Fetch(th))

-----------------------------------------------------------------------------
(* What the cache of directory messages must guarantee *)

Generators ==
    [rest : SUBSET Digests, batches : Seq(SUBSET Digests), large : SUBSET Digests,
     yields : SUBSET Digests, failed : SUBSET Digests]
Fetches == [digest : Digests, gen : Generators, got : SUBSET Digests]

\* Types; the map has one entry for a key and stays within its limit.
TypeOK ==
    /\ order \in Seq(Digests) /\ IsInjective(order) /\ Len(order) <= MaxCached
    /\ value \in [Digests -> SUBSET Digests]
    /\ calls \in [Threads -> Seq(Fetches)]
    /\ result \in [Threads -> [state : {"running", "ok", "failed"},
                               root : SUBSET Roots, got : SUBSET Digests]]

\* An entry holds all that is below its directory, whatever the CAS refused
\* while it was put together and whichever thread entered it.
EntriesComplete == \A d \in ToSet(order) : value[d] = Reach[d]

\* A build that goes on has the whole tree of its input root.
BuildsWholeTree ==
    \A th \in Threads : result[th].state = "ok" =>
        \A d \in result[th].root : result[th].got = Reach[d]

\* No request is longer than the CAS accepts.
BatchesFit ==
    \A th \in Threads : \A i \in 1..Len(calls[th]) :
        \A j \in 1..Len(calls[th][i].gen.batches) :
            Total(calls[th][i].gen.batches[j]) < MessageLimit

\* fetch_all drops no blob: each sub-directory of a directory that is put
\* together is still to be asked for, or was yielded, or was refused, or is
\* what the next call down the stack fetches, or is part of the result.
Asked(gen) ==
    gen.rest \cup (UNION ToSet(gen.batches)) \cup gen.large \cup gen.yields \cup gen.failed
NothingDropped ==
    \A th \in Threads : \A i \in 1..Len(calls[th]) :
        LET c == calls[th][i]
        IN  SubdirsOf[c.digest] \subseteq
                Asked(c.gen) \cup c.got
                    \cup (IF i < Len(calls[th]) THEN {calls[th][i + 1].digest} ELSE {})

\* Every fetch ends, with a tree or an error.
FetchEnds == \A th \in Threads : calls[th] # <<>> ~> calls[th] = <<>>
=============================================================================
