------------------------------ MODULE CASHelper ------------------------------
(***************************************************************************)
(* How CASHelper.fetch_all (src/bbworker/cas.py) asks the CAS for blobs:   *)
(* small ones in batches that stay under the message limit, large ones in  *)
(* a stream each.  It is a generator: it sorts the blobs first, one by     *)
(* one; what is fetched is yielded blob by blob, the next call is made     *)
(* when the caller asks for more, and the blobs that were refused are an   *)
(* error at the very end.                                                  *)
(***************************************************************************)
EXTENDS Naturals, Sequences, FiniteSets, SequencesExt, CacheSizes

CONSTANTS
    Digests,        \* the blobs
    Size,           \* digest.size_bytes
    MessageLimit,   \* msg_size_bytes_limit
    Faults          \* what the CAS may do

\* refuse: a blob is answered with an error, or its stream breaks.  call:
\* a call of BatchReadBlobs fails.
ASSUME CASAssumption ==
    /\ IsFiniteSet(Digests)
    /\ Size \in [Digests -> Nat] /\ MessageLimit \in Nat
    /\ Faults \subseteq {"refuse", "call"}

\* A generator that was not asked for anything yet.  A batch is the set of
\* its blobs: they are answered in any order.
FetchAll(digests) ==
    [rest |-> digests, batches |-> <<>>, large |-> {}, yields |-> {}, failed |-> {}]

Total(batch) == SizeOf(Size, batch)

IsLarge(d) == Size[d] >= MessageLimit

\* A blob enters the last batch, or starts a new one.  The first batch is
\* left out as long as it is empty, as it is not sent then.
AddToBatches_Mutant(batches, d) ==
    IF batches # <<>> /\ Total(Last(batches)) + Size[d] <= MessageLimit
    THEN Front(batches) \o <<Last(batches) \cup {d}>>
    ELSE Append(batches, {d})
AddToBatches(batches, d) ==
    IF batches # <<>> /\ Total(Last(batches)) + Size[d] < MessageLimit
    THEN Front(batches) \o <<Last(batches) \cup {d}>>
    ELSE Append(batches, {d})

\* The next blob is sorted.
AfterSort(gen, d) ==
    IF IsLarge(d)
    THEN [gen EXCEPT !.rest = @ \ {d}, !.large = @ \cup {d}]
    ELSE [gen EXCEPT !.rest = @ \ {d}, !.batches = AddToBatches(@, d)]

\* The generator is at a point where it has nothing to yield.
Silent(gen) == gen.rest = {} /\ gen.yields = {}
AtCall(gen) == Silent(gen) /\ gen.batches # <<>>
AtStream(gen) == Silent(gen) /\ gen.batches = <<>> /\ gen.large # {}
Exhausted(gen) == Silent(gen) /\ gen.batches = <<>> /\ gen.large = {}

\* At its end the generator raises if blobs were refused.
Succeeds_Mutant(gen) == Exhausted(gen)
Succeeds(gen) == Exhausted(gen) /\ gen.failed = {}
Raises(gen) == Exhausted(gen) /\ gen.failed # {}

Refusals(S) == IF "refuse" \in Faults THEN SUBSET S ELSE {{}}

\* The states after a call that is answered.
AfterCall_Retried(gen) ==
    {[gen EXCEPT !.batches = IF refused = {} THEN Tail(@) ELSE @,
                 !.yields = Head(gen.batches) \ refused] :
        refused \in Refusals(Head(gen.batches))}
AfterCall(gen) ==
    {[gen EXCEPT !.batches = Tail(@), !.yields = Head(gen.batches) \ refused,
                 !.failed = @ \cup refused] :
        refused \in Refusals(Head(gen.batches))}

\* The states after a stream: a stream that breaks loses its blob.
AfterStream_Lost(gen, d) ==
    {[gen EXCEPT !.large = @ \ {d}, !.yields = {d} \ refused] : refused \in Refusals({d})}
AfterStream(gen, d) ==
    {[gen EXCEPT !.large = @ \ {d}, !.yields = {d} \ refused, !.failed = @ \cup refused] :
        refused \in Refusals({d})}

=============================================================================
