---------------------------- MODULE MCFilesystem ----------------------------
(* Instances of the file cache for TLC. *)
EXTENDS FilesystemProperties, TLC

CONSTANTS f1, f2, a, b, c, na, nb, nb2, nc

DigestOfNode == [n \in Nodes |-> (na :> a @@ nb :> b @@ nb2 :> b @@ nc :> c)[n]]

\* With files of one size, requested one by one, the contents are alike as
\* the fetchers are; a node is renamed with its digest.
SharedSymmetry ==
    Permutations(Fetchers) \cup
    {p @@ [n \in Nodes |-> CHOOSE m \in Nodes : DigestOf[m] = p[DigestOf[n]]] :
        p \in Permutations(Digests)}

Size1 == [d \in Digests |-> 1]
SizeABC == [d \in Digests |-> (a :> 1 @@ b :> 1 @@ c :> 2)[d]]
Requests1 == {<<na>>, <<nb>>, <<nc>>}
RequestsABC == {<<na, nb>>, <<nc>>}
RequestsBC == {<<nb, nb2>>, <<na, nc, nb>>}

\* The batch objects that nothing refers to any more are garbage: what they
\* held tells no two states apart.
LiveState ==
    <<diskVars, mapVars, lockVars, thread, bootVars,
      [x \in Batches |-> IF x \in FreeBatches THEN IdleBatch ELSE batch[x]]>>

\* A bound on the faults of an instance: one file at a time is damaged, is
\* longer than its digest or is missing although it is in the map, and what
\* overlong files take from the total never brings it below zero.
OneDamaged ==
    LET Broken(d) == \/ disk[d] # NoFile /\ ~disk[d].intact
                     \/ disk[d] = NoFile /\ cached[d] # NoInfo
                     \/ tmp[d] > Size[d]
    IN  current >= 0 /\ Cardinality({d \in Digests : Broken(d)}) <= 1
=============================================================================
