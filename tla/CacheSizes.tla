----------------------------- MODULE CacheSizes -----------------------------
(***************************************************************************)
(* Sums of sizes.  Both caches of the worker keep a running total of the   *)
(* sizes of the entries they hold (_current_size_bytes).  The sum of       *)
(* size[x] over a finite set S is written here as a cardinality, the       *)
(* number of bytes of S, which is the form the lemmas about finite sets    *)
(* can reason about for sets and sizes of any magnitude.                   *)
(***************************************************************************)
EXTENDS Naturals, FiniteSets

\* The bytes of the members of S: the pairs <<x, i>> with i one of the
\* size[x] bytes of x.
Bytes(size, S) == UNION { {x} \X (1..size[x]) : x \in S }

\* The sum of size[x] over x \in S.
SizeOf(size, S) == Cardinality(Bytes(size, S))

=============================================================================
