-------------------------- MODULE CacheSizesProofs --------------------------
(***************************************************************************)
(* The sum of the sizes of a finite set behaves as a sum: it is a natural  *)
(* number, it is additive, and it depends on the sizes of the members      *)
(* only.                                                                   *)
(***************************************************************************)
EXTENDS CacheSizes, Integers, FiniteSetTheorems, Functions, TLAPS

\* The bytes of one entry.
LEMMA BytesOfOne ==
    ASSUME NEW x, NEW n \in Nat
    PROVE  /\ IsFiniteSet({x} \X (1..n))
           /\ Cardinality({x} \X (1..n)) = n
<1>1. IsFiniteSet(1..n) /\ Cardinality(1..n) = n
    BY FS_Interval
<1>2. IsFiniteSet({x}) /\ Cardinality({x}) = 1
    BY FS_Singleton
<1>3. /\ IsFiniteSet({x} \X (1..n))
      /\ Cardinality({x} \X (1..n)) = Cardinality({x}) * Cardinality(1..n)
    BY <1>1, <1>2, FS_Product
<1> QED BY <1>1, <1>2, <1>3

\* A finite set has finitely many bytes, so its size is a natural number.
LEMMA SizeOfType ==
    ASSUME NEW D, NEW size \in [D -> Nat], NEW S \in SUBSET D, IsFiniteSet(S)
    PROVE  IsFiniteSet(Bytes(size, S)) /\ SizeOf(size, S) \in Nat
<1> DEFINE f == [x \in S |-> {x} \X (1..size[x])]
           T == {{x} \X (1..size[x]) : x \in S}
<1>1. f \in Surjection(S, T)
    BY DEF Surjection
<1>2. IsFiniteSet(T)
    BY <1>1, FS_Surjection
<1>3. ASSUME NEW t \in T PROVE IsFiniteSet(t)
    <2>1. PICK x \in S : t = {x} \X (1..size[x])
        OBVIOUS
    <2>2. size[x] \in Nat
        OBVIOUS
    <2> QED BY <2>1, <2>2, BytesOfOne
<1>4. IsFiniteSet(UNION T)
    BY <1>2, <1>3, FS_UNION
<1> QED BY <1>4, FS_CardinalityType DEF Bytes, SizeOf

\* The empty set has no bytes.
LEMMA SizeOfEmpty ==
    ASSUME NEW size
    PROVE  SizeOf(size, {}) = 0
BY FS_EmptySet DEF SizeOf, Bytes

\* One entry.
LEMMA SizeOfOne ==
    ASSUME NEW D, NEW size \in [D -> Nat], NEW x \in D
    PROVE  SizeOf(size, {x}) = size[x]
<1>1. Bytes(size, {x}) = {x} \X (1..size[x])
    BY DEF Bytes
<1> QED BY <1>1, BytesOfOne DEF SizeOf

\* Sizes of disjoint sets add up.
LEMMA SizeOfUnion ==
    ASSUME NEW D, NEW size \in [D -> Nat], NEW S \in SUBSET D, NEW T \in SUBSET D,
           IsFiniteSet(S), IsFiniteSet(T), S \cap T = {}
    PROVE  SizeOf(size, S \cup T) = SizeOf(size, S) + SizeOf(size, T)
<1>1. Bytes(size, S \cup T) = Bytes(size, S) \cup Bytes(size, T)
    BY DEF Bytes
<1>2. Bytes(size, S) \cap Bytes(size, T) = {}
    BY DEF Bytes
<1>3. /\ IsFiniteSet(Bytes(size, S)) /\ SizeOf(size, S) \in Nat
      /\ IsFiniteSet(Bytes(size, T)) /\ SizeOf(size, T) \in Nat
    BY SizeOfType
<1>4. Cardinality(Bytes(size, S) \cup Bytes(size, T))
        = Cardinality(Bytes(size, S)) + Cardinality(Bytes(size, T)) - Cardinality({})
    BY <1>2, <1>3, FS_Union
<1>5. Cardinality({}) = 0
    BY FS_EmptySet
<1>6. SizeOf(size, S \cup T) = SizeOf(size, S) + SizeOf(size, T) - 0
    BY <1>1, <1>4, <1>5 DEF SizeOf
<1> QED BY <1>3, <1>6

\* One more entry, one entry less, and a subset.
LEMMA SizeOfAdd ==
    ASSUME NEW D, NEW size \in [D -> Nat], NEW S \in SUBSET D, IsFiniteSet(S),
           NEW x \in D, x \notin S
    PROVE  SizeOf(size, S \cup {x}) = SizeOf(size, S) + size[x]
<1>1. IsFiniteSet({x})
    BY FS_Singleton
<1> QED BY <1>1, SizeOfUnion, SizeOfOne

\* The size of a set is that of a part of it and of the rest.
LEMMA SizeOfSplit ==
    ASSUME NEW D, NEW size \in [D -> Nat], NEW S \in SUBSET D, IsFiniteSet(S),
           NEW T \in SUBSET S
    PROVE  /\ SizeOf(size, S) = SizeOf(size, T) + SizeOf(size, S \ T)
           /\ SizeOf(size, T) \in Nat /\ SizeOf(size, S \ T) \in Nat
<1>1. IsFiniteSet(T) /\ IsFiniteSet(S \ T)
    BY FS_Subset, FS_Difference
<1>2. S = T \cup (S \ T) /\ T \cap (S \ T) = {}
    OBVIOUS
<1>3. T \in SUBSET D /\ S \ T \in SUBSET D
    OBVIOUS
<1>4. SizeOf(size, T \cup (S \ T)) = SizeOf(size, T) + SizeOf(size, S \ T)
    BY <1>1, <1>2, <1>3, SizeOfUnion
<1> QED BY <1>1, <1>2, <1>3, <1>4, SizeOfType

\* A set without a member is smaller by its size.
LEMMA SizeOfRemove ==
    ASSUME NEW D, NEW size \in [D -> Nat], NEW S \in SUBSET D, IsFiniteSet(S),
           NEW x \in S
    PROVE  SizeOf(size, S \ {x}) = SizeOf(size, S) - size[x]
<1>1. /\ SizeOf(size, S) = SizeOf(size, {x}) + SizeOf(size, S \ {x})
      /\ SizeOf(size, S \ {x}) \in Nat
    BY SizeOfSplit
<1>2. SizeOf(size, {x}) = size[x] /\ size[x] \in Nat
    BY SizeOfOne
<1> QED BY <1>1, <1>2

\* Two tables of sizes that agree on S give it the same size.
LEMMA SizeOfAgree ==
    ASSUME NEW size, NEW other, NEW S, \A x \in S : size[x] = other[x]
    PROVE  SizeOf(size, S) = SizeOf(other, S)
<1>1. Bytes(size, S) = Bytes(other, S)
    BY DEF Bytes
<1> QED BY <1>1 DEF SizeOf
=============================================================================
