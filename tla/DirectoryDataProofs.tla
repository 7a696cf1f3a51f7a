------------------------- MODULE DirectoryDataProofs -------------------------
(***************************************************************************)
(* Proofs about the cache of directory messages and the generator it       *)
(* fetches with: types and bounds, that fetch_all asks for every blob in   *)
(* requests that fit, and that what is entered and returned is the whole   *)
(* tree, for any trees, sizes, threads, limits and refusals.               *)
(***************************************************************************)
EXTENDS DirectoryDataCache, CacheSizesProofs

-----------------------------------------------------------------------------
(* Trees *)

\* What is below a directory is the directory and what is below its
\* sub-directories.
LEMMA ReachFacts ==
    ASSUME NEW d \in Digests
    PROVE  /\ SubdirsOf[d] \subseteq Digests /\ Reach[d] \subseteq Digests /\ d \in Reach[d]
           /\ \A c \in SubdirsOf[d] : Reach[c] \subseteq Reach[d]
           /\ \A e \in Reach[d] : e = d \/ \E c \in SubdirsOf[d] : e \in Reach[c]
<1>1. SubdirsOf[d] \subseteq Digests
    BY DataCacheAssumption
<1>2. \A x \in Digests : Reach[x] = {e \in Digests : \A S \in Closed : x \in S => e \in S}
    BY DEF Reach
<1>3. ASSUME NEW c \in SubdirsOf[d] PROVE Reach[c] \subseteq Reach[d]
    BY <1>1, <1>2 DEF Closed
<1> DEFINE R == {d} \cup UNION {Reach[c] : c \in SubdirsOf[d]}
<1>4. R \in Closed
    <2>1. R \subseteq Digests
        BY <1>1, <1>2
    <2>2. \A c \in SubdirsOf[d] : c \in Reach[c]
        BY <1>1, <1>2
    <2>3. ASSUME NEW c \in SubdirsOf[d], NEW x \in Reach[c] PROVE SubdirsOf[x] \subseteq Reach[c]
        BY <1>1, <1>2, DataCacheAssumption DEF Closed
    <2>4. ASSUME NEW x \in R PROVE SubdirsOf[x] \subseteq R
        <3>1. CASE x = d
            BY <2>2, <3>1
        <3>2. CASE x # d
            BY <2>3, <3>2
        <3> QED BY <3>1, <3>2
    <2> QED BY <2>1, <2>4 DEF Closed
<1>5. Reach[d] \subseteq R
    BY <1>2, <1>4
<1> QED BY <1>1, <1>2, <1>3, <1>5

-----------------------------------------------------------------------------
(* Lists *)

\* The beginning of a list.
LEMMA Beginning ==
    ASSUME NEW S, NEW s \in Seq(S), NEW m \in 0..Len(s)
    PROVE  /\ SubSeq(s, 1, m) \in Seq(S) /\ Len(SubSeq(s, 1, m)) = m
           /\ \A i \in 1..m : SubSeq(s, 1, m)[i] = s[i]
OBVIOUS

\* A list with another last member.
LEMMA LastReplaced ==
    ASSUME NEW S, NEW s \in Seq(S), s # <<>>, NEW x \in S
    PROVE  LET q == Front(s) \o <<x>> IN
           /\ Len(s) \in Nat \ {0} /\ Last(s) \in S
           /\ q \in Seq(S) /\ Len(q) = Len(s) /\ q # <<>>
           /\ q[Len(s)] = x /\ \A i \in 1..(Len(s) - 1) : q[i] = s[i]
<1> DEFINE m == Len(s) - 1 f == SubSeq(s, 1, m) q == f \o <<x>>
<1>1. Len(s) \in Nat \ {0} /\ m \in 0..Len(s) /\ Len(s) = m + 1
    OBVIOUS
<1>2. s[Len(s)] \in S
    BY <1>1
<1> HIDE DEF m
<1>3. f \in Seq(S) /\ Len(f) = m /\ \A i \in 1..m : f[i] = s[i]
    BY <1>1, Beginning
<1> HIDE DEF f
<1>4. q \in Seq(S) /\ Len(q) = m + 1 /\ q # <<>>
    BY <1>1, <1>3
<1>5. q[m + 1] = x /\ \A i \in 1..m : q[i] = s[i]
    BY <1>1, <1>3
<1> HIDE DEF q
<1> QED BY <1>1, <1>2, <1>4, <1>5 DEF Front, Last, m, f, q

\* The members of a list.
LEMMA ToSetFacts ==
    ASSUME NEW S, NEW s \in Seq(S)
    PROVE  /\ ToSet(s) \subseteq S /\ ToSet(s) = {s[i] : i \in 1..Len(s)}
           /\ \A x \in S : ToSet(Append(s, x)) = ToSet(s) \cup {x}
           /\ s # <<>> => /\ ToSet(s) = {Head(s)} \cup ToSet(Tail(s))
                          /\ Head(s) \in S /\ Tail(s) \in Seq(S)
<1>1. Len(s) \in Nat /\ DOMAIN s = 1..Len(s) /\ \A i \in 1..Len(s) : s[i] \in S
    OBVIOUS
<1>2. ToSet(s) = {s[i] : i \in 1..Len(s)}
    BY <1>1 DEF ToSet
<1>3. ASSUME NEW x \in S PROVE ToSet(Append(s, x)) = ToSet(s) \cup {x}
    <2> DEFINE q == Append(s, x)
    <2>1. DOMAIN q = 1..(Len(s) + 1) /\ q[Len(s) + 1] = x /\ \A i \in 1..Len(s) : q[i] = s[i]
        BY <1>1
    <2>2. \A i \in 1..(Len(s) + 1) : i \in 1..Len(s) \/ i = Len(s) + 1
        BY <1>1
    <2>3. Len(s) + 1 \in 1..(Len(s) + 1) /\ 1..Len(s) \subseteq 1..(Len(s) + 1)
        BY <1>1
    <2> HIDE DEF q
    <2>4. ToSet(q) = ToSet(s) \cup {x}
        BY <1>2, <2>1, <2>2, <2>3 DEF ToSet
    <2> QED BY <2>4 DEF q
<1>4. ASSUME s # <<>>
      PROVE  /\ ToSet(s) = {Head(s)} \cup ToSet(Tail(s))
             /\ Head(s) \in S /\ Tail(s) \in Seq(S)
    <2> DEFINE t == Tail(s)
    <2>1. Len(s) # 0 /\ Head(s) = s[1] /\ t \in Seq(S) /\ Head(s) \in S
        BY <1>1, <1>4
    <2>2. DOMAIN t = 1..(Len(s) - 1) /\ \A i \in 1..(Len(s) - 1) : t[i] = s[i + 1]
        BY <1>1, <2>1
    <2>3. \A i \in 1..Len(s) : i = 1 \/ (i - 1 \in 1..(Len(s) - 1) /\ i = (i - 1) + 1)
        BY <1>1
    <2>4. 1 \in 1..Len(s) /\ \A i \in 1..(Len(s) - 1) : i + 1 \in 1..Len(s)
        BY <1>1, <2>1
    <2> HIDE DEF t
    <2>5. ToSet(t) = {s[i + 1] : i \in 1..(Len(s) - 1)}
        BY <2>2 DEF ToSet
    <2>6. ToSet(s) = {s[1]} \cup ToSet(t)
        <3>1. ASSUME NEW x \in ToSet(s) PROVE x \in {s[1]} \cup ToSet(t)
            <4>1. PICK i \in 1..Len(s) : x = s[i]
                BY <1>2, <3>1
            <4> QED BY <2>3, <2>5, <4>1
        <3>2. {s[1]} \cup ToSet(t) \subseteq ToSet(s)
            BY <1>2, <2>4, <2>5
        <3> QED BY <3>1, <3>2
    <2> QED BY <2>1, <2>6 DEF t
<1> QED BY <1>1, <1>2, <1>3, <1>4

\* Two lists, one after the other.
LEMMA Concatenation ==
    ASSUME NEW S, NEW s \in Seq(S), NEW t \in Seq(S)
    PROVE  /\ s \o t \in Seq(S) /\ Len(s \o t) = Len(s) + Len(t)
           /\ \A j \in 1..(Len(s) + Len(t)) :
                 (s \o t)[j] = IF j <= Len(s) THEN s[j] ELSE t[j - Len(s)]
OBVIOUS

\* A member of a list moves to its end.
LEMMA MovedFacts ==
    ASSUME NEW S, NEW s \in Seq(S), IsInjective(s), NEW a \in Nat, NEW b \in Nat,
           Len(s) = a + b + 1
    PROVE  LET q == Append(RemoveAt(s, a + 1), s[a + 1]) IN
           /\ q \in Seq(S) /\ IsInjective(q) /\ Len(q) = Len(s) /\ ToSet(q) = ToSet(s)
<1> DEFINE n == a + b + 1 f == SubSeq(s, 1, a) t == SubSeq(s, a + 2, n)
           r == f \o t q == Append(r, s[a + 1])
<1>1. DOMAIN s = 1..n /\ a \in 0..Len(s) /\ a + 1 \in 1..n /\ s[a + 1] \in S
    OBVIOUS
<1>2. f \in Seq(S) /\ Len(f) = a /\ \A j \in 1..a : f[j] = s[j]
    BY <1>1, Beginning
<1>3. t \in Seq(S) /\ Len(t) = b /\ \A j \in 1..b : t[j] = s[a + 1 + j]
    <2> DEFINE l == a + 2
    <2>1. l \in 1..(n + 1) /\ n = l + b - 1 /\ Len(s) = n /\ n \in Nat
        BY <1>1
    <2> HIDE DEF l, n
    <2>2. SubSeq(s, l, n) \in Seq(S) /\ Len(SubSeq(s, l, n)) = b
          /\ \A j \in 1..b : SubSeq(s, l, n)[j] = s[l + j - 1]
        BY <2>1
    <2>3. \A j \in 1..b : l + j - 1 = a + 1 + j
        BY DEF l
    <2>4. t = SubSeq(s, l, n)
        BY DEF l, n
    <2> QED BY <2>2, <2>3, <2>4
<1>4. RemoveAt(s, a + 1) = r
    BY DEF RemoveAt
<1> HIDE DEF f, t
<1> HIDE DEF n
<1>5. r \in Seq(S) /\ Len(r) = a + b
    BY <1>2, <1>3, Concatenation
<1>0. n = a + b + 1 /\ Len(s) = n /\ n \in Nat
    BY DEF n
<1>6. \A j \in 1..(a + b) : r[j] = IF j <= a THEN f[j] ELSE t[j - a]
    BY <1>2, <1>3, Concatenation
<1>7. \A j \in 1..(a + b) : r[j] = IF j <= a THEN s[j] ELSE s[j + 1]
    <2>1. ASSUME NEW j \in 1..(a + b), j <= a PROVE r[j] = s[j]
        BY <1>2, <1>6, <2>1
    <2>2. ASSUME NEW j \in 1..(a + b), ~(j <= a) PROVE r[j] = s[j + 1]
        <3>1. j - a \in 1..b /\ a + 1 + (j - a) = j + 1
            BY <2>2
        <3> QED BY <1>3, <1>6, <2>2, <3>1
    <2> QED BY <2>1, <2>2
<1> HIDE DEF r
<1>8. q \in Seq(S) /\ Len(q) = n /\ DOMAIN q = 1..n /\ q[n] = s[a + 1]
      /\ \A j \in 1..(a + b) : q[j] = r[j]
    BY <1>0, <1>1, <1>5
<1> HIDE DEF q
<1>9. \A j \in 1..n :
        \/ j <= a /\ q[j] = s[j]
        \/ a < j /\ j < n /\ q[j] = s[j + 1] /\ j + 1 \in 1..n
        \/ j = n /\ q[j] = s[a + 1]
    <2> DEFINE P(j) == \/ j <= a /\ q[j] = s[j]
                       \/ a < j /\ j < n /\ q[j] = s[j + 1] /\ j + 1 \in 1..n
                       \/ j = n /\ q[j] = s[a + 1]
    <2>1. P(n)
        BY <1>8
    <2>2. ASSUME NEW j \in 1..n, j # n PROVE P(j)
        <3>1. j \in 1..(a + b) /\ j < n /\ j + 1 \in 1..n
            BY <1>0, <2>2
        <3>2. q[j] = r[j] /\ r[j] = IF j <= a THEN s[j] ELSE s[j + 1]
            BY <1>7, <1>8, <3>1
        <3>3. j <= a \/ (a < j /\ ~(j <= a))
            BY <1>0
        <3> QED BY <3>1, <3>2, <3>3
    <2>3. \A j \in 1..n : P(j)
        <3> HIDE DEF P
        <3> QED BY <2>1, <2>2
    <2> QED BY <2>3
<1>10. \A j, k \in 1..n : s[j] = s[k] => j = k
    BY <1>1, IsInjective(s) DEF IsInjective
<1>11. IsInjective(q)
    <2> SUFFICES ASSUME NEW j \in 1..n, NEW k \in 1..n, q[j] = q[k] PROVE j = k
        BY <1>8 DEF IsInjective
    <2> DEFINE p(i) == IF i <= a THEN i ELSE IF i = n THEN a + 1 ELSE i + 1
    <2>1. \A i \in 1..n : p(i) \in 1..n /\ q[i] = s[p(i)]
        <3> SUFFICES ASSUME NEW i \in 1..n PROVE p(i) \in 1..n /\ q[i] = s[p(i)]
            OBVIOUS
        <3>1. i <= a => i # n
            BY <1>0
        <3>2. a < i => ~(i <= a)
            BY <1>0
        <3>3. a + 1 \in 1..n /\ (i < n => i # n) /\ ~(n <= a)
            BY <1>0
        <3> QED BY <1>9, <3>1, <3>2, <3>3
    <2>2. \A i, l \in 1..n : p(i) = p(l) => i = l
        BY <1>0
    <2>3. p(j) = p(k)
        <3> HIDE DEF p
        <3> QED BY <1>10, <2>1
    <2> HIDE DEF p
    <2> QED BY <2>2, <2>3
<1>12. ToSet(q) = ToSet(s)
    <2>1. ASSUME NEW j \in 1..n PROVE \E k \in 1..n : q[j] = s[k]
        BY <1>1, <1>9
    <2>2. ASSUME NEW j \in 1..n PROVE \E k \in 1..n : q[k] = s[j]
        <3>1. CASE j <= a
            <4>1. ~(a < j) /\ j # n
                BY <1>0, <3>1
            <4> QED BY <1>9, <4>1
        <3>2. CASE j = a + 1
            <4>1. n \in 1..n
                BY <1>0
            <4> QED BY <1>8, <3>2, <4>1
        <3>3. CASE j > a + 1
            <4> DEFINE k == j - 1
            <4>1. k \in 1..n /\ k \in Nat /\ a < k /\ k < n /\ k + 1 = j
                BY <1>0, <3>3
            <4> HIDE DEF k
            <4>2. ~(k <= a) /\ k # n
                BY <1>0, <4>1
            <4> QED BY <1>9, <4>1, <4>2
        <3>4. j <= a \/ j = a + 1 \/ j > a + 1
            BY <1>0
        <3> QED BY <3>1, <3>2, <3>3, <3>4
    <2>3. ToSet(q) = {q[j] : j \in 1..n} /\ ToSet(s) = {s[j] : j \in 1..n}
        BY <1>1, <1>8 DEF ToSet
    <2> QED BY <2>1, <2>2, <2>3
<1> QED BY <1>0, <1>4, <1>8, <1>11, <1>12 DEF q

\* The key that is found moves to the end of the map.
LEMMA RefreshedFacts ==
    ASSUME order \in Seq(Digests), IsInjective(order), NEW d \in Digests, Hit(d)
    PROVE  /\ Refreshed(d) \in Seq(Digests) /\ IsInjective(Refreshed(d))
           /\ Len(Refreshed(d)) = Len(order) /\ ToSet(Refreshed(d)) = ToSet(order)
<1> DEFINE n == Len(order) i == CHOOSE j \in 1..n : order[j] = d
<1>1. n \in Nat /\ DOMAIN order = 1..n
    OBVIOUS
<1>2. \E j \in 1..n : order[j] = d
    BY <1>1 DEF Hit, ToSet
<1>3. i \in 1..n /\ order[i] = d
    BY <1>2
<1>4. Refreshed(d) = Append(RemoveAt(order, i), order[i])
    BY <1>3 DEF Refreshed
<1> HIDE DEF i
<1> DEFINE a == i - 1 b == n - i
<1>5. a \in Nat /\ b \in Nat /\ n = a + b + 1 /\ i = a + 1
    BY <1>1, <1>3
<1> HIDE DEF a, b
<1>6. LET q == Append(RemoveAt(order, a + 1), order[a + 1]) IN
      q \in Seq(Digests) /\ IsInjective(q) /\ Len(q) = n /\ ToSet(q) = ToSet(order)
    BY <1>5, MovedFacts
<1> QED BY <1>4, <1>5, <1>6

\* A key that is not in the map comes last.
LEMMA EnteredFacts ==
    ASSUME order \in Seq(Digests), IsInjective(order), NEW d \in Digests
    PROVE  /\ Entered(d) \in Seq(Digests) /\ IsInjective(Entered(d))
           /\ ToSet(Entered(d)) = ToSet(order) \cup {d}
<1>1. CASE Hit(d)
    BY <1>1 DEF Entered, Hit
<1>2. CASE ~Hit(d)
    <2> DEFINE n == Len(order) q == Append(order, d)
    <2>1. n \in Nat /\ DOMAIN order = 1..n
        OBVIOUS
    <2>2. \A i \in 1..n : order[i] # d
        BY <1>2, <2>1 DEF Hit, ToSet
    <2>3. q \in Seq(Digests) /\ DOMAIN q = 1..(n + 1) /\ q[n + 1] = d
          /\ \A i \in 1..n : q[i] = order[i]
        BY <2>1
    <2> HIDE DEF q
    <2>4. \A i \in 1..(n + 1) : i \in 1..n \/ i = n + 1
        BY <2>1
    <2>5. IsInjective(q)
        BY <2>1, <2>2, <2>3, <2>4 DEF IsInjective
    <2>6. ToSet(q) = ToSet(order) \cup {d}
        BY ToSetFacts DEF q
    <2> QED BY <1>2, <2>3, <2>5, <2>6 DEF Entered, q
<1> QED BY <1>1, <1>2

\* The oldest keys go until the map is within its limit.
LEMMA NewestFacts ==
    ASSUME NEW s \in Seq(Digests), IsInjective(s)
    PROVE  /\ Newest(s) \in Seq(Digests) /\ IsInjective(Newest(s))
           /\ Len(Newest(s)) <= MaxCached /\ ToSet(Newest(s)) \subseteq ToSet(s)
<1> DEFINE n == Len(s) k == IF n > MaxCached THEN n - MaxCached ELSE 0
           m == n - k q == SubSeq(s, 1 + k, n)
<1>1. n \in Nat /\ DOMAIN s = 1..n /\ MaxCached \in Nat
    BY DataCacheAssumption
<1>2. k \in 0..n /\ m \in Nat /\ m <= MaxCached /\ n = m + k
    BY <1>1
<1>3. Newest(s) = q
    BY DEF Newest
<1> HIDE DEF k, m
<1>4. q \in Seq(Digests) /\ Len(q) = m /\ \A i \in 1..m : q[i] = s[k + i]
    <2> DEFINE l == 1 + k
    <2>1. l \in 1..(n + 1) /\ n = l + m - 1 /\ k = l - 1
        BY <1>1, <1>2
    <2> HIDE DEF l
    <2>2. SubSeq(s, l, n) \in Seq(Digests) /\ Len(SubSeq(s, l, n)) = m
          /\ \A i \in 1..m : SubSeq(s, l, n)[i] = s[l + i - 1]
        BY <1>1, <1>2, <2>1
    <2>3. \A i \in 1..m : l + i - 1 = k + i
        BY <1>2, <2>1
    <2> QED BY <2>2, <2>3 DEF l
<1> HIDE DEF q
<1>5. DOMAIN q = 1..m /\ \A i \in 1..m : k + i \in 1..n
    BY <1>2, <1>4
<1>6. IsInjective(q)
    <2> SUFFICES ASSUME NEW i \in 1..m, NEW j \in 1..m, q[i] = q[j] PROVE i = j
        BY <1>5 DEF IsInjective
    <2>1. k + i = k + j
        BY <1>1, <1>4, <1>5 DEF IsInjective
    <2> QED BY <1>2, <2>1
<1>7. ToSet(q) \subseteq ToSet(s)
    BY <1>1, <1>4, <1>5 DEF ToSet
<1> QED BY <1>2, <1>3, <1>4, <1>6, <1>7

-----------------------------------------------------------------------------
(* The generator *)

\* Every request it will make fits.
Fit(gen) == \A j \in 1..Len(gen.batches) : Total(gen.batches[j]) < MessageLimit

\* Batches are finite.
LEMMA TotalType ==
    ASSUME NEW batch \in SUBSET Digests
    PROVE  /\ IsFiniteSet(batch) /\ Total(batch) \in Nat
           /\ \A d \in Digests \ batch : Total(batch \cup {d}) = Total(batch) + Size[d]
<1>1. Size \in [Digests -> Nat] /\ IsFiniteSet(batch)
    BY CASAssumption, FS_Subset
<1> QED BY <1>1, SizeOfType, SizeOfAdd DEF Total

\* What is in one of the batches.
LEMMA InBatches ==
    ASSUME NEW batches \in Seq(SUBSET Digests), NEW x
    PROVE  x \in UNION ToSet(batches) <=> \E i \in 1..Len(batches) : x \in batches[i]
<1>1. DOMAIN batches = 1..Len(batches)
    OBVIOUS
<1> QED BY <1>1 DEF ToSet

\* Sets with the same members are equal.
LEMMA SameMembers ==
    ASSUME NEW S, NEW T, NEW d,
           \A x : x \in S <=> (x \in T \/ x = d)
    PROVE  S = T \cup {d}
<1>1. S \subseteq T \cup {d} /\ T \cup {d} \subseteq S
    OBVIOUS
<1> QED BY <1>1

\* A blob that is sorted is in one request, and that still fits.
LEMMA BatchesGrow ==
    ASSUME NEW batches \in Seq(SUBSET Digests), NEW d \in Digests, ~IsLarge(d),
           \A j \in 1..Len(batches) : Total(batches[j]) < MessageLimit
    PROVE  LET more == AddToBatches(batches, d) IN
           /\ more \in Seq(SUBSET Digests)
           /\ UNION ToSet(more) = (UNION ToSet(batches)) \cup {d}
           /\ \A j \in 1..Len(more) : Total(more[j]) < MessageLimit
<1> DEFINE n == Len(batches)
<1>1. n \in Nat /\ {d} \in SUBSET Digests /\ Size[d] \in Nat /\ MessageLimit \in Nat
    BY CASAssumption
<1>2. CASE batches # <<>> /\ Total(Last(batches)) + Size[d] < MessageLimit
    <2> DEFINE last == Last(batches) \cup {d} q == Front(batches) \o <<last>>
    <2>1. Last(batches) \in SUBSET Digests /\ last \in SUBSET Digests /\ n \in Nat \ {0}
        BY <1>2, LastReplaced
    <2>2. q \in Seq(SUBSET Digests) /\ Len(q) = n /\ q[n] = last
          /\ \A i \in 1..(n - 1) : q[i] = batches[i]
        BY <1>2, <2>1, LastReplaced
    <2>3. Total(last) < MessageLimit
        <3>1. CASE d \in Last(batches)
            <4>1. last = Last(batches)
                BY <3>1
            <4>2. Total(Last(batches)) \in Nat
                BY <2>1, TotalType
            <4>3. Total(Last(batches)) < MessageLimit
                BY <1>1, <1>2, <4>2
            <4> QED BY <4>1, <4>3
        <3>2. CASE d \notin Last(batches)
            <4>1. Total(last) = Total(Last(batches)) + Size[d]
                BY <2>1, <3>2, TotalType
            <4> QED BY <1>2, <4>1
        <3> QED BY <3>1, <3>2
    <2>4. \A i \in 1..n : i \in 1..(n - 1) \/ i = n
        BY <1>1
    <2>5. batches[n] = Last(batches)
        BY DEF Last
    <2>6. AddToBatches(batches, d) = q
        BY <1>2 DEF AddToBatches
    <2> HIDE DEF q
    <2>7. \A i \in 1..n : Total(q[i]) < MessageLimit
        BY <2>2, <2>3, <2>4
    <2>8. \A i \in 1..n : q[i] = batches[i] \/ (q[i] = last /\ batches[i] = Last(batches))
        BY <2>2, <2>4, <2>5
    <2>9. n \in 1..n
        BY <2>1
    <2>10. UNION ToSet(q) = (UNION ToSet(batches)) \cup {d}
        <3>1. \A x : x \in UNION ToSet(q) <=> \E i \in 1..n : x \in q[i]
            BY <2>2, InBatches
        <3>2. \A x : x \in UNION ToSet(batches) <=> \E i \in 1..n : x \in batches[i]
            BY InBatches
        <3>3. \A x : x \in UNION ToSet(q) <=> (x \in UNION ToSet(batches) \/ x = d)
            BY <2>2, <2>8, <2>9, <3>1, <3>2
        <3> DEFINE A == UNION ToSet(q) B == UNION ToSet(batches)
        <3>4. \A x : x \in A <=> (x \in B \/ x = d)
            BY <3>3
        <3> HIDE DEF A, B
        <3>5. A = B \cup {d}
            BY <3>4, SameMembers
        <3> QED BY <3>5 DEF A, B
    <2> QED BY <2>2, <2>6, <2>7, <2>10
<1>3. CASE ~(batches # <<>> /\ Total(Last(batches)) + Size[d] < MessageLimit)
    <2> DEFINE q == Append(batches, {d})
    <2>1. AddToBatches(batches, d) = q
        BY <1>3 DEF AddToBatches
    <2>2. q \in Seq(SUBSET Digests) /\ Len(q) = n + 1 /\ q[n + 1] = {d}
          /\ \A i \in 1..n : q[i] = batches[i]
        BY <1>1
    <2>3. Total({d}) < MessageLimit
        <3>1. Size \in [Digests -> Nat]
            BY CASAssumption
        <3>2. Total({d}) = Size[d]
            BY <3>1, SizeOfOne DEF Total
        <3> QED BY <1>1, <3>2 DEF IsLarge
    <2>4. \A i \in 1..(n + 1) : i \in 1..n \/ i = n + 1
        BY <1>1
    <2>5. n + 1 \in 1..(n + 1) /\ 1..n \subseteq 1..(n + 1)
        BY <1>1
    <2> HIDE DEF q
    <2>6. UNION ToSet(q) = (UNION ToSet(batches)) \cup {d}
        <3>1. \A x : x \in UNION ToSet(q) <=> \E i \in 1..(n + 1) : x \in q[i]
            BY <2>2, InBatches
        <3>2. \A x : x \in UNION ToSet(batches) <=> \E i \in 1..n : x \in batches[i]
            BY InBatches
        <3>3. \A x : x \in UNION ToSet(q) <=> (x \in UNION ToSet(batches) \/ x = d)
            BY <2>2, <2>4, <2>5, <3>1, <3>2
        <3> DEFINE A == UNION ToSet(q) B == UNION ToSet(batches)
        <3>4. \A x : x \in A <=> (x \in B \/ x = d)
            BY <3>3
        <3> HIDE DEF A, B
        <3>5. A = B \cup {d}
            BY <3>4, SameMembers
        <3> QED BY <3>5 DEF A, B
    <2>7. \A i \in 1..(n + 1) : Total(q[i]) < MessageLimit
        BY <2>2, <2>3, <2>4
    <2> QED BY <2>1, <2>2, <2>6, <2>7
<1> QED BY <1>2, <1>3

\* A generator as it can be: every request it will make fits.
Good(gen) == gen \in Generators /\ Fit(gen)

\* A generator that starts is asked for what it is given.
LEMMA GenStarts ==
    ASSUME NEW D \in SUBSET Digests
    PROVE  Good(FetchAll(D)) /\ Asked(FetchAll(D)) = D
<1>1. Len(<<>>) = 0 /\ <<>> \in Seq(SUBSET Digests) /\ ToSet(<<>>) = {}
    BY DEF ToSet
<1> QED BY <1>1 DEF FetchAll, Good, Generators, Fit, Asked

\* Sorting a blob forgets none.
LEMMA GenSorts ==
    ASSUME NEW gen, Good(gen), NEW d \in gen.rest
    PROVE  Good(AfterSort(gen, d)) /\ Asked(AfterSort(gen, d)) = Asked(gen)
<1> DEFINE next == AfterSort(gen, d)
<1>1. /\ gen \in Generators /\ d \in Digests /\ gen.rest \in SUBSET Digests
      /\ gen.batches \in Seq(SUBSET Digests) /\ gen.large \in SUBSET Digests
      /\ gen.yields \in SUBSET Digests /\ gen.failed \in SUBSET Digests
    BY DEF Good, Generators
<1>2. CASE IsLarge(d)
    <2>1. next = [gen EXCEPT !.rest = @ \ {d}, !.large = @ \cup {d}]
        BY <1>2 DEF AfterSort
    <2>2. /\ next \in Generators /\ next.rest = gen.rest \ {d} /\ next.large = gen.large \cup {d}
          /\ next.batches = gen.batches /\ next.yields = gen.yields /\ next.failed = gen.failed
        BY <1>1, <2>1 DEF Generators
    <2> HIDE DEF next
    <2> QED BY <1>1, <2>2 DEF Good, Fit, Asked, next
<1>3. CASE ~IsLarge(d)
    <2> DEFINE more == AddToBatches(gen.batches, d)
    <2>1. next = [gen EXCEPT !.rest = @ \ {d}, !.batches = more]
        BY <1>3 DEF AfterSort
    <2>2. /\ more \in Seq(SUBSET Digests)
          /\ UNION ToSet(more) = (UNION ToSet(gen.batches)) \cup {d}
          /\ \A j \in 1..Len(more) : Total(more[j]) < MessageLimit
        BY <1>1, <1>3, BatchesGrow DEF Good, Fit
    <2> HIDE DEF more
    <2>3. /\ next \in Generators /\ next.rest = gen.rest \ {d} /\ next.large = gen.large
          /\ next.batches = more /\ next.yields = gen.yields /\ next.failed = gen.failed
        BY <1>1, <2>1, <2>2 DEF Generators
    <2> HIDE DEF next
    <2> QED BY <1>1, <2>2, <2>3 DEF Good, Fit, Asked, next
<1> QED BY <1>2, <1>3

\* Nor does a call that is answered, whichever blobs it refuses.
LEMMA GenCalls ==
    ASSUME NEW gen, Good(gen), AtCall(gen), NEW next \in AfterCall(gen)
    PROVE  Good(next) /\ Asked(next) = Asked(gen)
<1> DEFINE b == gen.batches
<1>1. /\ gen \in Generators /\ gen.rest \in SUBSET Digests
      /\ b \in Seq(SUBSET Digests) /\ gen.large \in SUBSET Digests
      /\ gen.yields = {} /\ gen.failed \in SUBSET Digests /\ b # <<>>
    BY DEF Good, Generators, AtCall, Silent
<1>2. /\ Head(b) \in SUBSET Digests /\ Tail(b) \in Seq(SUBSET Digests)
      /\ ToSet(b) = {Head(b)} \cup ToSet(Tail(b))
    BY <1>1, ToSetFacts
<1>3. PICK refused \in SUBSET Head(b) :
        next = [gen EXCEPT !.batches = Tail(@), !.yields = Head(b) \ refused,
                           !.failed = @ \cup refused]
    BY DEF AfterCall, Refusals
<1>4. /\ next \in Generators /\ next.rest = gen.rest /\ next.large = gen.large
      /\ next.batches = Tail(b) /\ next.yields = Head(b) \ refused
      /\ next.failed = gen.failed \cup refused
    BY <1>1, <1>2, <1>3 DEF Generators
<1>5. UNION ToSet(b) = Head(b) \cup (UNION ToSet(Tail(b)))
    BY <1>2
<1>6. Asked(next) = Asked(gen)
    BY <1>1, <1>4, <1>5 DEF Asked
<1>7. /\ \A j \in 1..Len(b) : Total(b[j]) < MessageLimit
      /\ Len(b) \in Nat /\ Len(Tail(b)) = Len(b) - 1
      /\ \A j \in 1..Len(Tail(b)) : Tail(b)[j] = b[j + 1]
    BY <1>1 DEF Good, Fit
<1>8. \A j \in 1..Len(Tail(b)) : j + 1 \in 1..Len(b)
    BY <1>7
<1>9. Fit(next)
    BY <1>4, <1>7, <1>8 DEF Fit
<1> QED BY <1>4, <1>6, <1>9 DEF Good

\* Nor does a stream, whole or broken.
LEMMA GenStreams ==
    ASSUME NEW gen, Good(gen), AtStream(gen), NEW d \in gen.large,
           NEW next \in AfterStream(gen, d)
    PROVE  Good(next) /\ Asked(next) = Asked(gen)
<1>1. /\ gen \in Generators /\ gen.rest \in SUBSET Digests
      /\ gen.batches \in Seq(SUBSET Digests) /\ gen.large \in SUBSET Digests
      /\ gen.yields = {} /\ gen.failed \in SUBSET Digests
    BY DEF Good, Generators, AtStream, Silent
<1>2. PICK refused \in SUBSET {d} :
        next = [gen EXCEPT !.large = @ \ {d}, !.yields = {d} \ refused,
                           !.failed = @ \cup refused]
    BY DEF AfterStream, Refusals
<1>3. /\ next \in Generators /\ next.rest = gen.rest /\ next.large = gen.large \ {d}
      /\ next.batches = gen.batches /\ next.yields = {d} \ refused
      /\ next.failed = gen.failed \cup refused
    BY <1>1, <1>2 DEF Generators
<1> QED BY <1>1, <1>3 DEF Good, Fit, Asked

-----------------------------------------------------------------------------
(* Calls *)

\* A call of fetch_directory_data that waits for the directories in next:
\* it asks for sub-directories only, and each of them is still asked for,
\* is waited for, or is in the result with all that is below it.
Sound(c, next) ==
    /\ Fit(c.gen)
    /\ c.digest \in c.got /\ c.got \subseteq Reach[c.digest]
    /\ Asked(c.gen) \cup next \subseteq SubdirsOf[c.digest]
    /\ \A d \in SubdirsOf[c.digest] : d \in Asked(c.gen) \cup next \/ Reach[d] \subseteq c.got

\* The calls a thread is in: each one waits for the next.
Stack(s) ==
    \A i \in 1..Len(s) : Sound(s[i], IF i < Len(s) THEN {s[i + 1].digest} ELSE {})
Rooted(s) == s # <<>> => s[1].digest \in Roots

\* A call that starts.
LEMMA CallStarts ==
    ASSUME NEW d \in Digests
    PROVE  NewCall(d) \in Fetches /\ Sound(NewCall(d), {}) /\ NewCall(d).digest = d
<1>1. Good(FetchAll(SubdirsOf[d])) /\ Asked(FetchAll(SubdirsOf[d])) = SubdirsOf[d]
    BY ReachFacts, GenStarts
<1> QED BY <1>1, ReachFacts DEF NewCall, Fetches, Sound, Good

\* A call that has nothing left to ask for has the whole tree.
LEMMA CallEnds ==
    ASSUME NEW c \in Fetches, Sound(c, {}), Succeeds(c.gen)
    PROVE  c.got = Reach[c.digest]
<1>1. ToSet(<<>>) = {}
    BY DEF ToSet
<1>2. Asked(c.gen) = {}
    BY <1>1 DEF Succeeds, Exhausted, Silent, Asked
<1>3. c.digest \in Digests
    BY DEF Fetches
<1>4. \A d \in SubdirsOf[c.digest] : Reach[d] \subseteq c.got
    BY <1>2 DEF Sound
<1>5. \A e \in Reach[c.digest] : e = c.digest \/ \E d \in SubdirsOf[c.digest] : e \in Reach[d]
    BY <1>3, ReachFacts
<1> QED BY <1>4, <1>5 DEF Sound

\* What was waited for becomes part of the result.
LEMMA CallMerges ==
    ASSUME NEW c \in Fetches, NEW d \in Digests, Sound(c, {d})
    PROVE  LET m == Merged(c, Reach[d]) IN
           m \in Fetches /\ Sound(m, {}) /\ m.digest = c.digest
<1>1. Reach[d] \subseteq Reach[c.digest] /\ Reach[d] \subseteq Digests
    BY ReachFacts DEF Sound, Fetches
<1>2. /\ Merged(c, Reach[d]) \in Fetches
      /\ Merged(c, Reach[d]).digest = c.digest /\ Merged(c, Reach[d]).gen = c.gen
      /\ Merged(c, Reach[d]).got = c.got \cup Reach[d]
    BY <1>1 DEF Merged, Fetches
<1> QED BY <1>1, <1>2 DEF Sound

\* A call takes what its generator yields: it waits for that directory now.
LEMMA CallTakes ==
    ASSUME NEW c \in Fetches, Sound(c, {}), NEW d \in c.gen.yields
    PROVE  LET t == [c EXCEPT !.gen.yields = @ \ {d}] IN
           t \in Fetches /\ Sound(t, {d}) /\ t.digest = c.digest /\ d \in Digests
<1> DEFINE t == [c EXCEPT !.gen.yields = @ \ {d}]
<1>1. c.gen \in Generators /\ c.gen.yields \in SUBSET Digests /\ d \in Digests
    BY DEF Fetches, Generators
<1>2. t = [c EXCEPT !.gen = [c.gen EXCEPT !.yields = c.gen.yields \ {d}]]
    BY DEF Fetches
<1>3. /\ t.gen \in Generators /\ t.gen.yields = c.gen.yields \ {d} /\ t.gen.rest = c.gen.rest
      /\ t.gen.batches = c.gen.batches /\ t.gen.large = c.gen.large
      /\ t.gen.failed = c.gen.failed /\ t.digest = c.digest /\ t.got = c.got
    BY <1>1, <1>2 DEF Generators, Fetches
<1>4. t \in Fetches
    BY <1>2, <1>3 DEF Fetches
<1> HIDE DEF t
<1>5. Asked(t.gen) \cup {d} = Asked(c.gen)
    BY <1>3 DEF Asked
<1>6. Sound(t, {d})
    BY <1>3, <1>5 DEF Sound, Fit
<1> QED BY <1>1, <1>3, <1>4, <1>6 DEF t

\* The calls around the innermost one.
LEMMA OuterFacts ==
    ASSUME NEW s \in Seq(Fetches), s # <<>>
    PROVE  /\ Len(s) \in Nat \ {0} /\ Last(s) = s[Len(s)] /\ Last(s) \in Fetches
           /\ Front(s) \in Seq(Fetches) /\ Len(Front(s)) = Len(s) - 1
           /\ \A i \in 1..(Len(s) - 1) : Front(s)[i] = s[i]
<1> DEFINE m == Len(s) - 1
<1>1. Len(s) \in Nat \ {0} /\ m \in 0..Len(s)
    OBVIOUS
<1>2. s[Len(s)] \in Fetches
    BY <1>1
<1> HIDE DEF m
<1>3. /\ SubSeq(s, 1, m) \in Seq(Fetches) /\ Len(SubSeq(s, 1, m)) = m
      /\ \A i \in 1..m : SubSeq(s, 1, m)[i] = s[i]
    BY <1>1, Beginning
<1> QED BY <1>1, <1>2, <1>3 DEF Front, Last, m

\* The innermost call waits for nothing.
LEMMA Innermost ==
    ASSUME NEW s \in Seq(Fetches), s # <<>>, Stack(s)
    PROVE  Sound(Last(s), {})
<1>1. Len(s) \in Nat \ {0} /\ Last(s) = s[Len(s)]
    BY OuterFacts
<1>2. Len(s) \in 1..Len(s) /\ ~(Len(s) < Len(s))
    BY <1>1
<1> QED BY <1>1, <1>2 DEF Stack

\* The innermost call goes on.
LEMMA InnerMoves ==
    ASSUME NEW s \in Seq(Fetches), s # <<>>, Rooted(s),
           \A i \in 1..(Len(s) - 1) : Sound(s[i], {s[i + 1].digest}),
           NEW c \in Fetches, c.digest = Last(s).digest, Sound(c, {})
    PROVE  LET q == Front(s) \o <<c>> IN
           q \in Seq(Fetches) /\ q # <<>> /\ Stack(q) /\ Rooted(q)
<1> DEFINE n == Len(s) q == Front(s) \o <<c>>
<1>1. /\ n \in Nat \ {0} /\ q \in Seq(Fetches) /\ Len(q) = n /\ q # <<>>
      /\ q[n] = c /\ \A i \in 1..(n - 1) : q[i] = s[i]
    BY LastReplaced
<1>2. s[n] = Last(s)
    BY DEF Last
<1> HIDE DEF q
<1>3. \A i \in 1..n : q[i].digest = s[i].digest
    <2>1. \A i \in 1..n : i \in 1..(n - 1) \/ i = n
        BY <1>1
    <2> QED BY <1>1, <1>2, <2>1
<1>4. ASSUME NEW i \in 1..n
      PROVE  Sound(q[i], IF i < n THEN {q[i + 1].digest} ELSE {})
    <2>1. CASE i = n
        <3>1. ~(i < n)
            BY <1>1, <2>1
        <3> QED BY <1>1, <2>1, <3>1
    <2>2. CASE i # n
        <3>1. i < n /\ i \in 1..(n - 1) /\ i + 1 \in 1..n
            BY <1>1, <2>2
        <3>2. q[i] = s[i] /\ q[i + 1].digest = s[i + 1].digest
            BY <1>1, <1>3, <3>1
        <3> QED BY <3>1, <3>2
    <2> QED BY <2>1, <2>2
<1>5. Stack(q)
    BY <1>1, <1>4 DEF Stack
<1>6. 1 \in 1..n
    BY <1>1
<1>7. Rooted(q)
    BY <1>3, <1>6 DEF Rooted
<1> QED BY <1>1, <1>5, <1>7 DEF q

\* The innermost call waits for a new one.
LEMMA Deepens ==
    ASSUME NEW s \in Seq(Fetches), s # <<>>, Rooted(s), Stack(s),
           NEW d \in Digests, NEW c \in Fetches, c.digest = Last(s).digest, Sound(c, {d}),
           NEW e \in Fetches, e.digest = d, Sound(e, {})
    PROVE  LET q == Front(s) \o <<c, e>> IN
           q \in Seq(Fetches) /\ Stack(q) /\ Rooted(q)
<1> DEFINE n == Len(s) f == Front(s) q == f \o <<c, e>>
<1>1. /\ n \in Nat \ {0} /\ f \in Seq(Fetches) /\ Len(f) = n - 1 /\ s[n] = Last(s)
      /\ \A i \in 1..(n - 1) : f[i] = s[i]
    BY OuterFacts
<1>2. <<c, e>> \in Seq(Fetches) /\ Len(<<c, e>>) = 2
    OBVIOUS
<1> HIDE DEF f
<1>3. /\ q \in Seq(Fetches) /\ Len(q) = n + 1
      /\ \A j \in 1..(n + 1) : q[j] = IF j <= n - 1 THEN f[j] ELSE <<c, e>>[j - (n - 1)]
    BY <1>1, <1>2, Concatenation
<1> HIDE DEF q
<1>4. \A i \in 1..(n - 1) : q[i] = s[i]
    <2>1. \A i \in 1..(n - 1) : i \in 1..(n + 1) /\ i <= n - 1
        BY <1>1
    <2> QED BY <1>1, <1>3, <2>1
<1>5. q[n] = c /\ q[n + 1] = e
    <2>1. n \in 1..(n + 1) /\ ~(n <= n - 1) /\ n - (n - 1) = 1
        BY <1>1
    <2>2. n + 1 \in 1..(n + 1) /\ ~(n + 1 <= n - 1) /\ (n + 1) - (n - 1) = 2
        BY <1>1
    <2> QED BY <1>3, <2>1, <2>2
<1>6. ASSUME NEW i \in 1..(n - 1) PROVE Sound(q[i], {q[i + 1].digest})
    <2>1. i \in 1..n /\ i < n /\ (i + 1 \in 1..(n - 1) \/ i + 1 = n)
        BY <1>1
    <2>2. Sound(s[i], {s[i + 1].digest})
        BY <2>1 DEF Stack
    <2>3. q[i + 1].digest = s[i + 1].digest
        BY <1>1, <1>4, <1>5, <2>1
    <2> QED BY <1>4, <2>2, <2>3
<1>7. ASSUME NEW i \in 1..(n + 1)
      PROVE  Sound(q[i], IF i < n + 1 THEN {q[i + 1].digest} ELSE {})
    <2>1. CASE i \in 1..(n - 1)
        <3>1. i < n + 1
            BY <1>1, <2>1
        <3> QED BY <1>6, <2>1, <3>1
    <2>2. CASE i = n
        <3>1. i < n + 1
            BY <1>1, <2>2
        <3> QED BY <1>5, <2>2, <3>1
    <2>3. CASE i = n + 1
        <3>1. ~(i < n + 1)
            BY <1>1, <2>3
        <3> QED BY <1>5, <2>3, <3>1
    <2>4. i \in 1..(n - 1) \/ i = n \/ i = n + 1
        BY <1>1
    <2> QED BY <2>1, <2>2, <2>3, <2>4
<1>8. Stack(q)
    BY <1>3, <1>7 DEF Stack
<1>9. q[1].digest = s[1].digest
    <2>1. 1 \in 1..(n - 1) \/ n = 1
        BY <1>1
    <2> QED BY <1>1, <1>4, <1>5, <2>1
<1> QED BY <1>3, <1>8, <1>9 DEF Rooted, q, f

\* The innermost call returns what it was waited for.
LEMMA Returns ==
    ASSUME NEW s \in Seq(Fetches), Rooted(s), Stack(s), s # <<>>, Front(s) # <<>>,
           Succeeds(Last(s).gen)
    PROVE  LET f == Front(s)
               q == Front(f) \o <<Merged(Last(f), Last(s).got)>>
           IN  q \in Seq(Fetches) /\ Stack(q) /\ Rooted(q)
<1> DEFINE n == Len(s) f == Front(s) d == Last(s).digest
<1>1. /\ n \in Nat \ {0} /\ f \in Seq(Fetches) /\ Len(f) = n - 1 /\ s[n] = Last(s)
      /\ \A i \in 1..(n - 1) : f[i] = s[i]
    BY OuterFacts
<1>2. Last(s) \in Fetches /\ d \in Digests /\ Last(s).got = Reach[d]
    BY OuterFacts, Innermost, CallEnds DEF Fetches
<1> HIDE DEF f
<1>3. /\ f # <<>> /\ Last(f) = f[n - 1] /\ Last(f) \in Fetches /\ n - 1 \in Nat \ {0}
    BY <1>1, OuterFacts DEF f
<1>4. ASSUME NEW i \in 1..(n - 1) PROVE Sound(s[i], {s[i + 1].digest})
    <2>1. i \in 1..n /\ i < n
        BY <1>1
    <2> QED BY <2>1 DEF Stack
<1>5. 1 \in 1..(n - 1) /\ n - 1 \in 1..(n - 1) /\ (n - 1) + 1 = n
    <2>1. n >= 2
        BY <1>1, <1>3
    <2> HIDE DEF n
    <2> QED BY <1>1, <2>1
<1>6. Sound(Last(f), {d})
    BY <1>1, <1>3, <1>4, <1>5
<1> DEFINE m == Merged(Last(f), Reach[d])
<1>7. m \in Fetches /\ Sound(m, {}) /\ m.digest = Last(f).digest
    BY <1>2, <1>3, <1>6, CallMerges
<1> HIDE DEF m
<1>8. \A i \in 1..(Len(f) - 1) : Sound(f[i], {f[i + 1].digest})
    <2>1. \A i \in 1..(Len(f) - 1) : i \in 1..(n - 1) /\ i + 1 \in 1..(n - 1)
        BY <1>1
    <2> QED BY <1>1, <1>4, <2>1
<1>9. Rooted(f)
    BY <1>1, <1>5 DEF Rooted
<1>10. LET q == Front(f) \o <<m>> IN q \in Seq(Fetches) /\ Stack(q) /\ Rooted(q)
    BY <1>1, <1>3, <1>7, <1>8, <1>9, InnerMoves
<1> QED BY <1>2, <1>10 DEF m, f

\* Each of the calls around the innermost one waits for the next.
LEMMA Waiting ==
    ASSUME NEW s \in Seq(Fetches), Stack(s)
    PROVE  \A i \in 1..(Len(s) - 1) : Sound(s[i], {s[i + 1].digest})
<1>1. \A i \in 1..(Len(s) - 1) : i \in 1..Len(s) /\ i < Len(s)
    OBVIOUS
<1> QED BY <1>1 DEF Stack

-----------------------------------------------------------------------------
(* The invariant *)

\* The map is within its limit, and an entry is a whole tree.
CacheOK ==
    /\ order \in Seq(Digests) /\ IsInjective(order) /\ Len(order) <= MaxCached
    /\ value \in [Digests -> SUBSET Digests]
    /\ EntriesComplete

\* Each thread is in calls that wait for each other, or in none.
CallsOK ==
    /\ calls \in [Threads -> Seq(Fetches)]
    /\ \A th \in Threads : Stack(calls[th]) /\ Rooted(calls[th])

\* A result that is a success is a whole tree.
ResultOK ==
    /\ result \in [Threads -> [state : {"running", "ok", "failed"},
                               root : SUBSET Roots, got : SUBSET Digests]]
    /\ BuildsWholeTree

Trees == CacheOK /\ CallsOK /\ ResultOK

\* Nothing is called and nothing is entered.
LEMMA TreesInit == Init => Trees
<1> SUFFICES ASSUME Init PROVE Trees
    OBVIOUS
<1>1. ToSet(<<>>) = {} /\ <<>> \in Seq(Digests) /\ IsInjective(<<>>) /\ Len(<<>>) = 0
    BY DEF ToSet, IsInjective
<1>2. CacheOK
    BY <1>1, DataCacheAssumption DEF Init, CacheOK, EntriesComplete
<1>3. Stack(<<>>) /\ Rooted(<<>>) /\ <<>> \in Seq(Fetches)
    BY DEF Stack, Rooted
<1>4. CallsOK
    BY <1>3 DEF Init, CallsOK
<1>5. ResultOK
    BY DEF Init, ResultOK, BuildsWholeTree, Running
<1> QED BY <1>2, <1>4, <1>5 DEF Trees

\* A thread is in other calls.
LEMMA CallsChange ==
    ASSUME CallsOK, NEW th \in Threads, NEW s \in Seq(Fetches), Stack(s), Rooted(s),
           calls' = [calls EXCEPT ![th] = s]
    PROVE  CallsOK'
<1>1. \A t \in Threads : calls'[t] = IF t = th THEN s ELSE calls[t]
    BY DEF CallsOK
<1>2. calls' \in [Threads -> Seq(Fetches)]
    BY DEF CallsOK
<1>3. \A t \in Threads : Stack(calls'[t]) /\ Rooted(calls'[t])
    BY <1>1 DEF CallsOK
<1> QED BY <1>2, <1>3 DEF CallsOK

\* A thread has another result.
LEMMA ResultChanges ==
    ASSUME ResultOK, NEW th \in Threads,
           NEW r \in [state : {"running", "ok", "failed"}, root : SUBSET Roots,
                      got : SUBSET Digests],
           r.state = "ok" => \A d \in r.root : r.got = Reach[d],
           result' = [result EXCEPT ![th] = r]
    PROVE  ResultOK'
<1>1. \A t \in Threads : result'[t] = IF t = th THEN r ELSE result[t]
    BY DEF ResultOK
<1>2. BuildsWholeTree'
    BY <1>1 DEF ResultOK, BuildsWholeTree
<1>3. result' \in [Threads -> [state : {"running", "ok", "failed"},
                               root : SUBSET Roots, got : SUBSET Digests]]
    BY DEF ResultOK
<1> QED BY <1>2, <1>3 DEF ResultOK

\* A key that is found moves, and nothing else.
LEMMA CacheHit ==
    ASSUME CacheOK, NEW d \in Digests, Hit(d), order' = Refreshed(d), UNCHANGED value
    PROVE  CacheOK' /\ value[d] = Reach[d]
<1>1. /\ order' \in Seq(Digests) /\ IsInjective(order') /\ Len(order') = Len(order)
      /\ ToSet(order') = ToSet(order)
    BY RefreshedFacts DEF CacheOK
<1>2. EntriesComplete'
    BY <1>1 DEF CacheOK, EntriesComplete
<1> QED BY <1>1, <1>2 DEF CacheOK, EntriesComplete, Hit

\* The generator of the innermost call of a thread goes on.
LEMMA Resumes ==
    ASSUME Trees, NEW th \in Threads, ~Idle(th), NEW gen, Good(gen),
           Asked(gen) = Asked(Current(th).gen), Resume(th, gen)
    PROVE  Trees'
<1> DEFINE s == calls[th] c == [Last(s) EXCEPT !.gen = gen]
<1>1. s \in Seq(Fetches) /\ s # <<>> /\ Stack(s) /\ Rooted(s)
    BY DEF Trees, CallsOK, Idle
<1>2. Last(s) \in Fetches /\ Sound(Last(s), {})
    BY <1>1, OuterFacts, Innermost
<1>3. c \in Fetches /\ c.digest = Last(s).digest /\ c.got = Last(s).got /\ c.gen = gen
    BY <1>2 DEF Fetches, Good
<1>4. Sound(c, {})
    BY <1>2, <1>3 DEF Sound, Good, Current
<1>5. \A i \in 1..(Len(s) - 1) : Sound(s[i], {s[i + 1].digest})
    BY <1>1, Waiting
<1>6. calls' = [calls EXCEPT ![th] = Front(s) \o <<c>>]
    BY DEF Resume, Trees, CallsOK
<1> HIDE DEF c, s
<1>7. /\ Front(s) \o <<c>> \in Seq(Fetches)
      /\ Stack(Front(s) \o <<c>>) /\ Rooted(Front(s) \o <<c>>)
    BY <1>1, <1>3, <1>4, <1>5, InnerMoves
<1>8. CallsOK'
    BY <1>6, <1>7, CallsChange DEF Trees
<1> QED BY <1>8 DEF Trees, Resume, CacheOK, ResultOK, EntriesComplete, BuildsWholeTree

\* An exception leaves no calls and no tree.
LEMMA RaiseKeeps ==
    ASSUME Trees, NEW th \in Threads, Raise(th)
    PROVE  Trees'
<1>1. Stack(<<>>) /\ Rooted(<<>>) /\ <<>> \in Seq(Fetches)
    BY DEF Stack, Rooted
<1>2. CallsOK'
    BY <1>1, CallsChange DEF Trees, Raise
<1>3. /\ Failed \in [state : {"running", "ok", "failed"}, root : SUBSET Roots,
                     got : SUBSET Digests]
      /\ Failed.state # "ok"
    BY DEF Failed
<1>4. ResultOK'
    BY <1>3, ResultChanges DEF Trees, Raise
<1> QED BY <1>2, <1>4 DEF Trees, Raise, CacheOK, EntriesComplete

\* The calls of a thread as they are found.
LEMMA CallsFacts ==
    ASSUME Trees, NEW th \in Threads, ~Idle(th)
    PROVE  /\ calls[th] \in Seq(Fetches) /\ calls[th] # <<>>
           /\ Stack(calls[th]) /\ Rooted(calls[th])
           /\ Current(th) \in Fetches /\ Sound(Current(th), {}) /\ Good(Current(th).gen)
<1>1. calls[th] \in Seq(Fetches) /\ calls[th] # <<>> /\ Stack(calls[th]) /\ Rooted(calls[th])
    BY DEF Trees, CallsOK, Idle
<1>2. Last(calls[th]) \in Fetches /\ Sound(Last(calls[th]), {})
    BY <1>1, OuterFacts, Innermost
<1> QED BY <1>1, <1>2 DEF Current, Good, Sound, Fetches

-----------------------------------------------------------------------------
(* The actions *)

LEMMA LookupKeeps ==
    ASSUME Trees, NEW th \in Threads, NEW d \in Roots, Lookup(th, d)
    PROVE  Trees'
<1>1. d \in Digests
    BY DataCacheAssumption
<1>2. CASE Hit(d)
    <2>1. CacheOK' /\ value[d] = Reach[d]
        BY <1>1, <1>2, CacheHit DEF Trees, Lookup
    <2>2. /\ Done(d, value[d]) \in [state : {"running", "ok", "failed"}, root : SUBSET Roots,
                                    got : SUBSET Digests]
          /\ \A e \in Done(d, value[d]).root : Done(d, value[d]).got = Reach[e]
        BY <1>1, <2>1, ReachFacts DEF Done
    <2>3. ResultOK'
        BY <1>2, <2>2, ResultChanges DEF Trees, Lookup
    <2> QED BY <1>2, <2>1, <2>3 DEF Trees, Lookup, CallsOK
<1>3. CASE ~Hit(d)
    <2> DEFINE c == NewCall(d)
    <2>1. c \in Fetches /\ Sound(c, {}) /\ c.digest = d
        BY <1>1, CallStarts
    <2>2. calls' = [calls EXCEPT ![th] = <<c>>]
        BY <1>3 DEF Lookup
    <2> HIDE DEF c
    <2>3. <<c>> \in Seq(Fetches) /\ Len(<<c>>) = 1 /\ <<c>>[1] = c
        BY <2>1
    <2>4. Stack(<<c>>) /\ Rooted(<<c>>)
        BY <2>1, <2>3 DEF Stack, Rooted
    <2>5. CallsOK'
        BY <2>2, <2>3, <2>4, CallsChange DEF Trees
    <2>6. /\ Running \in [state : {"running", "ok", "failed"}, root : SUBSET Roots,
                          got : SUBSET Digests]
          /\ Running.state # "ok"
        BY DEF Running
    <2>7. ResultOK'
        BY <1>3, <2>6, ResultChanges DEF Trees, Lookup
    <2> QED BY <1>3, <2>5, <2>7 DEF Trees, Lookup, CacheOK, EntriesComplete
<1> QED BY <1>2, <1>3

LEMMA SortKeeps ==
    ASSUME Trees, NEW th \in Threads, Sort(th)
    PROVE  Trees'
<1>1. PICK d \in Current(th).gen.rest : Resume(th, AfterSort(Current(th).gen, d))
    BY DEF Sort
<1>2. Good(AfterSort(Current(th).gen, d))
      /\ Asked(AfterSort(Current(th).gen, d)) = Asked(Current(th).gen)
    BY CallsFacts, GenSorts DEF Sort
<1> QED BY <1>1, <1>2, Resumes DEF Sort

LEMMA CallBatchKeeps ==
    ASSUME Trees, NEW th \in Threads, CallBatch(th)
    PROVE  Trees'
<1>1. PICK gen \in AfterCall(Current(th).gen) : Resume(th, gen)
    BY DEF CallBatch
<1>2. Good(gen) /\ Asked(gen) = Asked(Current(th).gen)
    BY CallsFacts, GenCalls DEF CallBatch
<1> QED BY <1>1, <1>2, Resumes DEF CallBatch

LEMMA ReadStreamKeeps ==
    ASSUME Trees, NEW th \in Threads, ReadStream(th)
    PROVE  Trees'
<1>1. PICK d \in Current(th).gen.large :
          \E gen \in AfterStream(Current(th).gen, d) : Resume(th, gen)
    BY DEF ReadStream
<1>2. PICK gen \in AfterStream(Current(th).gen, d) : Resume(th, gen)
    BY <1>1
<1>3. Good(gen) /\ Asked(gen) = Asked(Current(th).gen)
    BY CallsFacts, GenStreams DEF ReadStream
<1> QED BY <1>2, <1>3, Resumes DEF ReadStream

LEMMA DescendKeeps ==
    ASSUME Trees, NEW th \in Threads, Descend(th)
    PROVE  Trees'
<1> DEFINE s == calls[th]
<1>1. PICK d \in Current(th).gen.yields :
          LET call == [Current(th) EXCEPT !.gen.yields = @ \ {d}]
          IN  IF Hit(d)
              THEN /\ order' = Refreshed(d)
                   /\ calls' = [calls EXCEPT ![th] = Front(@) \o <<Merged(call, value[d])>>]
              ELSE /\ calls' = [calls EXCEPT ![th] = Front(@) \o <<call, NewCall(d)>>]
                   /\ UNCHANGED order
    BY DEF Descend
<1> DEFINE call == [Current(th) EXCEPT !.gen.yields = @ \ {d}]
<1>2. UNCHANGED <<value, result>>
    BY DEF Descend
<1>3. /\ s \in Seq(Fetches) /\ s # <<>> /\ Stack(s) /\ Rooted(s)
      /\ Current(th) \in Fetches /\ Sound(Current(th), {}) /\ Current(th) = Last(s)
    BY CallsFacts DEF Descend, Current
<1>4. call \in Fetches /\ Sound(call, {d}) /\ call.digest = Last(s).digest /\ d \in Digests
    BY <1>3, CallTakes
<1>5. CASE Hit(d)
    <2>1. /\ order' = Refreshed(d)
          /\ calls' = [calls EXCEPT ![th] = Front(s) \o <<Merged(call, value[d])>>]
        BY <1>1, <1>5 DEF Trees, CallsOK
    <2>2. CacheOK' /\ value[d] = Reach[d]
        BY <1>2, <1>4, <1>5, <2>1, CacheHit DEF Trees
    <2> DEFINE m == Merged(call, Reach[d])
    <2> HIDE DEF call
    <2>3. m \in Fetches /\ Sound(m, {}) /\ m.digest = Last(s).digest
        BY <1>4, CallMerges
    <2>4. calls' = [calls EXCEPT ![th] = Front(s) \o <<m>>]
        BY <2>1, <2>2
    <2> HIDE DEF m, s
    <2>5. \A i \in 1..(Len(s) - 1) : Sound(s[i], {s[i + 1].digest})
        BY <1>3, Waiting
    <2>6. /\ Front(s) \o <<m>> \in Seq(Fetches)
          /\ Stack(Front(s) \o <<m>>) /\ Rooted(Front(s) \o <<m>>)
        BY <1>3, <2>3, <2>5, InnerMoves
    <2>7. CallsOK'
        BY <2>4, <2>6, CallsChange DEF Trees
    <2> QED BY <1>2, <2>2, <2>7 DEF Trees, ResultOK, BuildsWholeTree
<1>6. CASE ~Hit(d)
    <2> DEFINE e == NewCall(d)
    <2>1. /\ calls' = [calls EXCEPT ![th] = Front(s) \o <<call, e>>]
          /\ UNCHANGED order
        BY <1>1, <1>6 DEF Trees, CallsOK
    <2>2. e \in Fetches /\ e.digest = d /\ Sound(e, {})
        BY <1>4, CallStarts
    <2> HIDE DEF call, e, s
    <2>3. /\ Front(s) \o <<call, e>> \in Seq(Fetches)
          /\ Stack(Front(s) \o <<call, e>>) /\ Rooted(Front(s) \o <<call, e>>)
        BY <1>3, <1>4, <2>2, Deepens
    <2>4. CallsOK'
        BY <2>1, <2>3, CallsChange DEF Trees
    <2> QED BY <1>2, <2>1, <2>4 DEF Trees, CacheOK, ResultOK, EntriesComplete, BuildsWholeTree
<1> QED BY <1>5, <1>6

LEMMA StoreKeeps ==
    ASSUME Trees, NEW th \in Threads, Store(th)
    PROVE  Trees'
<1> DEFINE s == calls[th] c == Current(th)
<1>1. /\ s \in Seq(Fetches) /\ s # <<>> /\ Stack(s) /\ Rooted(s)
      /\ c \in Fetches /\ Sound(c, {}) /\ c = Last(s) /\ Succeeds(c.gen)
    BY CallsFacts DEF Store, Current
<1>2. c.digest \in Digests /\ c.got = Reach[c.digest] /\ c.got \in SUBSET Digests
    BY <1>1, CallEnds, ReachFacts DEF Fetches
<1>3. CacheOK'
    <2>1. order' = Newest(Entered(c.digest))
        BY DEF Store
    <2>2. value' = [d \in Digests |->
                       IF d \notin ToSet(order') THEN {}
                       ELSE IF d = c.digest THEN c.got ELSE value[d]]
        BY DEF Store
    <2> HIDE DEF c
    <2>3. /\ Entered(c.digest) \in Seq(Digests) /\ IsInjective(Entered(c.digest))
          /\ ToSet(Entered(c.digest)) = ToSet(order) \cup {c.digest}
        BY <1>2, EnteredFacts DEF Trees, CacheOK
    <2>4. /\ order' \in Seq(Digests) /\ IsInjective(order') /\ Len(order') <= MaxCached
          /\ ToSet(order') \subseteq ToSet(order) \cup {c.digest}
        BY <2>1, <2>3, NewestFacts
    <2>5. value' \in [Digests -> SUBSET Digests]
        BY <1>2, <2>2 DEF Trees, CacheOK
    <2>6. ToSet(order') \subseteq Digests
        BY <2>4, ToSetFacts
    <2>7. ASSUME NEW d \in ToSet(order') PROVE value'[d] = Reach[d]
        <3>1. value'[d] = IF d = c.digest THEN c.got ELSE value[d]
            BY <2>2, <2>6
        <3>2. d = c.digest \/ d \in ToSet(order)
            BY <2>4
        <3> QED BY <1>2, <3>1, <3>2 DEF Trees, CacheOK, EntriesComplete
    <2>8. EntriesComplete'
        BY <2>7 DEF EntriesComplete
    <2> QED BY <2>4, <2>5, <2>8 DEF CacheOK
<1>4. CASE Front(s) = <<>>
    <2>1. /\ calls' = [calls EXCEPT ![th] = <<>>]
          /\ result' = [result EXCEPT ![th] = Done(c.digest, c.got)]
        BY <1>4 DEF Store
    <2>2. Stack(<<>>) /\ Rooted(<<>>) /\ <<>> \in Seq(Fetches)
        BY DEF Stack, Rooted
    <2>3. CallsOK'
        BY <2>1, <2>2, CallsChange DEF Trees
    <2>4. c.digest \in Roots
        <3>1. Len(s) \in Nat /\ Len(Front(s)) = Len(s) - 1 /\ c = s[Len(s)]
            BY <1>1, OuterFacts
        <3>2. Len(Front(s)) = 0
            BY <1>4
        <3>3. Len(s) = 1
            <4> DEFINE n == Len(s) m == Len(Front(s))
            <4>1. n \in Nat /\ m = n - 1 /\ m = 0
                BY <3>1, <3>2
            <4> HIDE DEF n, m
            <4>2. n = 1
                BY <4>1
            <4> QED BY <4>2 DEF n
        <3> QED BY <1>1, <3>1, <3>3 DEF Rooted
    <2> HIDE DEF c, s
    <2> DEFINE r == Done(c.digest, c.got)
    <2>5. /\ r \in [state : {"running", "ok", "failed"}, root : SUBSET Roots,
                    got : SUBSET Digests]
          /\ \A d \in r.root : r.got = Reach[d]
        BY <1>2, <2>4 DEF Done
    <2> HIDE DEF r
    <2>6. ResultOK'
        BY <2>1, <2>5, ResultChanges DEF Trees, r
    <2> QED BY <1>3, <2>3, <2>6 DEF Trees
<1>5. CASE Front(s) # <<>>
    <2> DEFINE q == Front(Front(s)) \o <<Merged(Last(Front(s)), Last(s).got)>>
    <2>1. calls' = [calls EXCEPT ![th] = q] /\ UNCHANGED result
        BY <1>5 DEF Store, Current
    <2>2. q \in Seq(Fetches) /\ Stack(q) /\ Rooted(q)
        BY <1>1, <1>5, Returns
    <2> HIDE DEF q
    <2>3. CallsOK'
        BY <2>1, <2>2, CallsChange DEF Trees
    <2> QED BY <1>3, <2>1, <2>3 DEF Trees, ResultOK, BuildsWholeTree
<1> QED BY <1>4, <1>5

\* Every step keeps the invariant.
LEMMA TreesNext == Trees /\ [Next]_vars => Trees'
<1> SUFFICES ASSUME Trees, [Next]_vars PROVE Trees'
    OBVIOUS
<1>1. CASE UNCHANGED vars
    BY <1>1 DEF vars, Trees, CacheOK, CallsOK, ResultOK, EntriesComplete, BuildsWholeTree
<1>2. CASE Next
    <2>1. PICK th \in Threads : (\E d \in Roots : Lookup(th, d)) \/ Fetch(th)
        BY <1>2 DEF Next
    <2>2. CASE \E d \in Roots : Lookup(th, d)
        BY <2>2, LookupKeeps
    <2>3. CASE Fetch(th)
        <3>1. CASE Sort(th)
            BY <3>1, SortKeeps
        <3>2. CASE CallBatch(th)
            BY <3>2, CallBatchKeeps
        <3>3. CASE CallFails(th) \/ FetchRaises(th)
            BY <3>3, RaiseKeeps DEF CallFails, FetchRaises
        <3>4. CASE ReadStream(th)
            BY <3>4, ReadStreamKeeps
        <3>5. CASE Descend(th)
            BY <3>5, DescendKeeps
        <3>6. CASE Store(th)
            BY <3>6, StoreKeeps
        <3> QED BY <2>3, <3>1, <3>2, <3>3, <3>4, <3>5, <3>6 DEF Fetch
    <2> QED BY <2>1, <2>2, <2>3
<1> QED BY <1>1, <1>2

THEOREM TreesHold == Spec => []Trees
<1> QED BY TreesInit, TreesNext, PTL DEF Spec

-----------------------------------------------------------------------------
(* What it gives *)

\* Types are kept; the map has one entry for a key and stays within its
\* limit, whichever thread entered the key meanwhile.
THEOREM DataCacheTypes == Spec => []TypeOK
<1>1. Trees => TypeOK
    BY DEF Trees, CacheOK, CallsOK, ResultOK, TypeOK
<1> QED BY <1>1, TreesHold, PTL

\* Each entry of the map is all that is below its directory.
THEOREM EntriesAreComplete == Spec => []EntriesComplete
<1>1. Trees => EntriesComplete
    BY DEF Trees, CacheOK
<1> QED BY <1>1, TreesHold, PTL

\* A build that goes on has the whole tree of its input root, whatever the
\* CAS refused and whatever was cached or evicted on the way.
THEOREM TreesAreWhole == Spec => []BuildsWholeTree
<1>1. Trees => BuildsWholeTree
    BY DEF Trees, ResultOK
<1> QED BY <1>1, TreesHold, PTL

\* No request of fetch_all is longer than the CAS accepts, whatever the
\* sizes of the blobs and the order they are sorted in.
THEOREM RequestsFit == Spec => []BatchesFit
<1>1. Trees => BatchesFit
    <2> SUFFICES ASSUME Trees, NEW th \in Threads, NEW i \in 1..Len(calls[th])
                 PROVE  Fit(calls[th][i].gen)
        BY DEF BatchesFit, Fit
    <2> QED BY DEF Trees, CallsOK, Stack, Sound
<1> QED BY <1>1, TreesHold, PTL

\* fetch_all and the recursion drop no sub-directory.
THEOREM NoBlobIsDropped == Spec => []NothingDropped
<1>1. Trees => NothingDropped
    <2> SUFFICES ASSUME Trees, NEW th \in Threads, NEW i \in 1..Len(calls[th])
                 PROVE  SubdirsOf[calls[th][i].digest] \subseteq
                            Asked(calls[th][i].gen) \cup calls[th][i].got
                                \cup (IF i < Len(calls[th])
                                      THEN {calls[th][i + 1].digest} ELSE {})
        BY DEF NothingDropped
    <2> DEFINE c == calls[th][i]
               next == IF i < Len(calls[th]) THEN {calls[th][i + 1].digest} ELSE {}
    <2>0. calls[th] \in Seq(Fetches) /\ Stack(calls[th])
        BY DEF Trees, CallsOK
    <2>1. c \in Fetches
        BY <2>0
    <2>4. Sound(c, next)
        BY <2>0 DEF Stack
    <2> HIDE DEF c, next
    <2>2. \A d \in SubdirsOf[c.digest] : d \in Digests /\ d \in Reach[d]
        BY <2>1, ReachFacts DEF Fetches
    <2>3. SubdirsOf[c.digest] \subseteq Asked(c.gen) \cup c.got \cup next
        BY <2>2, <2>4 DEF Sound
    <2> QED BY <2>3 DEF c, next
<1> QED BY <1>1, TreesHold, PTL
=============================================================================
