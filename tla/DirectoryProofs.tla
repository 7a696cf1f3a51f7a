--------------------------- MODULE DirectoryProofs ---------------------------
(***************************************************************************)
(* Proofs about the directory cache: the types of its state, its budget,   *)
(* that the counts of the shared files and the total are those of the      *)
(* directories it holds, what a restart finds, and that the directories a  *)
(* worker without a limit has entered or linked stay complete.             *)
(***************************************************************************)
EXTENDS DirectoryProperties, CacheSizesProofs

-----------------------------------------------------------------------------
(* Lists *)

\* The directories and their subsets are finite.
LEMMA FiniteTops ==
    /\ IsFiniteSet(Tops) /\ Tops \subseteq Nodes
    /\ \A S \in SUBSET Tops : IsFiniteSet(S) /\ Cardinality(S) \in Nat
<1>1. Tops \subseteq Nodes
    BY DEF Tops
<1>2. IsFiniteSet(Tops)
    BY <1>1, DirectoryAssumption, FS_Subset
<1> QED BY <1>1, <1>2, FS_Subset, FS_CardinalityType

\* An order of a finite set is a list of its members, each of them once.
LEMMA OrdersFacts ==
    ASSUME NEW S, IsFiniteSet(S), NEW s \in Orders(S)
    PROVE  /\ s \in Seq(S) /\ Len(s) \in Nat /\ Members(s) = S
           /\ \A i, j \in 1..Len(s) : s[i] = s[j] => i = j
<1> DEFINE n == Cardinality(S)
<1>1. n \in Nat
    BY FS_CardinalityType
<1>2. s \in [1..n -> S] /\ Members(s) = S
    BY DEF Orders
<1>3. s \in Seq(S) /\ Len(s) = n
    BY <1>1, <1>2
<1>4. s \in Surjection(1..n, S)
    BY <1>2, <1>3 DEF Surjection, Members
<1>5. IsFiniteSet(1..n) /\ Cardinality(1..n) = n
    BY <1>1, FS_Interval
<1>6. s \in Injection(1..n, S)
    BY <1>4, <1>5, FS_SurjSameCardinalityImpliesInj
<1>7. \A i, j \in 1..n : s[i] = s[j] => i = j
    BY <1>6 DEF Injection, IsInjective
<1> QED BY <1>1, <1>2, <1>3, <1>7

\* The members of a list are in its set.
LEMMA MembersType ==
    ASSUME NEW S, NEW s \in Seq(S)
    PROVE  Members(s) \subseteq S /\ Len(s) \in Nat
<1>1. Len(s) \in Nat /\ \A i \in 1..Len(s) : s[i] \in S
    OBVIOUS
<1> QED BY <1>1 DEF Members

\* Two lists without common members, each without repetitions.
LEMMA ConcatFacts ==
    ASSUME NEW S, NEW s \in Seq(S), NEW r \in Seq(S),
           \A i, j \in 1..Len(s) : s[i] = s[j] => i = j,
           \A i, j \in 1..Len(r) : r[i] = r[j] => i = j,
           Members(s) \cap Members(r) = {}
    PROVE  /\ s \o r \in Seq(S)
           /\ Members(s \o r) = Members(s) \cup Members(r)
           /\ \A i, j \in 1..Len(s \o r) : (s \o r)[i] = (s \o r)[j] => i = j
<1> DEFINE m == Len(s) n == Len(r) c == s \o r
<1>1. m \in Nat /\ n \in Nat /\ c \in Seq(S) /\ Len(c) = m + n
    OBVIOUS
<1>2. \A i \in 1..(m + n) : c[i] = IF i <= m THEN s[i] ELSE r[i - m]
    OBVIOUS
<1>3. \A i \in 1..m : i \in 1..(m + n) /\ c[i] = s[i]
    BY <1>1, <1>2
<1>4. \A i \in 1..n : m + i \in 1..(m + n) /\ c[m + i] = r[i]
    BY <1>1, <1>2
<1>5. \A i \in 1..(m + n) : i \in 1..m \/ (i - m \in 1..n /\ i = m + (i - m))
    BY <1>1
<1>6. Members(c) = Members(s) \cup Members(r)
    <2>1. ASSUME NEW x \in Members(c) PROVE x \in Members(s) \cup Members(r)
        <3>1. PICK i \in 1..(m + n) : x = c[i]
            BY <1>1 DEF Members
        <3>2. CASE i \in 1..m
            BY <3>1, <3>2, <1>3 DEF Members
        <3>3. CASE i - m \in 1..n /\ i = m + (i - m)
            BY <3>1, <3>3, <1>4 DEF Members
        <3> QED BY <3>2, <3>3, <1>5
    <2>2. ASSUME NEW x \in Members(s) PROVE x \in Members(c)
        BY <2>2, <1>1, <1>3 DEF Members
    <2>3. ASSUME NEW x \in Members(r) PROVE x \in Members(c)
        BY <2>3, <1>1, <1>4 DEF Members
    <2> QED BY <2>1, <2>2, <2>3
<1>7. ASSUME NEW i \in 1..(m + n), NEW j \in 1..(m + n), c[i] = c[j] PROVE i = j
    <2>1. CASE i \in 1..m /\ j \in 1..m
        BY <2>1, <1>3, <1>7
    <2>2. CASE i \in 1..m /\ j - m \in 1..n /\ j = m + (j - m)
        <3>1. c[i] \in Members(s) /\ c[j] \in Members(r)
            BY <2>2, <1>3, <1>4 DEF Members
        <3> QED BY <3>1, <1>7
    <2>3. CASE j \in 1..m /\ i - m \in 1..n /\ i = m + (i - m)
        <3>1. c[j] \in Members(s) /\ c[i] \in Members(r)
            BY <2>3, <1>3, <1>4 DEF Members
        <3> QED BY <3>1, <1>7
    <2>4. CASE i - m \in 1..n /\ i = m + (i - m) /\ j - m \in 1..n /\ j = m + (j - m)
        <3>1. r[i - m] = r[j - m]
            BY <2>4, <1>4, <1>7
        <3>2. i - m = j - m
            BY <2>4, <3>1
        <3> QED BY <1>1, <2>4, <3>2
    <2> QED BY <1>5, <2>1, <2>2, <2>3, <2>4
<1> QED BY <1>1, <1>6, <1>7

\* A list with one more member.
LEMMA AppendFacts ==
    ASSUME NEW S, NEW s \in Seq(S), NEW x \in S, x \notin Members(s),
           \A i, j \in 1..Len(s) : s[i] = s[j] => i = j
    PROVE  /\ Append(s, x) \in Seq(S)
           /\ Members(Append(s, x)) = Members(s) \cup {x}
           /\ \A i, j \in 1..Len(Append(s, x)) : Append(s, x)[i] = Append(s, x)[j] => i = j
<1> DEFINE n == Len(s) a == Append(s, x)
<1>1. n \in Nat /\ a \in Seq(S) /\ Len(a) = n + 1 /\ a[n + 1] = x
    OBVIOUS
<1>2. \A i \in 1..n : a[i] = s[i] /\ a[i] \in Members(s)
    BY DEF Members
<1>3. \A i \in 1..(n + 1) : i \in 1..n \/ i = n + 1
    BY <1>1
<1>4. n + 1 \in 1..(n + 1) /\ 1..n \subseteq 1..(n + 1)
    BY <1>1
<1>5. Members(a) = Members(s) \cup {x}
    BY <1>1, <1>2, <1>3, <1>4 DEF Members
<1>6. \A i, j \in 1..(n + 1) : a[i] = a[j] => i = j
    BY <1>1, <1>2, <1>3
<1> QED BY <1>1, <1>5, <1>6

\* The head and the rest of a list.
LEMMA TailFacts ==
    ASSUME NEW S, NEW s \in Seq(S), s # <<>>
    PROVE  Head(s) \in S /\ Tail(s) \in Seq(S) /\ Len(s) \in Nat \ {0}
<1>1. Len(s) \in Nat /\ Len(s) # 0
    OBVIOUS
<1> QED BY <1>1

-----------------------------------------------------------------------------
(* Sizes *)

\* The trees are finite sets of nodes.
LEMMA TreeType ==
    ASSUME NEW D \in SUBSET Tops
    PROVE  InTrees(D) \subseteq Nodes /\ IsFiniteSet(InTrees(D))
<1>1. InTrees(D) \subseteq Nodes
    BY FiniteTops DEF InTrees, Tree
<1> QED BY <1>1, DirectoryAssumption, FS_Subset

\* The uses of a file are counted by a natural number.
LEMMA UsesType ==
    ASSUME NEW D \in SUBSET Tops
    PROVE  Uses(D) \in [Files -> Nat]
<1>1. ASSUME NEW f \in Files
      PROVE  Cardinality({n \in InTrees(D) : f \in FilesOf[n]}) \in Nat
    BY TreeType, FS_Subset, FS_CardinalityType
<1> QED BY <1>1 DEF Uses

\* The copies of a tree are finitely many.
LEMMA PlacesType ==
    ASSUME NEW D \in SUBSET Tops
    PROVE  /\ Places(D) \subseteq Nodes \X Files /\ IsFiniteSet(Places(D))
           /\ PlaceSize \in [Nodes \X Files -> Nat]
           /\ CopySize(D) \in Nat
<1>1. IsFiniteSet(Nodes \X Files)
    BY DirectoryAssumption, FS_Product
<1>2. Places(D) \subseteq Nodes \X Files
    BY DEF Places
<1>3. IsFiniteSet(Places(D))
    BY <1>1, <1>2, FS_Subset
<1>4. PlaceSize \in [Nodes \X Files -> Nat]
    BY DirectoryAssumption DEF PlaceSize
<1> QED BY <1>2, <1>3, <1>4, SizeOfType DEF CopySize

\* The size of some of the files.
LEMMA FilesSize ==
    ASSUME NEW F \in SUBSET Files
    PROVE  IsFiniteSet(F) /\ SizeOf(Size, F) \in Nat
<1>1. IsFiniteSet(F)
    BY DirectoryAssumption, FS_Subset
<1> QED BY <1>1, DirectoryAssumption, SizeOfType

\* The sizes of two sets of files without common ones add up.
LEMMA FilesSizeUnion ==
    ASSUME NEW F \in SUBSET Files, NEW G \in SUBSET Files, F \cap G = {}
    PROVE  SizeOf(Size, F \cup G) = SizeOf(Size, F) + SizeOf(Size, G)
<1>1. IsFiniteSet(F) /\ IsFiniteSet(G)
    BY FilesSize
<1>2. Size \in [Files -> Nat]
    BY DirectoryAssumption
<1> QED BY <1>1, <1>2, SizeOfUnion

\* What the steps that change the ledger compute.
LEMMA LedgerType ==
    ASSUME NEW counts \in [Files -> Int], NEW D \in SUBSET Tops
    PROVE  /\ Required(counts, D) \in Nat /\ Released(counts, D) \in Nat
           /\ With(counts, D) \in [Files -> Int]
           /\ Without(counts, D) \in [Files -> Int]
<1>1. Required(counts, D) \in Nat
    BY PlacesType, FilesSize DEF Required
<1>2. Released(counts, D) \in Nat
    BY PlacesType, FilesSize DEF Released
<1>3. With(counts, D) \in [Files -> Int] /\ Without(counts, D) \in [Files -> Int]
    BY UsesType DEF With, Without
<1> QED BY <1>1, <1>2, <1>3

-----------------------------------------------------------------------------
(* The calls *)

\* What a variable that a step leaves alone satisfied, it still does.
LEMMA Unchanged ==
    /\ MapsOK /\ UNCHANGED ledgerVars => MapsOK'
    /\ DiskOK /\ UNCHANGED diskVars => DiskOK'
    /\ PoolOK /\ UNCHANGED poolVars => PoolOK'
    /\ BuildsOK /\ UNCHANGED buildVars => BuildsOK'
    /\ BootOK /\ UNCHANGED bootVars => BootOK'
BY DEF MapsOK, DiskOK, PoolOK, BuildsOK, BootOK, Members,
       ledgerVars, diskVars, poolVars, buildVars, bootVars

\* The innermost call of a builder that is in one.
LEMMA TopType ==
    ASSUME BuildsOK, NEW b \in Builders, frames[b] # <<>>
    PROVE  /\ frames[b] \in Seq(Frames) /\ Len(frames[b]) \in Nat \ {0}
           /\ Len(frames[b]) \in 1..Len(frames[b])
           /\ Top(b) \in Frames
<1>1. frames[b] \in Seq(Frames)
    BY DEF BuildsOK
<1>2. Len(frames[b]) \in Nat \ {0}
    BY <1>1, TailFacts
<1>3. Len(frames[b]) \in 1..Len(frames[b])
    BY <1>2
<1>4. Top(b) \in Frames
    BY <1>1, <1>3 DEF Top
<1> QED BY <1>1, <1>2, <1>3, <1>4

\* It becomes another record of its kind.
LEMMA TopMoves ==
    ASSUME BuildsOK, NEW b \in Builders, frames[b] # <<>>, NEW r \in Frames,
           TopBecomes(b, r)
    PROVE  frames' \in [Builders -> Seq(Frames)]
<1> DEFINE s == frames[b] q == [s EXCEPT ![Len(s)] = r]
<1>1. s \in Seq(Frames) /\ Len(s) \in 1..Len(s) /\ Len(s) \in Nat
    BY TopType
<1>2. q \in Seq(Frames)
    BY <1>1
<1>3. frames' = [frames EXCEPT ![b] = q]
    BY DEF TopBecomes
<1> HIDE DEF q
<1> QED BY <1>2, <1>3 DEF BuildsOK

\* An exception leaves the calls.
LEMMA RaiseType ==
    ASSUME BuildsOK, NEW b \in Builders, Raise(b)
    PROVE  BuildsOK'
<1>1. <<>> \in Seq(Frames)
    OBVIOUS
<1> QED BY <1>1 DEF Raise, BuildsOK

\* A new call.
LEMMA FrameType ==
    ASSUME NEW S \in SUBSET Tops, NEW skip \in BOOLEAN, NEW large \in Seq(SUBSET Tops)
    PROVE  Frame(S, skip, large) \in Frames
<1>1. <<>> \in Seq(Tops)
    OBVIOUS
<1> QED BY <1>1 DEF Frame, Frames

\* What is known of a restart and of failures: nothing is built while the
\* worker is down or init() runs, what init() has yet to admit is in the map,
\* and what the finisher works on is still pending.
Booting ==
    /\ unseen \subseteq Members(cached)
    /\ phase = "up" => unseen = {}
    /\ phase # "up" => /\ \A d \in Tops : pending[d] = "none"
                      /\ setting \in LaterSettings
    /\ phase = "down" => cached = <<>>
Finishing == \A d \in Tops : finish[d] # "none" => pending[d] = "building"

-----------------------------------------------------------------------------
(* Type correctness: the builders *)

\* Calls to build and those of its steps that touch neither map nor disk.
LEMMA BuildType ==
    ASSUME BuildsOK, NEW b \in Builders, Build(b)
    PROVE  BuildsOK'
<1>1. PICK r \in Requests :
          frames' = [frames EXCEPT ![b] = <<Frame(r.cached, r.skip, r.large)>>]
    BY DEF Build
<1>2. r.cached \in SUBSET Tops /\ r.skip \in BOOLEAN /\ r.large \in Seq(SUBSET Tops)
    BY DirectoryAssumption DEF Request
<1>3. Frame(r.cached, r.skip, r.large) \in Frames
    BY <1>2, FrameType
<1>4. <<Frame(r.cached, r.skip, r.large)>> \in Seq(Frames)
    BY <1>3
<1> QED BY <1>1, <1>4 DEF Build, BuildsOK

LEMMA DescendType ==
    ASSUME BuildsOK, NEW b \in Builders, Descend(b)
    PROVE  BuildsOK'
<1> DEFINE s == frames[b] n == Len(s) large == Top(b).large
           r == [Top(b) EXCEPT !.large = Tail(large)]
           new == Frame(Head(large), FALSE, <<>>)
<1>1. s \in Seq(Frames) /\ n \in Nat \ {0} /\ Top(b) \in Frames
    BY TopType DEF Descend, Busy
<1>2. large \in Seq(SUBSET Tops) /\ large # <<>>
    BY <1>1 DEF Descend, Frames
<1>3. Head(large) \in SUBSET Tops /\ Tail(large) \in Seq(SUBSET Tops)
    BY <1>2, TailFacts
<1>4. r \in Frames
    BY <1>1, <1>3 DEF Frames
<1>5. <<>> \in Seq(SUBSET Tops)
    OBVIOUS
<1>6. new \in Frames
    BY <1>3, <1>5, FrameType
<1>7. SubSeq(s, 1, n - 1) \in Seq(Frames)
    BY <1>1
<1>8. frames' = [frames EXCEPT ![b] = SubSeq(s, 1, n - 1) \o <<r, new>>]
    BY DEF Descend
<1> HIDE DEF r, new, s, n
<1>9. <<r, new>> \in Seq(Frames)
    BY <1>4, <1>6
<1>10. SubSeq(s, 1, n - 1) \o <<r, new>> \in Seq(Frames)
    BY <1>7, <1>9
<1> QED BY <1>8, <1>10 DEF Descend, BuildsOK

LEMMA SkipType ==
    ASSUME BuildsOK, NEW b \in Builders, SkipDone(b)
    PROVE  BuildsOK'
<1>1. Top(b) \in Frames /\ frames[b] # <<>>
    BY TopType DEF SkipDone, Stepping, Busy
<1>2. PICK failed \in BOOLEAN :
          TopBecomes(b, [Top(b) EXCEPT !.skip = FALSE, !.broken = @ \/ failed])
    BY DEF SkipDone
<1>3. [Top(b) EXCEPT !.skip = FALSE, !.broken = @ \/ failed] \in Frames
    BY <1>1 DEF Frames
<1>4. frames' \in [Builders -> Seq(Frames)]
    BY <1>1, <1>2, <1>3, TopMoves
<1> QED BY <1>4 DEF SkipDone, BuildsOK

LEMMA LinkType ==
    ASSUME BuildsOK, NEW b \in Builders, Link(b)
    PROVE  BuildsOK'
<1>1. Top(b) \in Frames /\ frames[b] # <<>>
    BY TopType DEF Link, ToLink, Waiting, Stepping, Busy
<1>2. PICK d \in Top(b).links :
          /\ linked' = [linked EXCEPT ![b] = @ \cup {d}]
          /\ TopBecomes(b, [Top(b) EXCEPT !.links = @ \ {d}])
    BY DEF Link
<1>3. d \in Tops /\ [Top(b) EXCEPT !.links = @ \ {d}] \in Frames
    BY <1>1 DEF Frames
<1>4. frames' \in [Builders -> Seq(Frames)]
    BY <1>1, <1>2, <1>3, TopMoves
<1> QED BY <1>2, <1>3, <1>4 DEF Link, BuildsOK

LEMMA ReturnType ==
    ASSUME BuildsOK, NEW b \in Builders, Return(b)
    PROVE  BuildsOK'
<1>1. frames[b] \in Seq(Frames) /\ Len(frames[b]) \in Nat \ {0}
    BY TopType DEF Return, ToLink, Waiting, Stepping, Busy
<1>2. SubSeq(frames[b], 1, Len(frames[b]) - 1) \in Seq(Frames)
    BY <1>1
<1> QED BY <1>2 DEF Return, BuildsOK

\* The removal of a directory leaves the disk in a known state.
LEMMA RemoveType ==
    ASSUME DiskOK, NEW x \in Builders \cup {Pool}, NEW d \in Tops,
           RemoveWalk(x, d) \/ RemoveRest(x, d) \/ RemoveRaise(x, d)
    PROVE  DiskOK'
<1>1. ASSUME RemoveWalk(x, d) PROVE DiskOK'
    BY <1>1 DEF RemoveWalk, DiskOK
<1>2. ASSUME RemoveRest(x, d) PROVE DiskOK'
    BY <1>2 DEF RemoveRest, DiskOK
<1>3. ASSUME RemoveRaise(x, d) PROVE DiskOK'
    BY <1>3 DEF RemoveRaise, DiskOK
<1> QED BY <1>1, <1>2, <1>3

\* The builder whose evicted directory is removed.
LEMMA EvictType ==
    ASSUME BuildsOK, DiskOK, NEW b \in Builders,
           EvictWalk(b) \/ EvictRest(b) \/ EvictRaise(b) \/ EvictGone(b)
    PROVE  BuildsOK' /\ DiskOK'
<1> DEFINE r == [Top(b) EXCEPT !.victims = Tail(@)]
<1>1. /\ frames[b] # <<>> /\ Top(b) \in Frames
      /\ Top(b).victims \in Seq(Tops) /\ Top(b).victims # <<>>
    BY TopType DEF EvictWalk, EvictRest, EvictRaise, EvictGone, Stepping, Busy, Frames
<1>2. Head(Top(b).victims) \in Tops /\ Tail(Top(b).victims) \in Seq(Tops)
    BY <1>1, TailFacts
<1>3. r \in Frames
    BY <1>1, <1>2 DEF Frames
<1>4. ASSUME TopBecomes(b, r), UNCHANGED <<linked, outcome>> PROVE BuildsOK'
    <2>1. frames' \in [Builders -> Seq(Frames)]
        BY <1>1, <1>3, <1>4, TopMoves
    <2> QED BY <1>4, <2>1 DEF BuildsOK
<1>5. ASSUME EvictWalk(b) PROVE BuildsOK' /\ DiskOK'
    BY <1>2, <1>5, RemoveType, Unchanged DEF EvictWalk
<1>6. ASSUME EvictRest(b) PROVE BuildsOK' /\ DiskOK'
    BY <1>2, <1>4, <1>6, RemoveType DEF EvictRest
<1>7. ASSUME EvictRaise(b) PROVE BuildsOK' /\ DiskOK'
    BY <1>2, <1>7, RemoveType, RaiseType DEF EvictRaise
<1>8. ASSUME EvictGone(b) PROVE BuildsOK' /\ DiskOK'
    BY <1>4, <1>8, Unchanged DEF EvictGone
<1> QED BY <1>5, <1>6, <1>7, <1>8

\* The directories a plan evicts are in the map, are none it has found
\* there, and release enough.
LEMMA VictimsFacts ==
    ASSUME MapsOK, NEW S \in SUBSET Tops, Fits(S)
    PROVE  /\ Victims(S) \subseteq Members(cached) \ Hits(S)
           /\ Victims(S) \in SUBSET Tops
           /\ MustEvict(S) =>
                  Available(S) + Released(Counted(S), Victims(S)) >= 0
<1>1. Members(cached) \subseteq Tops /\ Len(cached) \in Nat
    BY MembersType DEF MapsOK
<1>2. CASE ~MustEvict(S)
    BY <1>2 DEF Victims
<1>3. CASE MustEvict(S)
    <2> DEFINE k == CHOOSE j \in 1..Len(cached) : FirstEnough(S, j)
    <2>1. k \in 1..Len(cached) /\ FirstEnough(S, k)
        BY <1>3 DEF Fits
    <2>2. Victims(S) = Oldest(S, k)
        BY <1>3 DEF Victims
    <2>3. Oldest(S, k) \subseteq Members(cached) \ Hits(S)
        BY <1>1, <2>1 DEF Oldest, Members
    <2>4. Available(S) + Released(Counted(S), Oldest(S, k)) >= 0
        BY <2>1 DEF FirstEnough, Enough
    <2> HIDE DEF k
    <2> QED BY <1>1, <2>2, <2>3, <2>4
<1> QED BY <1>2, <1>3

\* What a plan makes of the map.
LEMMA PlanMap ==
    ASSUME MapsOK, NEW S \in SUBSET Tops, Fits(S),
           NEW rest \in Orders(Members(cached) \ (Hits(S) \cup Victims(S))),
           NEW hits \in Orders(Hits(S))
    PROVE  /\ rest \o hits \in Seq(Tops)
           /\ Members(rest \o hits) = Members(cached) \ Victims(S)
           /\ \A i, j \in 1..Len(rest \o hits) :
                  (rest \o hits)[i] = (rest \o hits)[j] => i = j
<1> DEFINE R == Members(cached) \ (Hits(S) \cup Victims(S)) H == Hits(S)
<1>1. Members(cached) \subseteq Tops
    BY MembersType DEF MapsOK
<1>2. R \in SUBSET Tops /\ H \in SUBSET Tops /\ IsFiniteSet(R) /\ IsFiniteSet(H)
    BY <1>1, FiniteTops DEF Hits
<1>3. /\ rest \in Seq(R) /\ Members(rest) = R
      /\ \A i, j \in 1..Len(rest) : rest[i] = rest[j] => i = j
    BY <1>2, OrdersFacts
<1>4. /\ hits \in Seq(H) /\ Members(hits) = H
      /\ \A i, j \in 1..Len(hits) : hits[i] = hits[j] => i = j
    BY <1>2, OrdersFacts
<1>5. R \cap H = {} /\ R \cup H = Members(cached) \ Victims(S)
    BY VictimsFacts DEF Hits
<1> HIDE DEF R, H
<1>6. rest \in Seq(Tops) /\ hits \in Seq(Tops)
    BY <1>2, <1>3, <1>4
<1> QED BY <1>3, <1>4, <1>5, <1>6, ConcatFacts

\* What a step of the plan does, for the call that is planned.
LEMMA PlanStep ==
    ASSUME TypeOK, NEW b \in Builders, Plan(b)
    PROVE  LET S == Top(b).cached IN
           /\ frames[b] # <<>> /\ Top(b) \in Frames /\ S \in SUBSET Tops /\ Fits(S)
           /\ New(S) \in SUBSET Tops /\ New(S) \cap Members(cached) = {}
           /\ Members(cached') = Members(cached) \ Victims(S)
           /\ count' = Without(Counted(S), Victims(S))
           /\ current' = current - Released(Counted(S), Victims(S)) + Required(count, New(S))
           /\ pending' = [d \in Tops |-> IF d \in New(S) THEN "building" ELSE pending[d]]
<1>1. frames[b] # <<>> /\ Top(b) \in Frames
    BY TopType DEF Plan, Busy, TypeOK
<1>2. Top(b).cached \in SUBSET Tops
    BY <1>1 DEF Frames
<1>3. Fits(Top(b).cached)
    BY DEF Plan
<1>4. /\ New(Top(b).cached) \in SUBSET Tops
      /\ New(Top(b).cached) \cap Members(cached) = {}
    BY <1>2 DEF New, Hits
<1>5. Members(cached') = Members(cached) \ Victims(Top(b).cached)
    BY <1>2, <1>3, PlanMap DEF Plan, TypeOK
<1> QED BY <1>1, <1>2, <1>3, <1>4, <1>5 DEF Plan

\* A plan keeps the types of the map, the ledger, the tasks and its call.
LEMMA PlanType ==
    ASSUME TypeOK, NEW b \in Builders, Plan(b)
    PROVE  TypeOK'
<1> DEFINE S == Top(b).cached V == Victims(S)
<1>1. /\ frames[b] # <<>> /\ Top(b) \in Frames /\ S \in SUBSET Tops /\ Fits(S)
      /\ New(S) \in SUBSET Tops /\ New(S) \cap Members(cached) = {}
      /\ Members(cached') = Members(cached) \ V
      /\ count' = Without(Counted(S), V)
      /\ current' = current - Released(Counted(S), V) + Required(count, New(S))
      /\ pending' = [d \in Tops |-> IF d \in New(S) THEN "building" ELSE pending[d]]
    BY PlanStep
<1>2. V \in SUBSET Tops
    BY <1>1, VictimsFacts DEF TypeOK
<1>3. cached' \in Seq(Tops) /\ \A i, j \in 1..Len(cached') : cached'[i] = cached'[j] => i = j
    <2>1. PICK rest \in Orders(Members(cached) \ (Hits(S) \cup V)), hits \in Orders(Hits(S)) :
              cached' = rest \o hits
        BY DEF Plan
    <2> QED BY <1>1, <2>1, PlanMap DEF TypeOK
<1>4. count' \in [Files -> Int] /\ current' \in Int
    <2>1. count \in [Files -> Int] /\ current \in Int
        BY DEF TypeOK, MapsOK
    <2>2. Counted(S) \in [Files -> Int] /\ Required(count, New(S)) \in Nat
        BY <1>1, <2>1, LedgerType DEF Counted
    <2>3. Without(Counted(S), V) \in [Files -> Int] /\ Released(Counted(S), V) \in Nat
        BY <1>2, <2>2, LedgerType
    <2> QED BY <1>1, <2>1, <2>2, <2>3
<1>5. MapsOK'
    <2>1. MapsOK /\ Members(cached) \subseteq Tops
        BY MembersType DEF TypeOK, MapsOK
    <2>2. pending' \in [Tops -> {"none", "building", "failed"}]
        BY <1>1, <2>1 DEF MapsOK
    <2>3. \A d \in Members(cached') : pending'[d] = "none"
        BY <1>1, <2>1 DEF MapsOK
    <2> QED BY <1>3, <1>4, <2>2, <2>3 DEF MapsOK
<1>6. PoolOK'
    BY DEF Plan, TypeOK, PoolOK
<1>7. BuildsOK'
    <2>1. PICK list \in Orders(V) :
              TopBecomes(b, [Top(b) EXCEPT
                  !.planned = TRUE, !.cached = {}, !.victims = list, !.links = S,
                  !.waits = New(S) \cup {d \in Joined(S) : pending[d] = "building"},
                  !.broken = \E d \in Joined(S) : pending[d] = "failed"])
        BY DEF Plan
    <2>2. list \in Seq(V)
        BY <1>2, FiniteTops, OrdersFacts
    <2>3. list \in Seq(Tops)
        BY <1>2, <2>2
    <2> DEFINE waits == New(S) \cup {d \in Joined(S) : pending[d] = "building"}
               broken == \E d \in Joined(S) : pending[d] = "failed"
               r == [Top(b) EXCEPT !.planned = TRUE, !.cached = {}, !.victims = list,
                                   !.links = S, !.waits = waits, !.broken = broken]
    <2>4. waits \in SUBSET Tops /\ broken \in BOOLEAN
        BY <1>1 DEF Joined
    <2> HIDE DEF waits, broken, V
    <2>5. r \in Frames
        BY <1>1, <2>3, <2>4 DEF Frames
    <2>6. TopBecomes(b, r)
        BY <2>1 DEF waits, broken
    <2> HIDE DEF r
    <2>7. frames' \in [Builders -> Seq(Frames)]
        BY <1>1, <2>5, <2>6, TopMoves DEF TypeOK
    <2> QED BY <2>7 DEF Plan, TypeOK, BuildsOK
<1> QED BY <1>5, <1>6, <1>7, Unchanged DEF Plan, TypeOK

\* Every step of a builder keeps the types.
LEMMA BuilderType ==
    ASSUME TypeOK, NEW b \in Builders, Build(b) \/ Builder(b)
    PROVE  TypeOK'
<1> USE DEF TypeOK
<1>1. ASSUME Build(b) PROVE TypeOK'
    BY <1>1, BuildType, Unchanged DEF Build
<1>2. ASSUME TopFails(b) \/ PlanRaise(b) \/ WaitRaise(b) PROVE TypeOK'
    BY <1>2, RaiseType, Unchanged DEF TopFails, PlanRaise, WaitRaise
<1>3. ASSUME Plan(b) PROVE TypeOK'
    BY <1>3, PlanType
<1>4. ASSUME Descend(b) PROVE TypeOK'
    BY <1>4, DescendType, Unchanged DEF Descend
<1>5. ASSUME SkipDone(b) PROVE TypeOK'
    BY <1>5, SkipType, Unchanged DEF SkipDone
<1>6. ASSUME EvictWalk(b) \/ EvictRest(b) \/ EvictRaise(b) \/ EvictGone(b) PROVE TypeOK'
    <2>1. BuildsOK' /\ DiskOK'
        BY <1>6, EvictType
    <2> QED BY <1>6, <2>1, Unchanged DEF EvictWalk, EvictRest, EvictRaise, EvictGone
<1>7. ASSUME Link(b) PROVE TypeOK'
    BY <1>7, LinkType, Unchanged DEF Link
<1>8. ASSUME Return(b) PROVE TypeOK'
    BY <1>8, ReturnType, Unchanged DEF Return
<1> QED BY <1>1, <1>2, <1>3, <1>4, <1>5, <1>6, <1>7, <1>8 DEF Builder

-----------------------------------------------------------------------------
(* Type correctness: the pool and init() *)

\* The tasks of the pool change the disk and their own state.
LEMMA TaskType ==
    ASSUME TypeOK, NEW n \in Nodes, Task(n)
    PROVE  TypeOK'
<1>1. task \in [Nodes -> {"none", "queued", "fetch", "check", "join", "ok", "failed", "stuck"}]
    BY DEF TypeOK, PoolOK
<1>2. Spawn(n) => task' \in [Nodes -> {"none", "queued", "fetch", "check", "join", "ok",
                                       "failed", "stuck"}]
    BY <1>1 DEF Spawn
<1>3. ASSUME NEW s \in {"fetch", "check", "ok", "failed", "stuck"}, TaskBecomes(n, s)
      PROVE  task' \in [Nodes -> {"none", "queued", "fetch", "check", "join", "ok",
                                  "failed", "stuck"}]
    BY <1>1, <1>3 DEF TaskBecomes
<1>4. task' \in [Nodes -> {"none", "queued", "fetch", "check", "join", "ok", "failed", "stuck"}]
    BY <1>2, <1>3 DEF Task, MakeDir, MakeDirFails, FetchFiles, FetchFails, CheckFiles,
                      JoinDirs, JoinFails
<1>5. PoolOK'
    BY <1>4 DEF Task, TypeOK, PoolOK
<1>6. DiskOK'
    <2>1. DiskOK
        BY DEF TypeOK
    <2>2. ASSUME MakeDir(n) PROVE DiskOK'
        BY <2>1, <2>2 DEF MakeDir, DiskOK
    <2>3. ASSUME FetchFiles(n) PROVE DiskOK'
        BY <2>1, <2>3 DEF FetchFiles, DiskOK
    <2>4. ASSUME UNCHANGED diskVars PROVE DiskOK'
        BY <2>1, <2>4, Unchanged
    <2> QED BY <2>2, <2>3, <2>4 DEF Task, MakeDirFails, FetchFails, CheckFiles,
                                   JoinDirs, JoinFails
<1> QED BY <1>5, <1>6, Unchanged DEF Task, TypeOK, ledgerVars, buildVars

\* Those who wait for a future are told: their calls keep their type.
LEMMA ResolvedType ==
    ASSUME BuildsOK, NEW d \in Tops, NEW failed \in BOOLEAN
    PROVE  Resolved(d, failed) \in [Builders -> Seq(Frames)]
<1> SUFFICES ASSUME NEW b \in Builders
             PROVE  [i \in 1..Len(frames[b]) |->
                        IF d \notin frames[b][i].waits THEN frames[b][i]
                        ELSE [frames[b][i] EXCEPT !.waits = @ \ {d}, !.broken = @ \/ failed]]
                    \in Seq(Frames)
    BY DEF Resolved
<1>1. frames[b] \in Seq(Frames) /\ Len(frames[b]) \in Nat
    BY DEF BuildsOK
<1>2. ASSUME NEW r \in Frames
      PROVE  [r EXCEPT !.waits = @ \ {d}, !.broken = @ \/ failed] \in Frames
    BY DEF Frames
<1>3. \A i \in 1..Len(frames[b]) : frames[b][i] \in Frames
    BY <1>1
<1> DEFINE e(i) == IF d \notin frames[b][i].waits THEN frames[b][i]
                   ELSE [frames[b][i] EXCEPT !.waits = @ \ {d}, !.broken = @ \/ failed]
<1>4. \A i \in 1..Len(frames[b]) : e(i) \in Frames
    BY <1>2, <1>3
<1> HIDE DEF e
<1>5. [i \in 1..Len(frames[b]) |-> e(i)] \in Seq(Frames)
    BY <1>1, <1>4
<1> QED BY <1>5 DEF e

\* The finisher of a cached directory.
LEMMA FinisherType ==
    ASSUME TypeOK, Finishing, NEW d \in Tops, Finisher(d)
    PROVE  TypeOK'
<1>1. MapsOK /\ DiskOK /\ PoolOK /\ BuildsOK /\ BootOK
    BY DEF TypeOK
<1>2. Members(cached) \subseteq Tops
    BY <1>1, MembersType DEF MapsOK
<1>3. UNCHANGED <<linked, outcome>> /\ UNCHANGED bootVars
    BY DEF Finisher
<1>4. ASSUME frames' \in [Builders -> Seq(Frames)] \/ UNCHANGED frames PROVE BuildsOK'
    BY <1>1, <1>3, <1>4 DEF BuildsOK
<1>5. ASSUME Complete(d) PROVE TypeOK'
    <2>1. pending[d] = "building" /\ d \notin Members(cached)
        BY <1>1, <1>5 DEF Complete, Unfinished, MapsOK
    <2>2. /\ cached' \in Seq(Tops) /\ Members(cached') = Members(cached) \cup {d}
          /\ \A i, j \in 1..Len(cached') : cached'[i] = cached'[j] => i = j
        BY <1>1, <1>5, <2>1, AppendFacts DEF Complete, MapsOK
    <2>3. /\ pending' \in [Tops -> {"none", "building", "failed"}]
          /\ \A e \in Members(cached') : pending'[e] = "none"
        BY <1>1, <1>2, <1>5, <2>2 DEF Complete, MapsOK
    <2>4. MapsOK'
        BY <1>1, <1>5, <2>2, <2>3 DEF Complete, MapsOK
    <2>5. DiskOK'
        <3>1. Tree[d] \subseteq Nodes
            BY FiniteTops DEF Tree
        <3> QED BY <1>1, <1>5, <3>1 DEF Complete, DiskOK
    <2>6. PoolOK'
        BY <1>1, <1>5 DEF Complete, PoolOK
    <2>7. BuildsOK'
        BY <1>1, <1>4, <1>5, ResolvedType DEF Complete
    <2> QED BY <1>1, <1>3, <2>4, <2>5, <2>6, <2>7, Unchanged DEF TypeOK
<1>6. ASSUME Fail(d) PROVE TypeOK'
    <2>1. PoolOK'
        BY <1>1, <1>6 DEF Fail, PoolOK
    <2> QED BY <1>1, <1>3, <1>4, <1>6, <2>1, Unchanged DEF Fail, TypeOK
<1>7. ASSUME DropWalk(d) PROVE TypeOK'
    <2>1. DiskOK'
        BY <1>1, <1>7, RemoveType DEF DropWalk
    <2> QED BY <1>1, <1>3, <1>4, <1>7, <2>1, Unchanged DEF DropWalk, TypeOK
<1>8. ASSUME DropRest(d) PROVE TypeOK'
    <2>1. DiskOK'
        BY <1>1, <1>8, RemoveType, Unchanged DEF DropRest
    <2>2. PoolOK'
        BY <1>1, <1>8 DEF DropRest, PoolOK
    <2> QED BY <1>1, <1>3, <1>4, <1>8, <2>1, <2>2, Unchanged DEF DropRest, TypeOK
<1>9. ASSUME DropRaise(d) PROVE TypeOK'
    <2>1. DiskOK'
        BY <1>1, <1>9, RemoveType DEF DropRaise
    <2>2. PoolOK'
        BY <1>1, <1>9 DEF DropRaise, PoolOK
    <2> QED BY <1>1, <1>3, <1>4, <1>9, <2>1, <2>2, Unchanged DEF DropRaise, TypeOK
<1>10. ASSUME Release(d), Underflow(count, {d}) PROVE TypeOK'
    <2>1. PoolOK'
        BY <1>1, <1>10 DEF Release, PoolOK
    <2>2. MapsOK' /\ BuildsOK'
        BY <1>1, <1>4, <1>10, Unchanged DEF Release, ledgerVars
    <2> QED BY <1>1, <1>3, <1>10, <2>1, <2>2, Unchanged DEF Release, TypeOK
<1>11. ASSUME Release(d), ~Underflow(count, {d}) PROVE TypeOK'
    <2>1. count' \in [Files -> Int] /\ current' \in Int
        <3>1. {d} \in SUBSET Tops /\ count \in [Files -> Int] /\ current \in Int
            BY <1>1 DEF MapsOK
        <3>2. Without(count, {d}) \in [Files -> Int] /\ Released(count, {d}) \in Nat
            BY <3>1, LedgerType
        <3>3. count' = Without(count, {d}) /\ current' = current - Released(count, {d})
            BY <1>11 DEF Release
        <3> QED BY <3>1, <3>2, <3>3
    <2>2. MapsOK'
        <3>1. /\ pending' = [pending EXCEPT ![d] = "failed"] /\ pending[d] = "building"
              /\ cached' = cached
            BY <1>11 DEF Release, Finishing
        <3>2. /\ pending' \in [Tops -> {"none", "building", "failed"}]
              /\ \A e \in Members(cached) : pending'[e] = "none"
            BY <1>1, <1>2, <3>1 DEF MapsOK
        <3> QED BY <1>1, <2>1, <3>1, <3>2 DEF MapsOK
    <2>3. PoolOK'
        BY <1>1, <1>11 DEF Release, PoolOK
    <2>4. BuildsOK'
        BY <1>1, <1>4, <1>11, ResolvedType DEF Release
    <2> QED BY <1>1, <1>3, <1>11, <2>2, <2>3, <2>4, Unchanged DEF Release, TypeOK
<1> QED BY <1>5, <1>6, <1>7, <1>8, <1>9, <1>10, <1>11 DEF Finisher

\* What the threads of init() enter is read from disk.
LEMMA VerifyMap ==
    ASSUME Verify
    PROVE  \E Good \in SUBSET Tops :
               /\ cached' \in Orders(Good) /\ unseen' = Good
               /\ cached' \in Seq(Tops) /\ Members(cached') = Good
               /\ \A i, j \in 1..Len(cached') : cached'[i] = cached'[j] => i = j
<1> DEFINE Good == {d \in Tops : OnDisk(d) /\ Verified(d)}
<1>1. Good \in SUBSET Tops /\ IsFiniteSet(Good)
    BY FiniteTops
<1>2. cached' \in Orders(Good) /\ unseen' = Good
    BY DEF Verify
<1> HIDE DEF Good
<1>3. /\ cached' \in Seq(Good) /\ Members(cached') = Good
      /\ \A i, j \in 1..Len(cached') : cached'[i] = cached'[j] => i = j
    BY <1>1, <1>2, OrdersFacts
<1> QED BY <1>1, <1>2, <1>3

\* The worker stops, and init() runs.
LEMMA BootType ==
    ASSUME TypeOK, Booting, Stop \/ Boot
    PROVE  TypeOK'
<1>1. MapsOK /\ DiskOK /\ PoolOK /\ BuildsOK /\ BootOK
    BY DEF TypeOK
<1>2. ASSUME Stop PROVE TypeOK'
    <2>1. MapsOK'
        <3>1. cached' = <<>> /\ cached' \in Seq(Tops) /\ Len(cached') = 0
            BY <1>2 DEF Stop
        <3>2. Members(cached') = {} /\ 1..Len(cached') = {}
            BY <3>1 DEF Members
        <3> QED BY <1>2, <3>1, <3>2 DEF Stop, MapsOK
    <2>2. DiskOK' /\ PoolOK'
        BY <1>1, <1>2 DEF Stop, DiskOK, PoolOK
    <2>3. BuildsOK'
        <3>1. <<>> \in Seq(Frames)
            OBVIOUS
        <3> QED BY <1>1, <1>2, <3>1 DEF Stop, BuildsOK
    <2>4. BootOK'
        BY <1>1, <1>2, DirectoryAssumption DEF Stop, BootOK
    <2> QED BY <2>1, <2>2, <2>3, <2>4 DEF TypeOK
<1>3. ASSUME Verify PROVE TypeOK'
    <2>1. PICK Good \in SUBSET Tops :
              /\ unseen' = Good /\ cached' \in Seq(Tops) /\ Members(cached') = Good
              /\ \A i, j \in 1..Len(cached') : cached'[i] = cached'[j] => i = j
        BY <1>3, VerifyMap
    <2>2. \A d \in Tops : pending[d] = "none"
        BY <1>3 DEF Verify, Booting
    <2>3. MapsOK'
        BY <1>1, <1>3, <2>1, <2>2 DEF Verify, MapsOK
    <2>4. DiskOK'
        <3>1. ASSUME NEW D \in SUBSET Tops PROVE InTrees(D) \subseteq Nodes
            BY <3>1, TreeType
        <3>2. InTrees({d \in Tops : OnDisk(d) /\ Verified(d)}) \subseteq Nodes
            BY <3>1
        <3> QED BY <1>1, <1>3, <3>2 DEF Verify, DiskOK
    <2>5. BootOK'
        BY <1>1, <1>3, <2>1 DEF Verify, BootOK
    <2> QED BY <1>1, <1>3, <2>3, <2>4, <2>5, Unchanged DEF Verify, TypeOK
<1>4. ASSUME NEW d \in Tops, Admit(d) PROVE TypeOK'
    <2>1. {d} \in SUBSET Tops /\ count \in [Files -> Int] /\ current \in Int
        BY <1>1 DEF MapsOK
    <2>2. With(count, {d}) \in [Files -> Int] /\ Required(count, {d}) \in Nat
        BY <2>1, LedgerType
    <2>3. /\ count' = count \/ count' = With(count, {d})
          /\ current' = current \/ current' = current + Required(count, {d})
          /\ cached' = cached /\ pending' = pending
        BY <1>4 DEF Admit
    <2>4. count' \in [Files -> Int] /\ current' \in Int
        BY <2>1, <2>2, <2>3
    <2>5. MapsOK'
        BY <1>1, <2>3, <2>4 DEF MapsOK
    <2>6. DiskOK'
        BY <1>1, <1>4 DEF Admit, DiskOK
    <2>7. BootOK'
        BY <1>1, <1>4 DEF Admit, BootOK
    <2> QED BY <1>1, <1>4, <2>5, <2>6, <2>7, Unchanged DEF Admit, TypeOK
<1>5. ASSUME Up PROVE TypeOK'
    <2>1. BootOK'
        BY <1>1, <1>5 DEF Up, BootOK
    <2> QED BY <1>1, <1>5, <2>1, Unchanged DEF Up, TypeOK
<1> QED BY <1>2, <1>3, <1>4, <1>5 DEF Boot

\* An empty object over an empty directory has the types.
LEMMA InitType == Init => TypeOK /\ Booting /\ Finishing
<1> SUFFICES ASSUME Init PROVE TypeOK /\ Booting /\ Finishing
    OBVIOUS
<1>1. cached = <<>> /\ cached \in Seq(Tops) /\ Members(cached) = {} /\ 1..Len(cached) = {}
    BY DEF Init, Members
<1>2. MapsOK
    BY <1>1 DEF Init, MapsOK
<1>3. DiskOK /\ PoolOK
    BY DEF Init, DiskOK, PoolOK
<1>4. BuildsOK
    <2>1. <<>> \in Seq(Frames)
        OBVIOUS
    <2> QED BY <2>1 DEF Init, BuildsOK
<1>5. BootOK
    BY DirectoryAssumption DEF Init, BootOK
<1>6. Booting /\ Finishing
    BY DEF Init, Booting, Finishing
<1> QED BY <1>2, <1>3, <1>4, <1>5, <1>6 DEF TypeOK

\* While the worker is up, steps leave what init() works with alone.
LEMMA StepsWhenUp ==
    /\ \A b \in Builders : Build(b) \/ Builder(b) => phase = "up" /\ UNCHANGED bootVars
    /\ \A n \in Nodes : Task(n) => phase = "up" /\ UNCHANGED bootVars
    /\ \A d \in Tops : Finisher(d) => phase = "up" /\ UNCHANGED bootVars
<1>1. ASSUME NEW b \in Builders, Build(b) \/ Builder(b)
      PROVE  phase = "up" /\ UNCHANGED bootVars
    BY <1>1 DEF Build, Builder, TopFails, Plan, PlanRaise, Descend, SkipDone, EvictWalk,
                EvictRest, EvictRaise, EvictGone, WaitRaise, Link, Return,
                ToLink, Waiting, Stepping, Busy
<1> QED BY <1>1 DEF Task, Finisher

\* init() finds nothing being built, and completes what it has entered.
LEMMA BootingStep ==
    ASSUME TypeOK, Booting, [Next]_vars
    PROVE  Booting'
<1>1. ASSUME phase = "up", UNCHANGED bootVars PROVE Booting'
    BY <1>1 DEF Booting, bootVars
<1>2. ASSUME Stop PROVE Booting'
    BY <1>2 DEF Stop, Booting
<1>3. ASSUME Verify PROVE Booting'
    BY <1>3, VerifyMap DEF Verify, Booting
<1>4. ASSUME NEW d \in Tops, Admit(d) PROVE Booting'
    BY <1>4 DEF Admit, Booting
<1>5. ASSUME Up PROVE Booting'
    BY <1>5 DEF Up, Booting
<1>6. ASSUME UNCHANGED vars PROVE Booting'
    BY <1>6 DEF vars, ledgerVars, bootVars, Booting, Members
<1> QED BY <1>1, <1>2, <1>3, <1>4, <1>5, <1>6, StepsWhenUp DEF Next, Boot

\* The finisher works on directories that are pending.
LEMMA FinishingStep ==
    ASSUME TypeOK, Finishing, [Next]_vars
    PROVE  Finishing'
<1>1. /\ pending \in [Tops -> {"none", "building", "failed"}]
      /\ finish \in [Tops -> {"none", "remove", "release", "stuck"}]
    BY DEF TypeOK, MapsOK, PoolOK
<1>2. ASSUME UNCHANGED <<pending, finish>> PROVE Finishing'
    BY <1>2 DEF Finishing
<1>3. ASSUME NEW b \in Builders, Build(b) \/ Builder(b) PROVE Finishing'
    <2>1. ASSUME Plan(b) PROVE Finishing'
        BY <1>1, <2>1 DEF Plan, Finishing
    <2>2. CASE ~Plan(b)
        BY <1>2, <1>3, <2>2 DEF Build, Builder, TopFails, PlanRaise, Descend, SkipDone,
                EvictWalk, EvictRest, EvictRaise, EvictGone, WaitRaise, Link, Return,
                ledgerVars, poolVars
    <2> QED BY <2>1, <2>2
<1>4. ASSUME NEW n \in Nodes, Task(n) PROVE Finishing'
    BY <1>2, <1>4 DEF Task, ledgerVars
<1>5. ASSUME NEW d \in Tops, Finisher(d) PROVE Finishing'
    <2>1. ASSUME Complete(d) PROVE Finishing'
        BY <1>1, <2>1 DEF Complete, Unfinished, Finishing
    <2>2. ASSUME Fail(d) PROVE Finishing'
        BY <1>1, <2>2 DEF Fail, Unfinished, Finishing, ledgerVars
    <2>3. ASSUME DropWalk(d) PROVE Finishing'
        BY <1>2, <2>3 DEF DropWalk, ledgerVars, poolVars
    <2>4. ASSUME DropRest(d) \/ DropRaise(d) PROVE Finishing'
        BY <1>1, <2>4 DEF DropRest, DropRaise, Finishing, ledgerVars
    <2>5. ASSUME Release(d) PROVE Finishing'
        BY <1>1, <2>5 DEF Release, Finishing
    <2> QED BY <1>5, <2>1, <2>2, <2>3, <2>4, <2>5 DEF Finisher
<1>6. ASSUME Stop PROVE Finishing'
    BY <1>6 DEF Stop, Finishing
<1>7. ASSUME Boot PROVE Finishing'
    BY <1>2, <1>7 DEF Boot, Verify, Admit, Up, ledgerVars, poolVars
<1>8. ASSUME UNCHANGED vars PROVE Finishing'
    BY <1>2, <1>8 DEF vars, ledgerVars, poolVars
<1> QED BY <1>3, <1>4, <1>5, <1>6, <1>7, <1>8 DEF Next

\* Every action keeps the types.
LEMMA TypeStep ==
    ASSUME TypeOK, Booting, Finishing, [Next]_vars
    PROVE  TypeOK'
<1>1. ASSUME UNCHANGED vars PROVE TypeOK'
    BY <1>1, Unchanged DEF vars, TypeOK
<1> QED BY <1>1, BuilderType, TaskType, FinisherType, BootType DEF Next

\* The maps, the disk, the pool and the calls stay within their types: the
\* OrderedDict keeps one entry for a directory through hits, evictions and
\* completions, and none for one whose future is pending.
THEOREM DirectoryTypeCorrect == Spec => []TypeOK
<1>1. TypeOK /\ Booting /\ Finishing /\ [Next]_vars => (TypeOK /\ Booting /\ Finishing)'
    BY TypeStep, BootingStep, FinishingStep
<1> QED BY <1>1, InitType, PTL DEF Spec

-----------------------------------------------------------------------------
(* The budget *)

\* What a plan evicts makes room for what it adds.
LEMMA PlanWithinBudget ==
    ASSUME TypeOK, WithinBudget, NEW b \in Builders, Plan(b)
    PROVE  WithinBudget'
<1> DEFINE S == Top(b).cached V == Victims(S)
           required == Required(count, New(S)) released == Released(Counted(S), V)
<1>1. /\ S \in SUBSET Tops /\ Fits(S) /\ New(S) \in SUBSET Tops
      /\ current' = current - released + required
    BY PlanStep
<1>2. V \in SUBSET Tops
    BY <1>1, VictimsFacts DEF TypeOK
<1>3. count \in [Files -> Int] /\ current \in Int /\ setting.limit \in Nat
    BY DEF TypeOK, MapsOK, BootOK, Setting
<1>4. required \in Nat /\ Counted(S) \in [Files -> Int]
    BY <1>1, <1>3, LedgerType DEF Counted
<1>5. released \in Nat
    BY <1>2, <1>4, LedgerType
<1>6. setting' = setting
    BY DEF Plan, bootVars
<1>7. Available(S) = setting.limit - current - required
    BY DEF Available
<1> HIDE DEF required, released, S, V
<1>8. CASE MustEvict(S)
    <2>1. setting.limit - current - required + released >= 0
        BY <1>1, <1>7, <1>8, VictimsFacts DEF TypeOK, V, released
    <2> QED BY <1>1, <1>3, <1>4, <1>5, <1>6, <2>1 DEF WithinBudget
<1>9. CASE ~MustEvict(S)
    <2>1. setting.limit > 0 => setting.limit - current - required >= 0
        BY <1>3, <1>4, <1>7, <1>9 DEF MustEvict
    <2> QED BY <1>1, <1>3, <1>4, <1>5, <1>6, <2>1 DEF WithinBudget
<1> QED BY <1>8, <1>9

\* Every step keeps within the budget.
LEMMA BudgetStep ==
    ASSUME TypeOK, Booting, WithinBudget, [Next]_vars
    PROVE  WithinBudget'
<1>1. count \in [Files -> Int] /\ current \in Int /\ setting.limit \in Nat
    BY DEF TypeOK, MapsOK, BootOK, Setting
<1>2. ASSUME UNCHANGED <<current, setting>> PROVE WithinBudget'
    BY <1>2 DEF WithinBudget
<1>3. ASSUME NEW b \in Builders, Build(b) \/ Builder(b) PROVE WithinBudget'
    <2>1. CASE Plan(b)
        BY <2>1, PlanWithinBudget
    <2>2. CASE ~Plan(b)
        BY <1>2, <1>3, <2>2 DEF Build, Builder, TopFails, PlanRaise, Descend, SkipDone,
                EvictWalk, EvictRest, EvictRaise, EvictGone, WaitRaise, Link, Return,
                ledgerVars, bootVars
    <2> QED BY <2>1, <2>2
<1>4. ASSUME NEW n \in Nodes, Task(n) PROVE WithinBudget'
    BY <1>2, <1>4 DEF Task, ledgerVars, bootVars
<1>5. ASSUME NEW d \in Tops, Finisher(d) PROVE WithinBudget'
    <2>1. setting' = setting
        BY <1>5 DEF Finisher, bootVars
    <2>2. ASSUME Release(d) PROVE WithinBudget'
        <3>1. Released(count, {d}) \in Nat
            BY <1>1, LedgerType
        <3>2. current' = current - Released(count, {d}) \/ current' = current
            BY <2>2 DEF Release
        <3> QED BY <1>1, <2>1, <3>1, <3>2 DEF WithinBudget
    <2>3. CASE ~Release(d)
        BY <1>2, <1>5, <2>1, <2>3 DEF Finisher, Complete, Fail, DropWalk, DropRest,
                DropRaise, ledgerVars
    <2> QED BY <2>2, <2>3
<1>6. ASSUME Stop PROVE WithinBudget'
    <2>1. current' = 0 /\ setting' \in LaterSettings
        BY <1>6 DEF Stop
    <2>2. setting'.limit \in Nat
        BY <2>1, DirectoryAssumption DEF Setting
    <2> QED BY <2>1, <2>2 DEF WithinBudget
<1>7. ASSUME Verify \/ Up PROVE WithinBudget'
    BY <1>2, <1>7 DEF Verify, Up, ledgerVars
<1>8. ASSUME NEW d \in Tops, Admit(d) PROVE WithinBudget'
    <2>1. Required(count, {d}) \in Nat
        BY <1>1, LedgerType
    <2>2. setting' = setting
        BY <1>8 DEF Admit
    <2>3. CASE current + Required(count, {d}) > setting.limit /\ setting.limit > 0
        BY <1>2, <1>8, <2>2, <2>3 DEF Admit
    <2>4. CASE ~(current + Required(count, {d}) > setting.limit /\ setting.limit > 0)
        <3>1. current' = current + Required(count, {d})
            BY <1>8, <2>4 DEF Admit
        <3> QED BY <1>1, <2>1, <2>2, <2>4, <3>1 DEF WithinBudget
    <2> QED BY <2>3, <2>4
<1>9. ASSUME UNCHANGED vars PROVE WithinBudget'
    BY <1>2, <1>9 DEF vars, ledgerVars, bootVars
<1> QED BY <1>3, <1>4, <1>5, <1>6, <1>7, <1>8, <1>9 DEF Next, Boot

\* The total never passes max_cache_size_bytes: a plan that does not find
\* enough to evict raises before it changes anything, and init() tests each
\* directory before it counts it.
THEOREM DirectoryBudgetHolds == Spec => []WithinBudget
<1>1. Init => WithinBudget
    BY DirectoryAssumption DEF Init, WithinBudget, Setting
<1>2. TypeOK /\ Booting /\ Finishing /\ WithinBudget /\ [Next]_vars
        => (TypeOK /\ Booting /\ Finishing /\ WithinBudget)'
    BY TypeStep, BootingStep, FinishingStep, BudgetStep
<1> QED BY <1>1, <1>2, InitType, PTL DEF Spec

-----------------------------------------------------------------------------
(* The ledger *)

\* The trees of different directories have no node in common.
LEMMA TreesDisjoint ==
    ASSUME NEW D \in SUBSET Tops, NEW E \in SUBSET Tops, D \cap E = {}
    PROVE  /\ InTrees(D \cup E) = InTrees(D) \cup InTrees(E)
           /\ InTrees(D) \cap InTrees(E) = {}
<1>1. InTrees(D \cup E) = InTrees(D) \cup InTrees(E)
    BY DEF InTrees
<1>2. ASSUME NEW n \in InTrees(D), n \in InTrees(E) PROVE FALSE
    <2>1. PICK d \in D, e \in E : n \in Tree[d] /\ n \in Tree[e]
        BY <1>2 DEF InTrees
    <2>2. n \in Nodes
        BY TreeType
    <2>3. PICK t \in Tops : \A u \in Tops : n \in Tree[u] <=> u = t
        BY <2>2, DirectoryAssumption
    <2>4. d = t /\ e = t
        BY <2>1, <2>3
    <2> QED BY <2>4
<1> QED BY <1>1, <1>2

\* The uses of a file, and the bytes of the copies, add up.
LEMMA UsesUnion ==
    ASSUME NEW D \in SUBSET Tops, NEW E \in SUBSET Tops, D \cap E = {}, NEW f \in Files
    PROVE  Uses(D \cup E)[f] = Uses(D)[f] + Uses(E)[f]
<1> DEFINE In(S) == {n \in InTrees(S) : f \in FilesOf[n]}
<1>1. IsFiniteSet(In(D)) /\ IsFiniteSet(In(E))
    BY TreeType, FS_Subset
<1>2. In(D \cup E) = In(D) \cup In(E) /\ In(D) \cap In(E) = {}
    BY TreesDisjoint
<1>3. /\ Uses(D \cup E)[f] = Cardinality(In(D \cup E))
      /\ Uses(D)[f] = Cardinality(In(D)) /\ Uses(E)[f] = Cardinality(In(E))
    BY DEF Uses
<1> HIDE DEF In
<1>4. Cardinality(In(D) \cup In(E))
        = Cardinality(In(D)) + Cardinality(In(E)) - Cardinality({})
    BY <1>1, <1>2, FS_Union
<1>5. Cardinality({}) = 0 /\ Cardinality(In(D)) \in Nat /\ Cardinality(In(E)) \in Nat
    BY <1>1, FS_EmptySet, FS_CardinalityType
<1>6. Uses(D \cup E)[f] = Cardinality(In(D) \cup In(E))
    BY <1>2, <1>3
<1>7. Uses(D \cup E)[f] = Cardinality(In(D)) + Cardinality(In(E))
    BY <1>4, <1>5, <1>6
<1> QED BY <1>3, <1>7

LEMMA CopiesUnion ==
    ASSUME NEW D \in SUBSET Tops, NEW E \in SUBSET Tops, D \cap E = {}
    PROVE  CopySize(D \cup E) = CopySize(D) + CopySize(E)
<1>1. Places(D \cup E) = Places(D) \cup Places(E) /\ Places(D) \cap Places(E) = {}
    BY TreesDisjoint DEF Places
<1>2. /\ Places(D) \in SUBSET (Nodes \X Files) /\ IsFiniteSet(Places(D))
      /\ Places(E) \in SUBSET (Nodes \X Files) /\ IsFiniteSet(Places(E))
      /\ PlaceSize \in [Nodes \X Files -> Nat]
    BY PlacesType
<1>3. SizeOf(PlaceSize, Places(D) \cup Places(E))
        = SizeOf(PlaceSize, Places(D)) + SizeOf(PlaceSize, Places(E))
    BY <1>1, <1>2, SizeOfUnion
<1> QED BY <1>1, <1>3 DEF CopySize

\* The files the trees of D use, and what the ledger holds for them.
Paid(D) == {f \in Files : Uses(D)[f] > 0}
Books(D, counts, total) ==
    /\ counts = IF setting.copy THEN [f \in Files |-> 0] ELSE Uses(D)
    /\ total = IF setting.copy THEN CopySize(D) ELSE SizeOf(Size, Paid(D))

\* Nothing is held, nothing is paid for.
LEMMA NoBooks ==
    /\ Uses({}) = [f \in Files |-> 0] /\ CopySize({}) = 0 /\ SizeOf(Size, Paid({})) = 0
<1>1. InTrees({}) = {}
    BY DEF InTrees
<1>2. Places({}) = {}
    BY <1>1 DEF Places
<1>3. \A f \in Files : {n \in InTrees({}) : f \in FilesOf[n]} = {}
    BY <1>1
<1>4. Uses({}) = [f \in Files |-> 0]
    BY <1>3, FS_EmptySet DEF Uses
<1>5. Paid({}) = {}
    BY <1>4 DEF Paid
<1> QED BY <1>2, <1>4, <1>5, SizeOfEmpty DEF CopySize

\* Directories are added: the first to use a file pays for it.
LEMMA BooksGrow ==
    ASSUME NEW D \in SUBSET Tops, NEW E \in SUBSET Tops, D \cap E = {},
           NEW counts, NEW total, Books(D, counts, total)
    PROVE  Books(D \cup E, With(counts, E), total + Required(counts, E))
<1>1. CASE setting.copy
    BY <1>1, CopiesUnion DEF Books, With, Required
<1>2. CASE ~setting.copy
    <2>1. counts = Uses(D) /\ total = SizeOf(Size, Paid(D))
        BY <1>2 DEF Books
    <2>2. Uses(D) \in [Files -> Nat] /\ Uses(E) \in [Files -> Nat]
          /\ Uses(D \cup E) \in [Files -> Nat]
        BY UsesType
    <2>3. \A f \in Files : Uses(D \cup E)[f] = Uses(D)[f] + Uses(E)[f]
        BY UsesUnion
    <2> DEFINE first == {f \in Files : Uses(D)[f] = 0 /\ Uses(E)[f] > 0}
    <2>4. Paid(D \cup E) = Paid(D) \cup first /\ Paid(D) \cap first = {}
        <3>1. ASSUME NEW f \in Files
              PROVE  Uses(D \cup E)[f] > 0
                        <=> Uses(D)[f] > 0 \/ (Uses(D)[f] = 0 /\ Uses(E)[f] > 0)
            <4>1. Uses(D)[f] \in Nat /\ Uses(E)[f] \in Nat
                BY <2>2
            <4>2. Uses(D \cup E)[f] = Uses(D)[f] + Uses(E)[f]
                BY <2>3
            <4> QED BY <4>1, <4>2
        <3> QED BY <3>1 DEF Paid
    <2>5. Required(counts, E) = SizeOf(Size, first)
        BY <1>2, <2>1 DEF Required
    <2>6. With(counts, E) = Uses(D \cup E)
        <3>1. With(counts, E) = [f \in Files |-> Uses(D)[f] + Uses(E)[f]]
            BY <1>2, <2>1 DEF With
        <3>2. Uses(D \cup E) = [f \in Files |-> Uses(D \cup E)[f]]
            BY <2>2
        <3> QED BY <2>3, <3>1, <3>2
    <2>7. Paid(D) \in SUBSET Files /\ first \in SUBSET Files
        BY DEF Paid
    <2> HIDE DEF first
    <2>8. SizeOf(Size, Paid(D) \cup first) = SizeOf(Size, Paid(D)) + SizeOf(Size, first)
        BY <2>4, <2>7, FilesSizeUnion
    <2> QED BY <1>2, <2>1, <2>4, <2>5, <2>6, <2>8 DEF Books
<1> QED BY <1>1, <1>2

\* Directories are released: the last to use a file gets it back.
LEMMA BooksShrink ==
    ASSUME NEW D \in SUBSET Tops, NEW E \in SUBSET D,
           NEW counts, NEW total, Books(D, counts, total)
    PROVE  Books(D \ E, Without(counts, E), total - Released(counts, E))
<1> DEFINE R == D \ E
<1>1. R \in SUBSET Tops /\ E \in SUBSET Tops /\ R \cap E = {} /\ R \cup E = D
    OBVIOUS
<1> HIDE DEF R
<1>2. CASE setting.copy
    <2>1. CopySize(D) = CopySize(R) + CopySize(E)
        BY <1>1, CopiesUnion
    <2>2. CopySize(R) \in Nat /\ CopySize(E) \in Nat
        BY <1>1, PlacesType
    <2>3. Books(R, Without(counts, E), total - Released(counts, E))
        BY <1>2, <2>1, <2>2 DEF Books, Without, Released
    <2> QED BY <2>3 DEF R
<1>3. CASE ~setting.copy
    <2>1. counts = Uses(D) /\ total = SizeOf(Size, Paid(D))
        BY <1>3 DEF Books
    <2>2. Uses(R) \in [Files -> Nat] /\ Uses(E) \in [Files -> Nat]
          /\ Uses(D) \in [Files -> Nat]
        BY <1>1, UsesType
    <2>3. \A f \in Files : Uses(D)[f] = Uses(R)[f] + Uses(E)[f]
        <3>1. \A f \in Files : Uses(R \cup E)[f] = Uses(R)[f] + Uses(E)[f]
            BY <1>1, UsesUnion
        <3> QED BY <1>1, <3>1
    <2> DEFINE last == {f \in Files : Uses(E)[f] > 0 /\ Uses(D)[f] = Uses(E)[f]}
    <2>4. Paid(D) = Paid(R) \cup last /\ Paid(R) \cap last = {}
        BY <2>2, <2>3 DEF Paid
    <2>5. Released(counts, E) = SizeOf(Size, last)
        BY <1>3, <2>1 DEF Released
    <2>6. Without(counts, E) = Uses(R)
        <3>1. Without(counts, E) = [f \in Files |-> Uses(D)[f] - Uses(E)[f]]
            BY <1>3, <2>1 DEF Without
        <3>2. Uses(R) = [f \in Files |-> Uses(R)[f]]
            BY <2>2
        <3>3. \A f \in Files : Uses(D)[f] - Uses(E)[f] = Uses(R)[f]
            BY <2>2, <2>3
        <3> QED BY <3>1, <3>2, <3>3
    <2>7. Paid(R) \in SUBSET Files /\ last \in SUBSET Files
        BY DEF Paid
    <2> HIDE DEF last
    <2>8. SizeOf(Size, Paid(R) \cup last) = SizeOf(Size, Paid(R)) + SizeOf(Size, last)
        BY <2>4, <2>7, FilesSizeUnion
    <2>9. SizeOf(Size, Paid(R)) \in Nat /\ SizeOf(Size, last) \in Nat
        BY <2>7, FilesSize
    <2>10. total - Released(counts, E) = SizeOf(Size, Paid(R))
        BY <2>1, <2>4, <2>5, <2>8, <2>9
    <2>11. Books(R, Without(counts, E), total - Released(counts, E))
        BY <1>3, <2>6, <2>10 DEF Books
    <2> QED BY <2>11 DEF R
<1> QED BY <1>2, <1>3

\* The books of the directories held.
Balanced == Books(Held, count, current)
LEMMA LedgerBooks == Ledger <=> (~Shrunk => Balanced)
BY DEF Ledger, LedgerOf, Balanced, Books, Paid

\* Steps that move no directory in or out keep them.
LEMMA LedgerStays ==
    ASSUME Balanced, Held' = Held, UNCHANGED <<count, current, setting>>
    PROVE  Balanced'
BY DEF Balanced, Books, Paid

LEMMA HeldType ==
    ASSUME TypeOK
    PROVE  Held \in SUBSET Tops /\ Members(cached) \subseteq Tops
BY MembersType DEF Held, TypeOK, MapsOK

\* A plan adds what is new and takes off what it evicts.
LEMMA PlanLedger ==
    ASSUME TypeOK, Booting, Balanced, NEW b \in Builders, Plan(b)
    PROVE  Balanced'
<1> DEFINE S == Top(b).cached V == Victims(S) N == New(S)
           total == current + Required(count, N)
<1>1. /\ S \in SUBSET Tops /\ Fits(S) /\ N \in SUBSET Tops /\ N \cap Members(cached) = {}
      /\ Members(cached') = Members(cached) \ V
      /\ count' = Without(Counted(S), V)
      /\ current' = current - Released(Counted(S), V) + Required(count, N)
      /\ pending' = [d \in Tops |-> IF d \in N THEN "building" ELSE pending[d]]
    BY PlanStep
<1>2. V \in SUBSET Members(cached)
    BY <1>1, VictimsFacts DEF TypeOK
<1>3. unseen = {} /\ unseen' = {} /\ setting' = setting
    BY StepsWhenUp DEF Builder, Booting, bootVars
<1>4. \A d \in N : pending[d] = "none"
    BY DEF New
<1>5. \A d \in Members(cached) : pending[d] = "none"
    BY DEF TypeOK, MapsOK
<1>6. Held \in SUBSET Tops /\ Members(cached) \subseteq Tops
    BY HeldType
<1>7. Counted(S) = With(count, N)
    BY DEF Counted
<1> HIDE DEF S, V, N
<1>8. N \cap Held = {}
    BY <1>1, <1>4 DEF Held
<1>9. Books(Held \cup N, Counted(S), total)
    BY <1>1, <1>6, <1>7, <1>8, BooksGrow DEF Balanced
<1>10. V \in SUBSET (Held \cup N) /\ Held \cup N \in SUBSET Tops
    BY <1>1, <1>2, <1>3, <1>6 DEF Held
<1>11. Books((Held \cup N) \ V, Without(Counted(S), V), total - Released(Counted(S), V))
    BY <1>9, <1>10, BooksShrink
<1>12. current' = total - Released(Counted(S), V)
    <2>1. count \in [Files -> Int] /\ current \in Int
        BY DEF TypeOK, MapsOK
    <2>2. Required(count, N) \in Nat /\ Counted(S) \in [Files -> Int]
        BY <1>1, <1>7, <2>1, LedgerType
    <2>3. Released(Counted(S), V) \in Nat
        BY <1>2, <1>6, <2>2, LedgerType
    <2> QED BY <1>1, <2>1, <2>2, <2>3
<1>13. Held' = (Held \cup N) \ V
    <2>1. Held' = Members(cached') \cup {d \in Tops : pending'[d] = "building"}
        BY <1>3 DEF Held
    <2>2. {d \in Tops : pending'[d] = "building"} = {d \in Tops : pending[d] = "building"} \cup N
        BY <1>1
    <2>3. V \cap {d \in Tops : pending[d] = "building"} = {} /\ V \cap N = {}
        BY <1>1, <1>2, <1>5
    <2>4. Held = Members(cached) \cup {d \in Tops : pending[d] = "building"}
        BY <1>3 DEF Held
    <2> QED BY <1>1, <2>1, <2>2, <2>3, <2>4
<1> HIDE DEF total
<1>14. Books(Held', count', current')
    BY <1>1, <1>11, <1>12, <1>13
<1> QED BY <1>3, <1>14 DEF Books, Balanced, Paid

\* What is held can be taken off: no KeyError.
LEMMA NoUnderflow ==
    ASSUME TypeOK, Balanced, NEW d \in Held
    PROVE  ~Underflow(count, {d})
<1> SUFFICES ASSUME ~setting.copy, NEW f \in Files PROVE ~(count[f] < Uses({d})[f])
    BY DEF Underflow
<1>1. Held \in SUBSET Tops
    BY HeldType
<1>2. Held \ {d} \in SUBSET Tops /\ {d} \in SUBSET Tops /\ (Held \ {d}) \cup {d} = Held
    BY <1>1
<1>3. Uses(Held)[f] = Uses(Held \ {d})[f] + Uses({d})[f]
    BY <1>2, UsesUnion
<1>4. Uses(Held \ {d}) \in [Files -> Nat] /\ Uses({d}) \in [Files -> Nat]
    BY <1>2, UsesType
<1>5. count = Uses(Held)
    BY DEF Balanced, Books
<1> QED BY <1>3, <1>4, <1>5

\* A directory that failed is taken off.
LEMMA ReleaseLedger ==
    ASSUME TypeOK, Finishing, Balanced, NEW d \in Tops, Release(d), UNCHANGED bootVars
    PROVE  Balanced'
<1>1. pending[d] = "building" /\ d \in Held /\ Held \in SUBSET Tops
    BY HeldType DEF Release, Finishing, Held
<1>2. /\ pending' = [pending EXCEPT ![d] = "failed"]
      /\ cached' = cached /\ unseen' = unseen /\ setting' = setting
      /\ count' = Without(count, {d}) /\ current' = current - Released(count, {d})
    BY <1>1, NoUnderflow DEF Release, bootVars
<1>3. Books(Held \ {d}, count', current')
    BY <1>1, <1>2, BooksShrink DEF Balanced
<1>4. Held' = Held \ {d}
    <2>1. pending \in [Tops -> {"none", "building", "failed"}]
        BY DEF TypeOK, MapsOK
    <2>2. d \notin Members(cached)
        BY <1>1 DEF TypeOK, MapsOK
    <2>3. {e \in Tops : pending'[e] = "building"} = {e \in Tops : pending[e] = "building"} \ {d}
        BY <1>2, <2>1
    <2>4. Held' = (Members(cached) \ unseen) \cup {e \in Tops : pending'[e] = "building"}
        BY <1>2 DEF Held
    <2> QED BY <2>2, <2>3, <2>4 DEF Held
<1> QED BY <1>2, <1>3, <1>4 DEF Books, Balanced, Paid

\* One that is complete moves from the pending ones to the map.
LEMMA CompleteLedger ==
    ASSUME TypeOK, Booting, Balanced, NEW d \in Tops, Complete(d), UNCHANGED bootVars, phase = "up"
    PROVE  Balanced'
<1>1. MapsOK /\ Members(cached) \subseteq Tops
    BY HeldType DEF TypeOK
<1>2. /\ pending[d] = "building" /\ pending' = [pending EXCEPT ![d] = "none"]
      /\ cached' = Append(cached, d) /\ unseen = {} /\ unseen' = {}
      /\ UNCHANGED <<count, current, setting>>
    BY DEF Complete, Unfinished, Booting, bootVars
<1>3. d \notin Members(cached)
    BY <1>1, <1>2 DEF MapsOK
<1>4. Members(cached') = Members(cached) \cup {d}
    BY <1>1, <1>2, <1>3, AppendFacts DEF MapsOK
<1>5. {e \in Tops : pending'[e] = "building"} = {e \in Tops : pending[e] = "building"} \ {d}
    BY <1>1, <1>2 DEF MapsOK
<1>6. Held' = Members(cached') \cup {e \in Tops : pending'[e] = "building"}
    BY <1>2 DEF Held
<1>7. Held = Members(cached) \cup {e \in Tops : pending[e] = "building"}
    BY <1>2 DEF Held
<1>8. d \in {e \in Tops : pending[e] = "building"}
    BY <1>2
<1>9. Held' = Held
    BY <1>4, <1>5, <1>6, <1>7, <1>8
<1> QED BY <1>2, <1>9, LedgerStays

\* A worker that stops has nothing, and init() adds what it admits.
LEMMA BootLedger ==
    ASSUME TypeOK, Booting, Stop \/ (Boot /\ Balanced /\ ~Shrunk)
    PROVE  Balanced'
<1>1. \A s \in {<<>>} : Members(s) = {}
    BY DEF Members
<1>2. ASSUME Stop PROVE Balanced'
    <2>1. Members(cached') = {} /\ \A d \in Tops : pending'[d] = "none"
        BY <1>1, <1>2 DEF Stop
    <2>2. Held' = {}
        BY <2>1 DEF Held
    <2>3. count' = [f \in Files |-> 0] /\ current' = 0
        BY <1>2 DEF Stop
    <2> QED BY <2>2, <2>3, NoBooks DEF Balanced, Books, Paid
<1>3. ASSUME Verify, Balanced PROVE Balanced'
    <2>1. cached = <<>> /\ \A d \in Tops : pending[d] = "none"
        BY <1>3 DEF Verify, Booting
    <2>2. Held = {}
        BY <1>1, <2>1 DEF Held
    <2>3. Members(cached') = unseen' /\ pending' = pending
        BY <1>3, VerifyMap DEF Verify
    <2>4. Held' = {}
        BY <2>1, <2>3 DEF Held
    <2> QED BY <1>3, <2>2, <2>4, LedgerStays DEF Verify
<1>4. ASSUME NEW d \in Tops, Admit(d), Balanced, ~Shrunk PROVE Balanced'
    <2>1. /\ ~(setting.limit > 0) /\ setting' = setting
          /\ \A e \in Tops : pending[e] = "none"
        BY <1>4 DEF Admit, Booting, Shrunk
    <2>2. /\ count' = With(count, {d}) /\ current' = current + Required(count, {d})
          /\ cached' = cached /\ pending' = pending /\ unseen' = unseen \ {d}
        BY <1>4, <2>1 DEF Admit
    <2>3. d \in unseen /\ d \in Members(cached)
        BY <1>4 DEF Admit, Booting
    <2>4. d \notin Held
        BY <2>1, <2>3 DEF Held
    <2>5. Held' = Held \cup {d}
        BY <2>1, <2>2, <2>3 DEF Held
    <2>6. Books(Held \cup {d}, count', current')
        BY <1>4, <2>2, <2>4, HeldType, BooksGrow DEF Balanced
    <2> QED BY <2>1, <2>5, <2>6 DEF Books, Balanced, Paid
<1>5. ASSUME Up, Balanced PROVE Balanced'
    <2>1. Held' = Held /\ UNCHANGED <<count, current, setting>>
        BY <1>5 DEF Up, Held, ledgerVars
    <2> QED BY <1>5, <2>1, LedgerStays
<1> QED BY <1>2, <1>3, <1>4, <1>5 DEF Boot

\* Every step keeps the ledger.
LEMMA LedgerStep ==
    ASSUME TypeOK, Booting, Finishing, Ledger, [Next]_vars
    PROVE  Ledger'
<1>1. ASSUME Stop PROVE Ledger'
    <2>1. Balanced'
        BY <1>1, BootLedger
    <2> QED BY <2>1 DEF Ledger, LedgerOf, Balanced, Books, Paid
<1>2. ASSUME ~Stop PROVE setting' = setting
    BY <1>2, StepsWhenUp DEF Next, Boot, Verify, Admit, Up, bootVars, vars
<1>3. ASSUME ~Stop, Shrunk PROVE Ledger'
    BY <1>2, <1>3 DEF Shrunk, Ledger
<1>4. ASSUME ~Stop, ~Shrunk PROVE Ledger'
    <2>1. Balanced
        BY <1>4, LedgerBooks
    <2>2. ASSUME UNCHANGED <<ledgerVars, bootVars>> PROVE Balanced'
        <3>1. Held' = Held /\ UNCHANGED <<count, current, setting>>
            BY <2>2 DEF ledgerVars, bootVars, Held
        <3> QED BY <2>1, <3>1, LedgerStays
    <2>3. ASSUME NEW b \in Builders, Build(b) \/ Builder(b) PROVE Balanced'
        <3>1. CASE Plan(b)
            BY <2>1, <3>1, PlanLedger
        <3>2. CASE ~Plan(b)
            <4>1. UNCHANGED ledgerVars
                BY <2>3, <3>2 DEF Build, Builder, TopFails, PlanRaise, Descend, SkipDone,
                        EvictWalk, EvictRest, EvictRaise, EvictGone, WaitRaise, Link, Return
            <4> QED BY <2>2, <2>3, <4>1, StepsWhenUp
        <3> QED BY <3>1, <3>2
    <2>4. ASSUME NEW n \in Nodes, Task(n) PROVE Balanced'
        BY <2>2, <2>4 DEF Task
    <2>5. ASSUME NEW d \in Tops, Finisher(d) PROVE Balanced'
        <3>1. phase = "up" /\ UNCHANGED bootVars
            BY <2>5 DEF Finisher
        <3>2. CASE Complete(d) \/ Release(d)
            BY <2>1, <3>1, <3>2, CompleteLedger, ReleaseLedger
        <3>3. CASE ~(Complete(d) \/ Release(d))
            BY <2>2, <2>5, <3>1, <3>3 DEF Finisher, Fail, DropWalk, DropRest, DropRaise
        <3> QED BY <3>2, <3>3
    <2>6. ASSUME Boot PROVE Balanced'
        BY <1>4, <2>1, <2>6, BootLedger
    <2>7. Balanced'
        BY <1>4, <2>2, <2>3, <2>4, <2>5, <2>6 DEF Next, vars
    <2> QED BY <2>7 DEF Ledger, LedgerOf, Balanced, Books, Paid
<1> QED BY <1>1, <1>3, <1>4

\* The counts of the shared files and the total are at every moment those of
\* the directories in the map and of those being built, through plans,
\* evictions, completions, failures and restarts.  A worker that was started
\* again with a limit is left out: init() leaves a directory that it has
\* removed in the map.
THEOREM LedgerHolds == Spec => []Ledger
<1>1. Init => Ledger
    <2> SUFFICES ASSUME Init PROVE Ledger
        OBVIOUS
    <2>1. Held = {}
        BY DEF Init, Held, Members
    <2> QED BY <2>1, NoBooks DEF Init, Ledger, LedgerOf, Paid
<1>2. TypeOK /\ Booting /\ Finishing /\ Ledger /\ [Next]_vars
        => (TypeOK /\ Booting /\ Finishing /\ Ledger)'
    BY TypeStep, BootingStep, FinishingStep, LedgerStep
<1> QED BY <1>1, <1>2, InitType, PTL DEF Spec

-----------------------------------------------------------------------------
(* What a restart finds *)

\* A node is in one tree, with all that is below it.
LEMMA TreeFacts ==
    ASSUME NEW d \in Tops
    PROVE  /\ d \in Tree[d] /\ d \in Nodes /\ Tree[d] \subseteq Nodes
           /\ \A n \in Tree[d] : \A m \in Tree[n] : m \in Tree[d]
           /\ \A e \in Tops, n \in Tree[d] : n \in Tree[e] => e = d
<1>1. d \in Nodes
    BY FiniteTops
<1>2. d \in Tree[d] /\ Tree[d] \subseteq Nodes
    BY <1>1 DEF Tree
<1>3. ASSUME NEW n \in Tree[d], NEW m \in Tree[n] PROVE m \in Tree[d]
    BY <1>1, <1>3, DirectoryAssumption DEF Tree
<1>4. ASSUME NEW e \in Tops, NEW n \in Tree[d], n \in Tree[e] PROVE e = d
    BY <1>2, <1>4, DirectoryAssumption
<1> QED BY <1>1, <1>2, <1>3, <1>4

\* The complete, read-only directories stay so when a step leaves their trees
\* alone.
LEMMA VerifiedFrame ==
    ASSUME NEW d \in Tops, Verified(d), \A n \in Tree[d] : disk'[n] = disk[n],
           \A n \in Tree[d] : n \in sealed => n \in sealed'
    PROVE  Verified(d)'
BY DEF Verified, Whole, Filled

\* What is on disk while init() runs are whole, read-only directories of the
\* map, and the books are those of the ones it has admitted; before that they
\* are empty.
Kept == {d \in Tops : OnDisk(d)}
Tidy ==
    /\ phase = "down" => Books({}, count, current)
    /\ phase = "admit" => /\ \A n \in Nodes : OnDisk(n) => n \in InTrees(Kept)
                          /\ \A d \in Kept : d \in Members(cached) /\ Verified(d)
                          /\ unseen \subseteq Kept /\ Books(Kept \ unseen, count, current)

LEMMA VerifyGood ==
    ASSUME TypeOK, Verify
    PROVE  /\ Kept' = unseen' /\ Members(cached') = unseen'
           /\ \A d \in Kept' : Verified(d)'
           /\ \A n \in Nodes : OnDisk(n)' => n \in InTrees(Kept')
<1> DEFINE Good == {d \in Tops : OnDisk(d) /\ Verified(d)}
<1>1. /\ Good \in SUBSET Tops /\ IsFiniteSet(Good)
      /\ \A d \in Good : Verified(d) /\ OnDisk(d)
    BY FiniteTops
<1>2. /\ cached' \in Orders(Good) /\ unseen' = Good
      /\ disk' = [n \in Nodes |-> IF n \in InTrees(Good) THEN disk[n] ELSE "none"]
      /\ sealed' = InTrees(Good)
    BY DEF Verify
<1> HIDE DEF Good
<1>3. Members(cached') = Good
    BY <1>1, <1>2, OrdersFacts
<1>4. ASSUME NEW d \in Good PROVE Verified(d)' /\ OnDisk(d)'
    <2>1. /\ d \in Tops /\ Verified(d) /\ OnDisk(d) /\ d \in Tree[d]
          /\ Tree[d] \subseteq Nodes /\ Tree[d] \subseteq InTrees(Good)
        BY <1>1, TreeFacts DEF InTrees
    <2>2. \A n \in Tree[d] : disk'[n] = disk[n] /\ n \in sealed'
        BY <1>2, <2>1
    <2> QED BY <2>1, <2>2, VerifiedFrame DEF OnDisk
<1>5. ASSUME NEW n \in Nodes, OnDisk(n)' PROVE n \in InTrees(Good)
    BY <1>2, <1>5 DEF OnDisk
<1>6. ASSUME NEW d \in Tops, OnDisk(d)' PROVE d \in Good
    <2>1. d \in Nodes /\ d \in Tree[d]
        BY TreeFacts
    <2>2. PICK e \in Good : d \in Tree[e]
        BY <1>5, <1>6, <2>1 DEF InTrees
    <2>3. e \in Tops
        BY <1>1
    <2>4. e = d
        BY <2>1, <2>2, <2>3, TreeFacts
    <2> QED BY <2>4
<1>7. Kept' = Good
    BY <1>1, <1>4, <1>6 DEF Kept
<1> QED BY <1>2, <1>3, <1>4, <1>5, <1>7

\* A directory that fits is counted, another one leaves the disk.
LEMMA AdmitTidy ==
    ASSUME TypeOK, Booting, Tidy, NEW d \in Tops, Admit(d)
    PROVE  Tidy'
<1>1. /\ phase = "admit" /\ phase' = "admit" /\ cached' = cached /\ setting' = setting
      /\ d \in unseen /\ unseen' = unseen \ {d} /\ d \in Kept
      /\ disk \in [Nodes -> {"none", "made", "whole"}]
    BY DEF Admit, Tidy, TypeOK, DiskOK
<1>2. CASE UNCHANGED <<disk, sealed>> /\ count' = With(count, {d})
           /\ current' = current + Required(count, {d})
    <2>1. /\ Kept' = Kept /\ \A n \in Nodes : OnDisk(n)' = OnDisk(n)
          /\ \A e \in Kept : Verified(e)' = Verified(e)
        BY <1>2 DEF Kept, OnDisk, Verified, Whole, Filled
    <2>2. Kept \ unseen' = (Kept \ unseen) \cup {d} /\ d \notin Kept \ unseen
        BY <1>1
    <2>3. Kept \ unseen \in SUBSET Tops
        BY DEF Kept
    <2>4. Books((Kept \ unseen) \cup {d}, count', current')
        BY <1>1, <1>2, <2>2, <2>3, BooksGrow DEF Tidy
    <2>5. Books(Kept \ unseen, count, current)'
        BY <1>1, <2>1, <2>2, <2>4 DEF Books, Paid
    <2> QED BY <1>1, <2>1, <2>5 DEF Tidy
<1>3. CASE /\ disk' = [n \in Nodes |-> IF n \in Tree[d] THEN "none" ELSE disk[n]]
           /\ sealed' = sealed \ Tree[d] /\ UNCHANGED <<count, current>>
    <2>1. ASSUME NEW e \in Tops, e # d
          PROVE  /\ \A n \in Tree[e] : n \in Nodes /\ n \notin Tree[d]
                 /\ OnDisk(e)' = OnDisk(e) /\ (Verified(e) => Verified(e)')
        <3>1. e \in Tree[e] /\ \A n \in Tree[e] : n \in Nodes /\ n \notin Tree[d]
            BY <2>1, TreeFacts
        <3>2. \A n \in Tree[e] : disk'[n] = disk[n] /\ (n \in sealed => n \in sealed')
            BY <1>3, <3>1
        <3> QED BY <3>1, <3>2, VerifiedFrame DEF OnDisk
    <2>2. Kept' = Kept \ {d}
        <3>1. d \in Nodes /\ d \in Tree[d]
            BY TreeFacts
        <3>2. ~OnDisk(d)'
            BY <1>3, <3>1 DEF OnDisk
        <3> QED BY <2>1, <3>2 DEF Kept
    <2>3. ASSUME NEW n \in Nodes, OnDisk(n)' PROVE n \in InTrees(Kept')
        <3>1. n \notin Tree[d] /\ OnDisk(n)
            BY <1>1, <1>3, <2>3 DEF OnDisk
        <3>2. PICK e \in Kept : n \in Tree[e]
            BY <1>1, <3>1 DEF Tidy, InTrees
        <3> QED BY <2>2, <3>1, <3>2 DEF InTrees
    <2>4. \A e \in Kept' : e \in Members(cached') /\ Verified(e)'
        BY <1>1, <2>1, <2>2 DEF Tidy, Kept
    <2>5. Kept' \ unseen' = Kept \ unseen /\ unseen' \subseteq Kept'
        BY <1>1, <2>2 DEF Tidy
    <2>6. Books(Kept \ unseen, count, current)'
        BY <1>1, <1>3, <2>5 DEF Tidy, Books, Paid
    <2> QED BY <1>1, <2>3, <2>4, <2>5, <2>6 DEF Tidy
<1> QED BY <1>2, <1>3 DEF Admit

LEMMA TidyStep ==
    ASSUME TypeOK, Booting, Tidy, [Next]_vars
    PROVE  Tidy'
<1>1. CASE Verify
    <2>1. /\ phase = "down" /\ phase' = "admit" /\ UNCHANGED <<count, current, setting>>
          /\ Books({}, count, current)
        BY <1>1 DEF Verify, Tidy
    <2>2. Kept' \ unseen' = {} /\ unseen' \subseteq Kept'
        BY <1>1, VerifyGood
    <2>3. Books(Kept \ unseen, count, current)'
        BY <2>1, <2>2 DEF Books, Paid
    <2> QED BY <1>1, <2>1, <2>2, <2>3, VerifyGood DEF Tidy
<1>2. ASSUME NEW d \in Tops, Admit(d) PROVE Tidy'
    BY <1>2, AdmitTidy
<1>3. CASE Up
    BY <1>3 DEF Up, Tidy
<1>4. CASE Stop
    <2>1. phase' = "down" /\ count' = [f \in Files |-> 0] /\ current' = 0
        BY <1>4 DEF Stop
    <2> QED BY <2>1, NoBooks DEF Tidy, Books, Paid
<1>5. ASSUME phase = "up", UNCHANGED bootVars PROVE Tidy'
    BY <1>5 DEF bootVars, Tidy
<1>6. CASE UNCHANGED vars
    BY <1>6 DEF vars, ledgerVars, diskVars, bootVars, Tidy, Kept, Books, Paid, OnDisk,
                Verified, Whole, Filled
<1> QED BY <1>1, <1>2, <1>3, <1>4, <1>5, <1>6, StepsWhenUp DEF Next, Boot

\* When the worker is up again, with the limit it had or another one, what is
\* left in the cache directory are complete, read-only directories of the
\* map, and the counts and the total are theirs: what a crash left half
\* built, half removed or writable is gone, and so is what did not fit.
THEOREM DirectoryRestarts == Spec => RestartRecovers
<1>1. Init => TypeOK /\ Booting /\ Finishing /\ Tidy
    BY InitType DEF Init, Tidy
<1>2. TypeOK /\ Booting /\ Finishing /\ Tidy /\ [Next]_vars
        => (TypeOK /\ Booting /\ Finishing /\ Tidy)'
    BY TypeStep, BootingStep, FinishingStep, TidyStep
<1> DEFINE Recovered ==
        LET K == {d \in Tops : OnDisk(d)}
        IN  /\ \A n \in Nodes : OnDisk(n) => n \in InTrees(K)
            /\ \A d \in K : d \in Members(cached) /\ Verified(d)
            /\ LedgerOf(K)
<1>3. ASSUME Tidy, [Next]_vars, phase = "admit", phase' = "up"
      PROVE  Recovered
    <2>1. unseen = {}
        BY <1>3, StepsWhenUp DEF Next, Boot, Verify, Admit, Up, Stop, bootVars, vars
    <2>2. Books(Kept, count, current)
        BY <1>3, <2>1 DEF Tidy
    <2>3. LedgerOf(Kept)
        BY <2>2 DEF Books, Paid, LedgerOf
    <2> QED BY <1>3, <2>3 DEF Tidy, Kept
<1>4. Tidy /\ [Next]_vars => [phase = "admit" /\ phase' = "up" => Recovered]_vars
    BY <1>3
<1> QED BY <1>1, <1>2, <1>4, PTL DEF Spec, RestartRecovers

-----------------------------------------------------------------------------
(* What the pool has built *)

\* No task runs for a directory that nobody builds.
Cleared == \A d \in Tops : pending[d] = "none" => \A n \in Tree[d] : task[n] = "none"

\* What the tasks of a build that goes on have made: the files of a node are
\* there when it waits for its sub-directories, the tree when it is done.
Made(n) == /\ task[n] \in {"join", "ok"} => Filled(n)
           /\ task[n] = "ok" => \A m \in Tree[n] : Filled(m)
Growing == \A d \in Tops : Unfinished(d) => \A n \in Tree[d] : Made(n)

\* No call works while the worker is down or init() runs.
Resting == phase # "up" => \A b \in Builders : frames[b] = <<>> /\ outcome[b] = "none"

\* A task that is done with its node: it waits for the sub-directories.
LEMMA SpawnMade ==
    ASSUME TypeOK, NEW n \in Nodes, Spawn(n), Filled(n)'
    PROVE  /\ \A m \in Nodes : task'[m] = task[m] \/ m \in {n} \cup Children(n)
           /\ \A m \in {n} \cup Children(n) : Made(m)'
<1>1. task' = [m \in Nodes |->
                IF m = n THEN IF Children(n) = {} THEN "ok" ELSE "join"
                ELSE IF m \in Children(n) THEN "queued" ELSE task[m]]
    BY DEF Spawn
<1>2. Children(n) \subseteq Nodes
    BY DEF Children
<1>3. Children(n) = {} => Tree[n] = {n}
    <2>1. Children(n) = {} => Tree[n] \ {n} = {}
        BY DirectoryAssumption
    <2>2. n \in Tree[n]
        BY DEF Tree
    <2> QED BY <2>1, <2>2
<1>4. Made(n)'
    BY <1>1, <1>3 DEF Made, Filled
<1> QED BY <1>1, <1>2, <1>4 DEF Made

\* A task only adds to what is on disk.
LEMMA TaskAdds ==
    ASSUME TypeOK, NEW n \in Nodes, Task(n)
    PROVE  /\ \A m \in Nodes : Filled(m) => Filled(m)'
           /\ UNCHANGED sealed /\ task[n] # "none"
<1>1. disk \in [Nodes -> {"none", "made", "whole"}]
    BY DEF TypeOK, DiskOK
<1>2. CASE MakeDir(n)
    BY <1>1, <1>2 DEF MakeDir, Filled, OnDisk
<1>3. CASE FetchFiles(n)
    BY <1>1, <1>3 DEF FetchFiles, Filled
<1>4. CASE UNCHANGED diskVars /\ task[n] # "none"
    BY <1>4 DEF diskVars, Filled
<1> QED BY <1>2, <1>3, <1>4 DEF Task, MakeDirFails, FetchFails, CheckFiles, JoinDirs, JoinFails

LEMMA TaskMade ==
    ASSUME TypeOK, NEW n \in Nodes, Task(n), \A m \in {n} \cup Children(n) : Made(m)
    PROVE  /\ \A m \in Nodes : task'[m] = task[m] \/ m \in {n} \cup Children(n)
           /\ \A m \in {n} \cup Children(n) : Made(m)'
<1>1. /\ task \in [Nodes -> {"none", "queued", "fetch", "check", "join", "ok", "failed", "stuck"}]
      /\ disk \in [Nodes -> {"none", "made", "whole"}]
    BY DEF TypeOK, PoolOK, DiskOK
<1>2. Children(n) \subseteq Nodes /\ Children(n) \subseteq Tree[n] /\ n \in Tree[n]
    BY DEF Children, Tree
<1>3. \A m \in Nodes : Filled(m) => Filled(m)'
    BY TaskAdds
<1>4. ASSUME NEW m \in Nodes, Made(m), task'[m] = task[m] PROVE Made(m)'
    <2>1. Tree[m] \subseteq Nodes
        BY DEF Tree
    <2> QED BY <1>3, <1>4, <2>1 DEF Made
<1>5. ASSUME NEW s \in {"fetch", "check", "failed", "stuck"}, TaskBecomes(n, s)
      PROVE  /\ \A m \in Nodes : task'[m] = task[m] \/ m \in {n} \cup Children(n)
             /\ \A m \in {n} \cup Children(n) : Made(m)'
    <2>1. \A m \in Nodes : m # n => task'[m] = task[m]
        BY <1>1, <1>5 DEF TaskBecomes
    <2>2. task'[n] = s
        BY <1>1, <1>5 DEF TaskBecomes
    <2>3. Made(n)'
        BY <2>2 DEF Made
    <2> QED BY <1>2, <1>4, <2>1, <2>3
<1>6. CASE MakeDir(n)
    <2>1. CASE FilesOf[n] = {}
        <3>1. Filled(n)'
            BY <1>1, <1>6, <2>1 DEF MakeDir, Filled, OnDisk
        <3> QED BY <1>6, <2>1, <3>1, SpawnMade DEF MakeDir
    <2> QED BY <1>5, <1>6, <2>1 DEF MakeDir
<1>7. CASE CheckFiles(n)
    <2>1. CASE disk[n] = "whole"
        <3>1. Filled(n)'
            BY <1>7, <2>1 DEF CheckFiles, diskVars, Filled
        <3> QED BY <1>7, <2>1, <3>1, SpawnMade DEF CheckFiles
    <2> QED BY <1>5, <1>7, <2>1 DEF CheckFiles
<1>8. CASE JoinDirs(n)
    <2>1. CASE TaskBecomes(n, "ok")
        <3>1. \A m \in Nodes : m # n => task'[m] = task[m]
            BY <1>1, <2>1 DEF TaskBecomes
        <3>2. task[n] = "join" /\ Filled(n)
            BY <1>8 DEF JoinDirs, Made
        <3>3. ASSUME NEW m \in Tree[n] PROVE Filled(m)
            <4>1. CASE m = n
                BY <3>2, <4>1
            <4>2. CASE m # n
                <5>1. PICK c \in Children(n) : m \in Tree[c]
                    BY <4>2, DirectoryAssumption
                <5>2. Made(c) /\ task[c] = "ok"
                    BY <1>8 DEF JoinDirs
                <5> QED BY <5>1, <5>2 DEF Made
            <4> QED BY <4>1, <4>2
        <3>4. Tree[n] \subseteq Nodes
            BY DEF Tree
        <3>5. Made(n)'
            BY <1>3, <3>2, <3>3, <3>4 DEF Made
        <3> QED BY <1>2, <1>4, <3>1, <3>5
    <2> QED BY <1>5, <1>8, <2>1 DEF JoinDirs
<1> QED BY <1>5, <1>6, <1>7, <1>8 DEF Task, MakeDirFails, FetchFiles, FetchFails, JoinFails

\* The tasks build what they report, and leave alone what is complete.
LEMMA TaskGrows ==
    ASSUME TypeOK, Cleared, NEW n \in Nodes, Task(n)
    PROVE  /\ Cleared'
           /\ Growing => Growing'
           /\ \A d \in Tops : Verified(d) => Verified(d)'
<1>1. /\ task[n] # "none" /\ UNCHANGED <<sealed, pending, finish>>
      /\ \A m \in Nodes : Filled(m) => Filled(m)'
    BY TaskAdds DEF Task, ledgerVars
<1>2. task \in [Nodes -> {"none", "queued", "fetch", "check", "join", "ok", "failed", "stuck"}]
    BY DEF TypeOK, PoolOK
<1>3. \A m \in Nodes : task'[m] = task[m] \/ m \in {n} \cup Children(n)
    BY <1>2 DEF Task, MakeDir, MakeDirFails, FetchFiles, FetchFails, CheckFiles, JoinDirs,
                JoinFails, Spawn, TaskBecomes
<1>4. Children(n) \subseteq Tree[n] /\ Children(n) \subseteq Nodes
    BY DEF Children, Tree
<1>5. PICK t \in Tops : n \in Tree[t]
    BY DirectoryAssumption
<1>6. \A m \in {n} \cup Children(n) : m \in Tree[t]
    BY <1>4, <1>5, TreeFacts
<1>7. Cleared'
    <2> SUFFICES ASSUME NEW d \in Tops, pending[d] = "none", NEW m \in Tree[d]
                 PROVE  task'[m] = "none"
        BY <1>1 DEF Cleared
    <2>1. task[m] = "none" /\ m \in Nodes
        BY TreeFacts DEF Cleared
    <2>2. d # t
        BY <1>1, <1>5 DEF Cleared
    <2>3. m \notin {n} \cup Children(n)
        BY <1>6, <2>2, TreeFacts
    <2> QED BY <1>3, <2>1, <2>3
<1>8. ASSUME Growing PROVE Growing'
    <2> SUFFICES ASSUME NEW d \in Tops, Unfinished(d), NEW m \in Tree[d]
                 PROVE  Made(m)'
        BY <1>1 DEF Growing, Unfinished
    <2>1. Made(m) /\ m \in Nodes /\ Tree[m] \subseteq Nodes
        BY <1>8, TreeFacts DEF Growing, Tree
    <2>2. CASE m \in {n} \cup Children(n)
        <3>1. d = t
            BY <1>6, <2>2, TreeFacts
        <3>2. \A x \in {n} \cup Children(n) : Made(x)
            BY <1>6, <1>8, <3>1 DEF Growing
        <3> QED BY <2>2, <3>2, TaskMade
    <2>3. CASE m \notin {n} \cup Children(n)
        BY <1>1, <1>3, <2>1, <2>3 DEF Made
    <2> QED BY <2>2, <2>3
<1>9. ASSUME NEW d \in Tops, Verified(d) PROVE Verified(d)'
    <2>1. Tree[d] \subseteq Nodes
        BY TreeFacts
    <2> QED BY <1>1, <1>9, <2>1 DEF Verified, Whole
<1> QED BY <1>7, <1>8, <1>9

-----------------------------------------------------------------------------
(* Without a limit: what the map and the calls count on *)

\* The map has complete directories only.
Entered == \A d \in Members(cached) : Verified(d)

\* A call evicts nothing; what it has to link is in the map, or it waits for
\* it, or it will raise.
Ready(r, C) ==
    /\ r.victims = <<>>
    /\ r.broken \/ r.links \subseteq C \cup r.waits
ReadyIn(calls, C) == \A b \in Builders : \A i \in 1..Len(calls[b]) : Ready(calls[b][i], C)
Readied == ReadyIn(frames, Members(cached))

\* What a build has linked is in the map.
LinkedIn ==
    \A b \in Builders :
        frames[b] # <<>> \/ outcome[b] = "ok" => linked[b] \subseteq Members(cached)

Relied == Growing /\ Entered /\ Readied /\ LinkedIn

\* The removal of a directory leaves the others alone.
LEMMA RemovalFrame ==
    ASSUME TypeOK, NEW d \in Tops, NEW x,
           RemoveWalk(x, d) \/ RemoveRest(x, d) \/ RemoveRaise(x, d)
    PROVE  \A n \in Nodes \ Tree[d] : disk'[n] = disk[n] /\ (n \in sealed => n \in sealed')
<1>1. disk \in [Nodes -> {"none", "made", "whole"}]
    BY DEF TypeOK, DiskOK
<1>2. ASSUME NEW n \in Nodes \ Tree[d], RemoveWalk(x, d)
      PROVE  disk'[n] = disk[n] /\ (n \in sealed => n \in sealed')
    BY <1>1, <1>2 DEF RemoveWalk
<1>3. ASSUME NEW n \in Nodes \ Tree[d], RemoveRest(x, d)
      PROVE  disk'[n] = disk[n] /\ (n \in sealed => n \in sealed')
    BY <1>1, <1>3 DEF RemoveRest
<1>4. ASSUME NEW n \in Nodes \ Tree[d], RemoveRaise(x, d)
      PROVE  disk'[n] = disk[n] /\ (n \in sealed => n \in sealed')
    BY <1>1, <1>4 DEF RemoveRaise
<1> QED BY <1>2, <1>3, <1>4

LEMMA OthersKept ==
    ASSUME NEW d \in Tops, NEW e \in Tops, e # d, UNCHANGED task,
           \A n \in Nodes \ Tree[d] : disk'[n] = disk[n] /\ (n \in sealed => n \in sealed')
    PROVE  /\ Verified(e) => Verified(e)'
           /\ \A n \in Tree[e] : Made(n) => Made(n)'
<1>1. \A n \in Tree[e] : n \in Nodes \ Tree[d]
    BY TreeFacts
<1>2. Verified(e) => Verified(e)'
    BY <1>1, VerifiedFrame
<1>3. ASSUME NEW n \in Tree[e], Made(n) PROVE Made(n)'
    <2>1. \A m \in Tree[n] : m \in Tree[e]
        BY TreeFacts
    <2> QED BY <1>1, <1>3, <2>1 DEF Made, Filled
<1> QED BY <1>2, <1>3

\* A build that failed is taken away: nobody counts on it.
LEMMA DropRelied ==
    ASSUME TypeOK, Finishing, Relied, NEW d \in Tops,
           DropWalk(d) \/ DropRest(d) \/ DropRaise(d), UNCHANGED <<linked, outcome>>
    PROVE  Relied'
<1>1. MapsOK /\ finish \in [Tops -> {"none", "remove", "release", "stuck"}]
    BY DEF TypeOK, PoolOK
<1>2. finish[d] # "none" /\ finish'[d] # "none" /\ \A e \in Tops \ {d} : finish'[e] = finish[e]
    BY <1>1 DEF DropWalk, DropRest, DropRaise, poolVars
<1>3. UNCHANGED <<cached, pending, task, frames>>
    BY DEF DropWalk, DropRest, DropRaise, poolVars, ledgerVars
<1>4. d \notin Members(cached) /\ Members(cached) \subseteq Tops
    BY <1>1, <1>2, MembersType DEF MapsOK, Finishing
<1>5. \A n \in Nodes \ Tree[d] : disk'[n] = disk[n] /\ (n \in sealed => n \in sealed')
    BY RemovalFrame DEF DropWalk, DropRest, DropRaise, diskVars
<1>6. \A e \in Tops \ {d} : /\ Verified(e) => Verified(e)'
                           /\ \A n \in Tree[e] : Made(n) => Made(n)'
    BY <1>3, <1>5, OthersKept
<1>7. Growing'
    BY <1>2, <1>3, <1>6 DEF Growing, Unfinished, Relied
<1>8. Entered'
    BY <1>3, <1>4, <1>6 DEF Entered, Relied
<1>9. Readied' /\ LinkedIn'
    BY <1>3 DEF Readied, LinkedIn, Relied
<1> QED BY <1>7, <1>8, <1>9 DEF Relied

\* Those who wait are told: what they link is in the map, or they raise.
LEMMA ResolvedReady ==
    ASSUME BuildsOK, NEW d \in Tops, NEW failed \in BOOLEAN, NEW C, NEW E,
           C \subseteq E, failed \/ d \in E, ReadyIn(frames, C),
           frames' = Resolved(d, failed)
    PROVE  /\ ReadyIn(frames', E)
           /\ \A b \in Builders : frames[b] = <<>> => frames'[b] = <<>>
<1>1. ASSUME NEW r \in Frames, Ready(r, C)
      PROVE  /\ Ready(r, E)
             /\ Ready([r EXCEPT !.waits = @ \ {d}, !.broken = @ \/ failed], E)
    BY <1>1 DEF Ready, Frames
<1>2. ASSUME NEW b \in Builders
      PROVE  /\ \A i \in 1..Len(frames'[b]) : Ready(frames'[b][i], E)
             /\ frames[b] = <<>> => frames'[b] = <<>>
    <2> DEFINE s == frames[b]
               e(i) == IF d \notin s[i].waits THEN s[i]
                       ELSE [s[i] EXCEPT !.waits = @ \ {d}, !.broken = @ \/ failed]
               q == [i \in 1..Len(s) |-> e(i)]
    <2>1. s \in Seq(Frames) /\ Len(s) \in Nat
        BY DEF BuildsOK
    <2>2. \A i \in 1..Len(s) : s[i] \in Frames /\ Ready(s[i], C)
        BY <2>1 DEF ReadyIn
    <2>3. \A i \in 1..Len(s) : Ready(e(i), E)
        BY <1>1, <2>2
    <2>4. frames'[b] = q
        BY DEF Resolved
    <2> HIDE DEF e
    <2>5. Len(q) = Len(s) /\ \A i \in 1..Len(s) : q[i] = e(i)
        BY <2>1
    <2>6. s = <<>> => q = <<>>
        BY <2>1
    <2> QED BY <2>3, <2>4, <2>5, <2>6
<1> QED BY <1>2 DEF ReadyIn

\* The calls that are over were not revived, and the links are the same.
LEMMA LinksKept ==
    ASSUME LinkedIn, Members(cached) \subseteq Members(cached'), UNCHANGED <<linked, outcome>>,
           \A b \in Builders : frames[b] = <<>> => frames'[b] = <<>>
    PROVE  LinkedIn'
<1> SUFFICES ASSUME NEW b \in Builders, frames'[b] # <<>> \/ outcome'[b] = "ok"
             PROVE  linked'[b] \subseteq Members(cached')
    BY DEF LinkedIn
<1>1. frames[b] # <<>> \/ outcome[b] = "ok"
    OBVIOUS
<1>2. linked[b] \subseteq Members(cached)
    BY <1>1 DEF LinkedIn
<1> QED BY <1>2

\* A directory that is complete enters the map.
LEMMA CompleteRelied ==
    ASSUME TypeOK, Finishing, Relied, NEW d \in Tops, Complete(d), UNCHANGED <<linked, outcome>>
    PROVE  Relied'
<1>1. MapsOK /\ BuildsOK /\ Members(cached) \subseteq Tops
      /\ disk \in [Nodes -> {"none", "made", "whole"}]
    BY HeldType DEF TypeOK, DiskOK
<1>2. Unfinished(d) /\ task[d] = "ok" /\ d \notin Members(cached)
    BY <1>1 DEF Complete, Unfinished, MapsOK
<1>3. Members(cached') = Members(cached) \cup {d}
    BY <1>1, <1>2, AppendFacts DEF Complete, MapsOK
<1>4. disk' = disk /\ sealed \subseteq sealed' /\ finish' = finish
    BY DEF Complete
<1>5. Verified(d)'
    <2>1. \A n \in Tree[d] : Filled(n) /\ n \in Nodes
        BY <1>2, TreeFacts DEF Relied, Growing, Made
    <2>2. \A n \in Tree[d] : OnDisk(n)
        BY <2>1 DEF Filled, OnDisk
    <2>3. Tree[d] \subseteq sealed'
        BY <2>2 DEF Complete
    <2> QED BY <1>4, <2>1, <2>3 DEF Verified, Whole, Filled
<1>6. \A e \in Tops : Verified(e) => Verified(e)'
    BY <1>4, VerifiedFrame
<1>7. Entered'
    BY <1>1, <1>3, <1>5, <1>6 DEF Entered, Relied
<1>8. Growing'
    <2> SUFFICES ASSUME NEW e \in Tops, Unfinished(e)', NEW n \in Tree[e]
                 PROVE  Made(n)'
        BY DEF Growing
    <2>1. e # d /\ Unfinished(e)
        BY <1>1, <1>4 DEF Complete, Unfinished, MapsOK
    <2>2. n \in Nodes /\ n \notin Tree[d]
        BY <2>1, TreeFacts
    <2>3. task'[n] = task[n]
        BY <2>2 DEF Complete
    <2> QED BY <1>4, <2>1, <2>3 DEF Made, Filled, Growing, Relied
<1>9. Readied' /\ LinkedIn'
    <2>1. ReadyIn(frames', Members(cached'))
          /\ \A b \in Builders : frames[b] = <<>> => frames'[b] = <<>>
        BY <1>1, <1>3, ResolvedReady DEF Complete, Relied, Readied
    <2>2. Readied'
        BY <2>1 DEF Readied
    <2>3. LinkedIn'
        BY <1>3, <2>1, LinksKept DEF Relied
    <2> QED BY <2>2, <2>3
<1> QED BY <1>7, <1>8, <1>9 DEF Relied

\* A build that failed: those who wait for it will raise.
LEMMA ReleaseRelied ==
    ASSUME TypeOK, Finishing, Relied, NEW d \in Tops, Fail(d) \/ Release(d),
           UNCHANGED <<linked, outcome>>
    PROVE  Relied'
<1>1. /\ MapsOK /\ BuildsOK /\ finish \in [Tops -> {"none", "remove", "release", "stuck"}]
      /\ pending \in [Tops -> {"none", "building", "failed"}]
    BY DEF TypeOK, MapsOK, PoolOK
<1>2. UNCHANGED <<cached, disk, sealed, task>>
    BY DEF Fail, Release, ledgerVars, diskVars
<1>3. \A e \in Tops : Unfinished(e)' => Unfinished(e)
    BY <1>1 DEF Fail, Release, Unfinished, ledgerVars
<1>4. Growing' /\ Entered'
    BY <1>2, <1>3 DEF Growing, Made, Filled, Entered, Verified, Whole, Relied
<1>5. ReadyIn(frames', Members(cached))
      /\ \A b \in Builders : frames[b] = <<>> => frames'[b] = <<>>
    <2>1. CASE Fail(d)
        BY <2>1 DEF Fail, Readied, Relied
    <2>2. CASE Release(d)
        BY <1>1, <2>2, ResolvedReady DEF Release, Readied, Relied
    <2> QED BY <2>1, <2>2
<1>6. Readied'
    BY <1>2, <1>5 DEF Readied
<1>7. LinkedIn'
    BY <1>2, <1>5, LinksKept DEF Relied
<1> QED BY <1>4, <1>6, <1>7 DEF Relied

\* The innermost call changes and can still count on what it has to link.
LEMMA TopReady ==
    ASSUME BuildsOK, NEW b \in Builders, frames[b] # <<>>, NEW r, TopBecomes(b, r),
           NEW C, ReadyIn(frames, C), Ready(r, C)
    PROVE  ReadyIn(frames', C) /\ \A c \in Builders : frames[c] = <<>> => frames'[c] = <<>>
<1> DEFINE s == frames[b] q == [s EXCEPT ![Len(s)] = r]
<1>1. s \in Seq(Frames) /\ Len(s) \in Nat
    BY TopType
<1>2. frames' = [frames EXCEPT ![b] = q] /\ frames \in [Builders -> Seq(Frames)]
    BY DEF TopBecomes, BuildsOK
<1>3. Len(q) = Len(s) /\ \A i \in 1..Len(s) : q[i] = s[i] \/ q[i] = r
    BY <1>1
<1>4. \A i \in 1..Len(s) : Ready(s[i], C)
    BY DEF ReadyIn
<1> HIDE DEF q
<1>5. \A i \in 1..Len(q) : Ready(q[i], C)
    BY <1>3, <1>4
<1>6. \A c \in Builders : frames'[c] = IF c = b THEN q ELSE frames[c]
    BY <1>2
<1> HIDE DEF s
<1> QED BY <1>5, <1>6 DEF ReadyIn, s

\* The innermost call evicts nothing and knows what it has to link.
LEMMA TopCounts ==
    ASSUME BuildsOK, NEW b \in Builders, frames[b] # <<>>, NEW C, ReadyIn(frames, C)
    PROVE  Top(b) \in Frames /\ Ready(Top(b), C)
<1>1. Len(frames[b]) \in 1..Len(frames[b]) /\ Top(b) \in Frames
    BY TopType
<1> QED BY <1>1 DEF ReadyIn, Top

LEMMA DescendReady ==
    ASSUME BuildsOK, NEW b \in Builders, Descend(b), NEW C, ReadyIn(frames, C)
    PROVE  ReadyIn(frames', C) /\ \A c \in Builders : frames[c] = <<>> => frames'[c] = <<>>
<1> DEFINE s == frames[b] n == Len(s)
           r == [Top(b) EXCEPT !.large = Tail(@)]
           new == Frame(Head(Top(b).large), FALSE, <<>>)
           q == SubSeq(s, 1, n - 1) \o <<r, new>>
<1>1. s \in Seq(Frames) /\ n \in Nat \ {0} /\ frames[b] # <<>>
    BY TopType DEF Descend, Busy
<1>2. Top(b) \in Frames /\ Ready(Top(b), C)
    BY <1>1, TopCounts
<1>3. Ready(r, C)
    BY <1>2 DEF Ready, Frames
<1>4. Ready(new, C)
    BY DEF Ready, Frame
<1>5. frames' = [frames EXCEPT ![b] = q] /\ frames \in [Builders -> Seq(Frames)]
    BY DEF Descend, BuildsOK
<1> HIDE DEF r, new
<1>6. Len(q) = n + 1 /\ \A i \in 1..(n + 1) : (i \in 1..n /\ q[i] = s[i]) \/ q[i] = r \/ q[i] = new
    BY <1>1
<1>7. \A i \in 1..n : Ready(s[i], C)
    BY DEF ReadyIn
<1> HIDE DEF q
<1>8. \A i \in 1..Len(q) : Ready(q[i], C)
    BY <1>3, <1>4, <1>6, <1>7
<1>9. \A c \in Builders : frames'[c] = IF c = b THEN q ELSE frames[c]
    BY <1>5
<1> QED BY <1>1, <1>8, <1>9 DEF ReadyIn

LEMMA ReturnReady ==
    ASSUME BuildsOK, NEW b \in Builders, Return(b), NEW C, ReadyIn(frames, C)
    PROVE  ReadyIn(frames', C)
<1> DEFINE s == frames[b] q == SubSeq(s, 1, Len(s) - 1)
<1>1. s \in Seq(Frames) /\ Len(s) \in Nat \ {0}
    BY TopType DEF Return, ToLink, Waiting, Stepping, Busy
<1>2. Len(q) = Len(s) - 1 /\ \A i \in 1..(Len(s) - 1) : i \in 1..Len(s) /\ q[i] = s[i]
    BY <1>1
<1>3. \A i \in 1..Len(s) : Ready(s[i], C)
    BY DEF ReadyIn
<1>4. frames' = [frames EXCEPT ![b] = q] /\ frames \in [Builders -> Seq(Frames)]
    BY DEF Return, BuildsOK
<1> HIDE DEF q
<1>5. \A i \in 1..Len(q) : Ready(q[i], C)
    BY <1>2, <1>3
<1>6. \A c \in Builders : frames'[c] = IF c = b THEN q ELSE frames[c]
    BY <1>4
<1> QED BY <1>5, <1>6 DEF ReadyIn

\* The steps of a call, the plan aside.
LEMMA CallReady ==
    ASSUME TypeOK, Relied, NEW b \in Builders, Build(b) \/ Builder(b), ~Plan(b)
    PROVE  /\ UNCHANGED <<cached, disk, sealed, pending, task, finish>>
           /\ Readied' /\ LinkedIn'
<1> DEFINE C == Members(cached)
<1>1. BuildsOK /\ ReadyIn(frames, C) /\ LinkedIn
    BY DEF TypeOK, Relied, Readied
<1>2. frames[b] # <<>> => Top(b) \in Frames /\ Ready(Top(b), C)
    BY <1>1, TopCounts
<1>3. ~(EvictWalk(b) \/ EvictRest(b) \/ EvictRaise(b) \/ EvictGone(b))
    BY <1>2 DEF EvictWalk, EvictRest, EvictRaise, EvictGone, Stepping, Busy, Ready
<1>4. ASSUME UNCHANGED cached, ReadyIn(frames', C) PROVE Readied'
    BY <1>4 DEF Readied
<1>5. CASE Build(b)
    <2>1. PICK r \in Requests :
              frames' = [frames EXCEPT ![b] = <<Frame(r.cached, r.skip, r.large)>>]
        BY <1>5 DEF Build
    <2> DEFINE new == Frame(r.cached, r.skip, r.large)
    <2>2. Ready(new, C)
        BY DEF Frame, Ready
    <2> HIDE DEF new
    <2>3. \A c \in Builders : frames'[c] = IF c = b THEN <<new>> ELSE frames[c]
        BY <1>1, <2>1 DEF BuildsOK, new
    <2>4. Len(<<new>>) = 1 /\ \A i \in 1..1 : <<new>>[i] = new
        OBVIOUS
    <2>5. ReadyIn(frames', C)
        BY <1>1, <2>2, <2>3, <2>4 DEF ReadyIn
    <2>6. LinkedIn'
        <3> SUFFICES ASSUME NEW c \in Builders, frames'[c] # <<>> \/ outcome'[c] = "ok"
                     PROVE  linked'[c] \subseteq C
            BY <1>5 DEF LinkedIn, Build, ledgerVars
        <3>1. CASE c = b
            BY <1>1, <1>5, <3>1 DEF Build, BuildsOK
        <3>2. CASE c # b
            <4>1. frames'[c] = frames[c] /\ outcome'[c] = outcome[c] /\ linked'[c] = linked[c]
                BY <1>1, <1>5, <2>3, <3>2 DEF Build, BuildsOK
            <4> QED BY <1>1, <4>1 DEF LinkedIn
        <3> QED BY <3>1, <3>2
    <2> QED BY <1>4, <1>5, <2>5, <2>6 DEF Build, ledgerVars, diskVars, poolVars
<1>6. CASE TopFails(b) \/ PlanRaise(b) \/ WaitRaise(b)
    <2>1. Raise(b) /\ UNCHANGED <<cached, disk, sealed, pending, task, finish>>
        BY <1>6 DEF TopFails, PlanRaise, WaitRaise, ledgerVars, diskVars, poolVars
    <2>2. /\ linked' = linked /\ frames'[b] = <<>> /\ outcome'[b] = "failed"
          /\ \A c \in Builders \ {b} : frames'[c] = frames[c] /\ outcome'[c] = outcome[c]
        BY <1>1, <2>1 DEF Raise, BuildsOK
    <2>3. ReadyIn(frames', C)
        BY <1>1, <2>2 DEF ReadyIn
    <2>4. LinkedIn'
        <3> SUFFICES ASSUME NEW c \in Builders, frames'[c] # <<>> \/ outcome'[c] = "ok"
                     PROVE  linked'[c] \subseteq C
            BY <2>1 DEF LinkedIn
        <3>1. c # b
            BY <2>2
        <3>2. frames[c] # <<>> \/ outcome[c] = "ok"
            BY <2>2, <3>1
        <3> QED BY <1>1, <2>2, <3>2 DEF LinkedIn
    <2> QED BY <1>4, <2>1, <2>3, <2>4
<1>7. CASE Descend(b)
    <2>1. UNCHANGED <<cached, disk, sealed, pending, task, finish, linked, outcome>>
        BY <1>7 DEF Descend, ledgerVars, diskVars, poolVars
    <2> QED BY <1>1, <1>4, <1>7, <2>1, DescendReady, LinksKept
<1>8. CASE SkipDone(b)
    <2>1. UNCHANGED <<cached, disk, sealed, pending, task, finish, linked, outcome>>
          /\ frames[b] # <<>>
        BY <1>8 DEF SkipDone, Stepping, Busy, ledgerVars, diskVars, poolVars
    <2>2. PICK failed \in BOOLEAN :
              TopBecomes(b, [Top(b) EXCEPT !.skip = FALSE, !.broken = @ \/ failed])
        BY <1>8 DEF SkipDone
    <2>3. Ready([Top(b) EXCEPT !.skip = FALSE, !.broken = @ \/ failed], C)
        BY <1>2, <2>1 DEF Ready, Frames
    <2> QED BY <1>1, <1>4, <2>1, <2>2, <2>3, TopReady, LinksKept
<1>9. CASE Link(b)
    <2>1. UNCHANGED <<cached, disk, sealed, pending, task, finish, outcome>>
          /\ frames[b] # <<>> /\ Top(b).waits = {} /\ ~Top(b).broken
        BY <1>9 DEF Link, ToLink, Waiting, Stepping, Busy, ledgerVars, diskVars, poolVars
    <2>2. PICK d \in Top(b).links :
              /\ linked' = [linked EXCEPT ![b] = @ \cup {d}]
              /\ TopBecomes(b, [Top(b) EXCEPT !.links = @ \ {d}])
        BY <1>9 DEF Link
    <2>3. d \in C
        BY <1>2, <2>1, <2>2 DEF Ready
    <2>4. Ready([Top(b) EXCEPT !.links = @ \ {d}], C)
        BY <1>2, <2>1 DEF Ready, Frames
    <2>5. ReadyIn(frames', C) /\ \A c \in Builders : frames[c] = <<>> => frames'[c] = <<>>
        BY <1>1, <2>1, <2>2, <2>4, TopReady
    <2>6. LinkedIn'
        <3> SUFFICES ASSUME NEW c \in Builders, frames'[c] # <<>> \/ outcome'[c] = "ok"
                     PROVE  linked'[c] \subseteq C
            BY <2>1 DEF LinkedIn
        <3>1. linked[c] \subseteq C
            BY <1>1, <2>1, <2>5 DEF LinkedIn
        <3>2. linked'[c] = linked[c] \/ linked'[c] = linked[c] \cup {d}
            BY <1>1, <2>2 DEF BuildsOK
        <3> QED BY <2>3, <3>1, <3>2
    <2> QED BY <1>4, <2>1, <2>5, <2>6
<1>10. CASE Return(b)
    <2>1. UNCHANGED <<cached, disk, sealed, pending, task, finish, linked>> /\ frames[b] # <<>>
        BY <1>10 DEF Return, ToLink, Waiting, Stepping, Busy, ledgerVars, diskVars, poolVars
    <2>2. LinkedIn'
        <3> SUFFICES ASSUME NEW c \in Builders, frames'[c] # <<>> \/ outcome'[c] = "ok"
                     PROVE  linked'[c] \subseteq C
            BY <2>1 DEF LinkedIn
        <3>1. c # b => frames'[c] = frames[c] /\ outcome'[c] = outcome[c]
            BY <1>1, <1>10 DEF Return, BuildsOK
        <3> QED BY <1>1, <2>1, <3>1 DEF LinkedIn
    <2> QED BY <1>1, <1>4, <1>10, <2>1, <2>2, ReturnReady
<1> QED BY <1>3, <1>5, <1>6, <1>7, <1>8, <1>9, <1>10 DEF Builder

\* A plan without a limit evicts nothing; what is new is queued, and nothing
\* is left of earlier tasks for it.
LEMMA PlanRelied ==
    ASSUME TypeOK, Cleared, Relied, setting.limit = 0, NEW b \in Builders, Plan(b)
    PROVE  Relied'
<1> DEFINE S == Top(b).cached N == New(S) C == Members(cached)
           waits == N \cup {d \in Joined(S) : pending[d] = "building"}
           broken == \E d \in Joined(S) : pending[d] = "failed"
<1>1. /\ frames[b] # <<>> /\ Top(b) \in Frames /\ S \in SUBSET Tops /\ N \in SUBSET Tops
      /\ Members(cached') = C \ Victims(S)
      /\ pending' = [d \in Tops |-> IF d \in N THEN "building" ELSE pending[d]]
    BY PlanStep
<1>2. BuildsOK /\ ReadyIn(frames, C) /\ pending \in [Tops -> {"none", "building", "failed"}]
    BY DEF TypeOK, MapsOK, Relied, Readied
<1>3. Victims(S) = {}
    BY DEF Victims, MustEvict
<1>4. Members(cached') = C
    BY <1>1, <1>3
<1>5. UNCHANGED <<disk, sealed, finish, linked, outcome>>
      /\ task' = [n \in Nodes |-> IF n \in N THEN "queued" ELSE task[n]]
    BY DEF Plan, diskVars
<1>6. PICK list \in Orders({}) :
          TopBecomes(b, [Top(b) EXCEPT
              !.planned = TRUE, !.cached = {}, !.victims = list, !.links = S,
              !.waits = waits, !.broken = broken])
    BY <1>3 DEF Plan
<1>7. list = <<>>
    <2>1. IsFiniteSet({})
        BY FS_EmptySet
    <2>2. list \in Seq({})
        BY <2>1, OrdersFacts
    <2> QED BY <2>2
<1>8. \/ broken
      \/ S \subseteq C \cup waits
    BY <1>1, <1>2 DEF Joined, New, Hits
<1>9. ReadyIn(frames', C) /\ \A c \in Builders : frames[c] = <<>> => frames'[c] = <<>>
    <2> DEFINE r == [Top(b) EXCEPT !.planned = TRUE, !.cached = {}, !.victims = list,
                                   !.links = S, !.waits = waits, !.broken = broken]
    <2> HIDE DEF waits, broken
    <2>1. r.victims = <<>> /\ r.links = S /\ r.waits = waits /\ r.broken = broken
        BY <1>1, <1>7 DEF Frames
    <2>2. TopBecomes(b, r)
        BY <1>6
    <2> HIDE DEF r, S, C
    <2>3. Ready(r, C)
        BY <1>8, <2>1 DEF Ready
    <2> QED BY <1>1, <1>2, <2>2, <2>3, TopReady
<1>10. Readied' /\ LinkedIn'
    <2>1. Readied'
        BY <1>4, <1>9 DEF Readied
    <2>2. LinkedIn'
        BY <1>4, <1>5, <1>9, LinksKept DEF Relied
    <2> QED BY <2>1, <2>2
<1>11. Entered'
    BY <1>4, <1>5 DEF Entered, Verified, Whole, Filled, Relied
<1>12. Growing'
    <2> SUFFICES ASSUME NEW e \in Tops, Unfinished(e)', NEW n \in Tree[e]
                 PROVE  Made(n)'
        BY DEF Growing
    <2>1. n \in Nodes /\ (n \in Tops => n = e)
        BY TreeFacts
    <2>2. CASE e \in N
        <3>1. task[n] = "none"
            BY <2>2 DEF New, Cleared
        <3>2. task'[n] \in {"none", "queued"}
            BY <1>5, <2>1, <3>1
        <3> QED BY <3>2 DEF Made
    <2>3. CASE e \notin N
        <3>1. Unfinished(e) /\ task'[n] = task[n]
            BY <1>1, <1>5, <2>1, <2>3 DEF Unfinished
        <3> QED BY <1>5, <3>1 DEF Made, Filled, Growing, Relied
    <2> QED BY <2>2, <2>3
<1> QED BY <1>10, <1>11, <1>12 DEF Relied

\* Nothing runs for a directory that nobody builds, whatever the limit.
LEMMA ClearedStep ==
    ASSUME TypeOK, Finishing, Cleared, [Next]_vars
    PROVE  Cleared'
<1>1. pending \in [Tops -> {"none", "building", "failed"}]
    BY DEF TypeOK, MapsOK
<1>2. ASSUME UNCHANGED <<pending, task>> PROVE Cleared'
    BY <1>2 DEF Cleared
<1>3. ASSUME NEW b \in Builders, Build(b) \/ Builder(b) PROVE Cleared'
    <2>1. CASE Plan(b)
        <3> DEFINE N == New(Top(b).cached)
        <3>1. /\ pending' = [d \in Tops |-> IF d \in N THEN "building" ELSE pending[d]]
              /\ task' = [n \in Nodes |-> IF n \in N THEN "queued" ELSE task[n]]
              /\ N \subseteq Tops
            BY <2>1, PlanStep DEF Plan
        <3> HIDE DEF N
        <3> SUFFICES ASSUME NEW e \in Tops, pending'[e] = "none", NEW n \in Tree[e]
                     PROVE  task'[n] = "none"
            BY DEF Cleared
        <3>2. e \notin N /\ pending[e] = "none"
            BY <3>1
        <3>3. n \in Nodes /\ n \notin N
            BY <3>1, <3>2, TreeFacts
        <3> QED BY <3>1, <3>2, <3>3 DEF Cleared
    <2>2. CASE ~Plan(b)
        BY <1>2, <1>3, <2>2 DEF Build, Builder, TopFails, PlanRaise, Descend, SkipDone,
               EvictWalk, EvictRest, EvictRaise, EvictGone, WaitRaise, Link, Return,
               ledgerVars, poolVars
    <2> QED BY <2>1, <2>2
<1>4. ASSUME NEW n \in Nodes, Task(n) PROVE Cleared'
    BY <1>4, TaskGrows
<1>5. ASSUME NEW d \in Tops, Finisher(d) PROVE Cleared'
    <2>1. CASE Complete(d)
        <3> SUFFICES ASSUME NEW e \in Tops, pending'[e] = "none", NEW n \in Tree[e]
                     PROVE  task'[n] = "none"
            BY DEF Cleared
        <3>1. n \in Nodes
            BY TreeFacts
        <3>2. task' = [m \in Nodes |-> IF m \in Tree[d] THEN "none" ELSE task[m]]
            BY <2>1 DEF Complete
        <3>3. n \notin Tree[d] => pending[e] = "none"
            BY <1>1, <2>1 DEF Complete
        <3> QED BY <3>1, <3>2, <3>3 DEF Cleared
    <2>2. CASE Release(d)
        <3>1. task' = task /\ \A e \in Tops : pending'[e] = "none" => pending[e] = "none"
            BY <1>1, <2>2 DEF Release
        <3> QED BY <3>1 DEF Cleared
    <2>3. CASE ~Complete(d) /\ ~Release(d)
        BY <1>2, <1>5, <2>3 DEF Finisher, Fail, DropWalk, DropRest, DropRaise, ledgerVars,
                                poolVars
    <2> QED BY <2>1, <2>2, <2>3
<1>6. ASSUME Stop PROVE Cleared'
    <2>1. \A d \in Tops : \A n \in Tree[d] : n \in Nodes
        BY TreeFacts
    <2> QED BY <1>6, <2>1 DEF Stop, Cleared
<1>7. ASSUME Boot \/ UNCHANGED vars PROVE Cleared'
    BY <1>2, <1>7 DEF Boot, Verify, Admit, Up, vars, ledgerVars, poolVars
<1> QED BY <1>3, <1>4, <1>5, <1>6, <1>7 DEF Next

\* Nobody builds while the worker is down or init() runs.
LEMMA RestingStep ==
    ASSUME Resting, [Next]_vars
    PROVE  Resting'
<1>1. ASSUME phase = "up", UNCHANGED phase PROVE Resting'
    BY <1>1 DEF Resting
<1>2. ASSUME Stop PROVE Resting'
    BY <1>2 DEF Stop, Resting
<1>3. ASSUME UNCHANGED buildVars, phase # "up" PROVE Resting'
    BY <1>3 DEF Resting, buildVars
<1>4. ASSUME Boot PROVE Resting'
    BY <1>3, <1>4 DEF Boot, Verify, Admit, Up
<1>5. ASSUME UNCHANGED vars PROVE Resting'
    BY <1>5 DEF Resting, vars, buildVars, bootVars
<1> QED BY <1>1, <1>2, <1>4, <1>5, StepsWhenUp DEF Next, bootVars

\* init() enters what it has verified, and without a limit admits it all.
LEMMA BootRelied ==
    ASSUME TypeOK, Booting, Resting, setting.limit = 0 => Relied, Stop \/ Boot
    PROVE  setting'.limit = 0 => Relied'
<1>1. ASSUME \A d \in Tops : pending'[d] = "none",
             \A b \in Builders : frames'[b] = <<>> /\ outcome'[b] = "none"
      PROVE  Growing' /\ Readied' /\ LinkedIn'
    <2>1. Growing'
        BY <1>1 DEF Growing, Unfinished
    <2>2. Readied'
        <3>1. ReadyIn(frames', Members(cached'))
            BY <1>1 DEF ReadyIn
        <3> QED BY <3>1 DEF Readied
    <2>3. LinkedIn'
        BY <1>1 DEF LinkedIn
    <2> QED BY <2>1, <2>2, <2>3
<1>2. ASSUME Stop PROVE Relied'
    <2>1. Members(cached') = {}
        BY <1>2 DEF Stop, Members
    <2>2. Entered'
        BY <2>1 DEF Entered
    <2>3. /\ \A d \in Tops : pending'[d] = "none"
          /\ \A b \in Builders : frames'[b] = <<>> /\ outcome'[b] = "none"
        BY <1>2 DEF Stop
    <2> QED BY <1>1, <2>2, <2>3 DEF Relied
<1>3. ASSUME phase # "up", UNCHANGED <<pending, buildVars>>
      PROVE  Growing' /\ Readied' /\ LinkedIn'
    <2>1. /\ \A d \in Tops : pending'[d] = "none"
          /\ \A b \in Builders : frames'[b] = <<>> /\ outcome'[b] = "none"
        BY <1>3 DEF Booting, Resting, buildVars
    <2> QED BY <1>1, <2>1
<1>4. ASSUME Verify PROVE Relied'
    <2>1. Entered'
        BY <1>4, VerifyGood DEF Entered
    <2> QED BY <1>3, <1>4, <2>1 DEF Verify, Relied
<1>5. ASSUME NEW d \in Tops, Admit(d), setting'.limit = 0 PROVE Relied'
    <2>1. setting.limit = 0 /\ UNCHANGED <<cached, disk, sealed>>
        BY <1>5 DEF Admit
    <2>2. Entered'
        BY <2>1 DEF Entered, Verified, Whole, Filled, Relied
    <2> QED BY <1>3, <1>5, <2>2 DEF Admit, Relied
<1>6. ASSUME Up, setting'.limit = 0 PROVE Relied'
    <2>1. Entered'
        BY <1>6 DEF Up, Entered, Verified, Whole, Filled, Relied, ledgerVars, diskVars
    <2> QED BY <1>3, <1>6, <2>1 DEF Up, Relied, ledgerVars
<1> QED BY <1>2, <1>4, <1>5, <1>6 DEF Boot

\* Every step keeps what they count on.
LEMMA ReliedStep ==
    ASSUME TypeOK, Booting, Finishing, Cleared, Resting, setting.limit = 0 => Relied,
           [Next]_vars
    PROVE  setting'.limit = 0 => Relied'
<1>1. ASSUME Relied, UNCHANGED <<cached, disk, sealed, pending, task, finish>>
      PROVE  Growing' /\ Entered'
    BY <1>1 DEF Relied, Growing, Unfinished, Made, Filled, Entered, Verified, Whole
<1>2. ASSUME NEW b \in Builders, Build(b) \/ Builder(b), setting'.limit = 0 PROVE Relied'
    <2>1. setting.limit = 0
        BY <1>2, StepsWhenUp DEF bootVars
    <2>2. CASE Plan(b)
        BY <2>1, <2>2, PlanRelied
    <2>3. CASE ~Plan(b)
        BY <1>1, <1>2, <2>1, <2>3, CallReady DEF Relied
    <2> QED BY <2>2, <2>3
<1>3. ASSUME NEW n \in Nodes, Task(n), setting'.limit = 0 PROVE Relied'
    <2>1. setting.limit = 0 /\ UNCHANGED <<cached, frames, linked, outcome>>
        BY <1>3 DEF Task, bootVars, ledgerVars, buildVars
    <2>2. Growing' /\ \A d \in Tops : Verified(d) => Verified(d)'
        BY <1>3, <2>1, TaskGrows DEF Relied
    <2>3. Members(cached) \subseteq Tops
        BY HeldType
    <2>4. Entered'
        BY <2>1, <2>2, <2>3 DEF Entered, Relied
    <2>5. Readied' /\ LinkedIn'
        BY <2>1 DEF Readied, LinkedIn, Relied
    <2> QED BY <2>2, <2>4, <2>5 DEF Relied
<1>4. ASSUME NEW d \in Tops, Finisher(d), setting'.limit = 0 PROVE Relied'
    <2>1. setting.limit = 0 /\ UNCHANGED <<linked, outcome>>
        BY <1>4 DEF Finisher, bootVars
    <2> QED BY <1>4, <2>1, DropRelied, CompleteRelied, ReleaseRelied DEF Finisher
<1>5. ASSUME UNCHANGED vars, setting'.limit = 0 PROVE Relied'
    <2>1. setting.limit = 0 /\ UNCHANGED <<cached, disk, sealed, pending, task, finish>>
          /\ UNCHANGED <<frames, linked, outcome>>
        BY <1>5 DEF vars, ledgerVars, diskVars, poolVars, buildVars, bootVars
    <2>2. Readied' /\ LinkedIn'
        BY <2>1 DEF Readied, LinkedIn, Relied
    <2> QED BY <1>1, <2>1, <2>2 DEF Relied
<1> QED BY <1>2, <1>3, <1>4, <1>5, BootRelied DEF Next

\* The inductive invariant of the directories the calls count on.
Reliable ==
    /\ TypeOK /\ Booting /\ Finishing
    /\ Cleared /\ Resting
    /\ setting.limit = 0 => Relied

LEMMA ReliableHolds == Spec => []Reliable
<1>1. Init => Reliable
    <2> SUFFICES ASSUME Init PROVE Reliable
        OBVIOUS
    <2>1. /\ cached = <<>> /\ \A d \in Tops : pending[d] = "none"
          /\ \A b \in Builders : frames[b] = <<>> /\ outcome[b] = "none"
        BY DEF Init
    <2>2. Members(cached) = {}
        BY <2>1 DEF Members
    <2>3. Growing /\ Entered /\ LinkedIn
        BY <2>1, <2>2 DEF Growing, Unfinished, Entered, LinkedIn
    <2>4. Readied
        BY <2>1 DEF Readied, ReadyIn
    <2>5. Cleared
        <3>1. \A d \in Tops : \A n \in Tree[d] : n \in Nodes
            BY TreeFacts
        <3> QED BY <3>1 DEF Init, Cleared
    <2> QED BY <2>1, <2>3, <2>4, <2>5, InitType DEF Reliable, Resting, Relied
<1>2. Reliable /\ [Next]_vars => Reliable'
    <2> SUFFICES ASSUME Reliable, [Next]_vars PROVE Reliable'
        OBVIOUS
    <2>1. TypeOK' /\ Booting' /\ Finishing'
        BY TypeStep, BootingStep, FinishingStep DEF Reliable
    <2>2. Cleared' /\ Resting'
        BY ClearedStep, RestingStep DEF Reliable
    <2>3. setting'.limit = 0 => Relied'
        BY ReliedStep DEF Reliable
    <2> QED BY <2>1, <2>2, <2>3 DEF Reliable
<1> QED BY <1>1, <1>2, PTL DEF Spec

\* Without a limit every directory of the map is on disk as a whole and
\* read-only, whatever fails, raises or restarts while others are built: the
\* pool enters it only after its last task, and nothing removes it after.
THEOREM CacheComplete == Spec => []CachedComplete
<1>1. Reliable => CachedComplete
    BY DEF Reliable, Relied, Entered, CachedComplete
<1> QED BY <1>1, ReliableHolds, PTL

\* Without a limit the directories that a build which returned has linked are
\* complete and read-only, and stay so until its next build.
THEOREM BuildsStay == Spec => []BuiltStays
<1>1. Reliable => BuiltStays
    BY DEF Reliable, Relied, Entered, LinkedIn, BuiltStays
<1> QED BY <1>1, ReliableHolds, PTL
=============================================================================
