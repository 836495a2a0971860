------------------------ MODULE StorageDetectorProofs ------------------------
(***************************************************************************)
(* Proofs about the detection of drives, on any machine with any system,   *)
(* for any settings, however its commands fail, its hardware changes and   *)
(* the user adds devices: a scan keeps the promise of DriveScan; if        *)
(* nothing fails or changes, it lists no ghosts, and each disk once if the *)
(* machine is asked for each under one address; on Linux and the BSDs it   *)
(* lists no address twice.                                                 *)
(***************************************************************************)
EXTENDS WindowsDetector, FiniteSetTheorems, WellFoundedInduction, TLAPS

-----------------------------------------------------------------------------
(* Bags.                                                                   *)

\* A set is a bag.
LEMMA SetIsBag ==
    ASSUME NEW S
    PROVE  IsABag(SetToBag(S)) /\ DOMAIN SetToBag(S) = S
BY DEF IsABag, SetToBag

\* So is a bag with a bag added to it, which is no smaller.
LEMMA UnionIsBag ==
    ASSUME NEW A, IsABag(A), NEW B, IsABag(B)
    PROVE  /\ IsABag(A (+) B)
           /\ DOMAIN (A (+) B) = DOMAIN A \cup DOMAIN B
           /\ A \sqsubseteq (A (+) B)
BY DEF IsABag, (+), \sqsubseteq

\* A bag taken away leaves a bag, with all elements that were not in both.
LEMMA DifferenceIsBag ==
    ASSUME NEW A, IsABag(A), NEW B, IsABag(B)
    PROVE  /\ IsABag(A (-) B)
           /\ DOMAIN A \ DOMAIN B \subseteq DOMAIN (A (-) B)
BY DEF IsABag, (-)

\* The drives that are not blacklisted are a bag.
LEMMA WantedIsBag ==
    ASSUME NEW B, IsABag(B)
    PROVE  IsABag(Wanted(B))
BY DEF IsABag, Wanted

-----------------------------------------------------------------------------
(* Sequences.  What FlattenSeq and the scans of a method are follows by    *)
(* induction on a length: a set of numbers with 0 and all successors is    *)
(* Nat.                                                                    *)

\* Induction, without a predicate.
LEMMA SetInduction ==
    ASSUME NEW S \in SUBSET Nat, 0 \in S, \A n \in S : n + 1 \in S
    PROVE  S = Nat
<1> SUFFICES ASSUME Nat \ S # {} PROVE FALSE
    OBVIOUS
<1>1. PICK x \in Nat \ S : \A y \in Nat \ S : ~(<<y, x>> \in OpToRel(<, Nat))
    BY NatLessThanWellFounded, WFMin
<1>2. x # 0 /\ x - 1 \in Nat /\ x - 1 \notin S
    OBVIOUS
<1>3. <<x - 1, x>> \in OpToRel(<, Nat)
    BY <1>2 DEF OpToRel
<1> QED
    BY <1>1, <1>2, <1>3

\* What FlattenSeq makes of the first i sequences, for each i.
PartsOf(S, n, f) ==
    {g \in [1 .. n -> Seq(S)] : \A i \in 1 .. n : g[i] = IF i = 1 THEN f[i] ELSE g[i - 1] \o f[i]}

\* One step of the concatenation.
Joined(f, g, i) == IF i = 1 THEN f[i] ELSE g[i - 1] \o f[i]

\* There are such parts.
LEMMA PartsExist ==
    ASSUME NEW S, NEW n \in Nat, NEW f, f \in [1 .. n -> Seq(S)]
    PROVE  PartsOf(S, n, f) # {}
<1> DEFINE P(k) == k <= n => \E g \in [1 .. k -> Seq(S)] : \A i \in 1 .. k : g[i] = Joined(f, g, i)
<1> DEFINE K == {k \in Nat : P(k)}
<1>1. P(0)
    <2>1. <<>> \in [1 .. 0 -> Seq(S)] /\ \A i \in 1 .. 0 : <<>>[i] = Joined(f, <<>>, i)
        OBVIOUS
    <2> QED
        BY <2>1
<1>2. ASSUME NEW k \in Nat, P(k) PROVE P(k + 1)
    <2> SUFFICES ASSUME k + 1 <= n
                 PROVE  \E g \in [1 .. k + 1 -> Seq(S)] : \A i \in 1 .. k + 1 : g[i] = Joined(f, g, i)
        OBVIOUS
    <2>1. PICK g \in [1 .. k -> Seq(S)] : \A i \in 1 .. k : g[i] = Joined(f, g, i)
        BY <1>2
    <2> DEFINE h == [i \in 1 .. k + 1 |-> IF i <= k THEN g[i] ELSE Joined(f, g, i)]
    <2>2. h \in [1 .. k + 1 -> Seq(S)]
        <3> SUFFICES ASSUME NEW i \in 1 .. k + 1 PROVE (IF i <= k THEN g[i] ELSE Joined(f, g, i)) \in Seq(S)
            OBVIOUS
        <3>1. CASE i <= k
            BY <3>1
        <3>2. CASE i = k + 1
            <4>1. f[i] \in Seq(S) /\ (i # 1 => g[i - 1] \in Seq(S))
                BY <3>2
            <4>2. i # 1 => g[i - 1] \o f[i] \in Seq(S)
                BY <4>1
            <4> QED
                BY <3>2, <4>1, <4>2 DEF Joined
        <3> QED
            BY <3>1, <3>2
    <2>3. ASSUME NEW i \in 1 .. k + 1 PROVE h[i] = Joined(f, h, i)
        <3>1. i # 1 => h[i - 1] = g[i - 1]
            OBVIOUS
        <3>2. h[i] = Joined(f, g, i)
            BY <2>1
        <3> QED
            BY <3>1, <3>2 DEF Joined
    <2> HIDE DEF h
    <2> QED
        BY <2>2, <2>3
<1> HIDE DEF P
<1>3. 0 \in K /\ K \in SUBSET Nat /\ \A k \in K : k + 1 \in K
    BY <1>1, <1>2
<1>4. K = Nat
    BY <1>3, SetInduction
<1>5. P(n)
    BY <1>4
<1>6. \E g \in [1 .. n -> Seq(S)] : \A i \in 1 .. n : g[i] = Joined(f, g, i)
    BY <1>5 DEF P
<1> QED
    BY <1>6 DEF PartsOf, Joined

\* They are sequences.
LEMMA PartsAreSeqs ==
    ASSUME NEW S, NEW n \in Nat, NEW f, f \in [1 .. n -> Seq(S)], NEW g,
           \A i \in 1 .. n : g[i] = Joined(f, g, i)
    PROVE  \A i \in 1 .. n : g[i] \in Seq(S)
<1> DEFINE P(k) == k \in 1 .. n => g[k] \in Seq(S)
<1> DEFINE K == {k \in Nat : P(k)}
<1>1. P(0)
    OBVIOUS
<1>2. ASSUME NEW k \in Nat, P(k) PROVE P(k + 1)
    <2> SUFFICES ASSUME k + 1 \in 1 .. n PROVE g[k + 1] \in Seq(S)
        OBVIOUS
    <2>1. f[k + 1] \in Seq(S) /\ g[k + 1] = Joined(f, g, k + 1)
        OBVIOUS
    <2>2. CASE k = 0
        BY <2>1, <2>2 DEF Joined
    <2>3. CASE k # 0
        <3>1. g[k] \in Seq(S)
            BY <1>2, <2>3
        <3>2. k + 1 # 1 /\ (k + 1) - 1 = k
            BY <2>3
        <3>3. g[k + 1] = g[k] \o f[k + 1]
            BY <2>1, <3>2 DEF Joined
        <3>4. g[k] \o f[k + 1] \in Seq(S)
            BY <2>1, <3>1
        <3> QED
            BY <3>3, <3>4
    <2> QED
        BY <2>2, <2>3
<1> HIDE DEF P
<1>3. 0 \in K /\ K \in SUBSET Nat /\ \A k \in K : k + 1 \in K
    BY <1>1, <1>2
<1>4. K = Nat
    BY <1>3, SetInduction
<1>5. \A k \in Nat : P(k)
    BY <1>4
<1> QED
    BY <1>5 DEF P

\* What a function takes on.
LEMMA InRange == \A f, x : x \in Range(f) <=> \E i \in DOMAIN f : f[i] = x
BY DEF Range

\* Sequences put together: what is there of each part, and of the next.
LEMMA FlattenParts ==
    ASSUME NEW S, NEW n \in Nat \ {0}, NEW f, f \in [1 .. n -> Seq(S)]
    PROVE  \E g : /\ \A i \in 1 .. n : g[i] = Joined(f, g, i) /\ g[i] \in Seq(S)
                  /\ FlattenSeq(f) = g[n]
<1>1. Len(f) = n
    OBVIOUS
<1>2. PICK g \in [1 .. n -> Seq(S)] : \A i \in 1 .. n : g[i] = Joined(f, g, i)
    <2>1. PartsOf(S, n, f) # {}
        BY PartsExist, Zenon
    <2> QED
        BY <2>1 DEF PartsOf, Joined
<1> DEFINE Good(h) == h = [i \in 1 .. n |-> IF i = 1 THEN f[i] ELSE h[i - 1] \o f[i]]
<1> DEFINE flat == CHOOSE h : Good(h)
<1>3. Good(g)
    BY <1>2 DEF Joined
<1>4. FlattenSeq(f) = flat[n]
    BY <1>1 DEF FlattenSeq
<1>5. Good(flat)
    <2> HIDE DEF Good
    <2> QED
        BY <1>3
<1>6. \A i \in 1 .. n : flat[i] = Joined(f, flat, i)
    <2> HIDE DEF flat
    <2> QED
        BY <1>5 DEF Joined
<1> HIDE DEF flat
<1>7. \A i \in 1 .. n : flat[i] \in Seq(S)
    BY <1>6, PartsAreSeqs
<1> QED
    BY <1>4, <1>6, <1>7

\* Sequences put together are a sequence.
LEMMA FlattenIsSeq ==
    ASSUME NEW S, NEW n \in Nat, NEW f, f \in [1 .. n -> Seq(S)]
    PROVE  FlattenSeq(f) \in Seq(S)
<1>1. CASE n = 0
    BY <1>1 DEF FlattenSeq
<1>2. CASE n # 0
    <2>1. PICK g : (\A i \in 1 .. n : g[i] = Joined(f, g, i) /\ g[i] \in Seq(S)) /\ FlattenSeq(f) = g[n]
        BY <1>2, FlattenParts
    <2> QED
        BY <1>2, <2>1
<1> QED
    BY <1>1, <1>2

\* A sequence is one of its elements.
LEMMA SeqIsOfRange ==
    ASSUME NEW S, NEW s \in Seq(S)
    PROVE  IsSeq(s) /\ Range(s) \subseteq S
<1>1. DOMAIN s = 1 .. Len(s) /\ Len(s) \in Nat /\ \A i \in 1 .. Len(s) : s[i] \in S
    OBVIOUS
<1>2. s \in [1 .. Len(s) -> Range(s)] /\ Range(s) \subseteq S
    BY <1>1 DEF Range
<1>3. s \in Seq(Range(s))
    BY <1>1, <1>2
<1> QED
    BY <1>2, <1>3 DEF IsSeq

\* So is a function on the numbers up to one.
LEMMA ListIsSeq ==
    ASSUME NEW k \in Int, NEW s, s = [i \in 1 .. k |-> s[i]]
    PROVE  IsSeq(s)
<1>1. CASE k < 0
    <2>1. 1 .. k = 1 .. 0
        BY <1>1
    <2> QED
        BY <2>1 DEF IsSeq, Range
<1>2. CASE k >= 0
    <2>1. s \in [1 .. k -> Range(s)] /\ k \in Nat
        BY <1>2 DEF Range
    <2> QED
        BY <2>1 DEF IsSeq
<1> QED
    BY <1>1, <1>2

\* A sequence put together of others has their elements.
LEMMA FlattenedIsSeq ==
    ASSUME NEW k \in Int, NEW f, f = [i \in 1 .. k |-> f[i]], \A i \in 1 .. k : IsSeq(f[i])
    PROVE  IsSeq(FlattenSeq(f)) /\ Range(FlattenSeq(f)) \subseteq UNION {Range(f[i]) : i \in 1 .. k}
<1> DEFINE S == UNION {Range(f[i]) : i \in 1 .. k}
<1>1. \A i \in 1 .. k : f[i] \in Seq(S)
    <2> SUFFICES ASSUME NEW i \in 1 .. k PROVE f[i] \in Seq(S)
        OBVIOUS
    <2>1. Range(f[i]) \subseteq S
        OBVIOUS
    <2> HIDE DEF S
    <2>2. f[i] \in Seq(Range(f[i]))
        BY DEF IsSeq
    <2> QED
        BY <2>1, <2>2
<1> HIDE DEF S
<1>2. PICK n \in Nat : 1 .. k = 1 .. n
    <2>1. CASE k < 0
        <3>1. 0 \in Nat /\ 1 .. k = 1 .. 0
            BY <2>1
        <3> QED
            BY <3>1
    <2>2. CASE k >= 0
        BY <2>2
    <2> QED
        BY <2>1, <2>2
<1>3. f \in [1 .. n -> Seq(S)]
    BY <1>1, <1>2
<1>4. FlattenSeq(f) \in Seq(S)
    BY <1>3, FlattenIsSeq
<1>5. IsSeq(FlattenSeq(f)) /\ Range(FlattenSeq(f)) \subseteq S
    BY <1>4, SeqIsOfRange
<1> QED
    BY <1>5 DEF S

\* The parts of a sequence.
LEMMA SeqParts ==
    ASSUME NEW s, IsSeq(s)
    PROVE  /\ DOMAIN s = 1 .. Len(s) /\ Len(s) \in Nat /\ IsFiniteSet(DOMAIN s)
           /\ s # <<>> => Head(s) \in Range(s) /\ IsSeq(Tail(s)) /\ Range(Tail(s)) \subseteq Range(s)
<1>1. s \in Seq(Range(s))
    BY DEF IsSeq
<1>2. DOMAIN s = 1 .. Len(s) /\ Len(s) \in Nat
    BY <1>1
<1>3. CASE s # <<>>
    <2>1. Head(s) \in Range(s) /\ Tail(s) \in Seq(Range(s))
        BY <1>1, <1>3
    <2>2. Range(Tail(s)) \subseteq Range(s) /\ IsSeq(Tail(s))
        BY <2>1, SeqIsOfRange
    <2> QED
        BY <1>2, <2>1, <2>2, FS_Interval
<1> QED
    BY <1>2, <1>3, FS_Interval

\* Two sequences make one.
LEMMA SeqsJoined ==
    ASSUME NEW s, IsSeq(s), NEW t, IsSeq(t)
    PROVE  IsSeq(s \o t) /\ Range(s \o t) = Range(s) \cup Range(t)
<1>1. s \in Seq(Range(s)) /\ t \in Seq(Range(t))
    BY DEF IsSeq
<1>2. /\ DOMAIN s = 1 .. Len(s) /\ DOMAIN t = 1 .. Len(t) /\ Len(s) \in Nat /\ Len(t) \in Nat
      /\ DOMAIN (s \o t) = 1 .. Len(s) + Len(t)
      /\ \A i \in 1 .. Len(s) + Len(t) : (s \o t)[i] = IF i <= Len(s) THEN s[i] ELSE t[i - Len(s)]
    BY <1>1
<1>3. Range(s \o t) \subseteq Range(s) \cup Range(t)
    BY <1>2 DEF Range
<1>4. Range(s) \subseteq Range(s \o t)
    BY <1>2 DEF Range
<1>5. ASSUME NEW i \in 1 .. Len(t) PROVE t[i] \in Range(s \o t)
    <2>1. i + Len(s) \in 1 .. Len(s) + Len(t) /\ (s \o t)[i + Len(s)] = t[i]
        BY <1>2
    <2> QED
        BY <1>2, <2>1 DEF Range
<1>6. IsSeq(s \o t)
    <2> DEFINE S == Range(s) \cup Range(t)
    <2>1. s \in Seq(S) /\ t \in Seq(S)
        <3>1. Range(s) \subseteq S /\ Range(t) \subseteq S
            OBVIOUS
        <3> HIDE DEF S
        <3> QED
            BY <1>1, <3>1
    <2> HIDE DEF S
    <2>2. s \o t \in Seq(S)
        BY <2>1
    <2> QED
        BY <2>2, SeqIsOfRange
<1>7. Range(t) \subseteq Range(s \o t)
    BY <1>2, <1>5 DEF Range
<1> QED
    BY <1>3, <1>4, <1>6, <1>7

\* The shortest sequences.
LEMMA SmallSeqs ==
    /\ IsSeq(<<>>) /\ Range(<<>>) = {}
    /\ \A x : IsSeq(<<x>>) /\ Range(<<x>>) = {x}
<1>1. <<>> \in Seq({}) /\ \A x : <<x>> \in Seq({x}) /\ <<x>>[1] = x /\ DOMAIN <<x>> = {1}
    OBVIOUS
<1>2. \A x : Range(<<x>>) = {x}
    BY <1>1 DEF Range
<1>3. Range(<<>>) = {}
    BY DEF Range
<1> QED
    BY <1>1, <1>2, <1>3, SeqIsOfRange

\* A finite function has a finite range.
LEMMA RangeIsFinite ==
    ASSUME NEW f, IsFiniteSet(DOMAIN f), f = [x \in DOMAIN f |-> f[x]]
    PROVE  IsFiniteSet(Range(f))
<1>1. f \in Surjection(DOMAIN f, Range(f))
    BY DEF Surjection, Range
<1> QED
    BY <1>1, FS_Surjection

\* What Ascending() is, without the function that binds its argument.
LEMMA AscendingIs ==
    ASSUME NEW S
    PROVE  Ascending(S) =
               [i \in 1 .. Cardinality(S) |-> CHOOSE x \in S : Cardinality({y \in S : y < x}) = i - 1]
BY Zenon DEF Ascending

\* The numbers of a finite set are as many as it has.
LEMMA AscendingDomain ==
    ASSUME NEW S, IsFiniteSet(S)
    PROVE  \E k \in Nat : DOMAIN Ascending(S) = 1 .. k
BY FS_CardinalityType, AscendingIs

\* So is what is put together for the numbers of a finite set.
LEMMA ForNumbersIsSeq ==
    ASSUME NEW S, IsFiniteSet(S), NEW f, f = [i \in DOMAIN Ascending(S) |-> f[i]],
           \A i \in DOMAIN Ascending(S) : IsSeq(f[i])
    PROVE  /\ IsSeq(FlattenSeq(f))
           /\ Range(FlattenSeq(f)) \subseteq UNION {Range(f[i]) : i \in DOMAIN Ascending(S)}
<1>1. PICK k \in Nat : DOMAIN Ascending(S) = 1 .. k
    BY AscendingDomain
<1>2. f = [i \in 1 .. k |-> f[i]]
    BY <1>1, Zenon
<1>3. \A i \in 1 .. k : IsSeq(f[i])
    BY <1>1
<1> QED
    BY <1>1, <1>2, <1>3, k \in Int, FlattenedIsSeq

\* Ascending() lists all numbers of a finite set, each once, the smallest first.
LEMMA AscendingIsSorted ==
    ASSUME NEW S \in SUBSET Int, IsFiniteSet(S)
    PROVE  /\ \A i \in DOMAIN Ascending(S) : Ascending(S)[i] \in S
           /\ \A i, j \in DOMAIN Ascending(S) : i < j => Ascending(S)[i] < Ascending(S)[j]
           /\ Range(Ascending(S)) = S
<1> DEFINE n == Cardinality(S)
           below(x) == {y \in S : y < x}
           rank == [x \in S |-> Cardinality(below(x))]
<1>1. n \in Nat
    BY FS_CardinalityType
<1>2. ASSUME NEW x \in S
      PROVE  IsFiniteSet(below(x)) /\ Cardinality(below(x)) \in 0 .. n - 1
    <2>1. below(x) \in SUBSET S /\ x \notin below(x)
        OBVIOUS
    <2> HIDE DEF below
    <2>2. IsFiniteSet(below(x)) /\ Cardinality(below(x)) <= n /\ Cardinality(below(x)) # n
        BY <2>1, FS_Subset
    <2>3. Cardinality(below(x)) \in Nat
        BY <2>2, FS_CardinalityType
    <2> QED
        BY <1>1, <2>2, <2>3
<1>3. ASSUME NEW x \in S, NEW y \in S, x < y
      PROVE  Cardinality(below(x)) < Cardinality(below(y))
    <2>1. below(x) \in SUBSET below(y) /\ x \in below(y) /\ x \notin below(x)
        <3>1. \A z \in S : z < x => z < y
            BY <1>3
        <3>2. ~(x < x)
            OBVIOUS
        <3> QED
            BY <1>3, <3>1, <3>2, Zenon
    <2>2. IsFiniteSet(below(y)) /\ Cardinality(below(x)) \in Int /\ Cardinality(below(y)) \in Int
        BY <1>2
    <2> HIDE DEF below
    <2>3. Cardinality(below(x)) <= Cardinality(below(y)) /\ Cardinality(below(x)) # Cardinality(below(y))
        BY <2>1, <2>2, FS_Subset
    <2> QED
        BY <2>2, <2>3
<1>4. rank \in Surjection(S, 0 .. n - 1)
    <2>1. \A x, y \in S : x # y => x < y \/ y < x
        OBVIOUS
    <2>2. rank \in Injection(S, 0 .. n - 1)
        <3> HIDE DEF below, n
        <3>1. rank \in [S -> 0 .. n - 1]
            BY <1>2
        <3>2. ASSUME NEW x \in S, NEW y \in S, rank[x] = rank[y] PROVE x = y
            <4>1. Cardinality(below(x)) = Cardinality(below(y)) /\ Cardinality(below(x)) \in Int
                BY <1>2, <3>2
            <4> QED
                BY <1>3, <2>1, <4>1
        <3> QED
            BY <3>1, <3>2 DEF Injection, IsInjective
    <2> HIDE DEF rank
    <2>3. IsFiniteSet(0 .. n - 1) /\ Cardinality(0 .. n - 1) = n
        <3> HIDE DEF n
        <3>1. n \in Nat /\ 0 \in Int /\ n - 1 \in Int
            BY <1>1
        <3>2. /\ IsFiniteSet(0 .. n - 1)
              /\ Cardinality(0 .. n - 1) = IF 0 > n - 1 THEN 0 ELSE n - 1 - 0 + 1
            BY <3>1, FS_Interval
        <3> QED
            BY <3>1, <3>2
    <2> QED
        BY <2>2, <2>3, FS_Injection
<1>5. ASSUME NEW i \in 1 .. n
      PROVE  Ascending(S)[i] \in S /\ Cardinality(below(Ascending(S)[i])) = i - 1
    <2>1. \E x \in S : Cardinality(below(x)) = i - 1
        <3>1. i - 1 \in 0 .. n - 1
            BY <1>1
        <3>2. PICK x \in S : rank[x] = i - 1
            BY <1>4, <3>1 DEF Surjection
        <3> QED
            BY <3>2
    <2>2. Ascending(S)[i] = CHOOSE x \in S : Cardinality(below(x)) = i - 1
        BY AscendingIs
    <2> HIDE DEF below
    <2> QED
        BY <2>1, <2>2
<1>6. DOMAIN Ascending(S) = 1 .. n
    BY AscendingIs
<1>7. ASSUME NEW i \in 1 .. n, NEW j \in 1 .. n, i < j
      PROVE  Ascending(S)[i] < Ascending(S)[j]
    <2> DEFINE x == Ascending(S)[i] y == Ascending(S)[j]
    <2>1. x \in S /\ y \in S /\ Cardinality(below(x)) = i - 1 /\ Cardinality(below(y)) = j - 1
        BY <1>5
    <2> SUFFICES x < y
        OBVIOUS
    <2> HIDE DEF x, y, below
    <2>2. CASE y = x
        BY <1>1, <1>7, <2>1, <2>2
    <2>3. CASE y < x
        <3>1. Cardinality(below(y)) < Cardinality(below(x))
            BY <1>3, <2>1, <2>3
        <3> QED
            BY <1>1, <1>7, <2>1, <3>1
    <2>4. x \in Int /\ y \in Int
        BY <2>1
    <2> QED
        BY <2>2, <2>3, <2>4
<1>8. ASSUME NEW x \in S PROVE \E i \in 1 .. n : Ascending(S)[i] = x
    <2>1. Cardinality(below(x)) + 1 \in 1 .. n
        BY <1>1, <1>2
    <2> DEFINE i == Cardinality(below(x)) + 1
               y == Ascending(S)[i]
    <2>2. y \in S /\ Cardinality(below(y)) = Cardinality(below(x)) /\ Cardinality(below(x)) \in Int
        <3>1. Cardinality(below(x)) \in Int /\ i \in 1 .. n
            BY <1>2, <2>1
        <3>2. y \in S /\ Cardinality(below(y)) = i - 1
            BY <1>5, <3>1
        <3> QED
            BY <3>1, <3>2
    <2> HIDE DEF y
    <2>3. x = y
        <3> HIDE DEF below
        <3>1. x \in Int /\ y \in Int
            BY <2>2
        <3> QED
            BY <1>3, <2>2, <3>1
    <2> QED
        BY <2>1, <2>3 DEF y
<1>9. \A i \in DOMAIN Ascending(S) : Ascending(S)[i] \in S
    BY <1>5, <1>6
<1> HIDE DEF n
<1>10. Range(Ascending(S)) = S
    <2>1. \A x \in S : \E i \in DOMAIN Ascending(S) : Ascending(S)[i] = x
        BY <1>6, <1>8, Zenon
    <2>2. ASSUME NEW x \in Range(Ascending(S)) PROVE x \in S
        <3>1. PICK i \in DOMAIN Ascending(S) : Ascending(S)[i] = x
            BY InRange
        <3> QED
            BY <1>9, <3>1
    <2>3. ASSUME NEW x \in S PROVE x \in Range(Ascending(S))
        BY <2>1, InRange
    <2> QED
        BY <2>2, <2>3
<1>11. \A i, j \in DOMAIN Ascending(S) : i < j => Ascending(S)[i] < Ascending(S)[j]
    BY <1>6, <1>7
<1> QED
    BY <1>9, <1>10, <1>11

-----------------------------------------------------------------------------
(* Scans of one method are of different places: another device, or         *)
(* another enclosure of it.                                                *)

Place(scan) == <<scan.dev, scan.enclosure>>

Apart(s) == \A i, j \in DOMAIN s : Place(s[i]) = Place(s[j]) => i = j

\* No place is in both.
NoneShared(s, t) == \A x \in Range(s), y \in Range(t) : Place(x) # Place(y)

\* The shortest lists.
LEMMA SmallApart == Apart(<<>>) /\ \A x : Apart(<<x>>)
<1>1. DOMAIN <<>> = {} /\ \A x : DOMAIN <<x>> = {1}
    OBVIOUS
<1> QED
    BY <1>1 DEF Apart

\* Each element of a list is related to those after it.
Paired(R, s) == \A i, j \in DOMAIN s : i < j => <<s[i], s[j]>> \in R

\* All of a list are related to all of another.
AllPaired(R, s, t) == \A x \in Range(s), y \in Range(t) : <<x, y>> \in R

LEMMA JoinedPaired ==
    ASSUME NEW R, NEW s, IsSeq(s), NEW t, IsSeq(t), Paired(R, s), Paired(R, t),
           AllPaired(R, s, t)
    PROVE  Paired(R, s \o t)
<1>1. s \in Seq(Range(s)) /\ t \in Seq(Range(t))
    BY DEF IsSeq
<1>2. /\ DOMAIN s = 1 .. Len(s) /\ DOMAIN t = 1 .. Len(t) /\ Len(s) \in Nat /\ Len(t) \in Nat
      /\ DOMAIN (s \o t) = 1 .. Len(s) + Len(t)
      /\ \A i \in 1 .. Len(s) + Len(t) : (s \o t)[i] = IF i <= Len(s) THEN s[i] ELSE t[i - Len(s)]
    BY <1>1
<1> SUFFICES ASSUME NEW i \in 1 .. Len(s) + Len(t), NEW j \in 1 .. Len(s) + Len(t), i < j
             PROVE  <<(s \o t)[i], (s \o t)[j]>> \in R
    BY <1>2, Zenon DEF Paired
<1> DEFINE a == Len(s) b == Len(t) u == s \o t
<1>3. /\ a \in Nat /\ b \in Nat /\ i \in 1 .. a + b /\ j \in 1 .. a + b /\ i < j
      /\ \A k \in 1 .. a + b : k <= a => k \in DOMAIN s /\ u[k] = s[k]
      /\ \A k \in 1 .. a + b : k > a => k - a \in DOMAIN t /\ u[k] = t[k - a]
    BY <1>2
<1>4. \A k \in DOMAIN s, l \in DOMAIN t : <<s[k], t[l]>> \in R
    BY InRange DEF AllPaired
<1> HIDE DEF a, b, u
<1>5. ASSUME i <= a, j <= a PROVE <<u[i], u[j]>> \in R
    <2>1. i \in DOMAIN s /\ j \in DOMAIN s /\ u[i] = s[i] /\ u[j] = s[j] /\ i < j
        BY <1>3, <1>5
    <2> QED
        BY <2>1, Zenon DEF Paired
<1>6. ASSUME i > a, j > a PROVE <<u[i], u[j]>> \in R
    <2>1. i - a < j - a /\ i - a \in DOMAIN t /\ j - a \in DOMAIN t /\ u[i] = t[i - a] /\ u[j] = t[j - a]
        BY <1>3, <1>6
    <2> QED
        BY <2>1, Zenon DEF Paired
<1>7. ASSUME i <= a, j > a PROVE <<u[i], u[j]>> \in R
    <2>1. i \in DOMAIN s /\ j - a \in DOMAIN t /\ u[i] = s[i] /\ u[j] = t[j - a]
        BY <1>3, <1>7
    <2> QED
        BY <1>4, <2>1, Zenon
<1>8. (i <= a /\ j <= a) \/ (i > a /\ j > a) \/ (i <= a /\ j > a)
    BY <1>3
<1> QED
    BY <1>5, <1>6, <1>7, <1>8 DEF u

\* So do any number of lists, if each is related to those after it.
LEMMA FlattenPaired ==
    ASSUME NEW R, NEW S, NEW n \in Nat, NEW f, f \in [1 .. n -> Seq(S)], \A i \in 1 .. n : Paired(R, f[i]),
           \A i, j \in 1 .. n : i < j => AllPaired(R, f[i], f[j])
    PROVE  /\ Paired(R, FlattenSeq(f))
           /\ \A x : x \in Range(FlattenSeq(f)) <=> \E i \in 1 .. n : x \in Range(f[i])
<1>1. CASE n = 0
    <2>1. Len(f) = 0 /\ 1 .. n = {}
        BY <1>1
    <2>2. FlattenSeq(f) = <<>>
        BY <2>1 DEF FlattenSeq
    <2>3. DOMAIN <<>> = {}
        OBVIOUS
    <2> QED
        BY <2>1, <2>2, <2>3, SmallSeqs DEF Paired
<1>2. CASE n # 0
    <2>1. PICK g : /\ \A i \in 1 .. n : g[i] = Joined(f, g, i) /\ g[i] \in Seq(S)
                   /\ FlattenSeq(f) = g[n]
        BY <1>2, FlattenParts
    <2>2. \A i \in 1 .. n : IsSeq(f[i]) /\ IsSeq(g[i])
        BY <2>1, SeqIsOfRange
    <2> DEFINE Has(k) == \A x : x \in Range(g[k]) <=> \E i \in 1 .. k : x \in Range(f[i])
    <2> DEFINE P(k) == k \in 1 .. n => Paired(R, g[k]) /\ Has(k)
    <2> DEFINE K == {k \in Nat : P(k)}
    <2>3. P(0)
        OBVIOUS
    <2>4. ASSUME NEW k \in Nat, P(k), k + 1 \in 1 .. n PROVE Paired(R, g[k + 1]) /\ Has(k + 1)
        <3>1. g[k + 1] = Joined(f, g, k + 1)
            BY <2>1, <2>4
        <3>2. CASE k = 0
            <4>1. g[k + 1] = f[k + 1] /\ 1 .. k + 1 = {k + 1}
                BY <3>1, <3>2 DEF Joined
            <4>2. Paired(R, f[k + 1])
                BY <2>4
            <4>3. Has(k + 1)
                <5>1. \A x : (\E i \in {k + 1} : x \in Range(f[i])) <=> x \in Range(f[k + 1])
                    OBVIOUS
                <5> QED
                    BY <4>1, <5>1, Zenon
            <4> HIDE DEF Has
            <4> QED
                BY <4>1, <4>2, <4>3
        <3>3. CASE k # 0
            <4>1. g[k + 1] = g[k] \o f[k + 1]
                <5>1. (k + 1) - 1 = k /\ k + 1 # 1
                    BY <3>3
                <5> QED
                    BY <3>1, <5>1 DEF Joined
            <4>2. k \in 1 .. n /\ k + 1 \in 1 .. n
                BY <2>4, <3>3
            <4>3. Paired(R, g[k]) /\ Has(k) /\ IsSeq(g[k]) /\ IsSeq(f[k + 1]) /\ Paired(R, f[k + 1])
                BY <2>2, <2>4, <4>2
            <4>4. AllPaired(R, g[k], f[k + 1])
                <5> SUFFICES ASSUME NEW x \in Range(g[k]), NEW y \in Range(f[k + 1]) PROVE <<x, y>> \in R
                    BY DEF AllPaired
                <5>1. PICK i \in 1 .. k : x \in Range(f[i])
                    BY <4>3
                <5>2. i \in 1 .. n /\ i < k + 1
                    BY <4>2
                <5>3. AllPaired(R, f[i], f[k + 1])
                    BY <4>2, <5>2
                <5> QED
                    BY <5>1, <5>3 DEF AllPaired
            <4>5. Paired(R, g[k + 1])
                BY <4>1, <4>3, <4>4, JoinedPaired
            <4>6. Range(g[k + 1]) = Range(g[k]) \cup Range(f[k + 1])
                BY <4>1, <4>3, SeqsJoined
            <4>7. 1 .. k + 1 = (1 .. k) \cup {k + 1}
                BY <3>3
            <4>8. Has(k + 1)
                BY <4>3, <4>6, <4>7
            <4> QED
                BY <4>5, <4>8
        <3> QED
            BY <3>2, <3>3
    <2> HIDE DEF Has
    <2>5. \A k \in Nat : P(k) => P(k + 1)
        BY <2>4
    <2> HIDE DEF P
    <2>6. 0 \in K /\ K \in SUBSET Nat /\ \A k \in K : k + 1 \in K
        BY <2>3, <2>5
    <2>7. K = Nat
        BY <2>6, SetInduction
    <2>8. P(n)
        BY <2>7
    <2>9. Paired(R, g[n]) /\ Has(n)
        BY <1>2, <2>8 DEF P
    <2> QED
        BY <2>1, <2>9 DEF Has
<1> QED
    BY <1>1, <1>2

\* Scans of two places, of some set.
OfPlaces(S) == {p \in S \X S : Place(p[1]) # Place(p[2])}

LEMMA ApartIsPaired ==
    ASSUME NEW S, NEW s, IsSeq(s), Range(s) \subseteq S
    PROVE  Apart(s) <=> Paired(OfPlaces(S), s)
<1>1. DOMAIN s \subseteq Int
    BY SeqParts
<1>2. \A i \in DOMAIN s : s[i] \in S
    BY InRange
<1>3. \A i, j \in DOMAIN s : <<s[i], s[j]>> \in OfPlaces(S) <=> Place(s[i]) # Place(s[j])
    BY <1>2 DEF OfPlaces
<1>4. \A i, j \in DOMAIN s : i = j \/ i < j \/ j < i
    BY <1>1
<1>5. \A i, j \in DOMAIN s : i < j => i # j
    BY <1>1
<1> QED
    BY <1>3, <1>4, <1>5 DEF Apart, Paired

\* Lists that share no place make one of which no two scans do.
LEMMA JoinedApart ==
    ASSUME NEW s, IsSeq(s), NEW t, IsSeq(t), Apart(s), Apart(t), NoneShared(s, t)
    PROVE  Apart(s \o t)
<1> DEFINE S == Range(s) \cup Range(t) R == OfPlaces(S)
<1>1. Range(s) \subseteq S /\ Range(t) \subseteq S /\ IsSeq(s \o t) /\ Range(s \o t) \subseteq S
    BY SeqsJoined
<1>2. AllPaired(R, s, t)
    BY DEF NoneShared, OfPlaces, AllPaired
<1> HIDE DEF S
<1>3. Paired(R, s) /\ Paired(R, t)
    BY <1>1, ApartIsPaired
<1> HIDE DEF R
<1>4. Paired(R, s \o t)
    BY <1>2, <1>3, JoinedPaired
<1> QED
    BY <1>1, <1>4, ApartIsPaired DEF R

\* So do any number of them.
LEMMA FlattenApart ==
    ASSUME NEW S, NEW n \in Nat, NEW f, f \in [1 .. n -> Seq(S)], \A i \in 1 .. n : Apart(f[i]),
           \A i, j \in 1 .. n : i # j => NoneShared(f[i], f[j])
    PROVE  /\ Apart(FlattenSeq(f))
           /\ \A x : x \in Range(FlattenSeq(f)) <=> \E i \in 1 .. n : x \in Range(f[i])
<1> DEFINE R == OfPlaces(S)
<1>1. \A i \in 1 .. n : IsSeq(f[i]) /\ Range(f[i]) \subseteq S
    BY SeqIsOfRange
<1>2. \A i \in 1 .. n : Paired(R, f[i])
    BY <1>1, ApartIsPaired
<1>3. \A i, j \in 1 .. n : i < j => AllPaired(R, f[i], f[j])
    <2> SUFFICES ASSUME NEW i \in 1 .. n, NEW j \in 1 .. n, i < j, NEW x \in Range(f[i]), NEW y \in Range(f[j])
                 PROVE  <<x, y>> \in R
        BY DEF AllPaired
    <2>1. x \in S /\ y \in S /\ i # j
        BY <1>1
    <2>2. Place(x) # Place(y)
        BY <2>1 DEF NoneShared
    <2> QED
        BY <2>1, <2>2 DEF OfPlaces
<1>4. IsSeq(FlattenSeq(f)) /\ Range(FlattenSeq(f)) \subseteq S
    BY FlattenIsSeq, SeqIsOfRange
<1> HIDE DEF R
<1>5. /\ Paired(R, FlattenSeq(f))
      /\ \A x : x \in Range(FlattenSeq(f)) <=> \E i \in 1 .. n : x \in Range(f[i])
    BY <1>2, <1>3, FlattenPaired
<1> QED
    BY <1>4, <1>5, ApartIsPaired DEF R

\* So do those for the numbers of a finite set.
LEMMA ForNumbersApart ==
    ASSUME NEW S, IsFiniteSet(S), NEW f, f = [i \in DOMAIN Ascending(S) |-> f[i]],
           \A i \in DOMAIN Ascending(S) : IsSeq(f[i]) /\ Apart(f[i]),
           \A i, j \in DOMAIN Ascending(S) : i # j => NoneShared(f[i], f[j])
    PROVE  /\ IsSeq(FlattenSeq(f)) /\ Apart(FlattenSeq(f))
           /\ \A x : x \in Range(FlattenSeq(f)) <=> \E i \in DOMAIN Ascending(S) : x \in Range(f[i])
<1>1. PICK n \in Nat : DOMAIN Ascending(S) = 1 .. n
    BY AscendingDomain
<1> DEFINE T == UNION {Range(f[i]) : i \in 1 .. n}
<1>2. \A i \in 1 .. n : f[i] \in Seq(T)
    <2> SUFFICES ASSUME NEW i \in 1 .. n PROVE f[i] \in Seq(T)
        OBVIOUS
    <2>1. Range(f[i]) \subseteq T
        OBVIOUS
    <2> HIDE DEF T
    <2>2. f[i] \in Seq(Range(f[i]))
        BY <1>1 DEF IsSeq
    <2> QED
        BY <2>1, <2>2
<1> HIDE DEF T
<1>3. f \in [1 .. n -> Seq(T)]
    BY <1>1, <1>2
<1>4. FlattenSeq(f) \in Seq(T)
    BY <1>3, FlattenIsSeq
<1>5. /\ Apart(FlattenSeq(f))
      /\ \A x : x \in Range(FlattenSeq(f)) <=> \E i \in 1 .. n : x \in Range(f[i])
    <2>1. \A i \in 1 .. n : Apart(f[i])
        BY <1>1
    <2>2. \A i, j \in 1 .. n : i # j => NoneShared(f[i], f[j])
        BY <1>1
    <2> QED
        BY <1>3, <2>1, <2>2, FlattenApart
<1>6. IsSeq(FlattenSeq(f))
    BY <1>4, SeqIsOfRange
<1> QED
    BY <1>1, <1>5, <1>6

\* A scan as a method starts it, or goes on with: the devices and rules of each.
OfMethod(method, scan) ==
    /\ scan.from \in Int /\ scan.to \in Int
    /\ scan.rule # "areca" => scan.enclosure = 0
    /\ scan.rule \in {"partition", "adaptec"} => scan.from >= scan.to
    /\ CASE method = "partitions" -> scan.rule = "partition" /\ scan.dev # <<"sg", scan.dev[2]>>
         [] method = "3ware" -> scan.rule \in {"tw_cli", "3ware"}
         [] method = "areca" -> scan.rule = "areca"
         [] method = "adaptec" -> scan.rule = "adaptec" /\ scan.dev = <<"sg", scan.dev[2]>>
         [] method = "cciss" -> scan.rule = "cciss" /\ scan.dev = <<"cciss/c", scan.dev[2]>>
         [] method = "hpsa" -> scan.rule = "hpsa" /\ scan.dev = <<"sg", scan.dev[2]>>

GoodScans(method, s) == IsSeq(s) /\ Apart(s) /\ \A scan \in Range(s) : OfMethod(method, scan)

\* Good scans for each number of a set, of other places for another number, are good.
LEMMA GroupsAreGood ==
    ASSUME NEW method, NEW S, IsFiniteSet(S), NEW f, f = [i \in DOMAIN Ascending(S) |-> f[i]],
           \A i \in DOMAIN Ascending(S) : GoodScans(method, f[i]),
           \A i, j \in DOMAIN Ascending(S) : i # j => NoneShared(f[i], f[j])
    PROVE  /\ GoodScans(method, FlattenSeq(f))
           /\ \A scan \in Range(FlattenSeq(f)) : \E i \in DOMAIN Ascending(S) : scan \in Range(f[i])
<1>1. \A i \in DOMAIN Ascending(S) : IsSeq(f[i]) /\ Apart(f[i])
    BY DEF GoodScans
<1>2. /\ IsSeq(FlattenSeq(f)) /\ Apart(FlattenSeq(f))
      /\ \A x : x \in Range(FlattenSeq(f)) <=> \E i \in DOMAIN Ascending(S) : x \in Range(f[i])
    BY <1>1, ForNumbersApart
<1> QED
    BY <1>2 DEF GoodScans

\* So are single scans of other places.
LEMMA SinglesAreGood ==
    ASSUME NEW method, NEW S, IsFiniteSet(S), NEW g,
           \A i \in DOMAIN Ascending(S) : OfMethod(method, g[i]),
           \A i, j \in DOMAIN Ascending(S) : i # j => Place(g[i]) # Place(g[j])
    PROVE  LET singles == FlattenSeq([i \in DOMAIN Ascending(S) |-> <<g[i]>>])
           IN  /\ GoodScans(method, singles)
               /\ \A scan \in Range(singles) : \E i \in DOMAIN Ascending(S) : scan = g[i]
<1> DEFINE f == [i \in DOMAIN Ascending(S) |-> <<g[i]>>]
<1>1. \A i \in DOMAIN Ascending(S) : f[i] = <<g[i]>>
    OBVIOUS
<1>2. f = [i \in DOMAIN Ascending(S) |-> f[i]]
    OBVIOUS
<1> HIDE DEF f
<1>3. \A i \in DOMAIN Ascending(S) : Range(f[i]) = {g[i]} /\ IsSeq(f[i]) /\ Apart(f[i])
    BY <1>1, SmallSeqs, SmallApart
<1>4. \A i \in DOMAIN Ascending(S) : GoodScans(method, f[i])
    BY <1>3 DEF GoodScans
<1>5. \A i, j \in DOMAIN Ascending(S) : i # j => NoneShared(f[i], f[j])
    BY <1>3 DEF NoneShared
<1>6. /\ GoodScans(method, FlattenSeq(f))
      /\ \A scan \in Range(FlattenSeq(f)) : \E i \in DOMAIN Ascending(S) : scan \in Range(f[i])
    BY <1>2, <1>4, <1>5, GroupsAreGood
<1>7. \A scan \in Range(FlattenSeq(f)) : \E i \in DOMAIN Ascending(S) : scan = g[i]
    BY <1>3, <1>6
<1> QED
    BY <1>6, <1>7 DEF f

\* What a scan is made of.
LEMMA ScanFields ==
    ASSUME NEW rule, NEW dev, NEW from, NEW to, NEW scan,
           scan = Scan(rule, dev, from, to) \/ \E host : scan = [Scan(rule, dev, from, to) EXCEPT !.host = host]
    PROVE  scan.rule = rule /\ scan.dev = dev /\ scan.from = from /\ scan.to = to /\ scan.enclosure = 0
<1>1. CASE scan = Scan(rule, dev, from, to)
    BY <1>1 DEF Scan
<1>2. CASE \E host : scan = [Scan(rule, dev, from, to) EXCEPT !.host = host]
    <2>1. PICK host : scan = [Scan(rule, dev, from, to) EXCEPT !.host = host]
        BY <1>2
    <2>2. scan = [rule |-> rule, dev |-> dev, host |-> host, enclosure |-> 0, from |-> from, to |-> to]
        BY <2>1 DEF Scan
    <2> QED
        BY <2>2
<1> QED
    BY <1>1, <1>2

\* The lines of the files are numbered.
LEMMA LinesOfFiles ==
    ASSUME NEW files, AreFiles(files)
    PROVE  /\ DOMAIN files.partitions \in SUBSET Int /\ IsFiniteSet(DOMAIN files.partitions)
           /\ DOMAIN files.scsi \in SUBSET Int /\ IsFiniteSet(DOMAIN files.scsi)
           /\ DOMAIN files.sg \in SUBSET Int /\ IsFiniteSet(DOMAIN files.sg)
           /\ IsFiniteSet(files.devices)
           /\ \A i \in DOMAIN files.scsi : files.scsi[i].host \in Int
           /\ \A i \in DOMAIN files.partitions :
                  LET name == files.partitions[i] IN IsSeq(name) /\ name # <<>> /\ name[1] # "sg"
<1>1. \A s : IsSeq(s) => DOMAIN s \in SUBSET Int /\ IsFiniteSet(DOMAIN s)
    <2> SUFFICES ASSUME NEW s, IsSeq(s) PROVE DOMAIN s \in SUBSET Int /\ IsFiniteSet(DOMAIN s)
        OBVIOUS
    <2>1. DOMAIN s = 1 .. Len(s) /\ Len(s) \in Nat /\ IsFiniteSet(DOMAIN s)
        BY SeqParts
    <2> QED
        BY <2>1
<1> QED
    BY <1>1, InRange DEF AreFiles

\* The first entries of each host.
LEMMA FirstEntries ==
    ASSUME NEW files, AreFiles(files), NEW entries \in SUBSET DOMAIN files.scsi
    PROVE  LET first == FirstOfHost(files.scsi, entries)
           IN  /\ first \in SUBSET Int /\ IsFiniteSet(first) /\ first \in SUBSET DOMAIN files.scsi
               /\ \A i, j \in first : files.scsi[i].host = files.scsi[j].host => i = j
<1> DEFINE first == FirstOfHost(files.scsi, entries)
<1>1. first \in SUBSET DOMAIN files.scsi
    BY DEF FirstOfHost
<1>2. first \in SUBSET Int
    BY <1>1, LinesOfFiles
<1>3. IsFiniteSet(first)
    <2> HIDE DEF first
    <2> QED
        BY <1>1, LinesOfFiles, FS_Subset
<1>4. ASSUME NEW i \in first, NEW j \in first, files.scsi[i].host = files.scsi[j].host PROVE i = j
    <2>1. ~(i < j) /\ ~(j < i)
        BY <1>4 DEF FirstOfHost
    <2>2. i \in Int /\ j \in Int
        BY <1>2
    <2> HIDE DEF first
    <2> QED
        BY <2>1, <2>2
<1> QED
    BY <1>1, <1>2, <1>3, <1>4

\* Other numbers of a set are at other places of Ascending().
LEMMA AscendingDiffers ==
    ASSUME NEW S \in SUBSET Int, IsFiniteSet(S)
    PROVE  /\ \A i \in DOMAIN Ascending(S) : Ascending(S)[i] \in S
           /\ \A i, j \in DOMAIN Ascending(S) : i # j => Ascending(S)[i] # Ascending(S)[j]
<1>1. \A i, j \in DOMAIN Ascending(S) : i < j => Ascending(S)[i] < Ascending(S)[j]
    BY AscendingIsSorted
<1>2. \A i \in DOMAIN Ascending(S) : Ascending(S)[i] \in S
    BY AscendingIsSorted
<1>3. DOMAIN Ascending(S) \in SUBSET Int
    BY AscendingDomain
<1>4. ASSUME NEW i \in DOMAIN Ascending(S), NEW j \in DOMAIN Ascending(S), i # j
      PROVE  Ascending(S)[i] # Ascending(S)[j]
    <2>1. i < j \/ j < i
        BY <1>3, <1>4
    <2>2. Ascending(S)[i] \in Int /\ Ascending(S)[j] \in Int
        BY <1>2
    <2> QED
        BY <1>1, <2>1, <2>2
<1> QED
    BY <1>2, <1>4

\* Without its namespace a name is none of /dev/sgN.
LEMMA NameIsNoSg ==
    ASSUME NEW name, IsSeq(name), name # <<>>, name[1] # "sg", NEW names
    PROVE  \A n : WithoutNamespace(name, names) # <<"sg", n>>
<1> DEFINE at == {k \in DOMAIN name : name[1] = "nvme" /\ name[k] = "n" /\ NumberedAfter(name, k, 1)}
           k == CHOOSE x \in at : TRUE
<1>1. WithoutNamespace(name, names) = name \/ (at # {} /\ WithoutNamespace(name, names) = SubSeq(name, 1, k - 1))
    BY DEF WithoutNamespace
<1>2. DOMAIN name = 1 .. Len(name) /\ Len(name) \in Nat /\ name \in Seq(Range(name))
    BY SeqParts DEF IsSeq
<1>3. \A n : name # <<"sg", n>>
    OBVIOUS
<1>4. CASE at # {} /\ WithoutNamespace(name, names) = SubSeq(name, 1, k - 1)
    <2>1. k \in at
        BY <1>4
    <2>2. k \in 1 .. Len(name) /\ k # 1
        BY <1>2, <2>1
    <2> HIDE DEF k
    <2>3. 1 \in 1 .. k - 1 /\ k - 1 \in 1 .. Len(name)
        BY <1>2, <2>2
    <2>4. SubSeq(name, 1, k - 1)[1] = name[1]
        BY <1>2, <2>3
    <2> HIDE DEF at
    <2>5. WithoutNamespace(name, names)[1] # "sg"
        BY <1>4, <2>4
    <2>6. \A n : <<"sg", n>>[1] = "sg"
        OBVIOUS
    <2> QED
        BY <2>5, <2>6, Zenon
<1> QED
    BY <1>1, <1>3, <1>4

\* Each device of /proc/partitions is asked once.
LEMMA PartitionScansGood ==
    ASSUME NEW files, AreFiles(files)
    PROVE  GoodScans("partitions", PartitionScans(files))
<1> DEFINE names == [i \in {k \in DOMAIN files.partitions : ~IsBlacklisted(files.partitions[k])} |->
                        files.partitions[i]]
           clean == [i \in DOMAIN names |-> WithoutNamespace(names[i], names)]
           first == {i \in DOMAIN clean : \A j \in DOMAIN clean : j < i => clean[j] # clean[i]}
           g == [n \in DOMAIN Ascending(first) |-> Scan("partition", clean[Ascending(first)[n]], 0, 0)]
<1>1. PartitionScans(files) = FlattenSeq([n \in DOMAIN Ascending(first) |-> <<g[n]>>])
    <2> DEFINE f == [n \in DOMAIN Ascending(first) |-> <<Scan("partition", clean[Ascending(first)[n]], 0, 0)>>]
    <2>1. PartitionScans(files) = FlattenSeq(f)
        BY DEF PartitionScans, ForEach
    <2> HIDE DEF first, clean
    <2>2. f = [n \in DOMAIN Ascending(first) |-> <<g[n]>>]
        OBVIOUS
    <2> QED
        BY <2>1, <2>2, Zenon
<1>2. first \in SUBSET DOMAIN files.partitions
    OBVIOUS
<1>3. first \in SUBSET Int /\ IsFiniteSet(first)
    <2> HIDE DEF first
    <2>1. DOMAIN files.partitions \in SUBSET Int /\ IsFiniteSet(DOMAIN files.partitions)
        BY LinesOfFiles
    <2> QED
        BY <1>2, <2>1, FS_Subset
<1>4. ASSUME NEW i \in first PROVE \A n : clean[i] # <<"sg", n>>
    <2>1. i \in DOMAIN names /\ i \in DOMAIN files.partitions
        OBVIOUS
    <2>2. clean[i] = WithoutNamespace(names[i], names) /\ names[i] = files.partitions[i]
        BY <2>1
    <2>3. IsSeq(names[i]) /\ names[i] # <<>> /\ names[i][1] # "sg"
        BY <2>1, <2>2, LinesOfFiles
    <2> HIDE DEF names, clean
    <2> QED
        BY <2>2, <2>3, NameIsNoSg
<1>5. ASSUME NEW i \in first, NEW j \in first, clean[i] = clean[j] PROVE i = j
    <2>1. ~(i < j) /\ ~(j < i)
        BY <1>5
    <2>2. i \in Int /\ j \in Int
        BY <1>3
    <2> HIDE DEF first
    <2> QED
        BY <2>1, <2>2
<1> HIDE DEF first, clean
<1>6. ASSUME NEW n \in DOMAIN Ascending(first)
      PROVE  OfMethod("partitions", g[n]) /\ Place(g[n]) = <<clean[Ascending(first)[n]], 0>>
    <2>1. Ascending(first)[n] \in first
        BY <1>3, AscendingDiffers
    <2>2. /\ g[n].rule = "partition" /\ g[n].dev = clean[Ascending(first)[n]]
          /\ g[n].from = 0 /\ g[n].to = 0 /\ g[n].enclosure = 0
        BY ScanFields
    <2>3. \A x : g[n].dev # <<"sg", x>>
        BY <1>4, <2>1, <2>2
    <2> HIDE DEF g
    <2> QED
        BY <2>2, <2>3 DEF OfMethod, Place
<1>7. ASSUME NEW m \in DOMAIN Ascending(first), NEW n \in DOMAIN Ascending(first), m # n
      PROVE  Place(g[m]) # Place(g[n])
    <2>1. /\ Ascending(first)[m] \in first /\ Ascending(first)[n] \in first
          /\ Ascending(first)[m] # Ascending(first)[n]
        BY <1>3, <1>7, AscendingDiffers
    <2> HIDE DEF g
    <2> QED
        BY <1>5, <1>6, <2>1
<1> HIDE DEF g
<1>8. GoodScans("partitions", FlattenSeq([n \in DOMAIN Ascending(first) |-> <<g[n]>>]))
    <2>1. \A n \in DOMAIN Ascending(first) : OfMethod("partitions", g[n])
        BY <1>6
    <2>2. \A m, n \in DOMAIN Ascending(first) : m # n => Place(g[m]) # Place(g[n])
        BY <1>7
    <2> QED
        BY <1>3, <2>1, <2>2, SinglesAreGood, Zenon
<1> QED
    BY <1>1, <1>8, Zenon

\* Each 3ware controller has its device: those of one kind are numbered.
LEMMA ThreeWareScansGood ==
    ASSUME NEW files, AreFiles(files)
    PROVE  GoodScans("3ware", ThreeWareScans(files))
<1> DEFINE entries == EntriesOf(files.scsi, {"AMCC", "3ware", "LSI"})
           first == FirstOfHost(files.scsi, entries)
           base(i) == TwBase(files, files.scsi[i])
           before(i) == {j \in first : j < i /\ base(j) = base(i)}
           scan(i) == [Scan("tw_cli", <<base(i), Cardinality(before(i))>>, 0, 0) EXCEPT !.host = files.scsi[i].host]
           g == [n \in DOMAIN Ascending(first) |-> scan(Ascending(first)[n])]
<1>1. ThreeWareScans(files) = IF Tw(files) = {} THEN <<>>
                              ELSE FlattenSeq([n \in DOMAIN Ascending(first) |-> <<g[n]>>])
    <2> DEFINE f == [n \in DOMAIN Ascending(first) |-> <<scan(Ascending(first)[n])>>]
    <2>1. ThreeWareScans(files) = IF Tw(files) = {} THEN <<>> ELSE FlattenSeq(f)
        BY DEF ThreeWareScans, ForEach
    <2> HIDE DEF first, scan
    <2>2. f = [n \in DOMAIN Ascending(first) |-> <<g[n]>>]
        OBVIOUS
    <2> QED
        BY <2>1, <2>2, Zenon
<1>2. first \in SUBSET Int /\ IsFiniteSet(first)
    <2>1. entries \in SUBSET DOMAIN files.scsi
        BY DEF EntriesOf
    <2> HIDE DEF entries
    <2> QED
        BY <2>1, FirstEntries
<1> HIDE DEF first
<1>3. ASSUME NEW i \in first, NEW j \in first, i < j, base(i) = base(j)
      PROVE  Cardinality(before(i)) # Cardinality(before(j))
    <2>1. \A k \in first : k < i => k < j
        BY <1>2, <1>3
    <2>2. ~(i < i)
        BY <1>2
    <2> HIDE DEF base
    <2>3. before(i) \in SUBSET before(j) /\ i \in before(j) /\ i \notin before(i)
        BY <1>3, <2>1, <2>2
    <2>4. before(j) \in SUBSET first
        OBVIOUS
    <2> HIDE DEF before
    <2>5. IsFiniteSet(before(j))
        BY <1>2, <2>4, FS_Subset
    <2> QED
        BY <2>3, <2>5, FS_Subset
<1> HIDE DEF before, base
<1>4. ASSUME NEW n \in DOMAIN Ascending(first)
      PROVE  LET i == Ascending(first)[n]
             IN  /\ OfMethod("3ware", g[n])
                 /\ Place(g[n]) = <<<<base(i), Cardinality(before(i))>>, 0>>
    <2> DEFINE i == Ascending(first)[n]
    <2>1. g[n] = [Scan("tw_cli", <<base(i), Cardinality(before(i))>>, 0, 0) EXCEPT !.host = files.scsi[i].host]
        OBVIOUS
    <2> HIDE DEF g, i
    <2>2. /\ g[n].rule = "tw_cli" /\ g[n].dev = <<base(i), Cardinality(before(i))>>
          /\ g[n].from = 0 /\ g[n].to = 0 /\ g[n].enclosure = 0
        BY <2>1, ScanFields
    <2> QED
        BY <2>2 DEF OfMethod, Place, i
<1> HIDE DEF scan
<1>5. ASSUME NEW m \in DOMAIN Ascending(first), NEW n \in DOMAIN Ascending(first), m # n
      PROVE  Place(g[m]) # Place(g[n])
    <2> DEFINE i == Ascending(first)[m] j == Ascending(first)[n]
    <2>1. i \in first /\ j \in first /\ i # j
        BY <1>2, <1>5, AscendingDiffers
    <2>3. /\ Place(g[m]) = <<<<base(i), Cardinality(before(i))>>, 0>>
          /\ Place(g[n]) = <<<<base(j), Cardinality(before(j))>>, 0>>
        BY <1>4
    <2> HIDE DEF i, j, g
    <2>2. i < j \/ j < i
        <3>1. i \in Int /\ j \in Int
            BY <1>2, <2>1
        <3> QED
            BY <2>1, <3>1
    <2>4. ASSUME base(i) = base(j) PROVE Cardinality(before(i)) # Cardinality(before(j))
        BY <1>3, <2>1, <2>2, <2>4
    <2> QED
        BY <2>3, <2>4
<1> HIDE DEF g
<1>6. GoodScans("3ware", FlattenSeq([n \in DOMAIN Ascending(first) |-> <<g[n]>>]))
    BY <1>2, <1>4, <1>5, SinglesAreGood
<1>7. GoodScans("3ware", <<>>)
    BY SmallSeqs, SmallApart DEF GoodScans
<1> QED
    BY <1>1, <1>6, <1>7

\* Each HP controller of the older driver is asked once.
LEMMA CcissScansGood ==
    ASSUME NEW files, AreFiles(files)
    PROVE  GoodScans("cciss", CcissScans(files))
<1> DEFINE drivers == {e \in files.devices : e[1] = "cciss"}
           controllers == {d[2] : d \in drivers}
           g == [n \in DOMAIN Ascending(controllers) |->
                    Scan("cciss", <<"cciss/c", Ascending(controllers)[n]>>, 0, Cap.cciss)]
<1>1. CcissScans(files) = FlattenSeq([n \in DOMAIN Ascending(controllers) |-> <<g[n]>>])
    <2> DEFINE f == [n \in DOMAIN Ascending(controllers) |->
                       <<Scan("cciss", <<"cciss/c", Ascending(controllers)[n]>>, 0, Cap.cciss)>>]
    <2>1. CcissScans(files) = FlattenSeq(f)
        BY DEF CcissScans, ForEach
    <2> HIDE DEF controllers
    <2>2. f = [n \in DOMAIN Ascending(controllers) |-> <<g[n]>>]
        OBVIOUS
    <2> QED
        BY <2>1, <2>2, Zenon
<1>2. controllers \in SUBSET Int
    BY DEF AreFiles
<1>3. IsFiniteSet(controllers)
    <2>1. IsFiniteSet(drivers)
        BY LinesOfFiles, FS_Subset
    <2> HIDE DEF drivers
    <2> DEFINE h == [d \in drivers |-> d[2]]
    <2>2. DOMAIN h = drivers /\ h = [x \in DOMAIN h |-> h[x]] /\ Range(h) = controllers
        BY DEF Range
    <2> HIDE DEF h
    <2>3. IsFiniteSet(Range(h))
        BY <2>1, <2>2, RangeIsFinite
    <2> QED
        BY <2>2, <2>3
<1> HIDE DEF controllers
<1>4. ASSUME NEW n \in DOMAIN Ascending(controllers)
      PROVE  OfMethod("cciss", g[n]) /\ Place(g[n]) = <<<<"cciss/c", Ascending(controllers)[n]>>, 0>>
    <2>1. /\ g[n].rule = "cciss" /\ g[n].dev = <<"cciss/c", Ascending(controllers)[n]>>
          /\ g[n].from = 0 /\ g[n].to = Cap.cciss /\ g[n].enclosure = 0
        BY ScanFields
    <2>2. Cap.cciss \in Int
        BY CapAssumption
    <2> HIDE DEF g
    <2> QED
        BY <2>1, <2>2 DEF OfMethod, Place
<1>5. ASSUME NEW m \in DOMAIN Ascending(controllers), NEW n \in DOMAIN Ascending(controllers), m # n
      PROVE  Place(g[m]) # Place(g[n])
    <2>1. Ascending(controllers)[m] # Ascending(controllers)[n]
        BY <1>2, <1>3, <1>5, AscendingDiffers
    <2> HIDE DEF g
    <2> QED
        BY <1>4, <2>1
<1> HIDE DEF g
<1>6. GoodScans("cciss", FlattenSeq([n \in DOMAIN Ascending(controllers) |-> <<g[n]>>]))
    BY <1>3, <1>4, <1>5, SinglesAreGood
<1> QED
    BY <1>1, <1>6

\* A single scan.
LEMMA SingleIsGood ==
    ASSUME NEW method, NEW scan, OfMethod(method, scan)
    PROVE  GoodScans(method, <<scan>>) /\ Range(<<scan>>) = {scan}
<1>1. IsSeq(<<scan>>) /\ Range(<<scan>>) = {scan} /\ Apart(<<scan>>)
    BY SmallSeqs, SmallApart
<1> QED
    BY <1>1 DEF GoodScans

\* Other lines of /proc/scsi/sg/devices are other devices.
LEMMA SgDiffers ==
    ASSUME NEW m \in Int, NEW n \in Int, SgDev(m) = SgDev(n)
    PROVE  m = n
<1>1. m - 1 = n - 1
    BY DEF SgDev
<1> QED
    BY <1>1

\* Good scans of the lines of a host.
LEMMA LinesAreGood ==
    ASSUME NEW files, AreFiles(files), NEW method, NEW S \in SUBSET DOMAIN files.sg,
           NEW f, f = [i \in DOMAIN Ascending(S) |-> f[i]],
           \A i \in DOMAIN Ascending(S) : GoodScans(method, f[i]),
           \A i \in DOMAIN Ascending(S) : \A scan \in Range(f[i]) : scan.dev = SgDev(Ascending(S)[i])
    PROVE  /\ GoodScans(method, FlattenSeq(f))
           /\ \A scan \in Range(FlattenSeq(f)) : \E n \in S : scan.dev = SgDev(n)
<1>1. S \in SUBSET Int /\ IsFiniteSet(S)
    BY LinesOfFiles, FS_Subset
<1>2. /\ \A i \in DOMAIN Ascending(S) : Ascending(S)[i] \in S
      /\ \A i, j \in DOMAIN Ascending(S) : i # j => Ascending(S)[i] # Ascending(S)[j]
    BY <1>1, AscendingDiffers
<1>3. \A i, j \in DOMAIN Ascending(S) : i # j => NoneShared(f[i], f[j])
    <2> SUFFICES ASSUME NEW i \in DOMAIN Ascending(S), NEW j \in DOMAIN Ascending(S), i # j,
                        NEW x \in Range(f[i]), NEW y \in Range(f[j]), Place(x) = Place(y)
                 PROVE  FALSE
        BY DEF NoneShared
    <2>1. x.dev = y.dev
        BY DEF Place
    <2>2. SgDev(Ascending(S)[i]) = SgDev(Ascending(S)[j])
        BY <2>1
    <2>3. Ascending(S)[i] \in Int /\ Ascending(S)[j] \in Int /\ Ascending(S)[i] # Ascending(S)[j]
        BY <1>1, <1>2
    <2> QED
        BY <2>2, <2>3, SgDiffers
<1>4. /\ GoodScans(method, FlattenSeq(f))
      /\ \A scan \in Range(FlattenSeq(f)) : \E i \in DOMAIN Ascending(S) : scan \in Range(f[i])
    BY <1>1, <1>3, GroupsAreGood
<1>5. \A scan \in Range(FlattenSeq(f)) : \E n \in S : scan.dev = SgDev(n)
    BY <1>2, <1>4
<1> QED
    BY <1>4, <1>5

\* Good scans of several hosts.
LEMMA HostsAreGood ==
    ASSUME NEW files, AreFiles(files), NEW method, NEW S, IsFiniteSet(S),
           NEW f, f = [i \in DOMAIN Ascending(S) |-> f[i]], NEW host,
           \A i, j \in DOMAIN Ascending(S) : i # j => host[i] # host[j],
           \A i \in DOMAIN Ascending(S) : GoodScans(method, f[i]),
           \A i \in DOMAIN Ascending(S) : \A scan \in Range(f[i]) :
               \E n \in SgLines(files, host[i]) : scan.dev = SgDev(n)
    PROVE  GoodScans(method, FlattenSeq(f))
<1>1. \A i, j \in DOMAIN Ascending(S) : i # j => NoneShared(f[i], f[j])
    <2> SUFFICES ASSUME NEW i \in DOMAIN Ascending(S), NEW j \in DOMAIN Ascending(S), i # j,
                        NEW x \in Range(f[i]), NEW y \in Range(f[j]), Place(x) = Place(y)
                 PROVE  FALSE
        BY DEF NoneShared
    <2>1. x.dev = y.dev
        BY DEF Place
    <2>2. PICK k \in SgLines(files, host[i]) : x.dev = SgDev(k)
        OBVIOUS
    <2>3. PICK l \in SgLines(files, host[j]) : y.dev = SgDev(l)
        OBVIOUS
    <2>4. k \in DOMAIN files.sg /\ l \in DOMAIN files.sg /\ files.sg[k].host # files.sg[l].host
        BY DEF SgLines
    <2>5. k \in Int /\ l \in Int
        BY <2>4, LinesOfFiles
    <2> QED
        BY <2>1, <2>2, <2>3, <2>4, <2>5, SgDiffers
<1> QED
    BY <1>1, GroupsAreGood

\* Each target of an Adaptec controller is asked once.
LEMMA AdaptecScansGood ==
    ASSUME NEW files, AreFiles(files)
    PROVE  GoodScans("adaptec", AdaptecScans(files))
<1> DEFINE entries == EntriesOf(files.scsi, {"Adaptec"})
           first == FirstOfHost(files.scsi, entries)
           targets(host) == {n \in SgLines(files, host) : files.sg[n].id > 0}
           g(host) == [n \in DOMAIN Ascending(targets(host)) |->
                         <<Scan("adaptec", SgDev(Ascending(targets(host))[n]), 0, 0)>>]
           host == [n \in DOMAIN Ascending(first) |-> files.scsi[Ascending(first)[n]].host]
           f == [n \in DOMAIN Ascending(first) |-> FlattenSeq(g(files.scsi[Ascending(first)[n]].host))]
<1>1. AdaptecScans(files) = IF <<"aac">> \notin files.devices THEN <<>> ELSE FlattenSeq(f)
    BY DEF AdaptecScans, ForEach
<1>2. /\ first \in SUBSET Int /\ IsFiniteSet(first) /\ first \in SUBSET DOMAIN files.scsi
      /\ \A i, j \in first : files.scsi[i].host = files.scsi[j].host => i = j
    <2>1. entries \in SUBSET DOMAIN files.scsi
        BY DEF EntriesOf
    <2> HIDE DEF entries
    <2> QED
        BY <2>1, FirstEntries
<1>3. ASSUME NEW h
      PROVE  /\ GoodScans("adaptec", FlattenSeq(g(h)))
             /\ \A scan \in Range(FlattenSeq(g(h))) : \E n \in SgLines(files, h) : scan.dev = SgDev(n)
    <2>1. targets(h) \in SUBSET SgLines(files, h) /\ targets(h) \in SUBSET DOMAIN files.sg
        BY DEF SgLines
    <2> HIDE DEF targets
    <2>2. ASSUME NEW n \in DOMAIN Ascending(targets(h))
          PROVE  GoodScans("adaptec", g(h)[n]) /\ \A scan \in Range(g(h)[n]) : scan.dev = SgDev(Ascending(targets(h))[n])
        <3> DEFINE scan == Scan("adaptec", SgDev(Ascending(targets(h))[n]), 0, 0)
        <3>1. g(h)[n] = <<scan>>
            OBVIOUS
        <3>2. /\ scan.rule = "adaptec" /\ scan.dev = SgDev(Ascending(targets(h))[n])
              /\ scan.from = 0 /\ scan.to = 0 /\ scan.enclosure = 0
            BY ScanFields
        <3> HIDE DEF scan, g
        <3>3. OfMethod("adaptec", scan)
            BY <3>2 DEF OfMethod, SgDev
        <3> QED
            BY <3>1, <3>2, <3>3, SingleIsGood
    <2>3. g(h) = [n \in DOMAIN Ascending(targets(h)) |-> g(h)[n]]
        OBVIOUS
    <2> HIDE DEF g
    <2>4. /\ GoodScans("adaptec", FlattenSeq(g(h)))
          /\ \A scan \in Range(FlattenSeq(g(h))) : \E n \in targets(h) : scan.dev = SgDev(n)
        BY <2>1, <2>2, <2>3, LinesAreGood
    <2> QED
        BY <2>1, <2>4
<1> HIDE DEF g, first
<1>4. \A n \in DOMAIN Ascending(first) : f[n] = FlattenSeq(g(host[n]))
    OBVIOUS
<1>5. f = [n \in DOMAIN Ascending(first) |-> f[n]]
    OBVIOUS
<1>6. ASSUME NEW i \in DOMAIN Ascending(first), NEW j \in DOMAIN Ascending(first), i # j
      PROVE  host[i] # host[j]
    <2>1. Ascending(first)[i] \in first /\ Ascending(first)[j] \in first /\ Ascending(first)[i] # Ascending(first)[j]
        BY <1>2, <1>6, AscendingDiffers
    <2> QED
        BY <1>2, <2>1
<1> HIDE DEF f, host
<1>7. GoodScans("adaptec", FlattenSeq(f))
    BY <1>2, <1>3, <1>4, <1>5, <1>6, HostsAreGood
<1>8. GoodScans("adaptec", <<>>)
    BY SmallSeqs, SmallApart DEF GoodScans
<1> QED
    BY <1>1, <1>7, <1>8

\* Each node of a newer HP controller is asked once.
LEMMA HpsaScansGood ==
    ASSUME NEW files, AreFiles(files)
    PROVE  GoodScans("hpsa", HpsaScans(files))
<1> DEFINE disks == {i \in EntriesOf(files.scsi, {"HP"}) : ~files.scsi[i].logical}
           first == FirstOfHost(files.scsi, disks)
           g(host) == [n \in DOMAIN Ascending(SgLines(files, host)) |->
                         <<Scan("hpsa", SgDev(Ascending(SgLines(files, host))[n]), 0, Cap.cciss)>>]
           host == [n \in DOMAIN Ascending(first) |-> files.scsi[Ascending(first)[n]].host]
           f == [n \in DOMAIN Ascending(first) |-> FlattenSeq(g(files.scsi[Ascending(first)[n]].host))]
<1>1. HpsaScans(files) = FlattenSeq(f)
    BY DEF HpsaScans, ForEach
<1>2. /\ first \in SUBSET Int /\ IsFiniteSet(first) /\ first \in SUBSET DOMAIN files.scsi
      /\ \A i, j \in first : files.scsi[i].host = files.scsi[j].host => i = j
    <2>1. disks \in SUBSET DOMAIN files.scsi
        BY DEF EntriesOf
    <2> HIDE DEF disks
    <2> QED
        BY <2>1, FirstEntries
<1>3. ASSUME NEW h
      PROVE  /\ GoodScans("hpsa", FlattenSeq(g(h)))
             /\ \A scan \in Range(FlattenSeq(g(h))) : \E n \in SgLines(files, h) : scan.dev = SgDev(n)
    <2>1. SgLines(files, h) \in SUBSET DOMAIN files.sg
        BY DEF SgLines
    <2>2. ASSUME NEW n \in DOMAIN Ascending(SgLines(files, h))
          PROVE  GoodScans("hpsa", g(h)[n]) /\ \A scan \in Range(g(h)[n]) : scan.dev = SgDev(Ascending(SgLines(files, h))[n])
        <3> DEFINE scan == Scan("hpsa", SgDev(Ascending(SgLines(files, h))[n]), 0, Cap.cciss)
        <3>1. g(h)[n] = <<scan>>
            OBVIOUS
        <3>2. /\ scan.rule = "hpsa" /\ scan.dev = SgDev(Ascending(SgLines(files, h))[n])
              /\ scan.from = 0 /\ scan.to = Cap.cciss /\ scan.enclosure = 0
            BY ScanFields
        <3> HIDE DEF scan, g
        <3>3. OfMethod("hpsa", scan)
            BY <3>2, CapAssumption DEF OfMethod, SgDev
        <3> QED
            BY <3>1, <3>2, <3>3, SingleIsGood
    <2>3. g(h) = [n \in DOMAIN Ascending(SgLines(files, h)) |-> g(h)[n]]
        OBVIOUS
    <2> HIDE DEF g
    <2> DEFINE S == SgLines(files, h)
    <2>4. /\ \A n \in DOMAIN Ascending(S) : GoodScans("hpsa", g(h)[n])
          /\ \A n \in DOMAIN Ascending(S) : \A scan \in Range(g(h)[n]) : scan.dev = SgDev(Ascending(S)[n])
        BY <2>2
    <2>5. S \in SUBSET DOMAIN files.sg /\ g(h) = [n \in DOMAIN Ascending(S) |-> g(h)[n]]
        BY <2>1, <2>3
    <2> HIDE DEF S
    <2>6. /\ GoodScans("hpsa", FlattenSeq(g(h)))
          /\ \A scan \in Range(FlattenSeq(g(h))) : \E n \in S : scan.dev = SgDev(n)
        BY <2>4, <2>5, LinesAreGood
    <2> QED
        BY <2>6 DEF S
<1> HIDE DEF g, first
<1>4. \A n \in DOMAIN Ascending(first) : f[n] = FlattenSeq(g(host[n]))
    OBVIOUS
<1>5. f = [n \in DOMAIN Ascending(first) |-> f[n]]
    OBVIOUS
<1>6. ASSUME NEW i \in DOMAIN Ascending(first), NEW j \in DOMAIN Ascending(first), i # j
      PROVE  host[i] # host[j]
    <2>1. Ascending(first)[i] \in first /\ Ascending(first)[j] \in first /\ Ascending(first)[i] # Ascending(first)[j]
        BY <1>2, <1>6, AscendingDiffers
    <2> QED
        BY <1>2, <2>1
<1> HIDE DEF f, host
<1>7. GoodScans("hpsa", FlattenSeq(f))
    BY <1>2, <1>3, <1>4, <1>5, <1>6, HostsAreGood
<1> QED
    BY <1>1, <1>7

\* Each Areca controller is asked once, or each of its enclosures.
LEMMA ArecaScansGood ==
    ASSUME NEW files, AreFiles(files)
    PROVE  GoodScans("areca", ArecaScans(files))
<1> DEFINE entries == EntriesOf(files.scsi, {"Areca"})
           first == FirstOfHost(files.scsi, entries)
           hosts == {files.scsi[i].host : i \in first}
           boxes(host) == {n \in SgLines(files, host) : files.sg[n].id = 16 /\ files.sg[n].type = 3}
           hasEnclosure(host) == \E i \in first : files.scsi[i].host = host /\ files.scsi[i].ix
           last == Clamped(1, Setting.enclosures, Cap.enclosures) - 1
           box(dev, e) == [Scan("areca", dev, 1, Clamped(1, Setting.arecaEnc, Cap.arecaEnc)) EXCEPT !.enclosure = e]
           enclosed(dev) == [e \in 1 .. last |-> box(dev, e)]
           flat(dev, host) ==
               LET ports == ArecaPorts(files, host) IN
               <<Scan("areca", dev, 1, IF ports = Unset THEN Unset ELSE Clamped(1, ports, Cap.areca))>>
           g(host) == [n \in DOMAIN Ascending(boxes(host)) |->
                         IF hasEnclosure(host) THEN enclosed(SgDev(Ascending(boxes(host))[n]))
                         ELSE flat(SgDev(Ascending(boxes(host))[n]), host)]
           f == [n \in DOMAIN Ascending(hosts) |-> FlattenSeq(g(Ascending(hosts)[n]))]
<1>1. ArecaScans(files) = FlattenSeq(f)
    BY DEF ArecaScans, ForEach
<1>2. hosts \in SUBSET Int /\ IsFiniteSet(hosts)
    <2>1. first \in SUBSET DOMAIN files.scsi /\ IsFiniteSet(first)
        <3>1. entries \in SUBSET DOMAIN files.scsi
            BY DEF EntriesOf
        <3> HIDE DEF entries
        <3> QED
            BY <3>1, FirstEntries
    <2> HIDE DEF first
    <2> DEFINE h == [i \in first |-> files.scsi[i].host]
    <2>2. DOMAIN h = first /\ h = [x \in DOMAIN h |-> h[x]] /\ Range(h) = hosts
        BY DEF Range
    <2> HIDE DEF h
    <2>3. IsFiniteSet(Range(h))
        BY <2>1, <2>2, RangeIsFinite
    <2>4. hosts \in SUBSET Int
        BY <2>1, LinesOfFiles
    <2> QED
        BY <2>2, <2>3, <2>4
<1>3. ASSUME NEW dev, NEW e
      PROVE  LET scan == box(dev, e)
             IN  /\ scan.rule = "areca" /\ scan.dev = dev /\ scan.from = 1 /\ scan.to \in Int
                 /\ scan.enclosure = e
    <2> DEFINE to == Clamped(1, Setting.arecaEnc, Cap.arecaEnc)
               scan == box(dev, e)
    <2>1. scan = [Scan("areca", dev, 1, to) EXCEPT !.enclosure = e]
        OBVIOUS
    <2>4. to \in Int
        BY CapAssumption, SettingAssumption DEF Clamped
    <2> HIDE DEF scan, to
    <2>2. scan = [rule |-> "areca", dev |-> dev, host |-> 0, enclosure |-> e, from |-> 1, to |-> to]
        BY <2>1 DEF Scan
    <2>3. /\ scan.rule = "areca" /\ scan.dev = dev /\ scan.from = 1 /\ scan.to \in Int
          /\ scan.enclosure = e
        BY <2>2, <2>4
    <2> QED
        BY <2>3 DEF scan
<1> HIDE DEF box
<1>4. ASSUME NEW dev
      PROVE  GoodScans("areca", enclosed(dev)) /\ \A scan \in Range(enclosed(dev)) : scan.dev = dev
    <2>1. last \in Int
        BY CapAssumption, SettingAssumption DEF Clamped
    <2> HIDE DEF last
    <2>2. enclosed(dev) = [e \in 1 .. last |-> enclosed(dev)[e]]
        OBVIOUS
    <2>3. \A e \in 1 .. last : enclosed(dev)[e] = box(dev, e)
        OBVIOUS
    <2>4. DOMAIN enclosed(dev) = 1 .. last
        OBVIOUS
    <2> HIDE DEF enclosed
    <2>5. IsSeq(enclosed(dev))
        BY <2>1, <2>2, ListIsSeq
    <2>6. \A e \in 1 .. last : Place(box(dev, e)) = <<dev, e>>
        BY <1>3 DEF Place
    <2>7. Apart(enclosed(dev))
        BY <2>3, <2>4, <2>6 DEF Apart
    <2>8. \A e : OfMethod("areca", box(dev, e))
        BY <1>3 DEF OfMethod
    <2>9. ASSUME NEW scan \in Range(enclosed(dev)) PROVE OfMethod("areca", scan) /\ scan.dev = dev
        <3>1. PICK e \in DOMAIN enclosed(dev) : enclosed(dev)[e] = scan
            BY InRange
        <3> QED
            BY <1>3, <2>3, <2>4, <2>8, <3>1
    <2> QED
        BY <2>5, <2>7, <2>9 DEF GoodScans
<1>5. ASSUME NEW dev, NEW host
      PROVE  GoodScans("areca", flat(dev, host)) /\ \A scan \in Range(flat(dev, host)) : scan.dev = dev
    <2> DEFINE to == IF ArecaPorts(files, host) = Unset THEN Unset ELSE Clamped(1, ArecaPorts(files, host), Cap.areca)
               scan == Scan("areca", dev, 1, to)
    <2>1. flat(dev, host) = <<scan>>
        OBVIOUS
    <2>4. to \in Int
        <3>1. ArecaPorts(files, host) \in Int
            BY SettingAssumption DEF ArecaPorts, AreFiles
        <3> QED
            BY <3>1, CapAssumption DEF Clamped, Unset
    <2> HIDE DEF to
    <2>2. scan.rule = "areca" /\ scan.dev = dev /\ scan.from = 1 /\ scan.to = to /\ scan.enclosure = 0
        BY ScanFields
    <2> HIDE DEF scan, flat
    <2>3. OfMethod("areca", scan)
        BY <2>2, <2>4 DEF OfMethod
    <2> QED
        BY <2>1, <2>2, <2>3, SingleIsGood
<1> HIDE DEF enclosed, flat, hasEnclosure
<1>6. ASSUME NEW h
      PROVE  /\ GoodScans("areca", FlattenSeq(g(h)))
             /\ \A scan \in Range(FlattenSeq(g(h))) : \E n \in SgLines(files, h) : scan.dev = SgDev(n)
    <2>1. boxes(h) \in SUBSET SgLines(files, h) /\ boxes(h) \in SUBSET DOMAIN files.sg
        BY DEF SgLines
    <2> HIDE DEF boxes
    <2>2. ASSUME NEW n \in DOMAIN Ascending(boxes(h))
          PROVE  GoodScans("areca", g(h)[n]) /\ \A scan \in Range(g(h)[n]) : scan.dev = SgDev(Ascending(boxes(h))[n])
        <3> DEFINE dev == SgDev(Ascending(boxes(h))[n])
        <3>1. g(h)[n] = enclosed(dev) \/ g(h)[n] = flat(dev, h)
            OBVIOUS
        <3> HIDE DEF dev, g
        <3>2. GoodScans("areca", g(h)[n]) /\ \A scan \in Range(g(h)[n]) : scan.dev = dev
            BY <1>4, <1>5, <3>1
        <3> QED
            BY <3>2 DEF dev
    <2>3. g(h) = [n \in DOMAIN Ascending(boxes(h)) |-> g(h)[n]]
        OBVIOUS
    <2> HIDE DEF g
    <2> DEFINE S == boxes(h)
    <2>4. /\ \A n \in DOMAIN Ascending(S) : GoodScans("areca", g(h)[n])
          /\ \A n \in DOMAIN Ascending(S) : \A scan \in Range(g(h)[n]) : scan.dev = SgDev(Ascending(S)[n])
        BY <2>2
    <2>5. S \in SUBSET DOMAIN files.sg /\ g(h) = [n \in DOMAIN Ascending(S) |-> g(h)[n]]
        BY <2>1, <2>3
    <2>6. S \in SUBSET SgLines(files, h)
        BY <2>1
    <2> HIDE DEF S
    <2>7. /\ GoodScans("areca", FlattenSeq(g(h)))
          /\ \A scan \in Range(FlattenSeq(g(h))) : \E n \in S : scan.dev = SgDev(n)
        BY <2>4, <2>5, LinesAreGood
    <2> QED
        BY <2>6, <2>7
<1> HIDE DEF g, hosts
<1> DEFINE host == Ascending(hosts)
<1>7. /\ \A n \in DOMAIN Ascending(hosts) : f[n] = FlattenSeq(g(host[n]))
      /\ f = [n \in DOMAIN Ascending(hosts) |-> f[n]]
    OBVIOUS
<1>8. \A i, j \in DOMAIN Ascending(hosts) : i # j => host[i] # host[j]
    BY <1>2, AscendingDiffers
<1> HIDE DEF f
<1>9. /\ \A i \in DOMAIN Ascending(hosts) : GoodScans("areca", f[i])
      /\ \A i \in DOMAIN Ascending(hosts) : \A scan \in Range(f[i]) :
             \E n \in SgLines(files, host[i]) : scan.dev = SgDev(n)
    BY <1>6, <1>7
<1> HIDE DEF host
<1>10. GoodScans("areca", FlattenSeq(f))
    BY <1>2, <1>7, <1>8, <1>9, HostsAreGood
<1> QED
    BY <1>1, <1>10

\* The scans a method starts, whatever its files say.
LEMMA MethodScans ==
    ASSUME NEW files, AreFiles(files), NEW method \in Range(Methods)
    PROVE  GoodScans(method, ScansOf(method, files))
<1>1. method \in {"partitions", "3ware", "areca", "adaptec", "cciss", "hpsa"}
    <2>1. DOMAIN Methods = 1 .. 6
        BY DEF Methods
    <2>2. PICK i \in 1 .. 6 : Methods[i] = method
        BY <2>1, InRange
    <2> QED
        BY <2>2 DEF Methods
<1>2. CASE method = "partitions"
    BY <1>2, PartitionScansGood DEF ScansOf
<1>3. CASE method = "3ware"
    BY <1>3, ThreeWareScansGood DEF ScansOf
<1>4. CASE method = "areca"
    BY <1>4, ArecaScansGood DEF ScansOf
<1>5. CASE method = "adaptec"
    BY <1>5, AdaptecScansGood DEF ScansOf
<1>6. CASE method = "cciss"
    BY <1>6, CcissScansGood DEF ScansOf
<1>7. CASE method = "hpsa"
    BY <1>7, HpsaScansGood DEF ScansOf
<1> QED
    BY <1>1, <1>2, <1>3, <1>4, <1>5, <1>6, <1>7

\* On a machine with Linux they are a sequence.
LEMMA ScansAreSeq ==
    ASSUME NEW m, Hardware[m].system = "linux", WellFormed(m), NEW method \in Range(Methods)
    PROVE  IsSeq(ScansOf(method, FilesNow(m)))
<1>1. AreFiles(Hardware[m])
    BY DEF WellFormed
<1>2. AreFiles(FilesNow(m))
    <2>1. /\ FilesNow(m).partitions = Hardware[m].partitions /\ FilesNow(m).devices = Hardware[m].devices
          /\ FilesNow(m).scsi = Hardware[m].scsi /\ FilesNow(m).sg = Hardware[m].sg
          /\ FilesNow(m).channels = Hardware[m].channels
        BY DEF FilesNow, File
    <2> QED
        BY <1>1, <2>1 DEF AreFiles
<1> QED
    BY <1>2, MethodScans DEF GoodScans

\* So are those of the controllers that tw_cli knows.
LEMMA ToolScansAreSeq ==
    ASSUME NEW m, Hardware[m].system = "windows", WellFormed(m)
    PROVE  IsSeq(ToolScans(m)) /\ \A scan \in Range(ToolScans(m)) : scan.rule = "3dm2"
<1> DEFINE hosts == DOMAIN Hardware[m].twCli
           f == [n \in DOMAIN Ascending(hosts) |->
                   <<[Scan("3dm2", <<>>, 0, 0) EXCEPT !.host = Ascending(hosts)[n]]>>]
<1>1. ToolScans(m) = FlattenSeq(f)
    BY DEF ToolScans, ForEach
<1>2. IsFiniteSet(hosts)
    BY DEF WellFormed
<1> HIDE DEF hosts
<1>3. \A n \in DOMAIN Ascending(hosts) : IsSeq(f[n]) /\ \A scan \in Range(f[n]) : scan.rule = "3dm2"
    <2>1. \A c : [Scan("3dm2", <<>>, 0, 0) EXCEPT !.host = c].rule = "3dm2"
        BY DEF Scan
    <2> SUFFICES ASSUME NEW n \in DOMAIN Ascending(hosts)
                 PROVE  IsSeq(f[n]) /\ \A scan \in Range(f[n]) : scan.rule = "3dm2"
        OBVIOUS
    <2>2. PICK x : f[n] = <<x>> /\ x.rule = "3dm2"
        BY <2>1
    <2> QED
        BY <2>2, SmallSeqs
<1>4. f = [n \in DOMAIN Ascending(hosts) |-> f[n]]
    OBVIOUS
<1> HIDE DEF f
<1>5. IsSeq(FlattenSeq(f)) /\ Range(FlattenSeq(f)) \subseteq UNION {Range(f[n]) : n \in DOMAIN Ascending(hosts)}
    BY <1>2, <1>3, <1>4, ForNumbersIsSeq
<1> QED
    BY <1>1, <1>3, <1>5

\* The ports of the controllers, and of their enclosures.
Expanders(dev) == Scan("expanders", dev, 0, 0)

ScansOfController(dev) == {PortsOf(dev), Expanders(dev)} \cup Range(BoxesOf(dev))

PortScans == UNION {ScansOfController(Arcmsr(c)) : c \in 0 .. WinSetting.controllers - 1}

\* One scan before another: of another controller, or the ports before the enclosures.
InOrder ==
    {p \in PortScans \X PortScans :
        \/ p[1].dev # p[2].dev
        \/ p[1] = PortsOf(p[1].dev) /\ p[2] = Expanders(p[1].dev)
        \/ p[1].rule = "areca" /\ p[2].rule = "areca" /\ p[1].enclosure # p[2].enclosure}

PortsLeft(s) == IsSeq(s) /\ Range(s) \subseteq PortScans /\ Paired(InOrder, s)

\* A list of two.
LEMMA PairIsSeq ==
    ASSUME NEW x, NEW y
    PROVE  IsSeq(<<x, y>>) /\ Range(<<x, y>>) = {x, y} /\ \A R : <<x, y>> \in R => Paired(R, <<x, y>>)
<1>1. <<x, y>> \in Seq({x, y}) /\ DOMAIN <<x, y>> = {1, 2} /\ <<x, y>>[1] = x /\ <<x, y>>[2] = y
    OBVIOUS
<1>2. IsSeq(<<x, y>>)
    BY <1>1, SeqIsOfRange
<1>3. Range(<<x, y>>) = {x, y}
    BY <1>1 DEF Range
<1>4. \A i, j \in {1, 2} : i < j => i = 1 /\ j = 2
    OBVIOUS
<1> QED
    BY <1>1, <1>2, <1>3, <1>4 DEF Paired

\* The enclosures of a controller.
LEMMA BoxesAreSeq ==
    ASSUME NEW dev
    PROVE  /\ IsSeq(BoxesOf(dev)) /\ DOMAIN BoxesOf(dev) \subseteq Nat \ {0}
           /\ \A e \in DOMAIN BoxesOf(dev) :
                 LET box == BoxesOf(dev)[e] IN
                 /\ box.rule = "areca" /\ box.dev = dev /\ box.enclosure = e
                 /\ box.from = 1 /\ box.to \in Int /\ box.to # Unset
           /\ \A box \in Range(BoxesOf(dev)) : box.rule = "areca" /\ box.dev = dev
<1> DEFINE last == Clamped(1, WinSetting.enclosures, Cap.enclosures) - 1
           ports == Scan("areca", dev, 1, Clamped(1, WinSetting.arecaEnc, Cap.arecaEnc))
           more == [e \in 1 .. last |-> [ports EXCEPT !.enclosure = e]]
<1>1. BoxesOf(dev) = more
    BY DEF BoxesOf
<1>2. last \in Int
    BY CapAssumption, WinSettingAssumption DEF Clamped
<1>3. Clamped(1, WinSetting.arecaEnc, Cap.arecaEnc) \in Int /\ Clamped(1, WinSetting.arecaEnc, Cap.arecaEnc) # Unset
    BY CapAssumption, WinSettingAssumption DEF Clamped, Unset
<1>4. \A e : [ports EXCEPT !.enclosure = e] =
                 [rule |-> "areca", dev |-> dev, host |-> 0, enclosure |-> e, from |-> 1,
                  to |-> Clamped(1, WinSetting.arecaEnc, Cap.arecaEnc)]
    BY DEF Scan
<1>5. DOMAIN more = 1 .. last /\ \A e \in 1 .. last : more[e] = [ports EXCEPT !.enclosure = e]
    OBVIOUS
<1>6. more = [e \in 1 .. last |-> more[e]]
    OBVIOUS
<1> HIDE DEF more, last, ports
<1>7. IsSeq(more)
    BY <1>2, <1>6, ListIsSeq
<1>8. \A e \in DOMAIN more : /\ more[e].rule = "areca" /\ more[e].dev = dev /\ more[e].enclosure = e
                            /\ more[e].from = 1 /\ more[e].to \in Int /\ more[e].to # Unset
    <2> SUFFICES ASSUME NEW e \in DOMAIN more
                 PROVE  /\ more[e].rule = "areca" /\ more[e].dev = dev /\ more[e].enclosure = e
                        /\ more[e].from = 1 /\ more[e].to \in Int /\ more[e].to # Unset
        OBVIOUS
    <2>1. more[e] = [rule |-> "areca", dev |-> dev, host |-> 0, enclosure |-> e, from |-> 1,
                     to |-> Clamped(1, WinSetting.arecaEnc, Cap.arecaEnc)]
        BY <1>4, <1>5, Zenon
    <2> QED
        BY <1>3, <2>1
<1>9. \A box \in Range(more) : box.rule = "areca" /\ box.dev = dev
    BY <1>8, InRange
<1>10. DOMAIN more \subseteq Nat \ {0}
    BY <1>2, <1>5
<1> QED
    BY <1>1, <1>7, <1>8, <1>9, <1>10

\* The scans of controllers by their fields.
LEMMA PortsAndExpanders ==
    ASSUME NEW dev
    PROVE  /\ PortsOf(dev).rule = "areca" /\ PortsOf(dev).dev = dev /\ PortsOf(dev).enclosure = 0
           /\ PortsOf(dev).from = 1 /\ PortsOf(dev).to \in Int /\ PortsOf(dev).to # Unset
           /\ Expanders(dev).rule = "expanders" /\ Expanders(dev).dev = dev /\ Expanders(dev).from = 0
<1>1. Clamped(1, WinSetting.areca, Cap.areca) \in Int /\ Clamped(1, WinSetting.areca, Cap.areca) # Unset
    BY CapAssumption, WinSettingAssumption DEF Clamped, Unset
<1> QED
    BY <1>1 DEF PortsOf, Expanders, Scan

LEMMA PortScanFields ==
    ASSUME NEW scan \in PortScans
    PROVE  /\ \E c \in 0 .. WinSetting.controllers - 1 : scan.dev = Arcmsr(c)
           /\ \/ scan = Expanders(scan.dev)
              \/ scan.rule = "areca" /\ scan.from = 1 /\ scan.to \in Int /\ scan.to # Unset
<1>1. PICK c \in 0 .. WinSetting.controllers - 1 : scan \in ScansOfController(Arcmsr(c))
    BY DEF PortScans
<1> DEFINE dev == Arcmsr(c)
<1>2. CASE scan = PortsOf(dev)
    BY <1>2, PortsAndExpanders
<1>3. CASE scan = Expanders(dev)
    BY <1>3, PortsAndExpanders
<1>4. CASE scan \in Range(BoxesOf(dev))
    <2>1. PICK e \in DOMAIN BoxesOf(dev) : BoxesOf(dev)[e] = scan
        BY <1>4, InRange
    <2> QED
        BY <2>1, BoxesAreSeq
<1> QED
    BY <1>1, <1>2, <1>3, <1>4 DEF ScansOfController

\* The scans that the ports of all controllers start with.
LEMMA ByPortScans ==
    /\ PortsLeft(ByPort)
    /\ \A scan : scan \in Range(ByPort) <=>
                     \E c \in 0 .. WinSetting.controllers - 1 :
                         scan = PortsOf(Arcmsr(c)) \/ scan = Expanders(Arcmsr(c))
<1> DEFINE k == WinSetting.controllers
           n == IF k < 0 THEN 0 ELSE k
           f == [i \in 1 .. n |-> <<PortsOf(Arcmsr(i - 1)), Expanders(Arcmsr(i - 1))>>]
<1>1. k \in Int /\ n \in Nat /\ 1 .. k = 1 .. n
    BY WinSettingAssumption
<1>2. ByPort = FlattenSeq(f)
    <2> DEFINE s == [c \in 1 .. k |-> c - 1]
    <2>1. ByPort = FlattenSeq([i \in DOMAIN s |-> <<PortsOf(Arcmsr(s[i])), Expanders(Arcmsr(s[i]))>>])
        BY DEF ByPort, ForEach, Expanders
    <2>2. DOMAIN s = 1 .. n /\ \A i \in 1 .. n : s[i] = i - 1
        BY <1>1
    <2> HIDE DEF s
    <2>3. [i \in DOMAIN s |-> <<PortsOf(Arcmsr(s[i])), Expanders(Arcmsr(s[i]))>>] = f
        BY <2>2
    <2> QED
        BY <2>1, <2>3
<1>3. \A i \in 1 .. n : f[i] = <<PortsOf(Arcmsr(i - 1)), Expanders(Arcmsr(i - 1))>>
    OBVIOUS
<1>4. \A i \in 1 .. n : i - 1 \in 0 .. k - 1
    BY <1>1
<1>5. \A i \in 1 .. n : PortsOf(Arcmsr(i - 1)) \in PortScans /\ Expanders(Arcmsr(i - 1)) \in PortScans
    BY <1>4 DEF PortScans, ScansOfController
<1>6. DOMAIN f = 1 .. n /\ f = [i \in 1 .. n |-> f[i]]
    OBVIOUS
<1> HIDE DEF f
<1>7. \A i \in 1 .. n : Range(f[i]) = {PortsOf(Arcmsr(i - 1)), Expanders(Arcmsr(i - 1))} /\ IsSeq(f[i])
    BY <1>3, PairIsSeq
<1>8. f \in [1 .. n -> Seq(PortScans)]
    <2> SUFFICES ASSUME NEW i \in 1 .. n PROVE f[i] \in Seq(PortScans)
        BY <1>6, Zenon
    <2>1. \A x, y \in PortScans : <<x, y>> \in Seq(PortScans)
        OBVIOUS
    <2>2. PortsOf(Arcmsr(i - 1)) \in PortScans /\ Expanders(Arcmsr(i - 1)) \in PortScans
        BY <1>5
    <2> QED
        BY <1>3, <2>1, <2>2, Zenon
<1>9. \A i \in 1 .. n : Paired(InOrder, f[i])
    <2> SUFFICES ASSUME NEW i \in 1 .. n PROVE Paired(InOrder, f[i])
        OBVIOUS
    <2> DEFINE dev == Arcmsr(i - 1)
    <2>1. PortsOf(dev).dev = dev
        BY PortsAndExpanders
    <2>2. <<PortsOf(dev), Expanders(dev)>> \in InOrder
        BY <1>5, <2>1 DEF InOrder
    <2> QED
        BY <1>3, <2>2, PairIsSeq
<1>10. \A i, j \in 1 .. n : i < j => AllPaired(InOrder, f[i], f[j])
    <2> SUFFICES ASSUME NEW i \in 1 .. n, NEW j \in 1 .. n, i < j, NEW x \in Range(f[i]), NEW y \in Range(f[j])
                 PROVE  <<x, y>> \in InOrder
        BY DEF AllPaired
    <2>1. x.dev = Arcmsr(i - 1) /\ y.dev = Arcmsr(j - 1)
        BY <1>7, PortsAndExpanders
    <2>2. i - 1 # j - 1
        BY <1>1
    <2>3. Arcmsr(i - 1) # Arcmsr(j - 1)
        BY <2>2 DEF Arcmsr
    <2>4. x \in PortScans /\ y \in PortScans
        BY <1>5, <1>7
    <2> QED
        BY <2>1, <2>3, <2>4 DEF InOrder
<1>11. /\ Paired(InOrder, ByPort)
       /\ \A x : x \in Range(ByPort) <=> \E i \in 1 .. n : x \in Range(f[i])
    <2> HIDE DEF n
    <2>1. n \in Nat
        BY <1>1
    <2> QED
        BY <1>2, <1>8, <1>9, <1>10, <2>1, FlattenPaired
<1>12. IsSeq(ByPort) /\ Range(ByPort) \subseteq PortScans
    BY <1>1, <1>2, <1>8, FlattenIsSeq, SeqIsOfRange
<1>13. \A c \in 0 .. k - 1 : c + 1 \in 1 .. n /\ (c + 1) - 1 = c
    BY <1>1
<1>14. ASSUME NEW scan, NEW c \in 0 .. k - 1, scan = PortsOf(Arcmsr(c)) \/ scan = Expanders(Arcmsr(c))
       PROVE  scan \in Range(ByPort)
    <2>1. c + 1 \in 1 .. n /\ Range(f[c + 1]) = {PortsOf(Arcmsr(c)), Expanders(Arcmsr(c))}
        BY <1>7, <1>13
    <2> QED
        BY <1>11, <1>14, <2>1
<1>15. ASSUME NEW scan \in Range(ByPort)
       PROVE  \E c \in 0 .. k - 1 : scan = PortsOf(Arcmsr(c)) \/ scan = Expanders(Arcmsr(c))
    <2>1. PICK i \in 1 .. n : scan \in Range(f[i])
        BY <1>11
    <2> QED
        BY <1>4, <1>7, <2>1
<1> QED
    BY <1>11, <1>12, <1>14, <1>15 DEF PortsLeft

LEMMA ByPortIsSeq == IsSeq(ByPort) /\ \A scan \in Range(ByPort) : scan.rule \in {"areca", "expanders"}
<1>1. IsSeq(ByPort) /\ Range(ByPort) \subseteq PortScans
    BY ByPortScans DEF PortsLeft
<1>2. \A scan \in PortScans : scan.rule \in {"areca", "expanders"}
    BY PortScanFields, PortsAndExpanders
<1> QED
    BY <1>1, <1>2

-----------------------------------------------------------------------------
(* What has been found and what is listed are bags, and the loop of        *)
(* fetch_basic_data() looks at listed drives.                              *)

BagInv ==
    /\ pc \in {"idle", "detect", "fetch", "dead"}
    /\ IsABag(found)
    /\ IsABag(list)
    /\ left \subseteq DOMAIN list

LEMMA BagInvInitially == AnyInit => BagInv
<1>1. IsABag(EmptyBag)
    BY SetIsBag DEF EmptyBag
<1> QED
    BY <1>1 DEF AnyInit, Init, BagInv

\* The steps of a scan that run commands or read files: all but its end.
Detecting == StartMethod \/ Probe \/ ProbeAdaptec \/ AskTwCli \/ OtherMethods

\* They leave the list alone, and what they find is a bag.
LEMMA DetectingFinds ==
    ASSUME BagInv, Detecting
    PROVE  UNCHANGED <<pc, left, list, status>> /\ IsABag(found')
<1>1. CASE StartMethod
    BY <1>1 DEF StartMethod, BagInv, listVars
<1>2. CASE Probe
    <2>1. UNCHANGED <<pc, left, list, status>>
        BY <1>2 DEF Probe, listVars
    <2>2. found' = found \/ \E d : found' = found (+) One(d)
        BY <1>2 DEF Probe
    <2> QED
        BY <2>1, <2>2, SetIsBag, UnionIsBag DEF One, BagInv
<1>3. CASE ProbeAdaptec
    <2>1. UNCHANGED <<pc, left, list, status>>
        BY <1>3 DEF ProbeAdaptec, listVars
    <2>2. found' = found \/ \E d : found' = found (+) One(d)
        BY <1>3 DEF ProbeAdaptec
    <2> QED
        BY <2>1, <2>2, SetIsBag, UnionIsBag DEF One, BagInv
<1>4. CASE AskTwCli
    <2>1. UNCHANGED <<pc, left, list, status>>
        BY <1>4 DEF AskTwCli, listVars
    <2>2. found' = found \/ \E S : found' = found (+) SetToBag(S)
        BY <1>4 DEF AskTwCli
    <2> QED
        BY <2>1, <2>2, SetIsBag, UnionIsBag DEF BagInv
<1>5. CASE OtherMethods
    <2>1. UNCHANGED <<pc, left, list, status>>
        BY <1>5 DEF OtherMethods, ScanOpen, FetchOpen, PhysicalDrives, SkipUsed, CannotOpen,
           ProbePhysical, TwCliControllers, TwCliPorts, ArecaTools, ArecaPresence, ArecaCli,
           ArecaExpanders, DeviceNodes, restVars, listVars
    <2>2. CASE FetchOpen \/ ProbePhysical
        <3>1. found' = found \/ \E d : found' = found (+) One(d)
            BY <2>2 DEF FetchOpen, ProbePhysical
        <3> QED
            BY <2>1, <3>1, SetIsBag, UnionIsBag DEF One, BagInv
    <2>3. CASE TwCliPorts \/ ArecaCli
        <3>1. found' = found \/ \E S : found' = found (+) SetToBag(S)
            BY <2>3 DEF TwCliPorts, ArecaCli
        <3> QED
            BY <2>1, <3>1, SetIsBag, UnionIsBag DEF BagInv
    <2>4. CASE DeviceNodes
        <3>1. found' = found \/ \E S : found' = SetToBag(S)
            BY <2>4 DEF DeviceNodes
        <3> QED
            BY <2>1, <3>1, SetIsBag DEF BagInv
    <2>5. CASE ~(FetchOpen \/ ProbePhysical \/ TwCliPorts \/ ArecaCli \/ DeviceNodes)
        <3>1. UNCHANGED found
            BY <1>5, <2>5 DEF OtherMethods, ScanOpen, PhysicalDrives, SkipUsed, CannotOpen,
               TwCliControllers, ArecaTools, ArecaPresence, ArecaExpanders
        <3> QED
            BY <2>1, <3>1 DEF BagInv
    <2> QED
        BY <2>2, <2>3, <2>4, <2>5
<1> QED
    BY <1>1, <1>2, <1>3, <1>4, <1>5 DEF Detecting

\* One round of the loop: the list stays, or one drive of it is read.
LEMMA FetchRefreshes ==
    ASSUME BagInv, NEW d, FetchDrive(d)
    PROVE  /\ IsABag(list') /\ left' \subseteq DOMAIN list'
           /\ pc = "fetch" /\ UNCHANGED <<pc, found, status>>
           /\ list' = list \/ \E x \in DOMAIN list, e \in DOMAIN list' :
                                 list' = (list (-) SetToBag({x})) (+) SetToBag({e})
<1>1. pc = "fetch" /\ d \in left /\ left' = left \ {d} /\ UNCHANGED <<pc, found, status>>
    BY DEF FetchDrive, detectVars
<1>2. CASE list' = list
    BY <1>1, <1>2 DEF BagInv
<1>3. CASE \E e : list' = (list (-) One(d)) (+) One(e)
    <2>1. PICK e : list' = (list (-) SetToBag({d})) (+) SetToBag({e})
        BY <1>3 DEF One
    <2>2. IsABag(list (-) SetToBag({d})) /\ DOMAIN list \ {d} \subseteq DOMAIN (list (-) SetToBag({d}))
        BY SetIsBag, DifferenceIsBag DEF BagInv
    <2>3. /\ IsABag(list')
          /\ DOMAIN list' = DOMAIN (list (-) SetToBag({d})) \cup {e}
        <3>1. IsABag(SetToBag({e})) /\ DOMAIN SetToBag({e}) = {e}
            BY SetIsBag
        <3> QED
            BY <2>1, <2>2, <3>1, UnionIsBag
    <2>4. left' \subseteq DOMAIN list'
        <3>1. DOMAIN list \ {d} \subseteq DOMAIN list'
            BY <2>2, <2>3
        <3> QED
            BY <1>1, <3>1 DEF BagInv
    <2>5. d \in DOMAIN list /\ e \in DOMAIN list'
        BY <1>1, <2>3 DEF BagInv
    <2> QED
        BY <1>1, <2>1, <2>3, <2>4, <2>5
<1> QED
    BY <1>2, <1>3 DEF FetchDrive

\* A device added by hand makes the list no smaller.
LEMMA AddingGrows ==
    ASSUME BagInv, NEW d, UserAdds(d)
    PROVE  /\ IsABag(list') /\ DOMAIN list \subseteq DOMAIN list' /\ list \sqsubseteq list'
           /\ pc # "dead" /\ pc' \in (IF pc = "fetch" THEN {"fetch", "dead"} ELSE {pc})
           /\ UNCHANGED <<found, left, status>>
<1>1. list' = list (+) SetToBag({d})
    BY DEF UserAdds, One
<1>2. IsABag(list') /\ DOMAIN list \subseteq DOMAIN list' /\ list \sqsubseteq list'
    <2>1. IsABag(SetToBag({d})) /\ IsABag(list)
        BY SetIsBag DEF BagInv
    <2> QED
        BY <1>1, <2>1, UnionIsBag
<1> QED
    BY <1>2 DEF UserAdds, detectVars

\* So does the end of a scan that found something.
LEMMA FinishGrows ==
    ASSUME BagInv, Finish
    PROVE  /\ IsABag(list') /\ DOMAIN list \subseteq DOMAIN list' /\ list \sqsubseteq list'
           /\ pc = "detect" /\ pc' = "idle" /\ status' = "ok" /\ UNCHANGED <<found, left>>
BY UnionIsBag, WantedIsBag DEF Finish, Detected, detectVars, BagInv

\* Every step keeps bags bags.
LEMMA BagInvPreserved == BagInv /\ [AnyNext]_allVars => BagInv'
<1> SUFFICES ASSUME BagInv, [AnyNext]_allVars PROVE BagInv'
    OBVIOUS
<1>1. CASE Begin
    <2>1. IsABag(EmptyBag)
        BY SetIsBag DEF EmptyBag
    <2> QED
        BY <1>1, <2>1 DEF Begin, BagInv
<1>2. CASE Detecting
    BY <1>2, DetectingFinds DEF BagInv
<1>3. CASE SettingThrows
    BY <1>3 DEF SettingThrows, BagInv, detectVars, listVars
<1>4. CASE Finish
    BY <1>4, FinishGrows DEF BagInv
<1>5. CASE FinishFailed
    BY <1>5 DEF FinishFailed, BagInv, detectVars
<1>6. CASE \E d \in left : FetchDrive(d)
    BY <1>6, FetchRefreshes DEF BagInv
<1>7. CASE FetchEnds
    BY <1>7 DEF FetchEnds, BagInv, detectVars
<1>8. CASE \E d \in Manual : UserAdds(d)
    BY <1>8, AddingGrows DEF BagInv
<1>9. CASE Replug
    BY <1>9 DEF Replug, BagInv, detectVars, listVars
<1>10. CASE UNCHANGED allVars
    BY <1>10 DEF allVars, vars, detectVars, listVars, BagInv
<1> QED
    BY <1>1, <1>2, <1>3, <1>4, <1>5, <1>6, <1>7, <1>8, <1>9, <1>10 DEF AnyNext, AnyProgram, Program, Detecting

\* What is found and listed are bags of drives at all times.
THEOREM BagsAlways == AnySpec => []BagInv
BY BagInvInitially, BagInvPreserved, PTL DEF AnySpec

-----------------------------------------------------------------------------
(* No ghosts.                                                              *)

\* A drive that may be shown of the present machine.
IsThere(d) == d.dev \in Devices(machine) /\ Reply(d.dev, d.type) # "raid"

\* A scan that keeps what is there; used_pds is known before a PhysicalDriveN is tried.
Seen(scan) ==
    /\ Honest(machine, scan)
    /\ scan.rule = "pd" => known.pds = UsedPds(machine)

\* A scan in which no command failed and no hardware changed has seen the machine as it is:
\* the files kept are the machine's, and so are the scans to come.
SeesMachine ==
    /\ \A f \in DOMAIN cache : cache[f] = machine
    /\ methods \in Seq(Range(MethodsOf(Hardware[machine].system)))
    /\ IsSeq(scans)
    /\ \A scan \in Range(scans) : Seen(scan)
    /\ \A d \in DOMAIN found : IsThere(d)
    /\ Hardware[machine].system = "windows" /\ methods # MethodsOf("windows") => known.pds = UsedPds(machine)

GhostInv ==
    /\ machine \in DOMAIN Hardware
    /\ "pds" \in DOMAIN known
    /\ pc = "detect" => DOMAIN list \subseteq Manual
    /\ pc = "detect" /\ smooth => SeesMachine
    /\ NoGhosts

LEMMA GhostInvInitially == AnyInit => GhostInv
BY DEF AnyInit, Init, Nothing, GhostInv, NoGhosts, Complete

\* A drive of a device that is no volume is there if the machine knows the device.
LEMMA DisksAreThere ==
    ASSUME NEW dev, AreDisks(machine, {dev}), NEW type, NEW read
    PROVE  IsThere(NewDrive(dev, type, read))
<1>1. dev \in Devices(machine) /\ dev \notin Volumes(machine)
    BY DEF AreDisks
<1>2. Reply(dev, type) = "raid" => dev \in Volumes(machine)
    <2> SUFFICES ASSUME Reply(dev, type) = "raid" PROVE dev \in Volumes(machine)
        OBVIOUS
    <2>1. /\ <<dev, type>> \in DOMAIN Hardware[machine].reply
          /\ Hardware[machine].reply[<<dev, type>>] = "raid"
        BY DEF Reply, ReplyOf
    <2>2. <<dev, type>>[1] = dev
        OBVIOUS
    <2> QED
        BY <2>1, <2>2, Zenon DEF Volumes
<1> QED
    BY <1>1, <1>2 DEF IsThere, NewDrive

\* So is one of a device that answers.
LEMMA AnsweringIsThere ==
    ASSUME NEW dev, NEW type, Reply(dev, type) # "noDevice"
    PROVE  dev \in Devices(machine)
<1> DEFINE A == (UNION Hardware[machine].disks) \cup DOMAIN Hardware[machine].reply
           a == <<dev, type>>
<1>1. a \in A
    BY Zenon DEF Reply, ReplyOf
<1>2. a[1] = dev
    OBVIOUS
<1>3. Devices(machine) = {x[1] : x \in A}
    BY DEF Devices
<1> HIDE DEF A, a
<1> QED
    BY <1>1, <1>2, <1>3

\* What has been read of a device is what it says.
LEMMA FetchedIsReply ==
    ASSUME NEW dev, NEW type, NEW got \in Fetched(dev, type), got.reply # "nothing"
    PROVE  got.reply = Reply(dev, got.type)
<1>1. \A t : \A reply \in Replies(dev, t) : reply = "nothing" \/ reply = Reply(dev, t)
    BY DEF Replies
<1>2. PICK reply \in Replies(dev, type) :
          got \in IF reply = "needsType" /\ type = <<>>
                  THEN {[type |-> <<"scsi">>, reply |-> again] : again \in Replies(dev, <<"scsi">>)}
                  ELSE {[type |-> type, reply |-> reply]}
    BY DEF Fetched
<1>3. CASE reply = "needsType" /\ type = <<>>
    <2>1. PICK again \in Replies(dev, <<"scsi">>) : got = [type |-> <<"scsi">>, reply |-> again]
        BY <1>2, <1>3
    <2>2. got.type = <<"scsi">> /\ got.reply = again
        BY <2>1
    <2> QED
        BY <1>1, <2>2
<1>4. CASE ~(reply = "needsType" /\ type = <<>>)
    <2>1. got.type = type /\ got.reply = reply
        BY <1>2, <1>4
    <2> QED
        BY <1>1, <2>1
<1> QED
    BY <1>3, <1>4

\* A step that finds what is there and starts scans that do, sees the machine.
LEMMA StillSees ==
    ASSUME SeesMachine, UNCHANGED machine, known'.pds = known.pds,
           \A f \in DOMAIN cache' : cache'[f] = machine,
           methods' = methods \/ (methods # <<>> /\ methods' = Tail(methods) /\ Head(methods) # "scan-open"),
           IsSeq(scans'), \A scan \in Range(scans') : Seen(scan),
           \A d \in DOMAIN found' : IsThere(d)
    PROVE  SeesMachine'
<1>1. \A d : IsThere(d) <=> IsThere(d)'
    BY DEF IsThere, Reply
<1>2. \A scan : Seen(scan) <=> Seen(scan)'
    BY DEF Seen
<1>3. /\ methods' \in Seq(Range(MethodsOf(Hardware[machine].system)))
      /\ Hardware[machine].system = "windows" /\ methods' # MethodsOf("windows") => known.pds = UsedPds(machine)
    <2> DEFINE S == Range(MethodsOf(Hardware[machine].system))
    <2>1. methods \in Seq(S)
        BY DEF SeesMachine
    <2> HIDE DEF S
    <2>2. methods # <<>> => Tail(methods) \in Seq(S)
        BY <2>1
    <2>3. Head(MethodsOf("windows")) = "scan-open"
        BY DEF MethodsOf
    <2>4. methods = MethodsOf("windows") => methods' = methods
        BY <2>3
    <2> QED
        BY <2>1, <2>2, <2>4 DEF SeesMachine, S
<1>4. (\A f \in DOMAIN cache : cache[f] = machine)'
    BY DEF SeesMachine
<1>5. (\A scan \in Range(scans) : Seen(scan))'
    BY <1>2
<1>6. (\A d \in DOMAIN found : IsThere(d))'
    BY <1>1
<1> QED
    BY <1>3, <1>4, <1>5, <1>6 DEF SeesMachine

\* With the next port, what was to come is still to come.
LEMMA NextPortGoesOn ==
    ASSUME SeesMachine, scans # <<>>, NEW stop, NextPort(stop)
    PROVE  IsSeq(scans') /\ \A scan \in Range(scans') : Seen(scan)
<1>1. scans' = scans \/ scans' = Tail(scans)
    BY DEF NextPort, GoOn
<1>2. /\ IsSeq(scans) /\ IsSeq(Tail(scans)) /\ Range(Tail(scans)) \subseteq Range(scans)
      /\ \A scan \in Range(scans) : Seen(scan)
    BY SeqParts DEF SeesMachine
<1>3. CASE scans' = scans
    BY <1>2, <1>3
<1>4. CASE scans' = Tail(scans)
    BY <1>2, <1>4
<1> QED
    BY <1>1, <1>3, <1>4

\* The scan at the head.
LEMMA HeadIsSeen ==
    ASSUME SeesMachine, scans # <<>>
    PROVE  Seen(Head(scans))
BY SeqParts DEF SeesMachine

\* The system, by the next method.
LEMMA SystemOfMethod ==
    ASSUME GhostInv, SeesMachine, methods # <<>>
    PROVE  /\ WellFormed(machine) /\ HonestScans(machine)
           /\ Head(methods) \in Range(Methods) => Hardware[machine].system = "linux"
           /\ Head(methods) \in {"scan-open", "physical", "3dm2", "arcmsr"}
                 => Hardware[machine].system = "windows"
           /\ Head(methods) = "dev" => Hardware[machine].system = "other"
<1>1. WellFormed(machine) /\ HonestScans(machine)
    BY HardwareAssumption DEF GhostInv
<1>2. Hardware[machine].system \in {"linux", "windows", "other"}
    BY <1>1 DEF WellFormed
<1>3. Head(methods) \in Range(MethodsOf(Hardware[machine].system))
    <2> DEFINE S == Range(MethodsOf(Hardware[machine].system))
    <2>1. methods \in Seq(S)
        BY DEF SeesMachine
    <2> HIDE DEF S
    <2>2. Head(methods) \in S
        BY <2>1
    <2> QED
        BY <2>2 DEF S
<1>4. Range(Methods) = {"partitions", "3ware", "areca", "adaptec", "cciss", "hpsa"}
    BY DEF Methods, Range
<1>5. /\ Range(MethodsOf("linux")) = Range(Methods)
      /\ Range(MethodsOf("windows")) = {"scan-open", "physical", "3dm2", "arcmsr"}
      /\ Range(MethodsOf("other")) = {"dev"}
    BY DEF MethodsOf, Range
<1> QED
    BY <1>1, <1>2, <1>3, <1>4, <1>5

\* A method that starts reads the files of the machine.
LEMMA StartMethodSees ==
    ASSUME GhostInv, SeesMachine, StartMethod, UNCHANGED known
    PROVE  SeesMachine'
<1>1. /\ pc = "detect" /\ methods # <<>> /\ Head(methods) \in Range(Methods)
      /\ methods' = Tail(methods) /\ UNCHANGED <<machine, found>>
    BY DEF StartMethod
<1>2. \A f : Source(f) = machine
    BY DEF Source, SeesMachine
<1>3. Contents = FilesNow(machine)
    BY <1>2 DEF Contents, FilesNow
<1>4. Hardware[machine].system = "linux" /\ WellFormed(machine) /\ HonestScans(machine)
    BY <1>1, SystemOfMethod
<1>5. \A f \in DOMAIN cache' : cache'[f] = machine
    <2>1. \E files : cache' = [f \in files |-> Source(f)]
        BY DEF StartMethod
    <2> QED
        BY <1>2, <2>1
<1>6. scans' = ScansOf(Head(methods), FilesNow(machine)) \/ scans' = <<>>
    BY <1>3 DEF StartMethod, GoOn
<1>7. IsSeq(scans') /\ \A scan \in Range(scans') : Seen(scan)
    <2>1. CASE scans' = ScansOf(Head(methods), FilesNow(machine))
        <3>1. IsSeq(scans')
            BY <1>1, <1>4, <2>1, ScansAreSeq
        <3>2. \A scan \in Range(scans') : Honest(machine, scan)
            BY <1>1, <1>4, <2>1 DEF HonestScans
        <3>3. \A scan : Honest(machine, scan) => scan.rule # "pd"
            BY <1>4 DEF Honest
        <3> QED
            BY <3>1, <3>2, <3>3 DEF Seen
    <2>2. CASE scans' = <<>>
        BY <2>2, SmallSeqs
    <2> QED
        BY <1>6, <2>1, <2>2
<1>8. Head(methods) # "scan-open"
    BY <1>1 DEF Methods, Range
<1>9. \A d \in DOMAIN found' : IsThere(d)
    BY <1>1 DEF SeesMachine
<1> QED
    BY <1>1, <1>5, <1>7, <1>8, <1>9, StillSees

\* A bag with drives added to it.
LEMMA AddedToBag ==
    ASSUME NEW A, NEW S
    PROVE  DOMAIN (A (+) SetToBag(S)) = DOMAIN A \cup S
BY DEF SetToBag, (+)

\* If drives that are there are added, if any, what is new is there.
LEMMA AddedAreThere ==
    ASSUME NEW new, \A d \in new : IsThere(d), found' = found \/ found' = found (+) SetToBag(new)
    PROVE  \A d \in DOMAIN found' \ DOMAIN found : IsThere(d)
<1>1. CASE found' = found
    BY <1>1
<1>2. CASE found' = found (+) SetToBag(new)
    BY <1>2, AddedToBag
<1> QED
    BY <1>1, <1>2

\* A step that asks a port goes on with the next.
LEMMA AskingSees ==
    ASSUME GhostInv, SeesMachine, UNCHANGED <<machine, cache, methods>>, known'.pds = known.pds,
           IsSeq(scans'), \A scan \in Range(scans') : Seen(scan),
           \A d \in DOMAIN found' \ DOMAIN found : IsThere(d)
    PROVE  SeesMachine'
<1>1. \A d \in DOMAIN found' : IsThere(d)
    BY DEF SeesMachine
<1>2. \A f \in DOMAIN cache' : cache'[f] = machine
    BY DEF SeesMachine
<1> QED
    BY <1>1, <1>2, StillSees

LEMMA ProbeSees ==
    ASSUME GhostInv, SeesMachine, Probe, smooth', UNCHANGED known
    PROVE  SeesMachine'
<1> DEFINE scan == Head(scans)
<1>1. scans # <<>> /\ scan.rule \in {"partition", "3ware", "areca", "cciss", "hpsa"}
    BY DEF Probe, InScan
<1>2. PICK got \in Fetched(scan.dev, TypeAt(scan, port)) :
          /\ found' = IF /\ ~Stops(scan.rule, port, got.reply) /\ got.reply # "nothing"
                         /\ ~(scan.rule = "partition" /\ got.reply = "raid")
                      THEN found (+) One(NewDrive(scan.dev, got.type, TRUE)) ELSE found
          /\ Note(got.reply = "nothing")
          /\ NextPort(Stops(scan.rule, port, got.reply))
    BY Zenon DEF Probe
<1>3. Honest(machine, scan)
    BY <1>1, HeadIsSeen DEF Seen
<1>4. IsSeq(scans') /\ \A s \in Range(scans') : Seen(s)
    BY <1>1, <1>2, NextPortGoesOn
<1>5. got.reply = Reply(scan.dev, got.type)
    <2>1. got.reply # "nothing"
        BY <1>2 DEF Note
    <2> QED
        BY <2>1, FetchedIsReply
<1>6. ASSUME found' # found
      PROVE  IsThere(NewDrive(scan.dev, got.type, TRUE))
    <2>1. ~Stops(scan.rule, port, got.reply) /\ ~(scan.rule = "partition" /\ got.reply = "raid")
        BY <1>2, <1>6
    <2>2. CASE scan.rule = "partition"
        BY <1>3, <1>5, <2>1, <2>2 DEF Honest, IsThere, NewDrive
    <2>3. CASE scan.rule \in {"cciss", "hpsa"}
        <3>1. AreDisks(machine, {scan.dev})
            BY <1>3, <2>3 DEF Honest
        <3> QED
            BY <3>1, DisksAreThere
    <2>4. CASE scan.rule \in {"3ware", "areca"}
        <3>1. scan.dev \notin Volumes(machine)
            BY <1>3, <2>4 DEF Honest
        <3>2. Reply(scan.dev, got.type) # "noDevice"
            BY <1>5, <2>1, <2>4 DEF Stops
        <3>3. scan.dev \in Devices(machine)
            BY <3>2, AnsweringIsThere
        <3> QED
            BY <3>1, <3>3, DisksAreThere DEF AreDisks
    <2> QED
        BY <1>1, <2>2, <2>3, <2>4
<1>7. \A d \in DOMAIN found' \ DOMAIN found : IsThere(d)
    <2> DEFINE new == {NewDrive(scan.dev, got.type, TRUE)}
    <2>1. found' = found \/ found' = found (+) SetToBag(new)
        BY <1>2 DEF One
    <2>2. found' # found => \A d \in new : IsThere(d)
        BY <1>6
    <2> HIDE DEF new
    <2>3. CASE found' = found
        BY <2>3
    <2>4. CASE found' # found
        BY <2>1, <2>2, <2>4, AddedAreThere
    <2> QED
        BY <2>3, <2>4
<1>8. UNCHANGED <<machine, cache, methods>>
    BY DEF Probe
<1> QED
    BY <1>4, <1>7, <1>8, AskingSees

LEMMA ProbeAdaptecSees ==
    ASSUME GhostInv, SeesMachine, ProbeAdaptec, UNCHANGED known
    PROVE  SeesMachine'
<1> DEFINE scan == Head(scans)
<1>1. scans # <<>> /\ scan.rule = "adaptec"
    BY DEF ProbeAdaptec, InScan
<1>2. AreDisks(machine, {scan.dev})
    BY <1>1, HeadIsSeen DEF Seen, Honest
<1>3. NextPort(FALSE) /\ UNCHANGED <<machine, cache, methods>>
    BY DEF ProbeAdaptec
<1>4. IsSeq(scans') /\ \A s \in Range(scans') : Seen(s)
    BY <1>1, <1>3, NextPortGoesOn
<1>5. found' = found \/ \E t : found' = found (+) One(NewDrive(scan.dev, t, TRUE))
    BY DEF ProbeAdaptec
<1>6. \A d \in DOMAIN found' \ DOMAIN found : IsThere(d)
    <2>1. PICK t : found' = found \/ found' = found (+) SetToBag({NewDrive(scan.dev, t, TRUE)})
        BY <1>5 DEF One
    <2> DEFINE new == {NewDrive(scan.dev, t, TRUE)}
    <2>2. \A d \in new : IsThere(d)
        BY <1>2, DisksAreThere
    <2> HIDE DEF new
    <2>3. found' = found \/ found' = found (+) SetToBag(new)
        BY <2>1 DEF new
    <2> QED
        BY <2>2, <2>3, AddedAreThere
<1> QED
    BY <1>3, <1>4, <1>6, AskingSees

LEMMA AskTwCliSees ==
    ASSUME GhostInv, SeesMachine, AskTwCli, UNCHANGED known
    PROVE  SeesMachine'
<1> DEFINE scan == Head(scans)
<1>1. scans # <<>> /\ scan.rule = "tw_cli" /\ UNCHANGED <<machine, cache, methods>>
    BY DEF AskTwCli, InScan
<1>2. /\ scan.dev \notin Volumes(machine)
      /\ scan.host \in DOMAIN Hardware[machine].twCli => scan.dev \in Devices(machine)
    BY <1>1, HeadIsSeen DEF Seen, Honest
<1>3. /\ IsSeq(Tail(scans)) /\ Range(Tail(scans)) \subseteq Range(scans)
      /\ \A s \in Range(scans) : Seen(s)
    BY <1>1, SeqParts DEF SeesMachine
<1>4. CASE /\ scan.host \in DOMAIN Hardware[machine].twCli
           /\ found' = found (+) SetToBag({NewDrive(scan.dev, <<"3ware", p>>, FALSE) :
                                             p \in Hardware[machine].twCli[scan.host]})
           /\ GoOn(Tail(scans))
    <2>1. scans' = Tail(scans)
        BY <1>4 DEF GoOn
    <2>2. AreDisks(machine, {scan.dev})
        BY <1>2, <1>4 DEF AreDisks
    <2>3. \A d \in DOMAIN found' \ DOMAIN found : IsThere(d)
        <3> DEFINE new == {NewDrive(scan.dev, <<"3ware", p>>, FALSE) : p \in Hardware[machine].twCli[scan.host]}
        <3>1. \A d \in new : IsThere(d)
            BY <2>2, DisksAreThere
        <3>2. found' = found (+) SetToBag(new)
            BY <1>4
        <3> HIDE DEF new
        <3> QED
            BY <3>1, <3>2, AddedToBag
    <2> QED
        BY <1>1, <1>3, <2>1, <2>3, AskingSees
<1>5. CASE GoOn(<<ThreeWarePorts(scan)>> \o Tail(scans)) /\ UNCHANGED found
    <2>1. scans' = <<ThreeWarePorts(scan)>> \o Tail(scans)
        BY <1>5 DEF GoOn
    <2>2. Seen(ThreeWarePorts(scan))
        <3>1. ThreeWarePorts(scan).rule = "3ware" /\ ThreeWarePorts(scan).dev = scan.dev
            BY DEF ThreeWarePorts, Scan
        <3> HIDE DEF scan
        <3> QED
            BY <1>2, <3>1 DEF Seen, Honest
    <2>3. IsSeq(scans') /\ Range(scans') = {ThreeWarePorts(scan)} \cup Range(Tail(scans))
        BY <1>3, <2>1, SmallSeqs, SeqsJoined
    <2>4. \A s \in Range(scans') : Seen(s)
        BY <1>3, <2>2, <2>3
    <2> QED
        BY <1>1, <1>5, <2>3, <2>4, AskingSees
<1> QED
    BY <1>4, <1>5 DEF AskTwCli

\* A step that begins a method, or goes on without drives, goes on with honest scans.
LEMMA GoingOnSees ==
    ASSUME GhostInv, SeesMachine, UNCHANGED <<machine, cache, found>>, known'.pds = known.pds,
           methods' = methods \/ (methods # <<>> /\ methods' = Tail(methods) /\ Head(methods) # "scan-open"),
           IsSeq(scans'), \A scan \in Range(scans') : Seen(scan)
    PROVE  SeesMachine'
BY StillSees DEF SeesMachine

\* used_pds changes only in smartctl --scan-open.
LEMMA OtherFields ==
    ASSUME GhostInv
    PROVE  /\ \A v : [known EXCEPT !.misses = v].pds = known.pds
           /\ \A v : [known EXCEPT !.byPort = v].pds = known.pds
           /\ \A v, w : [known EXCEPT !.serials = v, !.areca = w].pds = known.pds
BY DEF GhostInv

LEMMA ScanOpenSees ==
    ASSUME GhostInv, SeesMachine, ScanOpen, smooth'
    PROVE  SeesMachine'
<1> DEFINE lines == Hardware[machine].scanOpen
<1>1. /\ methods # <<>> /\ methods' = Tail(methods) /\ Head(methods) = "scan-open"
      /\ UNCHANGED <<machine, cache, found>>
    BY DEF ScanOpen, Method, restVars
<1>2. /\ known' = [known EXCEPT !.pds = UsedPds(machine), !.ports = lines # <<>>]
      /\ GoOn(OpenScans(machine))
    BY DEF ScanOpen, Note
<1>3. Hardware[machine].system = "windows" /\ WellFormed(machine) /\ HonestScans(machine)
    BY <1>1, SystemOfMethod
<1>4. known'.pds = UsedPds(machine)
    BY <1>2 DEF GhostInv
<1>5. scans' = [i \in DOMAIN lines |-> Scan("open", lines[i].address, 0, 0)]
    BY <1>2 DEF GoOn, OpenScans
<1>6. IsSeq(scans')
    <2>1. DOMAIN lines = 1 .. Len(lines) /\ Len(lines) \in Nat
        BY <1>3, SeqParts DEF WellFormed
    <2>2. scans' = [i \in 1 .. Len(lines) |-> scans'[i]]
        BY <1>5, <2>1
    <2> QED
        BY <2>1, <2>2, ListIsSeq
<1>7. \A scan \in Range(scans') : Seen(scan)'
    <2>1. \A i \in DOMAIN lines : Honest(machine, Scan("open", lines[i].address, 0, 0))
        BY <1>3 DEF HonestScans, Range
    <2>2. \A scan \in Range(scans') : Honest(machine, scan)
        BY <1>5, <2>1 DEF Range
    <2> QED
        BY <1>1, <1>4, <2>2 DEF Seen
<1>8. methods' \in Seq(Range(MethodsOf(Hardware[machine].system)))
    <2> DEFINE S == Range(MethodsOf(Hardware[machine].system))
    <2>1. methods \in Seq(S)
        BY DEF SeesMachine
    <2> HIDE DEF S
    <2>2. Tail(methods) \in Seq(S)
        BY <1>1, <2>1
    <2> QED
        BY <1>1, <2>2 DEF S
<1>9. (\A d \in DOMAIN found : IsThere(d))'
    BY <1>1 DEF SeesMachine, IsThere, Reply
<1>10. (\A f \in DOMAIN cache : cache[f] = machine)'
    BY <1>1 DEF SeesMachine
<1> QED
    BY <1>1, <1>4, <1>6, <1>7, <1>8, <1>9, <1>10 DEF SeesMachine

LEMMA FetchOpenSees ==
    ASSUME GhostInv, SeesMachine, FetchOpen
    PROVE  SeesMachine'
<1> DEFINE dev == Head(scans).dev[1]
<1>1. scans # <<>> /\ Head(scans).rule = "open" /\ NextPort(FALSE) /\ UNCHANGED <<machine, cache, methods>>
    BY DEF FetchOpen, InScan, restVars
<1>2. AreDisks(machine, {dev})
    BY <1>1, HeadIsSeen DEF Seen, Honest
<1>3. IsSeq(scans') /\ \A s \in Range(scans') : Seen(s)
    BY <1>1, NextPortGoesOn
<1>4. PICK got : /\ found' = found (+) SetToBag({NewDrive(dev, got.type, got.reply # "nothing")})
                 /\ known' = [known EXCEPT !.serials = @ \cup Serials(machine, dev, got),
                                           !.areca = @ \/ got.type[1] = "areca"]
    BY Zenon DEF FetchOpen, One
<1>5. \A d \in DOMAIN found' \ DOMAIN found : IsThere(d)
    <2> DEFINE new == {NewDrive(dev, got.type, got.reply # "nothing")}
    <2>1. \A d \in new : IsThere(d)
        BY <1>2, DisksAreThere
    <2>2. found' = found (+) SetToBag(new)
        BY <1>4
    <2> HIDE DEF new
    <2> QED
        BY <2>1, <2>2, AddedAreThere
<1>6. known'.pds = known.pds
    BY <1>4, OtherFields
<1> QED
    BY <1>1, <1>3, <1>5, <1>6, AskingSees

LEMMA PhysicalDrivesSees ==
    ASSUME GhostInv, SeesMachine, PhysicalDrives
    PROVE  SeesMachine'
<1> DEFINE scan == AllPds
<1>1. /\ methods # <<>> /\ methods' = Tail(methods) /\ Head(methods) = "physical"
      /\ UNCHANGED <<machine, cache, found, known>> /\ scans' = <<scan>>
    BY DEF PhysicalDrives, Method, restVars, GoOn
<1>2. Hardware[machine].system = "windows" /\ HonestScans(machine)
    BY <1>1, SystemOfMethod
<1>3. methods # MethodsOf("windows")
    BY <1>1 DEF MethodsOf
<1>4. Seen(scan)
    <2>1. Honest(machine, scan)
        BY <1>2 DEF HonestScans
    <2>2. known.pds = UsedPds(machine)
        BY <1>2, <1>3 DEF SeesMachine
    <2> QED
        BY <2>1, <2>2 DEF Seen, AllPds, Scan
<1> HIDE DEF scan
<1>5. IsSeq(scans') /\ \A s \in Range(scans') : Seen(s)
    BY <1>1, <1>4, SmallSeqs
<1> QED
    BY <1>1, <1>5, GoingOnSees

LEMMA SkippingSees ==
    ASSUME GhostInv, SeesMachine, SkipUsed \/ CannotOpen
    PROVE  SeesMachine'
<1>1. scans # <<>> /\ UNCHANGED <<machine, cache, methods, found>>
    BY DEF SkipUsed, CannotOpen, InScan, restVars
<1>2. \E stop : NextPort(stop)
    BY DEF SkipUsed, CannotOpen
<1>3. IsSeq(scans') /\ \A s \in Range(scans') : Seen(s)
    BY <1>1, <1>2, NextPortGoesOn
<1>4. known'.pds = known.pds
    BY OtherFields DEF SkipUsed, CannotOpen
<1> QED
    BY <1>1, <1>3, <1>4, GoingOnSees

\* A PhysicalDrive that is asked has no port, so it is no volume.
LEMMA ProbePhysicalSees ==
    ASSUME GhostInv, SeesMachine, ProbePhysical
    PROVE  SeesMachine'
<1>1. /\ scans # <<>> /\ Head(scans).rule = "pd" /\ NextPort(FALSE)
      /\ UNCHANGED <<machine, cache, methods, known>>
      /\ port \in Hardware[machine].pds \ known.pds
    BY DEF ProbePhysical, InScan, restVars
<1>2. AreDisks(machine, {Pd(port)})
    <2>1. Seen(Head(scans))
        BY <1>1, HeadIsSeen
    <2>2. AreDisks(machine, {Pd(n) : n \in Hardware[machine].pds \ UsedPds(machine)})
        BY <1>1, <2>1 DEF Seen, Honest
    <2>3. port \in Hardware[machine].pds \ UsedPds(machine)
        BY <1>1, <2>1 DEF Seen
    <2> QED
        BY <2>2, <2>3 DEF AreDisks
<1>3. IsSeq(scans') /\ \A s \in Range(scans') : Seen(s)
    BY <1>1, NextPortGoesOn
<1>4. PICK got \in Fetched(Pd(port), <<>>) :
          found' = IF Serials(machine, Pd(port), got) \cap known.serials # {} THEN found
                   ELSE found (+) SetToBag({NewDrive(Pd(port), got.type, got.reply # "nothing")})
    BY Zenon DEF ProbePhysical, One
<1>5. \A d \in DOMAIN found' \ DOMAIN found : IsThere(d)
    <2> DEFINE new == {NewDrive(Pd(port), got.type, got.reply # "nothing")}
    <2>1. \A d \in new : IsThere(d)
        BY <1>2, DisksAreThere
    <2>2. found' = found \/ found' = found (+) SetToBag(new)
        BY <1>4
    <2> HIDE DEF new
    <2> QED
        BY <2>1, <2>2, AddedAreThere
<1> QED
    BY <1>1, <1>3, <1>5, AskingSees

LEMMA TwCliControllersSees ==
    ASSUME GhostInv, SeesMachine, TwCliControllers
    PROVE  SeesMachine'
<1>1. /\ methods # <<>> /\ methods' = Tail(methods) /\ Head(methods) = "3dm2"
      /\ UNCHANGED <<machine, cache, found, known>>
      /\ scans' = <<>> \/ scans' = ToolScans(machine)
    BY DEF TwCliControllers, Method, restVars, GoOn
<1>2. WellFormed(machine) /\ HonestScans(machine) /\ Hardware[machine].system = "windows"
    BY <1>1, SystemOfMethod
<1>3. \A scan \in Range(ToolScans(machine)) : Honest(machine, scan)
    BY <1>2 DEF HonestScans
<1>4. IsSeq(scans') /\ \A s \in Range(scans') : Seen(s)
    BY <1>1, <1>2, <1>3, ToolScansAreSeq, SmallSeqs DEF Seen
<1> QED
    BY <1>1, <1>4, GoingOnSees

LEMMA TwCliPortsSees ==
    ASSUME GhostInv, SeesMachine, TwCliPorts
    PROVE  SeesMachine'
<1> DEFINE c == Head(scans).host
           new == {NewDrive(<<"tw_cli", c, p>>, <<>>, FALSE) : p \in Hardware[machine].twCli[c]}
<1>1. /\ scans # <<>> /\ Head(scans).rule = "3dm2" /\ NextPort(FALSE)
      /\ UNCHANGED <<machine, cache, methods, known>>
    BY DEF TwCliPorts, InScan, restVars
<1>2. /\ c \in DOMAIN Hardware[machine].twCli
      /\ AreDisks(machine, {<<"tw_cli", c, p>> : p \in Hardware[machine].twCli[c]})
    BY <1>1, HeadIsSeen DEF Seen, Honest
<1>3. IsSeq(scans') /\ \A s \in Range(scans') : Seen(s)
    BY <1>1, NextPortGoesOn
<1>4. found' = found \/ found' = found (+) SetToBag(new)
    BY <1>2 DEF TwCliPorts
<1>5. \A d \in new : IsThere(d)
    <2> SUFFICES ASSUME NEW p \in Hardware[machine].twCli[c]
                 PROVE  IsThere(NewDrive(<<"tw_cli", c, p>>, <<>>, FALSE))
        OBVIOUS
    <2>1. AreDisks(machine, {<<"tw_cli", c, p>>})
        BY <1>2 DEF AreDisks
    <2> QED
        BY <2>1, DisksAreThere
<1> HIDE DEF new
<1>6. \A d \in DOMAIN found' \ DOMAIN found : IsThere(d)
    BY <1>4, <1>5, AddedAreThere
<1> QED
    BY <1>1, <1>3, <1>6, AskingSees

\* The scans of the ports of Areca controllers are honest on Windows.
LEMMA ByPortIsSeen ==
    ASSUME HonestScans(machine), Hardware[machine].system = "windows"
    PROVE  IsSeq(ByPort) /\ \A scan \in Range(ByPort) : Seen(scan)
<1>1. \A scan \in Range(ByPort) : Honest(machine, scan)
    BY DEF HonestScans
<1> QED
    BY <1>1, ByPortIsSeq DEF Seen

LEMMA ArecaToolsSees ==
    ASSUME GhostInv, SeesMachine, ArecaTools
    PROVE  SeesMachine'
<1> DEFINE presence == Scan("presence", Arcmsr(0), 0, 0)
<1>1. /\ methods # <<>> /\ methods' = Tail(methods) /\ Head(methods) = "arcmsr"
      /\ UNCHANGED <<machine, cache, found>>
      /\ scans' = <<presence>> \/ scans' = ByPort \/ scans' = <<>>
    BY DEF ArecaTools, ArecaStart, Method, restVars, GoOn
<1>2. HonestScans(machine) /\ Hardware[machine].system = "windows"
    BY <1>1, SystemOfMethod
<1>3. Seen(presence)
    <2>1. Honest(machine, presence)
        BY <1>2 DEF HonestScans
    <2>2. presence.rule = "presence"
        BY DEF Scan
    <2> QED
        BY <2>1, <2>2 DEF Seen
<1> HIDE DEF presence
<1>4. IsSeq(scans') /\ \A s \in Range(scans') : Seen(s)
    BY <1>1, <1>2, <1>3, ByPortIsSeen, SmallSeqs
<1>5. known'.pds = known.pds
    BY OtherFields DEF ArecaTools
<1> QED
    BY <1>1, <1>4, <1>5, GoingOnSees

LEMMA ArecaPresenceSees ==
    ASSUME GhostInv, SeesMachine, ArecaPresence
    PROVE  SeesMachine'
<1> DEFINE cli == Scan("cli", Head(scans).dev, 0, 0)
<1>1. /\ scans # <<>> /\ Head(scans).rule = "presence"
      /\ UNCHANGED <<machine, cache, methods, found, known>>
      /\ scans' = <<>> \/ scans' = <<cli>>
    BY DEF ArecaPresence, InScan, restVars, GoOn
<1>2. Seen(cli)
    <2>1. Honest(machine, Head(scans))
        BY <1>1, HeadIsSeen DEF Seen
    <2>2. cli.rule = "cli" /\ cli.dev = Head(scans).dev
        BY DEF Scan
    <2> HIDE DEF cli
    <2> QED
        BY <1>1, <2>1, <2>2 DEF Seen, Honest
<1> HIDE DEF cli
<1>3. IsSeq(scans') /\ \A s \in Range(scans') : Seen(s)
    BY <1>1, <1>2, SmallSeqs
<1> QED
    BY <1>1, <1>3, GoingOnSees

LEMMA ArecaCliSees ==
    ASSUME GhostInv, SeesMachine, ArecaCli
    PROVE  SeesMachine'
<1> DEFINE dev == Head(scans).dev
           new == {NewDrive(dev, type, FALSE) : type \in Hardware[machine].areca.lists}
<1>1. /\ scans # <<>> /\ Head(scans).rule = "cli"
      /\ UNCHANGED <<machine, cache, methods, known>>
      /\ scans' = <<>> \/ scans' = ByPort
      /\ found' = found \/ found' = found (+) SetToBag(new)
    BY DEF ArecaCli, InScan, restVars, GoOn
<1>2. /\ dev \notin Volumes(machine)
      /\ Hardware[machine].areca.lists # {} => dev \in Devices(machine)
      /\ Hardware[machine].system = "windows"
    BY <1>1, HeadIsSeen DEF Seen, Honest
<1>3. HonestScans(machine)
    BY HardwareAssumption DEF GhostInv
<1>4. IsSeq(scans') /\ \A s \in Range(scans') : Seen(s)
    BY <1>1, <1>2, <1>3, ByPortIsSeen, SmallSeqs
<1>5. \A d \in new : IsThere(d)
    <2> SUFFICES ASSUME NEW type \in Hardware[machine].areca.lists
                 PROVE  IsThere(NewDrive(dev, type, FALSE))
        OBVIOUS
    <2>1. AreDisks(machine, {dev})
        BY <1>2 DEF AreDisks
    <2> QED
        BY <2>1, DisksAreThere
<1> HIDE DEF new
<1>6. \A d \in DOMAIN found' \ DOMAIN found : IsThere(d)
    BY <1>1, <1>5, AddedAreThere
<1> QED
    BY <1>1, <1>4, <1>6, AskingSees

LEMMA ArecaExpandersSees ==
    ASSUME GhostInv, SeesMachine, ArecaExpanders
    PROVE  SeesMachine'
<1> DEFINE dev == Head(scans).dev
           more == BoxesOf(dev)
<1>1. /\ scans # <<>> /\ Head(scans).rule = "expanders"
      /\ UNCHANGED <<machine, cache, methods, found, known>>
      /\ scans' = <<>> \o Tail(scans) \/ scans' = more \o Tail(scans)
    BY DEF ArecaExpanders, InScan, restVars, GoOn
<1>2. dev \notin Volumes(machine)
    BY <1>1, HeadIsSeen DEF Seen, Honest
<1>3. /\ IsSeq(Tail(scans)) /\ Range(Tail(scans)) \subseteq Range(scans)
      /\ \A s \in Range(scans) : Seen(s)
    BY <1>1, SeqParts DEF SeesMachine
<1>4. IsSeq(more) /\ \A s \in Range(more) : Seen(s)
    <2>1. IsSeq(more) /\ \A s \in Range(more) : s.rule = "areca" /\ s.dev = dev
        BY BoxesAreSeq
    <2> QED
        BY <1>2, <2>1 DEF Seen, Honest
<1> HIDE DEF more
<1>5. PICK first : /\ scans' = first \o Tail(scans)
                   /\ IsSeq(first) /\ \A s \in Range(first) : Seen(s)
    BY <1>1, <1>4, SmallSeqs
<1>6. IsSeq(scans') /\ \A s \in Range(scans') : Seen(s)
    <2>1. IsSeq(scans') /\ Range(scans') = Range(first) \cup Range(Tail(scans))
        BY <1>3, <1>5, SeqsJoined
    <2> QED
        BY <1>3, <1>5, <2>1
<1> QED
    BY <1>1, <1>6, GoingOnSees

LEMMA DeviceNodesSees ==
    ASSUME GhostInv, SeesMachine, DeviceNodes
    PROVE  SeesMachine'
<1> DEFINE new == {NewDrive(n.dev, <<>>, FALSE) : n \in KeptNodes(machine)}
<1>1. /\ methods # <<>> /\ methods' = Tail(methods) /\ Head(methods) = "dev"
      /\ UNCHANGED <<machine, cache, known>> /\ scans' = <<>>
      /\ found' = found \/ found' = SetToBag(new)
    BY DEF DeviceNodes, Method, restVars, GoOn
<1>2. AreDisks(machine, {n.dev : n \in KeptNodes(machine)})
    <2>1. HonestScans(machine) /\ Hardware[machine].system = "other"
        BY <1>1, SystemOfMethod
    <2> QED
        BY <2>1 DEF HonestScans
<1>3. \A d \in new : IsThere(d)
    <2> SUFFICES ASSUME NEW n \in KeptNodes(machine)
                 PROVE  IsThere(NewDrive(n.dev, <<>>, FALSE))
        OBVIOUS
    <2>1. AreDisks(machine, {n.dev})
        BY <1>2 DEF AreDisks
    <2> QED
        BY <2>1, DisksAreThere
<1> HIDE DEF new
<1>4. \A d \in DOMAIN found' : IsThere(d)
    BY <1>1, <1>3, SetIsBag DEF SeesMachine
<1>5. IsSeq(scans') /\ \A s \in Range(scans') : Seen(s)
    BY <1>1, SmallSeqs
<1>6. \A f \in DOMAIN cache' : cache'[f] = machine
    BY <1>1 DEF SeesMachine
<1> QED
    BY <1>1, <1>4, <1>5, <1>6, StillSees

\* Every step of a scan but its end sees the machine as it is.
LEMMA DetectingSees ==
    ASSUME GhostInv, SeesMachine, smooth',
           OtherMethods \/ ((StartMethod \/ Probe \/ ProbeAdaptec \/ AskTwCli) /\ UNCHANGED known)
    PROVE  SeesMachine'
BY StartMethodSees, ProbeSees, ProbeAdaptecSees, AskTwCliSees, ScanOpenSees, FetchOpenSees, PhysicalDrivesSees,
   SkippingSees, ProbePhysicalSees, TwCliControllersSees, TwCliPortsSees, ArecaToolsSees, ArecaPresenceSees,
   ArecaCliSees, ArecaExpandersSees, DeviceNodesSees
   DEF OtherMethods

\* It starts by forgetting what it knew.
LEMMA BeginSees ==
    ASSUME GhostInv, Begin, known' = Nothing
    PROVE  SeesMachine'
<1>1. /\ cache' = <<>> /\ methods' = MethodsOf(Hardware[machine].system) /\ scans' = <<>>
      /\ found' = EmptyBag /\ UNCHANGED machine
    BY DEF Begin
<1>2. Hardware[machine].system \in {"linux", "windows", "other"}
    BY HardwareAssumption DEF GhostInv, WellFormed
<1>3. methods' \in Seq(Range(MethodsOf(Hardware[machine].system)))
    <2>1. IsSeq(MethodsOf("linux")) /\ IsSeq(MethodsOf("windows")) /\ IsSeq(MethodsOf("other"))
        <3>1. \A a : IsSeq(<<a>>)
            BY SmallSeqs
        <3>2. ASSUME NEW a, NEW b, NEW c, NEW d PROVE IsSeq(<<a, b, c, d>>)
            <4>1. <<a, b, c, d>> \in Seq({a, b, c, d})
                OBVIOUS
            <4> QED
                BY <4>1, SeqIsOfRange
        <3>3. ASSUME NEW a, NEW b, NEW c, NEW d, NEW e, NEW f PROVE IsSeq(<<a, b, c, d, e, f>>)
            <4>1. <<a, b, c, d, e, f>> \in Seq({a, b, c, d, e, f})
                OBVIOUS
            <4> QED
                BY <4>1, SeqIsOfRange
        <3>4. IsSeq(MethodsOf("linux"))
            BY <3>3 DEF MethodsOf, Methods
        <3>5. IsSeq(MethodsOf("windows"))
            BY <3>2 DEF MethodsOf
        <3>6. IsSeq(MethodsOf("other"))
            BY <3>1 DEF MethodsOf
        <3> QED
            BY <3>4, <3>5, <3>6
    <2> QED
        BY <1>1, <1>2, <2>1 DEF IsSeq
<1>4. DOMAIN EmptyBag = {}
    BY SetIsBag DEF EmptyBag
<1>5. (Hardware[machine].system = "windows" /\ methods # MethodsOf("windows") => known.pds = UsedPds(machine))'
    BY <1>1
<1>6. (\A d \in DOMAIN found : IsThere(d))' /\ (\A f \in DOMAIN cache : cache[f] = machine)'
    BY <1>1, <1>4
<1>7. (IsSeq(scans) /\ \A scan \in Range(scans) : Seen(scan))'
    BY <1>1, SmallSeqs
<1> QED
    BY <1>1, <1>3, <1>5, <1>6, <1>7 DEF SeesMachine

\* What sees the machine does while nothing changes.
LEMMA SeesStays ==
    ASSUME SeesMachine, UNCHANGED <<machine, cache, methods, scans, found, status, smooth, known>>
    PROVE  SeesMachine'
BY DEF SeesMachine, Seen, IsThere, Reply

\* Such a step is one of a scan; a command that failed makes it no smooth one.
LEMMA InDetection ==
    ASSUME OtherMethods \/ StartMethod \/ Probe \/ ProbeAdaptec \/ AskTwCli
    PROVE  pc = "detect" /\ (smooth' => smooth)
<1>1. CASE StartMethod
    BY <1>1 DEF StartMethod
<1>2. CASE Probe
    BY <1>2 DEF Probe, InScan, Note
<1>3. CASE ProbeAdaptec
    BY <1>3 DEF ProbeAdaptec, InScan, Note
<1>4. CASE AskTwCli
    BY <1>4 DEF AskTwCli, InScan, Note
<1>5. CASE ScanOpen \/ FetchOpen \/ ProbePhysical \/ TwCliControllers \/ TwCliPorts \/ ArecaPresence \/ ArecaCli
    <2>1. pc = "detect"
        BY <1>5 DEF ScanOpen, FetchOpen, ProbePhysical, TwCliControllers, TwCliPorts, ArecaPresence, ArecaCli,
           Method, InScan
    <2>2. CASE ScanOpen
        BY <2>1, <2>2 DEF ScanOpen, Note
    <2>3. CASE FetchOpen
        BY <2>1, <2>3 DEF FetchOpen, Note
    <2>4. CASE ProbePhysical
        BY <2>1, <2>4 DEF ProbePhysical, Note
    <2>5. CASE TwCliControllers
        BY <2>1, <2>5 DEF TwCliControllers, Note
    <2>6. CASE TwCliPorts
        BY <2>1, <2>6 DEF TwCliPorts, Note
    <2>7. CASE ArecaPresence
        BY <2>1, <2>7 DEF ArecaPresence, Note
    <2>8. CASE ArecaCli
        BY <2>1, <2>8 DEF ArecaCli, Note
    <2> QED
        BY <1>5, <2>1, <2>2, <2>3, <2>4, <2>5, <2>6, <2>7, <2>8
<1>6. CASE PhysicalDrives \/ SkipUsed \/ CannotOpen \/ ArecaTools \/ ArecaExpanders \/ DeviceNodes
    <2>1. pc = "detect"
        BY <1>6 DEF PhysicalDrives, SkipUsed, CannotOpen, ArecaTools, ArecaExpanders, DeviceNodes, Method, InScan
    <2>2. UNCHANGED smooth
        BY <1>6 DEF PhysicalDrives, SkipUsed, CannotOpen, ArecaTools, ArecaExpanders, DeviceNodes
    <2> QED
        BY <2>1, <2>2
<1> QED
    BY <1>1, <1>2, <1>3, <1>4, <1>5, <1>6 DEF OtherMethods

\* No step loses used_pds altogether.
LEMMA KnownStays ==
    ASSUME GhostInv, OtherMethods
    PROVE  "pds" \in DOMAIN known' /\ UNCHANGED machine
<1>1. UNCHANGED machine
    BY DEF OtherMethods, ScanOpen, FetchOpen, PhysicalDrives, SkipUsed, CannotOpen, ProbePhysical,
       TwCliControllers, TwCliPorts, ArecaTools, ArecaPresence, ArecaCli, ArecaExpanders, DeviceNodes, restVars
<1>2. \/ UNCHANGED known
      \/ \E v, w : known' = [known EXCEPT !.pds = v, !.ports = w]
      \/ \E v, w : known' = [known EXCEPT !.serials = v, !.areca = w]
      \/ \E v : known' = [known EXCEPT !.misses = v]
      \/ \E v : known' = [known EXCEPT !.byPort = v]
    <2>1. CASE ScanOpen
        BY <2>1 DEF ScanOpen
    <2>2. CASE FetchOpen
        <3>1. \E got : known' = [known EXCEPT !.serials = @ \cup Serials(machine, Head(scans).dev[1], got),
                                             !.areca = @ \/ got.type[1] = "areca"]
            BY <2>2, Zenon DEF FetchOpen
        <3> QED
            BY <3>1
    <2>3. CASE CannotOpen
        BY <2>3 DEF CannotOpen
    <2>4. CASE ArecaTools
        BY <2>4 DEF ArecaTools
    <2>5. CASE PhysicalDrives \/ SkipUsed \/ ProbePhysical \/ TwCliControllers \/ TwCliPorts
        BY <2>5 DEF PhysicalDrives, SkipUsed, ProbePhysical, TwCliControllers, TwCliPorts
    <2>6. CASE ArecaPresence \/ ArecaCli \/ ArecaExpanders \/ DeviceNodes
        BY <2>6 DEF ArecaPresence, ArecaCli, ArecaExpanders, DeviceNodes
    <2> QED
        BY <2>1, <2>2, <2>3, <2>4, <2>5, <2>6 DEF OtherMethods
<1> QED
    BY <1>1, <1>2 DEF GhostInv

LEMMA GhostInvPreserved == BagInv /\ GhostInv /\ [AnyNext]_allVars => GhostInv'
<1> SUFFICES ASSUME BagInv, GhostInv, [AnyNext]_allVars PROVE GhostInv'
    OBVIOUS
<1>1. CASE Begin /\ known' = Nothing
    <2>1. /\ UNCHANGED machine /\ pc' = "detect" /\ list' = EmptyBag
          /\ "pds" \in DOMAIN known'
        BY <1>1 DEF Begin, Nothing
    <2>2. DOMAIN EmptyBag = {}
        BY SetIsBag DEF EmptyBag
    <2>3. SeesMachine'
        BY <1>1, BeginSees
    <2> QED
        BY <2>1, <2>2, <2>3 DEF GhostInv, NoGhosts, Complete
<1>2. CASE OtherMethods \/ ((StartMethod \/ Probe \/ ProbeAdaptec \/ AskTwCli) /\ UNCHANGED known)
    <2>1. pc = "detect" /\ UNCHANGED <<pc, list>>
        BY <1>2, DetectingFinds, InDetection DEF Detecting
    <2>2. UNCHANGED machine /\ "pds" \in DOMAIN known'
        BY <1>2, KnownStays DEF StartMethod, Probe, ProbeAdaptec, AskTwCli, GhostInv
    <2>3. smooth' => smooth
        BY <1>2, InDetection
    <2>4. smooth' => SeesMachine'
        BY <1>2, <2>1, <2>3, DetectingSees DEF GhostInv
    <2> QED
        BY <2>1, <2>2, <2>4 DEF GhostInv, NoGhosts, Complete
<1>3. CASE SettingThrows /\ UNCHANGED known
    BY <1>3 DEF SettingThrows, GhostInv, NoGhosts, Complete
<1>4. CASE Finish /\ UNCHANGED known
    <2>1. /\ pc = "detect" /\ pc' = "idle" /\ list' = list (+) Wanted(found)
          /\ UNCHANGED <<machine, smooth, known>>
        BY <1>4 DEF Finish, Detected
    <2>2. ASSUME smooth, NEW d \in DOMAIN list' \ Manual PROVE IsThere(d)'
        <3>1. DOMAIN list' = DOMAIN list \cup DOMAIN Wanted(found) /\ DOMAIN Wanted(found) \subseteq DOMAIN found
            BY <2>1 DEF (+), Wanted
        <3>2. d \in DOMAIN found
            BY <2>1, <2>2, <3>1 DEF GhostInv
        <3>3. IsThere(d)
            BY <2>1, <2>2, <3>2 DEF GhostInv, SeesMachine
        <3> QED
            BY <2>1, <3>3 DEF IsThere, Reply
    <2>3. NoGhosts'
        BY <2>1, <2>2 DEF NoGhosts, Complete, IsThere
    <2> QED
        BY <2>1, <2>3 DEF GhostInv
<1>5. CASE FinishFailed /\ UNCHANGED known
    BY <1>5 DEF FinishFailed, Detected, GhostInv, NoGhosts, Complete
<1>6. CASE (\E d \in left : FetchDrive(d)) /\ UNCHANGED known
    BY <1>6 DEF FetchDrive, GhostInv, NoGhosts, Complete
<1>7. CASE FetchEnds /\ UNCHANGED known
    BY <1>7 DEF FetchEnds, GhostInv, NoGhosts, Complete
<1>8. CASE (\E d \in Manual : UserAdds(d)) /\ UNCHANGED known
    <2>1. PICK d \in Manual : UserAdds(d)
        BY <1>8
    <2>2. /\ DOMAIN list' = DOMAIN list \cup {d}
          /\ UNCHANGED <<machine, cache, methods, scans, found, status, smooth, known>>
          /\ pc' = pc \/ (pc = "fetch" /\ pc' = "dead")
        BY <1>8, <2>1, AddedToBag DEF UserAdds, One, detectVars
    <2>3. pc' = "detect" /\ smooth' => SeesMachine'
        BY <2>2, SeesStays DEF GhostInv
    <2>4. NoGhosts'
        <3> SUFFICES ASSUME Complete', NEW e \in DOMAIN list' \ Manual PROVE IsThere(e)'
            BY DEF NoGhosts, IsThere
        <3>1. Complete /\ e \in DOMAIN list \ Manual
            BY <2>2 DEF Complete
        <3> QED
            BY <2>2, <3>1 DEF GhostInv, NoGhosts, IsThere, Reply
    <2> QED
        BY <2>2, <2>3, <2>4 DEF GhostInv
<1>9. CASE Replug /\ UNCHANGED known
    <2>1. machine' \in DOMAIN Hardware /\ ~smooth' /\ UNCHANGED <<pc, list, known>>
        BY <1>9 DEF Replug, listVars
    <2> QED
        BY <2>1 DEF GhostInv, NoGhosts, Complete
<1>10. CASE UNCHANGED allVars
    <2>1. /\ UNCHANGED <<machine, cache, methods, scans, found, status, smooth, known>>
          /\ UNCHANGED <<pc, list>>
        BY <1>10 DEF allVars, vars, detectVars, listVars
    <2>2. pc' = "detect" /\ smooth' => SeesMachine'
        BY <2>1, SeesStays DEF GhostInv
    <2>3. NoGhosts'
        BY <2>1 DEF GhostInv, NoGhosts, Complete, Reply
    <2> QED
        BY <2>1, <2>2, <2>3 DEF GhostInv
<1> QED
    BY <1>1, <1>2, <1>3, <1>4, <1>5, <1>6, <1>7, <1>8, <1>9, <1>10 DEF AnyNext, AnyProgram, Program

\* On every machine whose tools tell the truth, with every system: a scan in which no
\* command failed and no hardware changed shows no device that is not there, and no volume
\* in place of its disks, whatever was in the file cache before.
THEOREM NoGhostsListed == AnySpec => []NoGhosts
<1>1. GhostInv => NoGhosts
    BY DEF GhostInv
<1> QED
    BY <1>1, BagsAlways, GhostInvInitially, GhostInvPreserved, PTL DEF AnySpec

-----------------------------------------------------------------------------
(* The refinement.                                                         *)

\* The bags of DriveScan are those of the detection.
LEMMA SameBags ==
    /\ \A S : Promise!SetToBag(S) = SetToBag(S)
    /\ Promise!EmptyBag = EmptyBag
    /\ \A A, B : Promise!(+)(A, B) = A (+) B
    /\ \A A, B : Promise!(-)(A, B) = A (-) B
    /\ \A A, B : Promise!\sqsubseteq(A, B) <=> A \sqsubseteq B
<1>1. \A S : Promise!SetToBag(S) = SetToBag(S)
    BY DEF Promise!SetToBag, SetToBag
<1>2. Promise!EmptyBag = EmptyBag
    BY DEF Promise!EmptyBag, EmptyBag, Promise!SetToBag, SetToBag
<1>3. \A A, B : Promise!(+)(A, B) = A (+) B
    BY DEF Promise!(+), (+)
<1>4. \A A, B : Promise!(-)(A, B) = A (-) B
    BY DEF Promise!(-), (-)
<1>5. \A A, B : Promise!\sqsubseteq(A, B) <=> A \sqsubseteq B
    BY DEF Promise!\sqsubseteq, \sqsubseteq
<1> QED
    BY <1>1, <1>2, <1>3, <1>4, <1>5

\* Each step of the detection is one of DriveScan, or invisible to it.
LEMMA PromiseStep == BagInv /\ [AnyNext]_allVars => [Promise!Next]_(Promise!vars)
<1> SUFFICES ASSUME BagInv, [AnyNext]_allVars PROVE [Promise!Next]_(Promise!vars)
    OBVIOUS
<1> USE DEF Promise!vars
<1>1. CASE Begin
    BY <1>1, SameBags DEF Begin, Promise!Begin, Promise!Next
<1>2. CASE Detecting
    BY <1>2, DetectingFinds
<1>3. CASE SettingThrows
    BY <1>3 DEF SettingThrows, InScan, listVars, Promise!Die, Promise!Next
<1>4. CASE Finish
    BY <1>4, FinishGrows, SameBags DEF Promise!EndOk, Promise!Next
<1>5. CASE FinishFailed
    BY <1>5 DEF FinishFailed, Detected
<1>6. CASE \E d \in left : FetchDrive(d)
    <2>1. /\ pc = "fetch" /\ UNCHANGED <<pc, status>>
          /\ list' = list \/ \E x \in DOMAIN list, e \in DOMAIN list' :
                                list' = (list (-) SetToBag({x})) (+) SetToBag({e})
        BY <1>6, FetchRefreshes
    <2>2. CASE list' = list
        BY <2>1, <2>2
    <2>3. CASE list' # list
        <3>1. PICK x \in DOMAIN list, e \in DOMAIN list' :
                  list' = (list (-) SetToBag({x})) (+) SetToBag({e})
            BY <2>1, <2>3
        <3>2. list' = Promise!(+)(Promise!(-)(list, Promise!SetToBag({x})), Promise!SetToBag({e}))
            BY <3>1, SameBags
        <3> QED
            BY <2>1, <3>2 DEF Promise!Refresh, Promise!Next
    <2> QED
        BY <2>2, <2>3
<1>7. CASE FetchEnds
    BY <1>7 DEF FetchEnds, Promise!EndFailed, Promise!Next
<1>8. CASE \E d \in Manual : UserAdds(d)
    <2>1. /\ list \sqsubseteq list' /\ pc # "dead" /\ UNCHANGED status
          /\ pc' \in (IF pc = "fetch" THEN {"fetch", "dead"} ELSE {pc})
        BY <1>8, AddingGrows
    <2>2. Promise!\sqsubseteq(list, list')
        BY <2>1, SameBags
    <2>3. pc \in {"idle", "detect", "fetch"}
        BY <2>1 DEF BagInv
    <2> QED
        BY <2>1, <2>2, <2>3 DEF Promise!Add, Promise!Next
<1>9. CASE Replug
    BY <1>9 DEF Replug, listVars
<1>10. CASE UNCHANGED allVars
    BY <1>10 DEF allVars, vars, listVars
<1> QED
    BY <1>1, <1>2, <1>3, <1>4, <1>5, <1>6, <1>7, <1>8, <1>9, <1>10 DEF AnyNext, AnyProgram, Program, Detecting

\* The detection, on every machine and system, implements DriveScan: what the user added
\* meanwhile stays, and nothing else is listed before the scan ends.
THEOREM DetectionKeepsPromise == AnySpec => KeepsPromise
<1>1. AnyInit => Promise!Init
    BY SameBags DEF AnyInit, Init, Promise!Init
<1> QED
    BY <1>1, BagsAlways, PromiseStep, PTL DEF AnySpec, KeepsPromise, Promise!Spec

-----------------------------------------------------------------------------
(* What a scan and a method may find.                                      *)

Untyped == {<<>>, <<"sat">>, <<"scsi">>}
Typed(type, word) == type = <<word, type[2]>> \/ type = <<word, type[2], type[3]>>
IsSg(dev) == dev = <<"sg", dev[2]>>

\* The rules that ask one port after the other.
Ported == {"3ware", "areca", "cciss", "hpsa"}

Finds(scan, a) ==
    /\ a[1] = scan.dev
    /\ CASE scan.rule \in {"partition", "adaptec"} -> a[2] \in Untyped
         [] scan.rule \in {"tw_cli", "3ware"} -> a[2] = <<"3ware", a[2][2]>>
         [] scan.rule = "areca" /\ scan.enclosure = 0 -> a[2] = <<"areca", a[2][2]>>
         [] scan.rule = "areca" /\ scan.enclosure # 0 -> a[2] = <<"areca", a[2][2], scan.enclosure>>
         [] scan.rule \in {"cciss", "hpsa"} -> a[2] = <<"cciss", a[2][2]>>
         [] OTHER -> FALSE

MethodFinds(method, a) ==
    CASE method = "partitions" -> ~IsSg(a[1]) /\ a[2] \in Untyped
      [] method = "3ware" -> Typed(a[2], "3ware")
      [] method = "areca" -> Typed(a[2], "areca")
      [] method = "adaptec" -> IsSg(a[1]) /\ a[2] \in Untyped
      [] method = "cciss" -> ~IsSg(a[1]) /\ Typed(a[2], "cciss")
      [] method = "hpsa" -> IsSg(a[1]) /\ Typed(a[2], "cciss")
      [] OTHER -> FALSE

\* The methods by name.
LEMMA MethodNames == Range(Methods) = {"partitions", "3ware", "areca", "adaptec", "cciss", "hpsa"}
BY DEF Methods, Range

\* A type argument has one word.
LEMMA OneWord ==
    ASSUME NEW type, NEW w, Typed(type, w)
    PROVE  type[1] = w /\ type \notin Untyped
<1>1. type[1] = w /\ Len(type) \in {2, 3}
    <2>1. ASSUME NEW x, type = <<w, x>> PROVE type[1] = w /\ Len(type) = 2
        BY <2>1
    <2>2. ASSUME NEW x, NEW y, type = <<w, x, y>> PROVE type[1] = w /\ Len(type) = 3
        BY <2>2
    <2> QED
        BY <2>1, <2>2 DEF Typed
<1>2. Len(<<>>) = 0 /\ Len(<<"sat">>) = 1 /\ Len(<<"scsi">>) = 1
    OBVIOUS
<1>3. \A t \in Untyped : Len(t) \notin {2, 3}
    BY <1>2 DEF Untyped
<1> QED
    BY <1>1, <1>3

\* No address is found by two methods.
LEMMA MethodsApart ==
    ASSUME NEW a, NEW m \in Range(Methods), NEW n \in Range(Methods), MethodFinds(m, a), MethodFinds(n, a)
    PROVE  m = n
<1>1. m \in {"partitions", "3ware", "areca", "adaptec", "cciss", "hpsa"}
    BY MethodNames
<1>2. n \in {"partitions", "3ware", "areca", "adaptec", "cciss", "hpsa"}
    BY MethodNames
<1>3. \A w : Typed(a[2], w) => a[2][1] = w /\ a[2] \notin Untyped
    BY OneWord
<1> QED
    BY <1>1, <1>2, <1>3 DEF MethodFinds

\* What a scan finds its method finds.
LEMMA ScanIsOfMethod ==
    ASSUME NEW method \in Range(Methods), NEW scan, OfMethod(method, scan), NEW a, Finds(scan, a)
    PROVE  MethodFinds(method, a)
<1>1. method \in {"partitions", "3ware", "areca", "adaptec", "cciss", "hpsa"}
    BY MethodNames
<1>2. a[1] = scan.dev
    BY DEF Finds
<1>3. CASE method = "partitions"
    BY <1>2, <1>3 DEF OfMethod, Finds, MethodFinds, IsSg
<1>4. CASE method = "3ware"
    BY <1>2, <1>4 DEF OfMethod, Finds, MethodFinds, Typed
<1>5. CASE method = "areca"
    <2>1. scan.rule = "areca"
        BY <1>5 DEF OfMethod
    <2>2. a[2] = <<"areca", a[2][2]>> \/ a[2] = <<"areca", a[2][2], scan.enclosure>>
        BY <2>1 DEF Finds
    <2>3. CASE a[2] = <<"areca", a[2][2], scan.enclosure>>
        <3>1. PICK t, x, y : t = a[2] /\ t = <<"areca", x, y>>
            BY <2>3
        <3>2. t = <<"areca", t[2], t[3]>>
            BY <3>1
        <3> QED
            BY <1>5, <3>1, <3>2 DEF MethodFinds, Typed
    <2> QED
        BY <1>5, <2>2, <2>3 DEF MethodFinds, Typed
<1>6. CASE method = "adaptec"
    BY <1>2, <1>6 DEF OfMethod, Finds, MethodFinds, IsSg
<1>7. CASE method = "cciss"
    <2>1. scan.rule = "cciss" /\ scan.dev = <<"cciss/c", scan.dev[2]>>
        BY <1>7 DEF OfMethod
    <2>2. PICK x : scan.dev = <<"cciss/c", x>>
        BY <2>1
    <2>3. ~IsSg(a[1])
        <3> SUFFICES ASSUME IsSg(a[1]) PROVE FALSE
            OBVIOUS
        <3>1. PICK y : a[1] = <<"sg", y>>
            BY DEF IsSg
        <3>2. a[1][1] = "sg" /\ a[1][1] = "cciss/c"
            BY <1>2, <2>2, <3>1
        <3> QED
            BY <3>2
    <2> QED
        BY <1>7, <2>1, <2>3 DEF Finds, MethodFinds, Typed
<1>8. CASE method = "hpsa"
    BY <1>2, <1>8 DEF OfMethod, Finds, MethodFinds, IsSg, Typed
<1> QED
    BY <1>1, <1>3, <1>4, <1>5, <1>6, <1>7, <1>8

\* Scans of one method that find an address are of one place.
LEMMA OnePlace ==
    ASSUME NEW method \in Range(Methods), NEW s, OfMethod(method, s), NEW t, OfMethod(method, t),
           NEW a, Finds(s, a), Finds(t, a)
    PROVE  Place(s) = Place(t)
<1>1. s.dev = t.dev
    BY DEF Finds
<1>2. s.enclosure = t.enclosure
    <2>1. CASE method # "areca"
        <3>1. s.rule # "areca" /\ t.rule # "areca"
            BY <2>1, MethodNames DEF OfMethod
        <3> QED
            BY <3>1 DEF OfMethod
    <2>2. CASE method = "areca"
        <3>1. s.rule = "areca" /\ t.rule = "areca"
            BY <2>2 DEF OfMethod
        <3>2. ASSUME NEW x, NEW y, NEW z PROVE <<"areca", x>> # <<"areca", y, z>>
            <4>1. Len(<<"areca", x>>) = 2 /\ Len(<<"areca", y, z>>) = 3
                OBVIOUS
            <4> QED
                BY <4>1
        <3>3. ASSUME NEW x, NEW y, NEW u, NEW v, <<"areca", x, y>> = <<"areca", u, v>> PROVE y = v
            BY <3>3
        <3>4. /\ a[2] = IF s.enclosure = 0 THEN <<"areca", a[2][2]>> ELSE <<"areca", a[2][2], s.enclosure>>
              /\ a[2] = IF t.enclosure = 0 THEN <<"areca", a[2][2]>> ELSE <<"areca", a[2][2], t.enclosure>>
            BY <3>1 DEF Finds
        <3> QED
            BY <3>2, <3>3, <3>4
    <2> QED
        BY <2>1, <2>2
<1> QED
    BY <1>1, <1>2 DEF Place

-----------------------------------------------------------------------------
(* No address is found twice in a scan, whatever fails or is replugged.    *)

Unrepeated(bag) ==
    \A d \in DOMAIN bag : bag[d] = 1 /\ \A e \in DOMAIN bag : Address(e) = Address(d) => e = d

\* The files kept are of machines with the same system.
SameSystem ==
    \A f \in DOMAIN cache :
        cache[f] \in DOMAIN Hardware /\ Hardware[cache[f]].system = Hardware[machine].system

\* Nothing that has been found is of a method to come.
MethodsToCome ==
    /\ IsSeq(methods) /\ Range(methods) \subseteq Range(Methods)
    /\ \A i, j \in DOMAIN methods : methods[i] = methods[j] => i = j
    /\ \A d \in DOMAIN found : \A method \in Range(methods) : ~MethodFinds(method, Address(d))

\* Nothing is of a scan to come, or of a port to come of the current one.
ScansToCome ==
    /\ \E method \in Range(Methods) \ Range(methods) : GoodScans(method, scans)
    /\ port \in Int /\ (Head(scans).rule \in {"partition", "adaptec"} => port >= Head(scans).to)
    /\ \A d \in DOMAIN found :
           Finds(Head(scans), Address(d)) =>
               Head(scans).rule \in Ported /\ Address(d)[2][2] \in {p \in Int : p < port}
    /\ \A d \in DOMAIN found : \A scan \in Range(Tail(scans)) : ~Finds(scan, Address(d))

Turns == MethodsToCome /\ (scans = <<>> \/ ScansToCome)

\* The scans after the first.
LEMMA TailsOfScans ==
    ASSUME NEW method, NEW s, GoodScans(method, s), s # <<>>
    PROVE  /\ GoodScans(method, Tail(s)) /\ OfMethod(method, Head(s))
           /\ Range(s) = {Head(s)} \cup Range(Tail(s))
           /\ \A scan \in Range(Tail(s)) : OfMethod(method, scan) /\ Place(scan) # Place(Head(s))
<1>1. IsSeq(s) /\ Apart(s) /\ \A scan \in Range(s) : OfMethod(method, scan)
    BY DEF GoodScans
<1>2. IsSeq(Tail(s)) /\ Range(Tail(s)) \subseteq Range(s) /\ Head(s) \in Range(s)
    BY <1>1, SeqParts
<1>3. /\ s \in Seq(Range(s)) /\ Len(s) \in Nat /\ Len(s) # 0 /\ DOMAIN s = 1 .. Len(s)
      /\ Head(s) = s[1] /\ DOMAIN Tail(s) = 1 .. Len(s) - 1
      /\ \A i \in 1 .. Len(s) - 1 : Tail(s)[i] = s[i + 1]
    BY <1>1 DEF IsSeq
<1>4. \A i \in DOMAIN Tail(s) : i + 1 \in DOMAIN s /\ i + 1 # 1 /\ Tail(s)[i] = s[i + 1] /\ i \in Int
    BY <1>3
<1>5. 1 \in DOMAIN s /\ \A i \in DOMAIN s : i = 1 \/ (i - 1 \in DOMAIN Tail(s) /\ Tail(s)[i - 1] = s[i])
    <2>1. ASSUME NEW i \in DOMAIN s, i # 1 PROVE i - 1 \in 1 .. Len(s) - 1 /\ (i - 1) + 1 = i
        BY <1>3, <2>1
    <2>2. 1 \in DOMAIN s
        BY <1>3
    <2>3. ASSUME NEW i \in DOMAIN s, i # 1 PROVE i - 1 \in DOMAIN Tail(s) /\ Tail(s)[i - 1] = s[i]
        <3>1. i - 1 \in 1 .. Len(s) - 1 /\ (i - 1) + 1 = i
            BY <2>1, <2>3
        <3>2. Tail(s)[i - 1] = s[(i - 1) + 1]
            BY <1>3, <3>1
        <3> QED
            BY <1>3, <3>1, <3>2
    <2> QED
        BY <2>2, <2>3
<1>6. Apart(Tail(s))
    <2> SUFFICES ASSUME NEW i \in DOMAIN Tail(s), NEW j \in DOMAIN Tail(s), Place(Tail(s)[i]) = Place(Tail(s)[j])
                 PROVE  i = j
        BY DEF Apart
    <2>1. i + 1 = j + 1
        BY <1>1, <1>4 DEF Apart
    <2> QED
        BY <1>4, <2>1
<1>7. ASSUME NEW scan \in Range(Tail(s)) PROVE Place(scan) # Place(Head(s))
    <2>1. PICK i \in DOMAIN Tail(s) : Tail(s)[i] = scan
        BY InRange
    <2> QED
        BY <1>1, <1>3, <1>4, <1>5, <2>1 DEF Apart
<1>8. ASSUME NEW scan \in Range(s), scan # Head(s) PROVE scan \in Range(Tail(s))
    <2>1. PICK i \in DOMAIN s : s[i] = scan
        BY InRange
    <2>2. i - 1 \in DOMAIN Tail(s) /\ Tail(s)[i - 1] = scan
        BY <1>3, <1>5, <1>8, <2>1
    <2> QED
        BY <2>2, InRange
<1> QED
    BY <1>1, <1>2, <1>6, <1>7, <1>8 DEF GoodScans

\* Scans of which nothing has been found.
LEMMA GoingOnTurns ==
    ASSUME NEW s, NEW method \in Range(Methods) \ Range(methods'), GoodScans(method, s), GoOn(s),
           \A d \in DOMAIN found' : \A scan \in Range(s) : ~Finds(scan, Address(d))
    PROVE  scans' = <<>> \/ ScansToCome'
<1> SUFFICES ASSUME s # <<>> PROVE ScansToCome'
    BY DEF GoOn
<1>1. scans' = s /\ port' = Head(s).from
    BY DEF GoOn
<1>2. /\ OfMethod(method, Head(s)) /\ Range(s) = {Head(s)} \cup Range(Tail(s))
    BY TailsOfScans
<1>3. Head(s).from \in Int /\ (Head(s).rule \in {"partition", "adaptec"} => Head(s).from >= Head(s).to)
    BY <1>2 DEF OfMethod
<1>4. (\E m \in Range(Methods) \ Range(methods) : GoodScans(m, scans))'
    BY <1>1
<1>5. (\A d \in DOMAIN found : ~Finds(Head(scans), Address(d)))'
    BY <1>1, <1>2
<1>6. (\A d \in DOMAIN found : \A scan \in Range(Tail(scans)) : ~Finds(scan, Address(d)))'
    BY <1>1, <1>2
<1> QED
    BY <1>1, <1>3, <1>4, <1>5, <1>6 DEF ScansToCome

\* A method that starts: nothing is found of it yet.
LEMMA StartMethodTurns ==
    ASSUME Turns, StartMethod, AreFiles(Contents)
    PROVE  Turns'
<1>1. /\ methods # <<>> /\ methods' = Tail(methods) /\ Head(methods) \in Range(Methods) /\ UNCHANGED found
      /\ (GoOn(ScansOf(Head(methods), Contents)) \/ GoOn(<<>>))
    BY DEF StartMethod
<1>2. /\ IsSeq(methods) /\ Range(methods) \subseteq Range(Methods)
      /\ \A i, j \in DOMAIN methods : methods[i] = methods[j] => i = j
      /\ \A d \in DOMAIN found : \A method \in Range(methods) : ~MethodFinds(method, Address(d))
    BY DEF Turns, MethodsToCome
<1>3. IsSeq(Tail(methods)) /\ Range(Tail(methods)) \subseteq Range(methods) /\ Head(methods) \in Range(methods)
    BY <1>1, <1>2, SeqParts
<1>4. /\ methods \in Seq(Range(methods)) /\ Len(methods) \in Nat /\ Len(methods) # 0
      /\ DOMAIN methods = 1 .. Len(methods)
      /\ Head(methods) = methods[1] /\ DOMAIN Tail(methods) = 1 .. Len(methods) - 1
      /\ \A i \in 1 .. Len(methods) - 1 : Tail(methods)[i] = methods[i + 1]
    BY <1>1, <1>2 DEF IsSeq
<1>5. \A i \in DOMAIN Tail(methods) :
          i + 1 \in DOMAIN methods /\ i + 1 # 1 /\ Tail(methods)[i] = methods[i + 1] /\ i \in Int
    BY <1>4
<1>6. Head(methods) \notin Range(Tail(methods))
    <2> SUFFICES ASSUME Head(methods) \in Range(Tail(methods)) PROVE FALSE
        OBVIOUS
    <2>1. PICK i \in DOMAIN Tail(methods) : Tail(methods)[i] = Head(methods)
        BY InRange
    <2>2. methods[i + 1] = methods[1] /\ 1 \in DOMAIN methods /\ i + 1 \in DOMAIN methods /\ i + 1 # 1
        BY <1>4, <1>5, <2>1
    <2> QED
        BY <1>2, <2>2
<1>7. MethodsToCome'
    <2>1. \A i, j \in DOMAIN Tail(methods) : Tail(methods)[i] = Tail(methods)[j] => i = j
        <3> SUFFICES ASSUME NEW i \in DOMAIN Tail(methods), NEW j \in DOMAIN Tail(methods),
                            Tail(methods)[i] = Tail(methods)[j]
                     PROVE  i = j
            OBVIOUS
        <3>1. i + 1 = j + 1
            BY <1>2, <1>5
        <3> QED
            BY <1>5, <3>1
    <2> QED
        BY <1>1, <1>2, <1>3, <2>1 DEF MethodsToCome
<1>8. GoodScans(Head(methods), ScansOf(Head(methods), Contents)) /\ GoodScans(Head(methods), <<>>)
    BY <1>1, MethodScans, SmallSeqs, SmallApart DEF GoodScans
<1>9. ASSUME NEW s, GoodScans(Head(methods), s), GoOn(s) PROVE scans' = <<>> \/ ScansToCome'
    <2>1. \A d \in DOMAIN found' : \A scan \in Range(s) : ~Finds(scan, Address(d))
        <3> SUFFICES ASSUME NEW d \in DOMAIN found, NEW scan \in Range(s), Finds(scan, Address(d)) PROVE FALSE
            BY <1>1
        <3>1. OfMethod(Head(methods), scan)
            BY <1>9 DEF GoodScans
        <3>2. MethodFinds(Head(methods), Address(d))
            BY <1>1, <3>1, ScanIsOfMethod
        <3> QED
            BY <1>2, <1>3, <3>2
    <2>2. Head(methods) \in Range(Methods) \ Range(methods')
        BY <1>1, <1>6
    <2> QED
        BY <1>9, <2>1, <2>2, GoingOnTurns
<1>10. scans' = <<>> \/ ScansToCome'
    BY <1>1, <1>8, <1>9
<1> QED
    BY <1>7, <1>10 DEF Turns

\* Drives of other addresses found too.
LEMMA AddedUnrepeated ==
    ASSUME NEW A, Unrepeated(A), NEW new, \A d, e \in new : Address(d) = Address(e) => d = e,
           \A d \in DOMAIN A : \A e \in new : Address(d) # Address(e)
    PROVE  Unrepeated(A (+) SetToBag(new))
<1> DEFINE B == SetToBag(new)
<1>1. DOMAIN (A (+) B) = DOMAIN A \cup new
    BY AddedToBag
<1>2. ASSUME NEW d \in DOMAIN A \cup new PROVE (A (+) B)[d] = 1
    <2>1. \A e \in DOMAIN A : A[e] = 1
        BY DEF Unrepeated
    <2>2. ~(d \in DOMAIN A /\ d \in new)
        OBVIOUS
    <2>3. (A (+) B)[d] = (IF d \in DOMAIN A THEN A[d] ELSE 0) + (IF d \in new THEN 1 ELSE 0)
        BY DEF (+), SetToBag
    <2> QED
        BY <2>1, <2>2, <2>3
<1>3. \A d, e \in DOMAIN A \cup new : Address(e) = Address(d) => e = d
    BY DEF Unrepeated
<1> HIDE DEF B
<1>4. \A d \in DOMAIN (A (+) B) :
          (A (+) B)[d] = 1 /\ \A e \in DOMAIN (A (+) B) : Address(e) = Address(d) => e = d
    BY <1>1, <1>2, <1>3
<1> QED
    BY <1>4 DEF Unrepeated, B

\* What the current scan finds at its port has not been found, and no one to come finds it.
LEMMA AskingFinds ==
    ASSUME Turns, Unrepeated(found), scans # <<>>, UNCHANGED methods, NEW new,
           \A d, e \in new : Address(d) = Address(e) => d = e,
           \A d \in new : Finds(Head(scans), Address(d)),
           \A d \in new : Head(scans).rule \in Ported => Address(d)[2][2] = port,
           found' = found (+) SetToBag(new) \/ (found' = found /\ new = {})
    PROVE  /\ Unrepeated(found') /\ DOMAIN found' = DOMAIN found \cup new
           /\ MethodsToCome'
           /\ \A d \in DOMAIN found' : \A scan \in Range(Tail(scans)) : ~Finds(scan, Address(d))
<1>1. PICK method \in Range(Methods) \ Range(methods) : GoodScans(method, scans)
    BY DEF Turns, ScansToCome
<1>2. /\ OfMethod(method, Head(scans))
      /\ \A scan \in Range(Tail(scans)) : OfMethod(method, scan) /\ Place(scan) # Place(Head(scans))
    BY <1>1, TailsOfScans
<1>3. DOMAIN found' = DOMAIN found \cup new
    BY AddedToBag
<1>4. ASSUME NEW d \in DOMAIN found, NEW e \in new PROVE Address(d) # Address(e)
    <2> SUFFICES ASSUME Address(d) = Address(e) PROVE FALSE
        OBVIOUS
    <2>1. Head(scans).rule \in Ported /\ Address(d)[2][2] \in {p \in Int : p < port}
        BY DEF Turns, ScansToCome
    <2>2. Address(d)[2][2] = port
        BY <2>1
    <2> QED
        BY <2>1, <2>2
<1>5. Unrepeated(found')
    <2>1. CASE found' = found
        BY <2>1
    <2>2. CASE found' = found (+) SetToBag(new)
        BY <1>4, <2>2, AddedUnrepeated
    <2> QED
        BY <2>1, <2>2
<1>6. ASSUME NEW d \in new, NEW m \in Range(methods) PROVE ~MethodFinds(m, Address(d))
    <2>1. MethodFinds(method, Address(d))
        BY <1>1, <1>2, ScanIsOfMethod
    <2>2. m \in Range(Methods) /\ m # method
        BY <1>1 DEF Turns, MethodsToCome
    <2> QED
        BY <1>1, <2>1, <2>2, MethodsApart
<1>7. MethodsToCome'
    BY <1>3, <1>6 DEF Turns, MethodsToCome
<1>8. ASSUME NEW d \in new, NEW scan \in Range(Tail(scans)) PROVE ~Finds(scan, Address(d))
    BY <1>1, <1>2, OnePlace
<1>9. \A d \in DOMAIN found : \A scan \in Range(Tail(scans)) : ~Finds(scan, Address(d))
    BY DEF Turns, ScansToCome
<1> QED
    BY <1>3, <1>5, <1>7, <1>8, <1>9

\* The next port, or the next scan.
LEMMA NextPortTurns ==
    ASSUME Turns, scans # <<>>, UNCHANGED methods, NEW stop, NextPort(stop), MethodsToCome',
           Head(scans).rule \in Ported \cup {"partition", "adaptec"},
           \A d \in DOMAIN found' \ DOMAIN found : Head(scans).rule \in Ported => Address(d)[2][2] = port,
           \A d \in DOMAIN found' : \A scan \in Range(Tail(scans)) : ~Finds(scan, Address(d))
    PROVE  Turns'
<1>1. PICK method \in Range(Methods) \ Range(methods) : GoodScans(method, scans)
    BY DEF Turns, ScansToCome
<1>2. GoodScans(method, Tail(scans))
    BY <1>1, TailsOfScans
<1>3. CASE GoOn(Tail(scans))
    <2>1. method \in Range(Methods) \ Range(methods')
        BY <1>1
    <2>2. scans' = <<>> \/ ScansToCome'
        BY <1>2, <1>3, <2>1, GoingOnTurns
    <2> QED
        BY <2>2 DEF Turns
<1>4. CASE ~(port >= Head(scans).to) /\ port' = port + 1 /\ UNCHANGED scans
    <2>1. port \in Int /\ Head(scans).rule \in Ported
        BY <1>4 DEF Turns, ScansToCome
    <2>2. port' \in Int /\ Head(scans).rule \notin {"partition", "adaptec"}
        BY <1>4, <2>1 DEF Ported
    <2>3. ASSUME NEW d \in DOMAIN found', Finds(Head(scans), Address(d))
          PROVE  Address(d)[2][2] \in {p \in Int : p < port + 1}
        <3>1. CASE d \in DOMAIN found
            <4>1. Address(d)[2][2] \in {p \in Int : p < port}
                BY <2>3, <3>1 DEF Turns, ScansToCome
            <4> QED
                BY <2>1, <4>1
        <3>2. CASE d \notin DOMAIN found
            <4>1. Address(d)[2][2] = port
                BY <2>1, <2>3, <3>2
            <4> QED
                BY <2>1, <4>1
        <3> QED
            BY <3>1, <3>2
    <2>4. (\E m \in Range(Methods) \ Range(methods) : GoodScans(m, scans))'
        BY <1>1, <1>4
    <2>5. (\A d \in DOMAIN found :
               Finds(Head(scans), Address(d)) =>
                   Head(scans).rule \in Ported /\ Address(d)[2][2] \in {p \in Int : p < port})'
        BY <1>4, <2>1, <2>3
    <2>6. (\A d \in DOMAIN found : \A scan \in Range(Tail(scans)) : ~Finds(scan, Address(d)))'
        BY <1>4
    <2>7. (port \in Int /\ (Head(scans).rule \in {"partition", "adaptec"} => port >= Head(scans).to))'
        BY <1>4, <2>2
    <2>8. ScansToCome'
        BY <2>4, <2>5, <2>6, <2>7 DEF ScansToCome
    <2> QED
        BY <2>8 DEF Turns
<1> QED
    BY <1>3, <1>4 DEF NextPort

\* The type that has been read with.
LEMMA FetchedType ==
    ASSUME NEW dev, NEW type, NEW got \in Fetched(dev, type)
    PROVE  got.type = type \/ (type = <<>> /\ got.type = <<"scsi">>)
<1>1. PICK reply \in Replies(dev, type) :
          got \in IF reply = "needsType" /\ type = <<>>
                  THEN {[type |-> <<"scsi">>, reply |-> again] : again \in Replies(dev, <<"scsi">>)}
                  ELSE {[type |-> type, reply |-> reply]}
    BY DEF Fetched
<1>2. CASE reply = "needsType" /\ type = <<>>
    <2>1. PICK again \in Replies(dev, <<"scsi">>) : got = [type |-> <<"scsi">>, reply |-> again]
        BY <1>1, <1>2
    <2> QED
        BY <1>2, <2>1
<1>3. CASE ~(reply = "needsType" /\ type = <<>>)
    BY <1>1, <1>3
<1> QED
    BY <1>2, <1>3

\* The address of a drive.
LEMMA AddressOfNew == \A dev, type, read : Address(NewDrive(dev, type, read)) = <<dev, type>>
BY DEF Address, NewDrive

\* The address at a port is one the scan finds.
LEMMA PortIsFound ==
    ASSUME NEW scan, scan.rule \in Ported \cup {"partition"}, NEW p, NEW type,
           type = TypeAt(scan, p) \/ (TypeAt(scan, p) = <<>> /\ type = <<"scsi">>)
    PROVE  Finds(scan, <<scan.dev, type>>) /\ (scan.rule \in Ported => type[2] = p)
<1>1. <<scan.dev, type>>[1] = scan.dev /\ <<scan.dev, type>>[2] = type
    OBVIOUS
<1>2. CASE scan.rule = "partition"
    <2>1. type \in Untyped
        BY <1>2 DEF TypeAt, Untyped
    <2> QED
        BY <1>1, <1>2, <2>1 DEF Finds, Ported
<1>3. CASE scan.rule # "partition"
    <2>1. \A w, e : <<w, p>> # <<>> /\ <<w, p>>[2] = p /\ <<w, p, e>> # <<>> /\ <<w, p, e>>[2] = p
        OBVIOUS
    <2>2. scan.rule \in {"3ware", "areca", "cciss", "hpsa"}
        BY <1>3 DEF Ported
    <2>3. CASE scan.rule = "3ware"
        <3>1. type = <<"3ware", p>>
            BY <2>1, <2>3 DEF TypeAt
        <3> QED
            BY <1>1, <2>1, <2>3, <3>1 DEF Finds
    <2>4. CASE scan.rule = "areca" /\ scan.enclosure = 0
        <3>1. type = <<"areca", p>>
            BY <2>1, <2>4 DEF TypeAt
        <3> QED
            BY <1>1, <2>1, <2>4, <3>1 DEF Finds
    <2>5. CASE scan.rule = "areca" /\ scan.enclosure # 0
        <3>1. type = <<"areca", p, scan.enclosure>>
            BY <2>1, <2>5 DEF TypeAt
        <3> QED
            BY <1>1, <2>1, <2>5, <3>1 DEF Finds
    <2>6. CASE scan.rule \in {"cciss", "hpsa"}
        <3>1. type = <<"cciss", p>>
            BY <2>1, <2>6 DEF TypeAt
        <3> QED
            BY <1>1, <2>1, <2>6, <3>1 DEF Finds
    <2> QED
        BY <2>2, <2>3, <2>4, <2>5, <2>6
<1> QED
    BY <1>2, <1>3

\* A port is asked.
LEMMA ProbeTurns ==
    ASSUME Turns, Unrepeated(found), Probe
    PROVE  Turns' /\ Unrepeated(found')
<1> DEFINE scan == Head(scans)
<1>1. /\ scans # <<>> /\ scan.rule \in {"partition", "3ware", "areca", "cciss", "hpsa"}
      /\ UNCHANGED methods
    BY DEF Probe, InScan
<1>2. PICK got \in Fetched(scan.dev, TypeAt(scan, port)) :
          /\ found' = IF /\ ~Stops(scan.rule, port, got.reply) /\ got.reply # "nothing"
                         /\ ~(scan.rule = "partition" /\ got.reply = "raid")
                      THEN found (+) One(NewDrive(scan.dev, got.type, TRUE)) ELSE found
          /\ Note(got.reply = "nothing")
          /\ NextPort(Stops(scan.rule, port, got.reply))
    BY Zenon DEF Probe
<1> DEFINE keep == /\ ~Stops(scan.rule, port, got.reply) /\ got.reply # "nothing"
                   /\ ~(scan.rule = "partition" /\ got.reply = "raid")
           d0 == NewDrive(scan.dev, got.type, TRUE)
           new == IF keep THEN {d0} ELSE {}
<1>3. Finds(scan, Address(d0)) /\ (scan.rule \in Ported => Address(d0)[2][2] = port)
    <2>1. got.type = TypeAt(scan, port) \/ (TypeAt(scan, port) = <<>> /\ got.type = <<"scsi">>)
        BY FetchedType
    <2>2. Address(d0) = <<scan.dev, got.type>> /\ <<scan.dev, got.type>>[2] = got.type
        BY AddressOfNew
    <2>3. scan.rule \in Ported \cup {"partition"}
        BY <1>1 DEF Ported
    <2> HIDE DEF scan, d0
    <2> QED
        BY <2>1, <2>2, <2>3, PortIsFound
<1>4. found' = found (+) SetToBag(new) \/ (found' = found /\ new = {})
    BY <1>2 DEF One
<1>5. \A d \in new : d = d0
    OBVIOUS
<1> HIDE DEF keep, d0, new
<1>6. /\ \A d, e \in new : Address(d) = Address(e) => d = e
      /\ \A d \in new : Finds(scan, Address(d))
      /\ \A d \in new : scan.rule \in Ported => Address(d)[2][2] = port
    BY <1>3, <1>5
<1>7. /\ Unrepeated(found') /\ DOMAIN found' = DOMAIN found \cup new
      /\ MethodsToCome'
      /\ \A d \in DOMAIN found' : \A s \in Range(Tail(scans)) : ~Finds(s, Address(d))
    BY <1>1, <1>4, <1>6, AskingFinds
<1>8. \A d \in DOMAIN found' \ DOMAIN found : scan.rule \in Ported => Address(d)[2][2] = port
    BY <1>6, <1>7
<1>9. scan.rule \in Ported \cup {"partition", "adaptec"}
    BY <1>1 DEF Ported
<1>10. Turns'
    BY <1>1, <1>2, <1>7, <1>8, <1>9, NextPortTurns
<1> QED
    BY <1>7, <1>10

\* A target of an Adaptec controller is asked.
LEMMA ProbeAdaptecTurns ==
    ASSUME Turns, Unrepeated(found), ProbeAdaptec
    PROVE  Turns' /\ Unrepeated(found')
<1> DEFINE dev == Head(scans).dev
<1>1. scans # <<>> /\ Head(scans).rule = "adaptec" /\ UNCHANGED methods /\ NextPort(FALSE)
    BY DEF ProbeAdaptec, InScan
<1>2. PICK first \in Fetched(dev, <<"sat">>) :
          \E got \in IF first.reply = "identityFailed" THEN Fetched(dev, <<>>) ELSE {first} :
             found' = IF got.reply # "nothing" THEN found (+) One(NewDrive(dev, got.type, TRUE)) ELSE found
    BY Zenon DEF ProbeAdaptec
<1>3. PICK got \in IF first.reply = "identityFailed" THEN Fetched(dev, <<>>) ELSE {first} :
             found' = IF got.reply # "nothing" THEN found (+) One(NewDrive(dev, got.type, TRUE)) ELSE found
    BY <1>2
<1>4. got.type \in Untyped
    <2>1. first.type = <<"sat">>
        <3>1. <<"sat">> # <<>>
            OBVIOUS
        <3> QED
            BY <3>1, FetchedType
    <2>2. CASE first.reply = "identityFailed"
        BY <1>3, <2>2, FetchedType DEF Untyped
    <2>3. CASE first.reply # "identityFailed"
        BY <1>3, <2>1, <2>3 DEF Untyped
    <2> QED
        BY <2>2, <2>3
<1> DEFINE d0 == NewDrive(dev, got.type, TRUE)
           new == IF got.reply # "nothing" THEN {d0} ELSE {}
<1>5. Finds(Head(scans), Address(d0)) /\ Head(scans).rule \notin Ported
    <2>1. Address(d0) = <<dev, got.type>> /\ <<dev, got.type>>[1] = dev /\ <<dev, got.type>>[2] = got.type
        BY AddressOfNew
    <2> QED
        BY <1>1, <1>4, <2>1 DEF Finds, Ported
<1>6. found' = found (+) SetToBag(new) \/ (found' = found /\ new = {})
    BY <1>3 DEF One
<1>7. \A d \in new : d = d0
    OBVIOUS
<1> HIDE DEF dev, d0, new
<1>8. /\ \A d, e \in new : Address(d) = Address(e) => d = e
      /\ \A d \in new : Finds(Head(scans), Address(d))
      /\ \A d \in new : Head(scans).rule \in Ported => Address(d)[2][2] = port
    BY <1>5, <1>7
<1>9. /\ Unrepeated(found') /\ DOMAIN found' = DOMAIN found \cup new
      /\ MethodsToCome'
      /\ \A d \in DOMAIN found' : \A s \in Range(Tail(scans)) : ~Finds(s, Address(d))
    BY <1>1, <1>6, <1>8, AskingFinds
<1>10. \A d \in DOMAIN found' \ DOMAIN found : Head(scans).rule \in Ported => Address(d)[2][2] = port
    BY <1>5
<1>11. Turns'
    BY <1>1, <1>9, <1>10, NextPortTurns
<1> QED
    BY <1>9, <1>11

\* The drives of ports that tw_cli lists.
ListedDrives(dev, ports) == {NewDrive(dev, <<"3ware", p>>, FALSE) : p \in ports}

LEMMA ListedPorts ==
    ASSUME NEW dev, NEW ports
    PROVE  LET new == ListedDrives(dev, ports)
           IN  /\ \A d \in new : \E p \in ports : Address(d) = <<dev, <<"3ware", p>>>>
               /\ \A p \in ports : \E d \in new : Address(d) = <<dev, <<"3ware", p>>>>
               /\ \A d, e \in new : Address(d) = Address(e) => d = e
<1> DEFINE D(p) == NewDrive(dev, <<"3ware", p>>, FALSE)
           new == {D(p) : p \in ports}
<1>1. \A p : Address(D(p)) = <<dev, <<"3ware", p>>>>
    BY AddressOfNew
<1>2. \A p, q : <<dev, <<"3ware", p>>>> = <<dev, <<"3ware", q>>>> => p = q
    OBVIOUS
<1> HIDE DEF D
<1>3. ASSUME NEW d \in new PROVE \E p \in ports : d = D(p) /\ Address(d) = <<dev, <<"3ware", p>>>>
    BY <1>1
<1>4. ASSUME NEW p \in ports PROVE D(p) \in new /\ Address(D(p)) = <<dev, <<"3ware", p>>>>
    BY <1>1
<1> HIDE DEF new
<1>5. ASSUME NEW d \in new, NEW e \in new, Address(d) = Address(e) PROVE d = e
    BY <1>2, <1>3, <1>5
<1>6. /\ \A d \in new : \E p \in ports : Address(d) = <<dev, <<"3ware", p>>>>
      /\ \A p \in ports : \E d \in new : Address(d) = <<dev, <<"3ware", p>>>>
      /\ \A d, e \in new : Address(d) = Address(e) => d = e
    BY <1>3, <1>4, <1>5
<1> QED
    BY <1>6, Zenon DEF ListedDrives, new, D

\* tw_cli lists the ports of a controller, or they are to be asked.
LEMMA AskTwCliTurns ==
    ASSUME Turns, Unrepeated(found), AskTwCli
    PROVE  Turns' /\ Unrepeated(found')
<1> DEFINE scan == Head(scans)
<1>1. scans # <<>> /\ scan.rule = "tw_cli" /\ UNCHANGED methods
    BY DEF AskTwCli, InScan
<1>2. PICK method \in Range(Methods) \ Range(methods) : GoodScans(method, scans)
    BY <1>1 DEF Turns, ScansToCome
<1>3. /\ GoodScans(method, Tail(scans)) /\ OfMethod(method, scan)
      /\ \A s \in Range(Tail(scans)) : OfMethod(method, s) /\ Place(s) # Place(scan)
    BY <1>1, <1>2, TailsOfScans
<1>4. method \in Range(Methods) \ Range(methods')
    BY <1>1, <1>2
<1>5. CASE /\ found' = found (+) SetToBag({NewDrive(scan.dev, <<"3ware", p>>, FALSE) :
                                             p \in Hardware[machine].twCli[scan.host]})
           /\ GoOn(Tail(scans))
    <2> DEFINE ports == Hardware[machine].twCli[scan.host]
                   new == ListedDrives(scan.dev, ports)
    <2>5. found' = found (+) SetToBag(new)
        BY <1>5 DEF ListedDrives
    <2> HIDE DEF ports
    <2>1. \A d \in new : \E p \in ports : Address(d) = <<scan.dev, <<"3ware", p>>>>
        BY ListedPorts
    <2>2. \A d, e \in new : Address(d) = Address(e) => d = e
        BY ListedPorts
    <2> HIDE DEF new
    <2>3. \A d \in new : Finds(scan, Address(d))
        <3> SUFFICES ASSUME NEW d \in new PROVE Finds(scan, Address(d))
            OBVIOUS
        <3>1. PICK p \in ports : Address(d) = <<scan.dev, <<"3ware", p>>>>
            BY <2>1
        <3>2. Address(d)[1] = scan.dev /\ Address(d)[2] = <<"3ware", p>> /\ <<"3ware", p>>[2] = p
            BY <3>1
        <3> QED
            BY <1>1, <3>2 DEF Finds
    <2>4. scan.rule \notin Ported
        BY <1>1 DEF Ported
    <2>6. /\ Unrepeated(found') /\ MethodsToCome'
          /\ \A d \in DOMAIN found' : \A s \in Range(Tail(scans)) : ~Finds(s, Address(d))
        BY <1>1, <2>2, <2>3, <2>4, <2>5, AskingFinds
    <2>7. scans' = <<>> \/ ScansToCome'
        BY <1>3, <1>4, <1>5, <2>6, GoingOnTurns
    <2> QED
        BY <2>6, <2>7 DEF Turns
<1>6. CASE GoOn(<<ThreeWarePorts(scan)>> \o Tail(scans)) /\ UNCHANGED found
    <2> DEFINE ports == ThreeWarePorts(scan)
               s == <<ports>> \o Tail(scans)
    <2>1. /\ ports.rule = "3ware" /\ ports.dev = scan.dev /\ ports.from = 0 /\ ports.enclosure = 0
          /\ ports.to \in Int
        <3>1. Clamped(0, Setting.threeWare, Cap.threeWare) \in Int
            BY CapAssumption, SettingAssumption DEF Clamped
        <3> HIDE DEF scan
        <3>2. ports = Scan("3ware", scan.dev, 0, Clamped(0, Setting.threeWare, Cap.threeWare))
            BY DEF ThreeWarePorts
        <3> HIDE DEF ports
        <3> QED
            BY <3>1, <3>2, ScanFields
    <2>2. method = "3ware" /\ scan.enclosure = 0
        BY <1>1, <1>2, <1>3, MethodNames DEF OfMethod
    <2> HIDE DEF ports
    <2>3. OfMethod(method, ports) /\ Place(ports) = Place(scan)
        BY <2>1, <2>2 DEF OfMethod, Place
    <2>4. GoodScans(method, <<ports>>) /\ Range(<<ports>>) = {ports}
        BY <2>3, SingleIsGood
    <2>5. GoodScans(method, s) /\ Range(s) = {ports} \cup Range(Tail(scans))
        <3>1. IsSeq(s) /\ Range(s) = {ports} \cup Range(Tail(scans))
            BY <1>3, <2>4, SeqsJoined DEF GoodScans
        <3>2. NoneShared(<<ports>>, Tail(scans))
            BY <1>3, <2>3, <2>4 DEF NoneShared
        <3>3. Apart(s)
            BY <1>3, <2>4, <3>2, JoinedApart DEF GoodScans
        <3> QED
            BY <1>3, <2>3, <3>1, <3>3 DEF GoodScans
    <2>6. \A d \in DOMAIN found' : \A t \in Range(s) : ~Finds(t, Address(d))
        <3>1. \A a : Finds(ports, a) <=> Finds(scan, a)
            BY <1>1, <2>1 DEF Finds
        <3>2. scan.rule \notin Ported
            BY <1>1 DEF Ported
        <3>3. \A d \in DOMAIN found : ~Finds(scan, Address(d))
            BY <1>1, <3>2 DEF Turns, ScansToCome
        <3>4. \A d \in DOMAIN found : \A t \in Range(Tail(scans)) : ~Finds(t, Address(d))
            BY <1>1 DEF Turns, ScansToCome
        <3> QED
            BY <1>6, <2>5, <3>1, <3>3, <3>4
    <2> HIDE DEF s
    <2>7. GoOn(s)
        BY <1>6 DEF s, ports
    <2>8. scans' = <<>> \/ ScansToCome'
        BY <1>4, <2>5, <2>6, <2>7, GoingOnTurns
    <2>9. MethodsToCome'
        BY <1>1, <1>6 DEF Turns, MethodsToCome
    <2> QED
        BY <1>6, <2>8, <2>9 DEF Turns
<1> QED
    BY <1>5, <1>6 DEF AskTwCli

\* Another system has one method, which starts no scans.
NodesOnce ==
    /\ scans = <<>> /\ methods \in {<<>>, <<"dev">>}
    /\ methods # <<>> => found = EmptyBag

ManualAddresses == {Address(d) : d \in Manual}

\* What the user does not add is listed once.
ListedOnce ==
    \A d \in DOMAIN list :
        Address(d) \in ManualAddresses \/
        (list[d] = 1 /\ \A e \in DOMAIN list : Address(e) = Address(d) => e = d)

\* A scan with Linux or a BSD lists no address twice.
NoAddressTwice == pc = "idle" /\ status = "ok" /\ Hardware[machine].system # "windows" => ListedOnce

OnceInv ==
    /\ machine \in DOMAIN Hardware /\ SameSystem
    /\ pc = "detect" =>
          /\ Hardware[machine].system = "linux" => Turns
          /\ Hardware[machine].system = "other" => NodesOnce
          /\ Hardware[machine].system # "windows" => Unrepeated(found)
    /\ NoAddressTwice

LEMMA OnceInvInitially == AnyInit => OnceInv
BY DEF AnyInit, Init, OnceInv, SameSystem, NoAddressTwice

\* Whatever files are kept of which machines, they are files.
LEMMA ContentsAreFiles ==
    ASSUME OnceInv, Hardware[machine].system = "linux"
    PROVE  AreFiles(Contents)
<1>1. \A f : Source(f) \in DOMAIN Hardware /\ Hardware[Source(f)].system = "linux"
    BY DEF OnceInv, SameSystem, Source
<1>2. \A f : AreFiles(Hardware[Source(f)])
    BY <1>1, HardwareAssumption DEF WellFormed
<1>3. /\ Contents.partitions = Hardware[Source("partitions")].partitions
      /\ Contents.devices = Hardware[Source("devices")].devices
      /\ Contents.scsi = Hardware[Source("scsi")].scsi
      /\ Contents.sg = Hardware[Source("sg")].sg
      /\ Contents.channels = Hardware[Source("channels")].channels
    BY DEF Contents, File
<1> QED
    BY <1>2, <1>3 DEF AreFiles

\* The steps on Linux, and on another system.
LEMMA StepsOfLinux ==
    ASSUME MethodsToCome, scans = <<>> \/ ScansToCome
    PROVE  ~OtherMethods
<1>1. methods # <<>> => Head(methods) \in {"partitions", "3ware", "areca", "adaptec", "cciss", "hpsa"}
    BY MethodNames, SeqParts DEF MethodsToCome
<1>2. scans # <<>> => Head(scans).rule \in {"partition", "tw_cli", "3ware", "areca", "adaptec", "cciss", "hpsa"}
    <2> SUFFICES ASSUME scans # <<>>
                 PROVE  Head(scans).rule \in {"partition", "tw_cli", "3ware", "areca", "adaptec", "cciss", "hpsa"}
        OBVIOUS
    <2>1. PICK method \in Range(Methods) \ Range(methods) : GoodScans(method, scans)
        BY DEF ScansToCome
    <2>2. OfMethod(method, Head(scans))
        BY <2>1, TailsOfScans
    <2> QED
        BY <2>1, <2>2, MethodNames DEF OfMethod
<1>3. ~(ScanOpen \/ PhysicalDrives \/ TwCliControllers \/ ArecaTools \/ DeviceNodes)
    BY <1>1 DEF ScanOpen, PhysicalDrives, TwCliControllers, ArecaTools, DeviceNodes, Method
<1>4. ~(FetchOpen \/ SkipUsed \/ CannotOpen \/ ProbePhysical \/ TwCliPorts \/ ArecaPresence \/ ArecaCli \/ ArecaExpanders)
    BY <1>2 DEF FetchOpen, SkipUsed, CannotOpen, ProbePhysical, TwCliPorts, ArecaPresence, ArecaCli, ArecaExpanders,
       InScan
<1> QED
    BY <1>3, <1>4 DEF OtherMethods

LEMMA StepsOfOthers ==
    ASSUME NodesOnce, OtherMethods \/ StartMethod \/ Probe \/ ProbeAdaptec \/ AskTwCli
    PROVE  DeviceNodes
<1>1. methods # <<>> => Head(methods) = "dev"
    BY DEF NodesOnce
<1>2. scans = <<>>
    BY DEF NodesOnce
<1>3. ~(ScanOpen \/ PhysicalDrives \/ TwCliControllers \/ ArecaTools)
    BY <1>1 DEF ScanOpen, PhysicalDrives, TwCliControllers, ArecaTools, Method
<1>4. ~(FetchOpen \/ SkipUsed \/ CannotOpen \/ ProbePhysical \/ TwCliPorts \/ ArecaPresence \/ ArecaCli \/ ArecaExpanders)
    BY <1>2 DEF FetchOpen, SkipUsed, CannotOpen, ProbePhysical, TwCliPorts, ArecaPresence, ArecaCli, ArecaExpanders,
       InScan
<1>5. ~(Probe \/ ProbeAdaptec \/ AskTwCli)
    BY <1>2 DEF Probe, ProbeAdaptec, AskTwCli, InScan
<1>6. ~StartMethod
    BY <1>1, MethodNames DEF StartMethod
<1> QED
    BY <1>3, <1>4, <1>5, <1>6 DEF OtherMethods

\* The drives of nodes.
NodeDrives(nodes) == {NewDrive(n.dev, <<>>, FALSE) : n \in nodes}

LEMMA ListedNodes ==
    ASSUME NEW nodes
    PROVE  LET new == NodeDrives(nodes)
           IN  /\ \A d \in new : \E n \in nodes : Address(d) = <<n.dev, <<>>>>
               /\ \A n \in nodes : \E d \in new : Address(d) = <<n.dev, <<>>>>
               /\ \A d, e \in new : Address(d) = Address(e) => d = e
<1> DEFINE D(dev) == NewDrive(dev, <<>>, FALSE)
           new == {D(n.dev) : n \in nodes}
<1>1. \A dev : Address(D(dev)) = <<dev, <<>>>>
    BY AddressOfNew
<1>2. \A p, q : <<p, <<>>>> = <<q, <<>>>> => p = q
    OBVIOUS
<1> HIDE DEF D
<1>3. ASSUME NEW d \in new PROVE \E n \in nodes : d = D(n.dev) /\ Address(d) = <<n.dev, <<>>>>
    BY <1>1
<1>4. ASSUME NEW n \in nodes PROVE D(n.dev) \in new /\ Address(D(n.dev)) = <<n.dev, <<>>>>
    BY <1>1
<1> HIDE DEF new
<1>5. ASSUME NEW d \in new, NEW e \in new, Address(d) = Address(e) PROVE d = e
    <2>1. PICK m \in nodes : d = D(m.dev) /\ Address(d) = <<m.dev, <<>>>>
        BY <1>3
    <2>2. PICK n \in nodes : e = D(n.dev) /\ Address(e) = <<n.dev, <<>>>>
        BY <1>3
    <2>3. m.dev = n.dev
        BY <1>2, <1>5, <2>1, <2>2
    <2> QED
        BY <2>1, <2>2, <2>3
<1>6. /\ \A d \in new : \E n \in nodes : Address(d) = <<n.dev, <<>>>>
      /\ \A n \in nodes : \E d \in new : Address(d) = <<n.dev, <<>>>>
      /\ \A d, e \in new : Address(d) = Address(e) => d = e
    BY <1>3, <1>4, <1>5
<1> QED
    BY <1>6, Zenon DEF NodeDrives, new, D

\* The nodes are found once.
LEMMA DeviceNodesOnce ==
    ASSUME NodesOnce, Unrepeated(found), DeviceNodes
    PROVE  NodesOnce' /\ Unrepeated(found')
<1> DEFINE new == NodeDrives(KeptNodes(machine))
<1>1. methods # <<>> /\ methods' = Tail(methods) /\ scans' = <<>>
    BY DEF DeviceNodes, Method, GoOn
<1>2. found' = found \/ found' = SetToBag(new)
    BY Zenon DEF DeviceNodes, NodeDrives
<1>3. methods' = <<>>
    BY <1>1 DEF NodesOnce
<1>4. \A d, e \in new : Address(d) = Address(e) => d = e
    BY ListedNodes
<1> HIDE DEF new
<1>5. DOMAIN SetToBag(new) = new /\ \A d \in new : SetToBag(new)[d] = 1
    BY DEF SetToBag
<1>6. Unrepeated(SetToBag(new))
    BY <1>4, <1>5 DEF Unrepeated
<1> QED
    BY <1>1, <1>2, <1>3, <1>6 DEF NodesOnce

\* The scan ends: others have added devices only.
LEMMA FinishOnce ==
    ASSUME NEW A, DOMAIN A \subseteq Manual, NEW B, Unrepeated(B), list' = A (+) Wanted(B)
    PROVE  ListedOnce'
<1>1. DOMAIN list' = DOMAIN A \cup DOMAIN Wanted(B) /\ DOMAIN Wanted(B) \subseteq DOMAIN B
    BY DEF (+), Wanted
<1>2. ASSUME NEW d \in DOMAIN list', Address(d) \notin ManualAddresses PROVE d \notin DOMAIN A /\ d \in DOMAIN Wanted(B)
    BY <1>1, <1>2 DEF ManualAddresses
<1>3. ASSUME NEW d \in DOMAIN list', Address(d) \notin ManualAddresses PROVE list'[d] = 1
    <2>1. d \notin DOMAIN A /\ d \in DOMAIN Wanted(B) /\ d \in DOMAIN B
        BY <1>1, <1>2, <1>3
    <2>2. Wanted(B)[d] = B[d]
        BY <2>1 DEF Wanted
    <2>3. B[d] = 1
        BY <2>1 DEF Unrepeated
    <2>4. list'[d] = 0 + Wanted(B)[d]
        BY <2>1 DEF (+)
    <2> QED
        BY <2>2, <2>3, <2>4
<1>4. ASSUME NEW d \in DOMAIN list', Address(d) \notin ManualAddresses, NEW e \in DOMAIN list', Address(e) = Address(d)
      PROVE  e = d
    <2>1. d \in DOMAIN B /\ e \in DOMAIN B
        BY <1>1, <1>2, <1>4
    <2> QED
        BY <1>4, <2>1 DEF Unrepeated
<1>5. \A d \in DOMAIN list' :
          Address(d) \in ManualAddresses \/
          (list'[d] = 1 /\ \A e \in DOMAIN list' : Address(e) = Address(d) => e = d)
    BY <1>3, <1>4
<1> QED
    BY <1>5 DEF ListedOnce

\* The user adds a device.
LEMMA AddingOnce ==
    ASSUME ListedOnce, NEW a \in Manual, list' = list (+) One(a)
    PROVE  ListedOnce'
<1>1. DOMAIN list' = DOMAIN list \cup {a}
    BY AddedToBag DEF One
<1>2. Address(a) \in ManualAddresses
    BY DEF ManualAddresses
<1>3. ASSUME NEW d \in DOMAIN list', Address(d) \notin ManualAddresses
      PROVE  /\ d \in DOMAIN list /\ d # a /\ list[d] = 1
             /\ \A e \in DOMAIN list : Address(e) = Address(d) => e = d
    BY <1>1, <1>2, <1>3 DEF ListedOnce
<1>4. ASSUME NEW d \in DOMAIN list', Address(d) \notin ManualAddresses PROVE list'[d] = 1
    <2>1. d \in DOMAIN list /\ d \notin {a} /\ list[d] = 1
        BY <1>3, <1>4
    <2>2. DOMAIN One(a) = {a}
        BY SetIsBag DEF One
    <2>3. list'[d] = list[d] + 0
        BY <2>1, <2>2 DEF (+)
    <2> QED
        BY <2>1, <2>3
<1>5. ASSUME NEW d \in DOMAIN list', Address(d) \notin ManualAddresses, NEW e \in DOMAIN list', Address(e) = Address(d)
      PROVE  e = d
    BY <1>1, <1>2, <1>3, <1>5
<1>6. \A d \in DOMAIN list' :
          Address(d) \in ManualAddresses \/
          (list'[d] = 1 /\ \A e \in DOMAIN list' : Address(e) = Address(d) => e = d)
    BY <1>4, <1>5
<1> QED
    BY <1>6 DEF ListedOnce

\* A step of a scan: the cache has no other files, and no address is found twice.
LEMMA DetectingOnce ==
    ASSUME BagInv, GhostInv, OnceInv, OtherMethods \/ StartMethod \/ Probe \/ ProbeAdaptec \/ AskTwCli
    PROVE  OnceInv'
<1>1. pc = "detect" /\ UNCHANGED <<pc, list, status>>
    BY DetectingFinds, InDetection DEF Detecting
<1>2. UNCHANGED machine /\ (UNCHANGED cache \/ \E files : cache' = [f \in files |-> Source(f)])
    <2>1. CASE OtherMethods
        <3>1. UNCHANGED cache
            BY <2>1 DEF OtherMethods, ScanOpen, FetchOpen, PhysicalDrives, SkipUsed, CannotOpen, ProbePhysical,
               TwCliControllers, TwCliPorts, ArecaTools, ArecaPresence, ArecaCli, ArecaExpanders, DeviceNodes, restVars
        <3> QED
            BY <2>1, <3>1, KnownStays
    <2>2. CASE StartMethod
        BY <2>2 DEF StartMethod
    <2>3. CASE Probe \/ ProbeAdaptec \/ AskTwCli
        BY <2>3 DEF Probe, ProbeAdaptec, AskTwCli
    <2> QED
        BY <2>1, <2>2, <2>3
<1>3. SameSystem'
    <2>1. CASE UNCHANGED cache
        BY <1>2, <2>1 DEF OnceInv, SameSystem
    <2>2. CASE \E files : cache' = [f \in files |-> Source(f)]
        <3>1. \A f : Source(f) \in DOMAIN Hardware /\ Hardware[Source(f)].system = Hardware[machine].system
            BY DEF OnceInv, SameSystem, Source
        <3>2. \A f \in DOMAIN cache' : cache'[f] = Source(f)
            BY <2>2
        <3> QED
            BY <1>2, <3>1, <3>2 DEF SameSystem
    <2> QED
        BY <1>2, <2>1, <2>2
<1>4. ASSUME Hardware[machine].system = "linux" PROVE Turns' /\ Unrepeated(found')
    <2>1. Turns /\ Unrepeated(found) /\ AreFiles(Contents)
        BY <1>1, <1>4, ContentsAreFiles DEF OnceInv
    <2>2. ~OtherMethods
        BY <2>1, StepsOfLinux DEF Turns
    <2>3. CASE StartMethod
        <3>1. UNCHANGED found
            BY <2>3 DEF StartMethod
        <3> QED
            BY <2>1, <2>3, <3>1, StartMethodTurns
    <2>4. CASE Probe
        BY <2>1, <2>4, ProbeTurns
    <2>5. CASE ProbeAdaptec
        BY <2>1, <2>5, ProbeAdaptecTurns
    <2>6. CASE AskTwCli
        BY <2>1, <2>6, AskTwCliTurns
    <2> QED
        BY <2>2, <2>3, <2>4, <2>5, <2>6
<1>5. ASSUME Hardware[machine].system = "other" PROVE NodesOnce' /\ Unrepeated(found')
    <2>1. NodesOnce /\ Unrepeated(found)
        BY <1>1, <1>5 DEF OnceInv
    <2> QED
        BY <2>1, StepsOfOthers, DeviceNodesOnce
<1>6. Hardware[machine].system \in {"linux", "windows", "other"}
    BY HardwareAssumption DEF OnceInv, WellFormed
<1>7. machine' \in DOMAIN Hardware /\ NoAddressTwice'
    BY <1>1, <1>2 DEF OnceInv, NoAddressTwice
<1> QED
    BY <1>2, <1>3, <1>4, <1>5, <1>6, <1>7 DEF OnceInv

\* A scan starts with nothing.
LEMMA BeginOnce ==
    ASSUME GhostInv, OnceInv, Begin
    PROVE  OnceInv'
<1>1. /\ pc' = "detect" /\ cache' = <<>> /\ methods' = MethodsOf(Hardware[machine].system) /\ scans' = <<>>
      /\ found' = EmptyBag /\ UNCHANGED machine
    BY DEF Begin
<1>2. DOMAIN found' = {}
    BY <1>1, SetIsBag DEF EmptyBag
<1>3. Unrepeated(found')
    BY <1>2 DEF Unrepeated
<1>4. ASSUME Hardware[machine].system = "linux" PROVE Turns'
    <2>1. methods' = Methods
        BY <1>1, <1>4 DEF MethodsOf
    <2>2. IsSeq(Methods)
        <3>1. Methods \in Seq({"partitions", "3ware", "areca", "adaptec", "cciss", "hpsa"})
            BY DEF Methods
        <3> QED
            BY <3>1, SeqIsOfRange
    <2>3. \A i, j \in DOMAIN Methods : Methods[i] = Methods[j] => i = j
        BY DEF Methods
    <2>4. MethodsToCome'
        BY <1>2, <2>1, <2>2, <2>3 DEF MethodsToCome
    <2> QED
        BY <1>1, <2>4 DEF Turns
<1>5. Hardware[machine].system = "other" => NodesOnce'
    BY <1>1 DEF NodesOnce, MethodsOf
<1>6. SameSystem' /\ NoAddressTwice'
    BY <1>1 DEF SameSystem, NoAddressTwice
<1> QED
    BY <1>1, <1>3, <1>4, <1>5, <1>6 DEF OnceInv

\* What has been found stays so while nothing changes.
LEMMA OnceStays ==
    ASSUME OnceInv, UNCHANGED <<machine, cache, methods, scans, port, found>>, pc' = "detect" => pc = "detect",
           NoAddressTwice'
    PROVE  OnceInv'
<1>1. SameSystem' <=> SameSystem
    BY DEF SameSystem
<1>2. pc' = "detect" => (Turns <=> Turns') /\ (NodesOnce <=> NodesOnce')
    BY DEF Turns, MethodsToCome, ScansToCome, NodesOnce
<1> QED
    BY <1>1, <1>2 DEF OnceInv

LEMMA OnceInvPreserved == BagInv /\ GhostInv /\ OnceInv /\ [AnyNext]_allVars => OnceInv'
<1> SUFFICES ASSUME BagInv, GhostInv, OnceInv, [AnyNext]_allVars PROVE OnceInv'
    OBVIOUS
<1>1. CASE Begin
    BY <1>1, BeginOnce
<1>2. CASE OtherMethods \/ StartMethod \/ Probe \/ ProbeAdaptec \/ AskTwCli
    BY <1>2, DetectingOnce
<1>3. CASE SettingThrows \/ FinishFailed \/ FetchEnds
    <2>1. /\ UNCHANGED <<machine, cache, methods, scans, port, found>> /\ pc' # "detect"
          /\ ~(pc' = "idle" /\ status' = "ok")
        BY <1>3 DEF SettingThrows, FinishFailed, FetchEnds, detectVars
    <2>2. NoAddressTwice'
        BY <2>1 DEF NoAddressTwice
    <2> QED
        BY <2>1, <2>2, OnceStays
<1>4. CASE Finish
    <2>1. /\ UNCHANGED <<machine, cache, methods, scans, port, found>> /\ pc = "detect" /\ pc' = "idle"
          /\ list' = list (+) Wanted(found)
        BY <1>4 DEF Finish, Detected, detectVars
    <2>2. Hardware[machine].system # "windows" => ListedOnce'
        BY <2>1, FinishOnce DEF OnceInv, GhostInv
    <2>3. NoAddressTwice'
        BY <2>1, <2>2 DEF NoAddressTwice
    <2> QED
        BY <2>1, <2>3, OnceStays
<1>5. CASE \E d \in left : FetchDrive(d)
    <2>1. UNCHANGED <<machine, cache, methods, scans, port, found, pc>> /\ pc = "fetch"
        BY <1>5 DEF FetchDrive, detectVars
    <2>2. NoAddressTwice'
        BY <2>1 DEF NoAddressTwice
    <2> QED
        BY <2>1, <2>2, OnceStays
<1>6. CASE \E d \in Manual : UserAdds(d)
    <2>1. PICK d \in Manual : UserAdds(d)
        BY <1>6
    <2>2. /\ list' = list (+) One(d) /\ UNCHANGED <<machine, cache, methods, scans, port, found, status>>
          /\ pc' = pc \/ pc' = "dead"
        BY <2>1 DEF UserAdds, detectVars
    <2>3. ListedOnce => ListedOnce'
        BY <2>2, AddingOnce
    <2>4. NoAddressTwice'
        BY <2>2, <2>3 DEF OnceInv, NoAddressTwice
    <2> QED
        BY <2>2, <2>4, OnceStays
<1>7. CASE Replug
    <2>1. /\ machine' \in DOMAIN Hardware /\ Hardware[machine'].system = Hardware[machine].system
          /\ UNCHANGED <<pc, cache, methods, scans, port, found, list, status>>
        BY <1>7 DEF Replug, detectVars, listVars
    <2>2. SameSystem'
        BY <2>1 DEF OnceInv, SameSystem
    <2>3. (Turns <=> Turns') /\ (NodesOnce <=> NodesOnce')
        BY <2>1 DEF Turns, MethodsToCome, ScansToCome, NodesOnce
    <2>4. ListedOnce <=> ListedOnce'
        BY <2>1 DEF ListedOnce
    <2> QED
        BY <2>1, <2>2, <2>3, <2>4 DEF OnceInv, NoAddressTwice
<1>8. CASE UNCHANGED allVars
    <2>1. UNCHANGED <<machine, cache, methods, scans, port, found, pc, list, status>>
        BY <1>8 DEF allVars, vars, detectVars, listVars
    <2>2. NoAddressTwice'
        BY <2>1 DEF OnceInv, NoAddressTwice, ListedOnce
    <2> QED
        BY <2>1, <2>2, OnceStays
<1> QED
    BY <1>1, <1>2, <1>3, <1>4, <1>5, <1>6, <1>7, <1>8 DEF AnyNext, AnyProgram, Program

\* On every machine with Linux or a BSD, whatever its files say, whatever fails and whatever
\* is replugged meanwhile, even if files of several machines are in the cache: a scan that
\* succeeds lists no address twice but those that the user adds.
THEOREM NoAddressListedTwice == AnySpec => []NoAddressTwice
<1>1. OnceInv => NoAddressTwice
    BY DEF OnceInv
<1>2. AnySpec => [](BagInv /\ GhostInv)
    BY BagsAlways, GhostInvInitially, GhostInvPreserved, PTL DEF AnySpec
<1> QED
    BY <1>1, <1>2, OnceInvInitially, OnceInvPreserved, PTL DEF AnySpec

-----------------------------------------------------------------------------
(* If nothing goes wrong, a scan finds what the files promise.             *)

Found(a) == \E d \in DOMAIN found : Address(d) = a

\* The addresses that the current scan from its port on, and the scans after it, list.
ScansList(a) ==
    scans # <<>> /\ (a \in ListedFrom(machine, Head(scans), port) \/
                     \E scan \in Range(Tail(scans)) : a \in ListedBy(machine, scan))

\* What has been found and what is to come are the plan.
OnPlan ==
    \A a : a \in Plan(machine) <=>
               Found(a) \/ ScansList(a) \/ \E method \in Range(methods) : a \in ListedIn(machine, method)

\* A sequence is its head and its tail.
LEMMA HeadAndTail ==
    ASSUME NEW s, IsSeq(s), s # <<>>
    PROVE  Range(s) = {Head(s)} \cup Range(Tail(s))
<1>1. IsSeq(Tail(s)) /\ Range(Tail(s)) \subseteq Range(s) /\ Head(s) \in Range(s)
    BY SeqParts
<1>2. /\ s \in Seq(Range(s)) /\ Len(s) \in Nat /\ Len(s) # 0 /\ DOMAIN s = 1 .. Len(s)
      /\ Head(s) = s[1] /\ DOMAIN Tail(s) = 1 .. Len(s) - 1
      /\ \A i \in 1 .. Len(s) - 1 : Tail(s)[i] = s[i + 1]
    BY DEF IsSeq
<1>3. ASSUME NEW x \in Range(s), x # Head(s) PROVE x \in Range(Tail(s))
    <2>1. PICK i \in DOMAIN s : s[i] = x
        BY InRange
    <2>2. i - 1 \in 1 .. Len(s) - 1 /\ (i - 1) + 1 = i
        BY <1>2, <1>3, <2>1
    <2>3. i - 1 \in DOMAIN Tail(s) /\ Tail(s)[i - 1] = s[(i - 1) + 1]
        BY <1>2, <2>2
    <2> QED
        BY <2>1, <2>2, <2>3, InRange
<1> QED
    BY <1>1, <1>3

\* A command that did not fail has printed what it prints.
LEMMA FetchedIsSettled ==
    ASSUME NEW dev, NEW type, NEW got \in Fetched(dev, type), got.reply # "nothing"
    PROVE  got = Settled(machine, dev, type)
<1>1. \A t : \A reply \in Replies(dev, t) : reply = "nothing" \/ reply = ReplyOf(machine, dev, t)
    BY DEF Replies, Reply
<1>2. PICK reply \in Replies(dev, type) :
          got \in IF reply = "needsType" /\ type = <<>>
                  THEN {[type |-> <<"scsi">>, reply |-> again] : again \in Replies(dev, <<"scsi">>)}
                  ELSE {[type |-> type, reply |-> reply]}
    BY DEF Fetched
<1>3. CASE reply = "needsType" /\ type = <<>>
    <2>1. PICK again \in Replies(dev, <<"scsi">>) : got = [type |-> <<"scsi">>, reply |-> again]
        BY <1>2, <1>3
    <2>2. again = ReplyOf(machine, dev, <<"scsi">>)
        BY <1>1, <2>1
    <2>3. ReplyOf(machine, dev, type) = "needsType"
        BY <1>1, <1>3
    <2> QED
        BY <1>3, <2>1, <2>2, <2>3 DEF Settled
<1>4. CASE ~(reply = "needsType" /\ type = <<>>)
    <2>1. got = [type |-> type, reply |-> reply]
        BY <1>2, <1>4
    <2>2. reply = ReplyOf(machine, dev, type)
        BY <1>1, <2>1
    <2> QED
        BY <1>4, <2>1, <2>2 DEF Settled
<1> QED
    BY <1>3, <1>4

\* The ports from one on: none if it ends the loop, else it and the ports from the next on.
LEMMA PortsOn ==
    ASSUME NEW m, NEW scan, scan.to \in Int, NEW n \in Int
    PROVE  \A p : p \in PortsFrom(m, scan, n) <=>
                      /\ ~Stops(scan.rule, n, AtPort(m, scan, n).reply)
                      /\ p = n \/ (~(n >= scan.to) /\ p \in PortsFrom(m, scan, n + 1))
<1> DEFINE Ends(q) == Stops(scan.rule, q, AtPort(m, scan, q).reply)
           last(k) == IF scan.to < k THEN k ELSE scan.to
<1>1. \A k, p : p \in PortsFrom(m, scan, k) <=> p \in k .. last(k) /\ \A q \in k .. p : ~Ends(q)
    BY DEF PortsFrom
<1>2. last(n) \in Int /\ last(n) >= n /\ n + 1 \in Int /\ last(n + 1) \in Int
    OBVIOUS
<1>3. ASSUME n >= scan.to PROVE last(n) = n
    BY <1>3
<1>4. ASSUME ~(n >= scan.to) PROVE last(n) = scan.to /\ last(n + 1) = scan.to /\ scan.to >= n + 1
    BY <1>4
<1> HIDE DEF Ends, last
<1>5. ASSUME NEW p, p \in PortsFrom(m, scan, n)
      PROVE  ~Ends(n) /\ (p = n \/ (~(n >= scan.to) /\ p \in PortsFrom(m, scan, n + 1)))
    <2>1. p \in n .. last(n) /\ \A q \in n .. p : ~Ends(q)
        BY <1>1, <1>5
    <2>2. ~Ends(n)
        BY <2>1
    <2>3. CASE p # n
        <3>1. p \in n + 1 .. last(n) /\ \A q \in n + 1 .. p : q \in n .. p
            BY <1>2, <2>1, <2>3
        <3>2. ~(n >= scan.to)
            BY <1>2, <1>3, <3>1
        <3> QED
            BY <1>1, <1>4, <2>1, <2>2, <3>1, <3>2
    <2> QED
        BY <2>2, <2>3
<1>6. ASSUME ~Ends(n) PROVE n \in PortsFrom(m, scan, n)
    <2>1. n \in n .. last(n) /\ \A q \in n .. n : q = n
        BY <1>2
    <2> QED
        BY <1>1, <1>6, <2>1
<1>7. ASSUME ~Ends(n), ~(n >= scan.to), NEW p \in PortsFrom(m, scan, n + 1) PROVE p \in PortsFrom(m, scan, n)
    <2>1. p \in n + 1 .. scan.to /\ \A q \in n + 1 .. p : ~Ends(q)
        BY <1>1, <1>4, <1>7
    <2>2. p \in n .. scan.to /\ \A q \in n .. p : q = n \/ q \in n + 1 .. p
        BY <2>1
    <2> QED
        BY <1>1, <1>4, <1>7, <2>1, <2>2
<1>8. \A p : p \in PortsFrom(m, scan, n) <=>
                 ~Ends(n) /\ (p = n \/ (~(n >= scan.to) /\ p \in PortsFrom(m, scan, n + 1)))
    BY <1>5, <1>6, <1>7
<1> QED
    BY <1>8 DEF Ends

\* So are the addresses.
LEMMA AnsweringOn ==
    ASSUME NEW m, NEW scan, scan.to \in Int, NEW n \in Int
    PROVE  \A a : a \in AnsweringFrom(m, scan, n) <=>
                      /\ ~Stops(scan.rule, n, AtPort(m, scan, n).reply)
                      /\ \/ /\ ~(scan.rule = "partition" /\ AtPort(m, scan, n).reply = "raid")
                            /\ a = <<scan.dev, AtPort(m, scan, n).type>>
                         \/ ~(n >= scan.to) /\ a \in AnsweringFrom(m, scan, n + 1)
<1> DEFINE Kept(q) == ~(scan.rule = "partition" /\ AtPort(m, scan, q).reply = "raid")
           At(q) == <<scan.dev, AtPort(m, scan, q).type>>
           ends == Stops(scan.rule, n, AtPort(m, scan, n).reply)
<1>1. \A k, a : a \in AnsweringFrom(m, scan, k) <=> \E p : p \in PortsFrom(m, scan, k) /\ Kept(p) /\ a = At(p)
    BY DEF AnsweringFrom
<1>2. \A p : p \in PortsFrom(m, scan, n) <=> ~ends /\ (p = n \/ (~(n >= scan.to) /\ p \in PortsFrom(m, scan, n + 1)))
    BY PortsOn
<1> HIDE DEF Kept, At, ends
<1>3. \A a : a \in AnsweringFrom(m, scan, n) <=>
                 ~ends /\ ((Kept(n) /\ a = At(n)) \/ (~(n >= scan.to) /\ a \in AnsweringFrom(m, scan, n + 1)))
    BY <1>1, <1>2
<1> QED
    BY <1>3 DEF Kept, At, ends

\* After a step that goes on with scans, they are what is to come.
LEMMA GoneOn ==
    ASSUME UNCHANGED machine, NEW s, IsSeq(s), GoOn(s)
    PROVE  \A a : ScansList(a)' <=> \E scan \in Range(s) : a \in ListedBy(machine, scan)
<1>1. scans' = s /\ (s # <<>> => port' = Head(s).from)
    BY DEF GoOn
<1>2. CASE s = <<>>
    BY <1>1, <1>2, SmallSeqs DEF ScansList
<1>3. CASE s # <<>>
    <2>1. Range(s) = {Head(s)} \cup Range(Tail(s))
        BY <1>3, HeadAndTail
    <2> QED
        BY <1>1, <1>3, <2>1 DEF ScansList, ListedBy
<1> QED
    BY <1>2, <1>3

\* What a step finds leaves the plan: nothing is lost, nothing is added.
LEMMA StaysOnPlan ==
    ASSUME OnPlan, UNCHANGED <<machine, methods>>, \A a : Found(a)' \/ ScansList(a)' <=> Found(a) \/ ScansList(a)
    PROVE  OnPlan'
BY DEF OnPlan

LEMMA AddedIsFound ==
    ASSUME NEW new, found' = found (+) SetToBag(new) \/ (found' = found /\ new = {})
    PROVE  \A a : Found(a)' <=> Found(a) \/ \E d \in new : Address(d) = a
<1>1. DOMAIN found' = DOMAIN found \cup new
    BY AddedToBag
<1>2. \A d : Address(d)' = Address(d)
    BY DEF Address
<1> QED
    BY <1>1, <1>2 DEF Found

\* On Linux the scans are a sequence.
LEMMA TurnsAreSeq ==
    ASSUME Turns
    PROVE  /\ IsSeq(scans)
           /\ scans # <<>> => IsSeq(Tail(scans)) /\ Head(scans).to \in Int /\ port \in Int
<1>1. CASE scans = <<>>
    BY <1>1, SmallSeqs
<1>2. CASE scans # <<>>
    <2>1. PICK method \in Range(Methods) \ Range(methods) : GoodScans(method, scans)
        BY <1>2 DEF Turns, ScansToCome
    <2> QED
        BY <1>2, <2>1, TailsOfScans DEF GoodScans, OfMethod, Turns, ScansToCome
<1> QED
    BY <1>1, <1>2

Asked == {"partition", "3ware", "areca", "cciss", "hpsa"}

\* With the next port, the rest of the scan is to come unless it ends here.
LEMMA NextPortOnPlan ==
    ASSUME IsSeq(scans), UNCHANGED machine, scans # <<>>, Head(scans).rule \in Asked,
           Head(scans).to \in Int, port \in Int,
           NextPort(Stops(Head(scans).rule, port, AtPort(machine, Head(scans), port).reply))
    PROVE  LET got == AtPort(machine, Head(scans), port) IN
           \A a : ScansList(a) <=>
                      \/ ScansList(a)'
                      \/ /\ ~Stops(Head(scans).rule, port, got.reply)
                         /\ ~(Head(scans).rule = "partition" /\ got.reply = "raid")
                         /\ a = <<Head(scans).dev, got.type>>
<1> DEFINE scan == Head(scans)
           got == AtPort(machine, scan, port)
           stop == Stops(scan.rule, port, got.reply)
           keep == ~(scan.rule = "partition" /\ got.reply = "raid")
           here == <<scan.dev, got.type>>
           From(n) == AnsweringFrom(machine, scan, n)
           Later(a) == \E s \in Range(Tail(scans)) : a \in ListedBy(machine, s)
<1>1. IsSeq(Tail(scans))
    BY SeqParts
<1>2. scan.to \in Int /\ port \in Int
    OBVIOUS
<1>3. \A n : ListedFrom(machine, scan, n) = From(n)
    BY DEF ListedFrom, Asked
<1>4. \A a : a \in From(port) <=> ~stop /\ ((keep /\ a = here) \/ (~(port >= scan.to) /\ a \in From(port + 1)))
    BY <1>2, AnsweringOn
<1>5. \A a : ScansList(a) <=> a \in From(port) \/ Later(a)
    BY <1>3 DEF ScansList
<1>6. CASE stop \/ port >= scan.to
    <2>1. GoOn(Tail(scans))
        BY <1>6 DEF NextPort
    <2>2. \A a : ScansList(a)' <=> Later(a)
        BY <1>1, <2>1, GoneOn
    <2> HIDE DEF stop, keep, here, From, Later
    <2>3. \A a : ScansList(a) <=> ScansList(a)' \/ (~stop /\ keep /\ a = here)
        BY <1>4, <1>5, <1>6, <2>2
    <2> QED
        BY <2>3 DEF stop, keep, here, From, Later
<1>7. CASE ~(stop \/ port >= scan.to)
    <2>1. port' = port + 1 /\ UNCHANGED scans
        BY <1>7 DEF NextPort
    <2>2. \A a : ScansList(a)' <=> a \in From(port + 1) \/ Later(a)
        <3>1. \A a : ScansList(a)' <=> a \in ListedFrom(machine, scan, port + 1) \/ Later(a)
            BY <2>1 DEF ScansList
        <3> QED
            BY <1>3, <3>1
    <2> HIDE DEF stop, keep, here, From, Later
    <2>3. \A a : ScansList(a) <=> ScansList(a)' \/ (~stop /\ keep /\ a = here)
        BY <1>4, <1>5, <1>7, <2>2
    <2> QED
        BY <2>3 DEF stop, keep, here, From, Later
<1> QED
    BY <1>6, <1>7

LEMMA ProbeOnPlan ==
    ASSUME Turns, OnPlan, Probe, smooth'
    PROVE  OnPlan'
<1> DEFINE scan == Head(scans)
<1>1. /\ scans # <<>> /\ scan.rule \in {"partition", "3ware", "areca", "cciss", "hpsa"}
      /\ UNCHANGED <<machine, methods>>
    BY DEF Probe, InScan
<1>2. PICK got \in Fetched(scan.dev, TypeAt(scan, port)) :
          /\ found' = IF /\ ~Stops(scan.rule, port, got.reply) /\ got.reply # "nothing"
                         /\ ~(scan.rule = "partition" /\ got.reply = "raid")
                      THEN found (+) One(NewDrive(scan.dev, got.type, TRUE)) ELSE found
          /\ Note(got.reply = "nothing")
          /\ NextPort(Stops(scan.rule, port, got.reply))
    BY Zenon DEF Probe
<1>3. got.reply # "nothing"
    BY <1>2 DEF Note
<1>4. got = AtPort(machine, scan, port)
    BY <1>3, FetchedIsSettled DEF AtPort
<1> DEFINE keep == ~Stops(scan.rule, port, got.reply) /\ ~(scan.rule = "partition" /\ got.reply = "raid")
           d0 == NewDrive(scan.dev, got.type, TRUE)
           here == <<scan.dev, got.type>>
           new == IF keep THEN {d0} ELSE {}
<1>5. found' = found (+) SetToBag(new) \/ (found' = found /\ new = {})
    BY <1>2, <1>3 DEF One
<1>6. Address(d0) = here
    BY AddressOfNew
<1>7. \A a : ScansList(a) <=> ScansList(a)' \/ (keep /\ a = here)
    BY <1>1, <1>2, <1>4, TurnsAreSeq, NextPortOnPlan DEF Asked
<1> HIDE DEF keep, d0, here
<1>8. \A a : (\E d \in new : Address(d) = a) <=> keep /\ a = here
    BY <1>6
<1> HIDE DEF new
<1>9. \A a : Found(a)' <=> Found(a) \/ (keep /\ a = here)
    BY <1>5, <1>8, AddedIsFound
<1> QED
    BY <1>1, <1>7, <1>9, StaysOnPlan

LEMMA ProbeAdaptecOnPlan ==
    ASSUME Turns, OnPlan, ProbeAdaptec, smooth'
    PROVE  OnPlan'
<1> DEFINE scan == Head(scans)
           dev == scan.dev
           sat == Settled(machine, dev, <<"sat">>)
           last == IF sat.reply = "identityFailed" THEN Settled(machine, dev, <<>>) ELSE sat
<1>1. scans # <<>> /\ scan.rule = "adaptec" /\ UNCHANGED <<machine, methods>> /\ NextPort(FALSE)
    BY DEF ProbeAdaptec, InScan
<1>2. PICK first \in Fetched(dev, <<"sat">>) :
          \E got \in IF first.reply = "identityFailed" THEN Fetched(dev, <<>>) ELSE {first} :
             /\ found' = IF got.reply # "nothing" THEN found (+) One(NewDrive(dev, got.type, TRUE)) ELSE found
             /\ Note(got.reply = "nothing")
    BY Zenon DEF ProbeAdaptec
<1>3. PICK got \in IF first.reply = "identityFailed" THEN Fetched(dev, <<>>) ELSE {first} :
             /\ found' = IF got.reply # "nothing" THEN found (+) One(NewDrive(dev, got.type, TRUE)) ELSE found
             /\ Note(got.reply = "nothing")
    BY <1>2
<1>4. got.reply # "nothing"
    BY <1>3 DEF Note
<1>5. first.reply # "nothing"
    BY <1>3, <1>4
<1>6. got = last
    <2>1. first = sat
        BY <1>5, FetchedIsSettled
    <2> QED
        BY <1>3, <1>4, <2>1, FetchedIsSettled
<1> DEFINE d0 == NewDrive(dev, got.type, TRUE)
           here == <<dev, got.type>>
           Later(a) == \E s \in Range(Tail(scans)) : a \in ListedBy(machine, s)
           new == {d0}
<1>7. found' = found (+) SetToBag(new)
    BY <1>3, <1>4 DEF One
<1>8. Address(d0) = here
    BY AddressOfNew
<1>9. ListedFrom(machine, scan, port) = {here}
    BY <1>1, <1>6 DEF ListedFrom
<1>10. GoOn(Tail(scans))
    <2>1. port >= Head(scans).to
        BY <1>1 DEF Turns, ScansToCome
    <2> QED
        BY <1>1, <2>1 DEF NextPort
<1>11. \A a : ScansList(a)' <=> Later(a)
    BY <1>1, <1>10, TurnsAreSeq, GoneOn
<1>12. \A a : ScansList(a) <=> a = here \/ Later(a)
    BY <1>1, <1>9 DEF ScansList
<1> HIDE DEF d0, here, Later
<1>13. \A a : (\E d \in new : Address(d) = a) <=> a = here
    BY <1>8
<1> HIDE DEF new
<1>14. \A a : Found(a)' <=> Found(a) \/ a = here
    BY <1>7, <1>13, AddedIsFound
<1> QED
    BY <1>1, <1>11, <1>12, <1>14, StaysOnPlan

LEMMA AskTwCliOnPlan ==
    ASSUME Turns, OnPlan, AskTwCli, smooth'
    PROVE  OnPlan'
<1> DEFINE scan == Head(scans)
           Later(a) == \E s \in Range(Tail(scans)) : a \in ListedBy(machine, s)
           Now(a) == a \in ListedFrom(machine, scan, port)
<1>1. scans # <<>> /\ scan.rule = "tw_cli" /\ UNCHANGED <<machine, methods>>
    BY DEF AskTwCli, InScan
<1>2. \A a : ScansList(a) <=> Now(a) \/ Later(a)
    BY <1>1 DEF ScansList
<1>3. CASE /\ scan.host \in DOMAIN Hardware[machine].twCli
           /\ found' = found (+) SetToBag({NewDrive(scan.dev, <<"3ware", p>>, FALSE) :
                                             p \in Hardware[machine].twCli[scan.host]})
           /\ GoOn(Tail(scans))
    <2> DEFINE ports == Hardware[machine].twCli[scan.host]
               new == ListedDrives(scan.dev, ports)
    <2>1. found' = found (+) SetToBag(new)
        BY <1>3 DEF ListedDrives
    <2>2. \A a : Now(a) <=> \E p \in ports : a = <<scan.dev, <<"3ware", p>>>>
        BY <1>1, <1>3 DEF ListedFrom
    <2>3. \A a : ScansList(a)' <=> Later(a)
        BY <1>1, <1>3, TurnsAreSeq, GoneOn
    <2> HIDE DEF ports, Later, Now
    <2>4. /\ \A d \in new : \E p \in ports : Address(d) = <<scan.dev, <<"3ware", p>>>>
          /\ \A p \in ports : \E d \in new : Address(d) = <<scan.dev, <<"3ware", p>>>>
        BY ListedPorts
    <2> HIDE DEF new
    <2>5. \A a : Found(a)' <=> Found(a) \/ \E d \in new : Address(d) = a
        BY <2>1, AddedIsFound
    <2>6. \A a : Now(a) <=> \E d \in new : Address(d) = a
        BY <2>2, <2>4
    <2> QED
        BY <1>1, <1>2, <2>3, <2>5, <2>6, StaysOnPlan
<1>4. CASE /\ scan.host \notin DOMAIN Hardware[machine].twCli
           /\ GoOn(<<ThreeWarePorts(scan)>> \o Tail(scans)) /\ UNCHANGED found
    <2> DEFINE ports == ThreeWarePorts(scan)
    <2>1. IsSeq(Tail(scans))
        BY <1>1, TurnsAreSeq
    <2>2. IsSeq(<<ports>> \o Tail(scans)) /\ Range(<<ports>> \o Tail(scans)) = {ports} \cup Range(Tail(scans))
        BY <2>1, SmallSeqs, SeqsJoined
    <2>3. ListedBy(machine, ports) = AnsweringFrom(machine, ports, 0)
        BY DEF ListedBy, ListedFrom, ThreeWarePorts, Scan
    <2>4. ListedFrom(machine, scan, port) = AnsweringFrom(machine, ports, 0)
        BY <1>1, <1>4 DEF ListedFrom
    <2> HIDE DEF ports
    <2>5. \A a : ScansList(a)' <=> \E s \in Range(<<ports>> \o Tail(scans)) : a \in ListedBy(machine, s)
        BY <1>1, <1>4, <2>2, GoneOn DEF ports
    <2>6. \A a : ScansList(a)' <=> Now(a) \/ Later(a)
        BY <2>2, <2>3, <2>4, <2>5
    <2>7. \A a : Found(a)' <=> Found(a)
        BY <1>4 DEF Found, Address
    <2> QED
        BY <1>1, <1>2, <2>6, <2>7, StaysOnPlan
<1>5. \/ /\ scan.host \in DOMAIN Hardware[machine].twCli
         /\ found' = found (+) SetToBag({NewDrive(scan.dev, <<"3ware", p>>, FALSE) :
                                             p \in Hardware[machine].twCli[scan.host]})
         /\ GoOn(Tail(scans))
      \/ /\ GoOn(<<ThreeWarePorts(scan)>> \o Tail(scans))
         /\ Note(scan.host \in DOMAIN Hardware[machine].twCli)
         /\ UNCHANGED found
    BY Zenon DEF AskTwCli
<1> QED
    BY <1>3, <1>4, <1>5 DEF Note

\* The files a method reads are a short list.
LEMMA FilesAreListed ==
    ASSUME NEW method \in Range(Methods), NEW files
    PROVE  DOMAIN FilesOf(method, files) \subseteq Int
<1>1. \A a, b, c : DOMAIN <<a>> \subseteq Int /\ DOMAIN <<a, b>> \subseteq Int /\ DOMAIN <<a, b, c>> \subseteq Int
    OBVIOUS
<1> QED
    BY <1>1, MethodNames DEF FilesOf

\* A method that starts lists what it was to list.
LEMMA StartMethodOnPlan ==
    ASSUME Turns, Turns', OnPlan, DOMAIN cache \cap Hardware[machine].missing = {}, StartMethod,
           Contents = FilesNow(machine), AreFiles(Contents)
    PROVE  OnPlan' /\ DOMAIN cache' \cap Hardware[machine].missing = {}
<1> DEFINE method == Head(methods)
           files == FilesOf(method, FilesNow(machine))
           missing == Hardware[machine].missing
           bad == {i \in DOMAIN files : files[i] \notin DOMAIN cache /\ files[i] \in missing}
           read == {files[i] : i \in {k \in DOMAIN files : \A j \in bad : k < j}}
           all == IF bad = {} THEN ScansOf(method, FilesNow(machine)) ELSE <<>>
<1>1. /\ scans = <<>> /\ methods # <<>> /\ method \in Range(Methods) /\ methods' = Tail(methods)
      /\ UNCHANGED <<machine, found>>
    BY DEF StartMethod
<1>2. DOMAIN cache' = DOMAIN cache \cup read /\ GoOn(all)
    BY DEF StartMethod
<1>3. DOMAIN files \subseteq Int
    BY <1>1, FilesAreListed
<1>4. bad = {} <=> Range(files) \cap missing = {}
    <2>1. \A x : x \in Range(files) <=> \E i \in DOMAIN files : files[i] = x
        BY InRange
    <2> QED
        BY <2>1
<1>5. DOMAIN cache' \cap missing = {}
    <2>1. ASSUME NEW k \in DOMAIN files, \A j \in bad : k < j, files[k] \in missing PROVE FALSE
        <3>1. k \in bad
            BY <2>1
        <3>2. k \in Int /\ k < k
            BY <1>3, <2>1, <3>1
        <3> QED
            BY <3>2
    <2> QED
        BY <1>2, <2>1
<1>6. Range(methods) = {method} \cup Range(Tail(methods))
    BY <1>1, HeadAndTail DEF Turns, MethodsToCome
<1>7. \A a : a \in ListedIn(machine, method) <=> \E scan \in Range(all) : a \in ListedBy(machine, scan)
    <2>1. method \notin {"dev", "scan-open", "physical", "3dm2", "arcmsr"}
        BY <1>1, MethodNames
    <2>2. StartOf(machine, method) = all
        BY <1>4, <2>1 DEF StartOf
    <2> QED
        BY <2>1, <2>2, Zenon DEF ListedIn
<1> HIDE DEF all, bad, read, files
<1>8. \A a : ScansList(a)' <=> a \in ListedIn(machine, method)
    <2>1. IsSeq(ScansOf(method, FilesNow(machine)))
        BY <1>1, MethodScans DEF GoodScans
    <2>2. IsSeq(all)
        BY <2>1, SmallSeqs DEF all
    <2> QED
        BY <1>1, <1>2, <1>7, <2>2, GoneOn
<1>9. \A a : ~ScansList(a)
    BY <1>1 DEF ScansList
<1>10. \A a : Found(a)' <=> Found(a)
    BY <1>1 DEF Found, Address
<1>11. \A a : a \in Plan(machine) <=>
                  Found(a)' \/ ScansList(a)' \/ \E m \in Range(methods') : a \in ListedIn(machine, m)
    BY <1>1, <1>6, <1>8, <1>9, <1>10 DEF OnPlan
<1> QED
    BY <1>1, <1>5, <1>11 DEF OnPlan

\* The nodes of another system are its plan.
LEMMA DeviceNodesOnPlan ==
    ASSUME NodesOnce, OnPlan, DeviceNodes
    PROVE  OnPlan' /\ UNCHANGED cache
<1> DEFINE nodes == KeptNodes(machine)
           new == NodeDrives(nodes)
<1>1. /\ methods # <<>> /\ methods' = Tail(methods) /\ scans' = <<>> /\ UNCHANGED <<machine, cache>>
      /\ scans = <<>> /\ Head(methods) = "dev"
    BY DEF DeviceNodes, Method, GoOn, restVars
<1>2. methods = <<"dev">> /\ methods' = <<>> /\ found = EmptyBag
    <2>1. methods = <<"dev">> /\ found = EmptyBag
        BY <1>1 DEF NodesOnce
    <2>2. Tail(<<"dev">>) = <<>>
        OBVIOUS
    <2> QED
        BY <1>1, <2>1, <2>2
<1>3. Range(methods) = {"dev"} /\ Range(methods') = {}
    BY <1>2, SmallSeqs
<1>4. \A a : ~ScansList(a) /\ ~ScansList(a)'
    BY <1>1 DEF ScansList
<1>5. DOMAIN found = {}
    BY <1>2, SetIsBag DEF EmptyBag
<1>6. \A a : a \in Plan(machine) <=> a \in ListedIn(machine, "dev")
    BY <1>3, <1>4, <1>5 DEF OnPlan, Found
<1>7. \A a : Found(a)' <=> a \in ListedIn(machine, "dev")
    <2>1. CASE "dev" \in Hardware[machine].missing
        <3>1. found' = found
            BY <2>1 DEF DeviceNodes
        <3>2. ListedIn(machine, "dev") = {}
            BY <2>1 DEF ListedIn
        <3> QED
            BY <1>5, <3>1, <3>2 DEF Found
    <2>2. CASE "dev" \notin Hardware[machine].missing
        <3>1. found' = SetToBag(new)
            BY <2>2, Zenon DEF DeviceNodes, NodeDrives
        <3>2. \A a : a \in ListedIn(machine, "dev") <=> \E n \in nodes : a = <<n.dev, <<>>>>
            BY <2>2 DEF ListedIn
        <3> HIDE DEF nodes
        <3>3. /\ \A d \in new : \E n \in nodes : Address(d) = <<n.dev, <<>>>>
              /\ \A n \in nodes : \E d \in new : Address(d) = <<n.dev, <<>>>>
            BY ListedNodes
        <3> HIDE DEF new
        <3>4. DOMAIN found' = new
            BY <3>1 DEF SetToBag
        <3>5. \A a : Found(a)' <=> \E d \in new : Address(d) = a
            BY <3>4 DEF Found, Address
        <3> QED
            BY <3>2, <3>3, <3>5
    <2> QED
        BY <2>1, <2>2
<1>8. \A a : a \in Plan(machine) <=>
                 Found(a)' \/ ScansList(a)' \/ \E m \in Range(methods') : a \in ListedIn(machine, m)
    BY <1>3, <1>4, <1>6, <1>7
<1> QED
    BY <1>1, <1>8 DEF OnPlan

-----------------------------------------------------------------------------
(* On Windows, if nothing goes wrong: nothing is listed twice, too.        *)

\* The scans list nothing that another one lists.
SeparateScans ==
    scans # <<>> =>
        /\ Separate(machine, Tail(scans))
        /\ \A scan \in Range(Tail(scans)) : \A a \in ListedBy(machine, scan) :
               a \notin ListedFrom(machine, Head(scans), port)

\* What has been found, what the scans list and what the methods to come list are apart.
Fresh ==
    /\ \A a : Found(a) => ~ScansList(a)
    /\ \A method \in Range(methods) : \A a \in ListedIn(machine, method) : ~Found(a) /\ ~ScansList(a)
    /\ SeparateScans
    /\ Unrepeated(found)

\* Of a sequence, what follows the head.
LEMMA TailFollows ==
    ASSUME NEW s, IsSeq(s), s # <<>>
    PROVE  /\ DOMAIN s = 1 .. Len(s) /\ Len(s) \in Nat /\ 1 \in DOMAIN s /\ Head(s) = s[1]
           /\ IsSeq(Tail(s)) /\ Range(s) = {Head(s)} \cup Range(Tail(s))
           /\ \A i \in DOMAIN Tail(s) : i \in Int /\ i + 1 \in DOMAIN s /\ 1 < i + 1 /\ Tail(s)[i] = s[i + 1]
<1>1. /\ s \in Seq(Range(s)) /\ Len(s) \in Nat /\ Len(s) # 0 /\ DOMAIN s = 1 .. Len(s)
      /\ Head(s) = s[1] /\ DOMAIN Tail(s) = 1 .. Len(s) - 1
      /\ \A i \in 1 .. Len(s) - 1 : Tail(s)[i] = s[i + 1]
    BY DEF IsSeq
<1>2. \A i \in DOMAIN Tail(s) : i \in Int /\ i + 1 \in DOMAIN s /\ 1 < i + 1 /\ Tail(s)[i] = s[i + 1]
    BY <1>1
<1>3. 1 \in DOMAIN s
    BY <1>1
<1>4. IsSeq(Tail(s)) /\ Range(s) = {Head(s)} \cup Range(Tail(s))
    BY SeqParts, HeadAndTail
<1> QED
    BY <1>1, <1>2, <1>3, <1>4

LEMMA SmallSeparate == \A m : Separate(m, <<>>) /\ \A x : Separate(m, <<x>>)
<1>1. DOMAIN <<>> = {} /\ \A x : DOMAIN <<x>> = {1}
    OBVIOUS
<1> QED
    BY <1>1 DEF Separate

\* Separate scans to go on with.
LEMMA GoneOnSeparate ==
    ASSUME UNCHANGED machine, NEW s, IsSeq(s), Separate(machine, s), GoOn(s)
    PROVE  SeparateScans'
<1> SUFFICES ASSUME s # <<>> PROVE SeparateScans'
    BY DEF GoOn, SeparateScans
<1>1. scans' = s /\ port' = Head(s).from
    BY DEF GoOn
<1>2. Separate(machine, Tail(s))
    <2> SUFFICES ASSUME NEW i \in DOMAIN Tail(s), NEW j \in DOMAIN Tail(s), i # j
                 PROVE  ListedBy(machine, Tail(s)[i]) \cap ListedBy(machine, Tail(s)[j]) = {}
        BY DEF Separate
    <2>1. /\ i \in Int /\ j \in Int /\ i + 1 \in DOMAIN s /\ j + 1 \in DOMAIN s
          /\ Tail(s)[i] = s[i + 1] /\ Tail(s)[j] = s[j + 1]
        BY TailFollows
    <2>2. i + 1 # j + 1
        BY <2>1
    <2> QED
        BY <2>1, <2>2 DEF Separate
<1>3. ASSUME NEW scan \in Range(Tail(s)), NEW a \in ListedBy(machine, scan)
      PROVE  a \notin ListedFrom(machine, Head(s), Head(s).from)
    <2>1. PICK i \in DOMAIN Tail(s) : Tail(s)[i] = scan
        BY InRange
    <2>2. i + 1 \in DOMAIN s /\ 1 \in DOMAIN s /\ i + 1 # 1 /\ scan = s[i + 1] /\ Head(s) = s[1]
        BY <2>1, TailFollows
    <2>3. ListedBy(machine, s[i + 1]) \cap ListedBy(machine, s[1]) = {}
        BY <2>2 DEF Separate
    <2> QED
        BY <1>3, <2>2, <2>3 DEF ListedBy
<1> QED
    BY <1>1, <1>2, <1>3 DEF SeparateScans

\* What a step lists leaves what is to come, and is listed once.
LEMMA ListsNew ==
    ASSUME OnPlan, Fresh, UNCHANGED <<machine, methods>>, SeparateScans',
           NEW new, found' = found (+) SetToBag(new) \/ (found' = found /\ new = {}),
           \A d, e \in new : Address(d) = Address(e) => d = e,
           \A a : ScansList(a) <=> ScansList(a)' \/ \E d \in new : Address(d) = a,
           \A d \in new : \A a : a = Address(d) => ~ScansList(a)'
    PROVE  OnPlan' /\ Fresh'
<1>1. \A a : Found(a)' <=> Found(a) \/ \E d \in new : Address(d) = a
    BY AddedIsFound
<1>2. OnPlan'
    <2>1. \A a : Found(a)' \/ ScansList(a)' <=> Found(a) \/ ScansList(a)
        BY <1>1
    <2> QED
        BY <2>1, StaysOnPlan
<1>3. \A a : Found(a)' => ~ScansList(a)'
    BY <1>1 DEF Fresh
<1>4. \A method \in Range(methods') : \A a \in ListedIn(machine, method) : ~Found(a)' /\ ~ScansList(a)'
    BY <1>1 DEF Fresh
<1>5. Unrepeated(found')
    <2>1. \A d \in DOMAIN found : \A e \in new : Address(d) # Address(e)
        BY DEF Fresh, Found
    <2>2. Unrepeated(found)
        BY DEF Fresh
    <2>3. CASE found' = found
        BY <2>2, <2>3
    <2>4. CASE found' = found (+) SetToBag(new)
        BY <2>1, <2>2, <2>4, AddedUnrepeated
    <2> QED
        BY <2>3, <2>4
<1>6. Unrepeated(found)'
    BY <1>5 DEF Unrepeated, Address
<1> QED
    BY <1>2, <1>3, <1>4, <1>6 DEF Fresh

\* The current scan ends with what it had still to list.
LEMMA HeadListed ==
    ASSUME OnPlan, Fresh, UNCHANGED <<machine, methods>>, IsSeq(scans), scans # <<>>, GoOn(Tail(scans)),
           NEW new, found' = found (+) SetToBag(new) \/ (found' = found /\ new = {}),
           \A d, e \in new : Address(d) = Address(e) => d = e,
           \A a : a \in ListedFrom(machine, Head(scans), port) <=> \E d \in new : Address(d) = a
    PROVE  OnPlan' /\ Fresh'
<1>1. IsSeq(Tail(scans)) /\ SeparateScans
    BY SeqParts DEF Fresh
<1>2. \A a : ScansList(a)' <=> \E scan \in Range(Tail(scans)) : a \in ListedBy(machine, scan)
    BY <1>1, GoneOn
<1>3. SeparateScans'
    BY <1>1, GoneOnSeparate DEF SeparateScans
<1>4. \A a : ScansList(a) <=> ScansList(a)' \/ \E d \in new : Address(d) = a
    BY <1>2 DEF ScansList
<1>5. \A d \in new : \A a : a = Address(d) => ~ScansList(a)'
    BY <1>1, <1>2 DEF SeparateScans
<1> QED
    BY <1>3, <1>4, <1>5, ListsNew

\* Other scans list what those before were to list.
LEMMA ScansReplaced ==
    ASSUME OnPlan, Fresh, UNCHANGED <<machine, methods, found>>,
           NEW s, IsSeq(s), Separate(machine, s), GoOn(s),
           \A a : ScansList(a) <=> \E scan \in Range(s) : a \in ListedBy(machine, scan)
    PROVE  OnPlan' /\ Fresh'
<1>1. SeparateScans'
    BY GoneOnSeparate
<1>2. \A a : ScansList(a)' <=> ScansList(a)
    BY GoneOn
<1> DEFINE new == {}
<1>3. /\ found' = found (+) SetToBag(new) \/ (found' = found /\ new = {})
      /\ \A d, e \in new : Address(d) = Address(e) => d = e
      /\ \A a : ScansList(a) <=> ScansList(a)' \/ \E d \in new : Address(d) = a
      /\ \A d \in new : \A a : a = Address(d) => ~ScansList(a)'
    BY <1>2
<1> HIDE DEF new
<1> QED
    BY <1>1, <1>3, ListsNew

\* A method starts, which lists nothing that the others list.
LEMMA MethodStarts ==
    ASSUME OnPlan, Fresh, scans = <<>>, methods # <<>>, IsSeq(methods), methods' = Tail(methods),
           UNCHANGED <<machine, found>>, NEW method, method = Head(methods), method # "dev",
           NEW s, s = StartOf(machine, method), IsSeq(s), Separate(machine, s), GoOn(s),
           \A later \in Range(Tail(methods)) : \A a \in ListedIn(machine, later) : a \notin ListedIn(machine, method)
    PROVE  OnPlan' /\ Fresh'
<1>1. Range(methods) = {method} \cup Range(Tail(methods))
    BY HeadAndTail
<1>2. \A a : a \in ListedIn(machine, method) <=> \E scan \in Range(s) : a \in ListedBy(machine, scan)
    BY Zenon DEF ListedIn
<1>3. \A a : ScansList(a)' <=> a \in ListedIn(machine, method)
    BY <1>2, GoneOn
<1>4. \A a : ~ScansList(a)
    BY DEF ScansList
<1>5. \A a : Found(a)' <=> Found(a)
    BY DEF Found, Address
<1>6. OnPlan'
    <2>1. \A a : a \in Plan(machine) <=>
                     Found(a)' \/ ScansList(a)' \/ \E later \in Range(methods') : a \in ListedIn(machine, later)
        BY <1>1, <1>3, <1>4, <1>5 DEF OnPlan
    <2> QED
        BY <2>1 DEF OnPlan
<1>7. SeparateScans'
    BY GoneOnSeparate
<1>8. /\ \A a : Found(a)' => ~ScansList(a)'
      /\ \A later \in Range(methods') : \A a \in ListedIn(machine, later) : ~Found(a)' /\ ~ScansList(a)'
    BY <1>1, <1>3, <1>5 DEF Fresh
<1>9. Unrepeated(found)'
    BY DEF Fresh, Unrepeated, Address
<1> QED
    BY <1>6, <1>7, <1>8, <1>9 DEF Fresh

-----------------------------------------------------------------------------
(* What the scans of Windows list, and where.                              *)

\* Related scans of which no two list the same address.
LEMMA PairedAreSeparate ==
    ASSUME NEW m, NEW R, \A x, y : <<x, y>> \in R => ListedBy(m, x) \cap ListedBy(m, y) = {},
           NEW s, IsSeq(s), Paired(R, s)
    PROVE  Separate(m, s)
<1> SUFFICES ASSUME NEW i \in DOMAIN s, NEW j \in DOMAIN s, i # j
             PROVE  ListedBy(m, s[i]) \cap ListedBy(m, s[j]) = {}
    BY DEF Separate
<1>1. i < j \/ j < i
    BY SeqParts
<1>2. <<s[i], s[j]>> \in R \/ <<s[j], s[i]>> \in R
    BY <1>1, Zenon DEF Paired
<1>3. ListedBy(m, s[i]) \cap ListedBy(m, s[j]) = {} \/ ListedBy(m, s[j]) \cap ListedBy(m, s[i]) = {}
    BY <1>2, Zenon
<1> QED
    BY <1>3

\* A type that is given stays.
LEMMA SettledType ==
    ASSUME NEW m, NEW dev, NEW type, type # <<>>
    PROVE  Settled(m, dev, type).type = type
BY DEF Settled

LEMMA ArecaTypes ==
    ASSUME NEW scan, scan.rule = "areca", NEW p
    PROVE  /\ TypeAt(scan, p) # <<>> /\ TypeAt(scan, p)[1] = "areca" /\ TypeAt(scan, p)[2] = p
           /\ scan.enclosure = 0 => TypeAt(scan, p) = <<"areca", p>>
           /\ scan.enclosure # 0 => TypeAt(scan, p) = <<"areca", p, scan.enclosure>>
BY DEF TypeAt

\* The addresses of an Areca controller are its device and a port.
LEMMA ArecaAnswers ==
    ASSUME NEW m, NEW scan, scan.rule = "areca", NEW n, NEW a \in AnsweringFrom(m, scan, n)
    PROVE  \E p \in Int : n <= p /\ a = <<scan.dev, TypeAt(scan, p)>>
<1>1. PICK p \in PortsFrom(m, scan, n) : a = <<scan.dev, AtPort(m, scan, p).type>>
    BY DEF AnsweringFrom
<1>2. p \in n .. IF scan.to < n THEN n ELSE scan.to
    BY <1>1 DEF PortsFrom
<1>3. p \in Int /\ n <= p
    BY <1>2
<1>4. AtPort(m, scan, p).type = TypeAt(scan, p)
    BY ArecaTypes, SettledType DEF AtPort
<1> QED
    BY <1>1, <1>3, <1>4

\* The addresses that the scans of controllers list are of their devices.
LEMMA BoxesAnswer ==
    ASSUME NEW m, NEW dev, NEW a \in Boxed(m, dev)
    PROVE  /\ \E box \in Range(BoxesOf(dev)) : a \in AnsweringFrom(m, box, 1)
           /\ a[1] = dev
           /\ AnsweringFrom(m, PortsOf(dev), 1) = {}
           /\ ~\E scan \in Range(OpenScans(m)) : scan.dev[1] = dev
<1>1. /\ AnsweringFrom(m, PortsOf(dev), 1) = {}
      /\ ~\E scan \in Range(OpenScans(m)) : scan.dev[1] = dev
    BY DEF Boxed
<1>2. PICK box \in Range(BoxesOf(dev)) : a \in AnsweringFrom(m, box, 1)
    BY DEF Boxed
<1>3. box.rule = "areca" /\ box.dev = dev
    BY BoxesAreSeq
<1>4. PICK p : a = <<box.dev, TypeAt(box, p)>>
    BY <1>2, <1>3, ArecaAnswers
<1> QED
    BY <1>1, <1>2, <1>3, <1>4

LEMMA PortScansList ==
    ASSUME NEW m, NEW scan \in PortScans
    PROVE  /\ ListedBy(m, scan) = ListedByPort(m, scan)
           /\ \A a \in ListedBy(m, scan) : a[1] = scan.dev
           /\ scan.rule = "areca" => \A n : ListedFrom(m, scan, n) = AnsweringFrom(m, scan, n)
<1>1. CASE scan = Expanders(scan.dev)
    <2>1. scan.rule = "expanders"
        BY <1>1, PortsAndExpanders
    <2>2. ListedBy(m, scan) = Boxed(m, scan.dev) /\ ListedByPort(m, scan) = Boxed(m, scan.dev)
        BY <2>1 DEF ListedBy, ListedFrom, ListedByPort
    <2> QED
        BY <2>1, <2>2, BoxesAnswer
<1>2. CASE scan.rule = "areca" /\ scan.from = 1
    <2>1. \A n : ListedFrom(m, scan, n) = AnsweringFrom(m, scan, n)
        BY <1>2 DEF ListedFrom
    <2>2. ListedBy(m, scan) = AnsweringFrom(m, scan, 1) /\ ListedByPort(m, scan) = AnsweringFrom(m, scan, 1)
        BY <1>2, <2>1 DEF ListedBy, ListedByPort
    <2>3. \A a \in AnsweringFrom(m, scan, 1) : a[1] = scan.dev
        BY <1>2, ArecaAnswers
    <2> QED
        BY <2>1, <2>2, <2>3
<1> QED
    BY <1>1, <1>2, PortScanFields

\* No two of them list the same address.
LEMMA PortsAreSeparate ==
    ASSUME NEW m, NEW s, PortsLeft(s)
    PROVE  Separate(m, s)
<1>1. ASSUME NEW x, NEW y, <<x, y>> \in InOrder, NEW a, a \in ListedBy(m, x), a \in ListedBy(m, y)
      PROVE  FALSE
    <2>1. x \in PortScans /\ y \in PortScans
        BY <1>1 DEF InOrder
    <2>2. a[1] = x.dev /\ a[1] = y.dev
        BY <1>1, <2>1, PortScansList
    <2>3. \/ x = PortsOf(x.dev) /\ y = Expanders(x.dev)
          \/ x.rule = "areca" /\ y.rule = "areca" /\ x.enclosure # y.enclosure
        BY <1>1, <2>2 DEF InOrder
    <2>4. CASE x = PortsOf(x.dev) /\ y = Expanders(x.dev)
        <3>1. x.rule = "areca" /\ x.from = 1 /\ y.rule = "expanders" /\ y.dev = x.dev
            BY <2>4, PortsAndExpanders
        <3>2. a \in AnsweringFrom(m, PortsOf(x.dev), 1)
            BY <1>1, <2>1, <2>4, <3>1, PortScansList DEF ListedBy
        <3>3. a \in Boxed(m, x.dev)
            BY <1>1, <2>1, <3>1, PortScansList DEF ListedByPort
        <3> QED
            BY <3>2, <3>3, BoxesAnswer
    <2>5. CASE x.rule = "areca" /\ y.rule = "areca" /\ x.enclosure # y.enclosure
        <3>1. a \in AnsweringFrom(m, x, x.from) /\ a \in AnsweringFrom(m, y, y.from)
            BY <1>1, <2>1, <2>5, PortScansList DEF ListedBy
        <3>2. PICK p : a = <<x.dev, TypeAt(x, p)>>
            BY <2>5, <3>1, ArecaAnswers
        <3>3. PICK q : a = <<y.dev, TypeAt(y, q)>>
            BY <2>5, <3>1, ArecaAnswers
        <3>4. TypeAt(x, p) = TypeAt(y, q)
            BY <3>2, <3>3
        <3>5. \A v, w, e, f : <<"areca", v>> # <<"areca", w, f>> /\ <<"areca", w, f>> # <<"areca", v>>
            OBVIOUS
        <3>6. \A v, w, e, f : <<"areca", v, e>> = <<"areca", w, f>> => e = f
            OBVIOUS
        <3>7. /\ x.enclosure = 0 => TypeAt(x, p) = <<"areca", p>>
              /\ x.enclosure # 0 => TypeAt(x, p) = <<"areca", p, x.enclosure>>
              /\ y.enclosure = 0 => TypeAt(y, q) = <<"areca", q>>
              /\ y.enclosure # 0 => TypeAt(y, q) = <<"areca", q, y.enclosure>>
            BY <2>5, ArecaTypes
        <3> QED
            BY <2>5, <3>4, <3>5, <3>6, <3>7
    <2> QED
        BY <2>3, <2>4, <2>5
<1>2. \A x, y : <<x, y>> \in InOrder => ListedBy(m, x) \cap ListedBy(m, y) = {}
    BY <1>1
<1> QED
    BY <1>2, PairedAreSeparate DEF PortsLeft

\* The controllers that tw_cli knows, each once.
LEMMA ToolScansAre ==
    ASSUME NEW m, Hardware[m].system = "windows", WellFormed(m)
    PROVE  /\ IsSeq(ToolScans(m)) /\ Separate(m, ToolScans(m))
           /\ \A scan \in Range(ToolScans(m)) : /\ scan.rule = "3dm2" /\ scan.from = 0 /\ scan.to = 0
                                                /\ scan.host \in DOMAIN Hardware[m].twCli
<1> DEFINE hosts == DOMAIN Hardware[m].twCli
           Show(c) == [Scan("3dm2", <<>>, 0, 0) EXCEPT !.host = c]
           f == [n \in DOMAIN Ascending(hosts) |-> <<Show(Ascending(hosts)[n])>>]
           S == {Show(c) : c \in hosts}
           R == {p \in S \X S : p[1].host # p[2].host}
<1>1. ToolScans(m) = FlattenSeq(f)
    BY DEF ToolScans, ForEach
<1>2. IsFiniteSet(hosts) /\ hosts \in SUBSET Int
    BY DEF WellFormed
<1>3. \A c : /\ Show(c).rule = "3dm2" /\ Show(c).from = 0 /\ Show(c).to = 0 /\ Show(c).host = c
    BY DEF Scan
<1>4. /\ \A n \in DOMAIN Ascending(hosts) : Ascending(hosts)[n] \in hosts
      /\ \A i, j \in DOMAIN Ascending(hosts) : i < j => Ascending(hosts)[i] < Ascending(hosts)[j]
    BY <1>2, AscendingIsSorted
<1>5. PICK k \in Nat : DOMAIN Ascending(hosts) = 1 .. k
    BY <1>2, AscendingDomain
<1>6. f = [n \in 1 .. k |-> <<Show(Ascending(hosts)[n])>>]
    BY <1>5
<1>7. \A c \in hosts : c \in Int
    BY <1>2
<1> HIDE DEF f, hosts, Show
<1>8. \A n \in 1 .. k : /\ f[n] = <<Show(Ascending(hosts)[n])>> /\ Ascending(hosts)[n] \in hosts
    BY <1>4, <1>5, <1>6
<1>9. f \in [1 .. k -> Seq(S)]
    <2>1. \A x \in S : <<x>> \in Seq(S)
        OBVIOUS
    <2>2. \A n \in 1 .. k : f[n] \in Seq(S)
        BY <1>8, <2>1
    <2> QED
        BY <1>6, <2>2
<1>10. \A n \in 1 .. k : Paired(R, f[n]) /\ Range(f[n]) = {Show(Ascending(hosts)[n])}
    <2>1. \A x : DOMAIN <<x>> = {1} /\ ~(1 < 1)
        OBVIOUS
    <2>2. \A x : Paired(R, <<x>>)
        BY <2>1 DEF Paired
    <2> QED
        BY <1>8, <2>2, SmallSeqs
<1>11. \A i, j \in 1 .. k : i < j => AllPaired(R, f[i], f[j])
    <2> SUFFICES ASSUME NEW i \in 1 .. k, NEW j \in 1 .. k, i < j PROVE AllPaired(R, f[i], f[j])
        OBVIOUS
    <2>1. Ascending(hosts)[i] < Ascending(hosts)[j] /\ Ascending(hosts)[i] \in Int /\ Ascending(hosts)[j] \in Int
        BY <1>4, <1>5, <1>7
    <2>2. Ascending(hosts)[i] # Ascending(hosts)[j]
        BY <2>1
    <2>3. \A x \in Range(f[i]), y \in Range(f[j]) : x \in S /\ y \in S /\ x.host # y.host
        BY <1>3, <1>8, <1>10, <2>2
    <2> QED
        BY <2>3 DEF AllPaired
<1> HIDE DEF R, S
<1>12. Paired(R, FlattenSeq(f))
    BY <1>9, <1>10, <1>11, FlattenPaired
<1>13. IsSeq(FlattenSeq(f)) /\ Range(FlattenSeq(f)) \subseteq S
    BY <1>9, FlattenIsSeq, SeqIsOfRange
<1>14. \A x \in S : x.rule = "3dm2" /\ x.from = 0 /\ x.to = 0 /\ x.host \in hosts
    BY <1>3 DEF S
<1>15. \A x, y : <<x, y>> \in R => ListedBy(m, x) \cap ListedBy(m, y) = {}
    <2> SUFFICES ASSUME NEW x \in S, NEW y \in S, x.host # y.host, NEW a, a \in ListedBy(m, x), a \in ListedBy(m, y)
                 PROVE  FALSE
        BY DEF R
    <2>1. \A z \in S : ListedBy(m, z) = {<<<<"tw_cli", z.host, p>>, <<>>>> : p \in Hardware[m].twCli[z.host]}
        BY <1>14 DEF ListedBy, ListedFrom
    <2>2. PICK p : a = <<<<"tw_cli", x.host, p>>, <<>>>>
        BY <2>1
    <2>3. PICK q : a = <<<<"tw_cli", y.host, q>>, <<>>>>
        BY <2>1
    <2>4. a[1][2] = x.host /\ a[1][2] = y.host
        BY <2>2, <2>3
    <2> QED
        BY <2>4
<1>16. Separate(m, FlattenSeq(f))
    BY <1>12, <1>13, <1>15, PairedAreSeparate
<1> QED
    BY <1>1, <1>13, <1>14, <1>16 DEF hosts

\* The devices with a port.
LEMMA OpenScansAre ==
    ASSUME NEW m, Hardware[m].system = "windows", WellFormed(m)
    PROVE  /\ IsSeq(OpenScans(m))
           /\ \A scan \in Range(OpenScans(m)) : scan.rule = "open" /\ scan.from = 0 /\ scan.to = 0
<1> DEFINE lines == Hardware[m].scanOpen
<1>1. DOMAIN lines = 1 .. Len(lines) /\ Len(lines) \in Nat
    BY SeqParts DEF WellFormed
<1>2. OpenScans(m) = [i \in 1 .. Len(lines) |-> Scan("open", lines[i].address, 0, 0)]
    BY <1>1 DEF OpenScans
<1>3. \A dev : LET scan == Scan("open", dev, 0, 0) IN scan.rule = "open" /\ scan.from = 0 /\ scan.to = 0
    BY DEF Scan
<1>4. OpenScans(m) = [i \in 1 .. Len(lines) |-> OpenScans(m)[i]]
    BY <1>2
<1>5. IsSeq(OpenScans(m))
    BY <1>1, <1>4, ListIsSeq
<1>6. \A i \in DOMAIN OpenScans(m) : OpenScans(m)[i] = Scan("open", lines[i].address, 0, 0)
    BY <1>2
<1> QED
    BY <1>3, <1>5, <1>6, InRange

\* What smartctl --scan-open shows is listed under its address.
LEMMA OpenIsListed ==
    ASSUME NEW m, NEW scan, scan.rule = "open"
    PROVE  \A n, a : a \in ListedFrom(m, scan, n) <=> a = <<scan.dev[1], AtOpen(m, scan).type>>
<1>1. \A n : ListedFrom(m, scan, n) = {<<scan.dev[1], AtOpen(m, scan).type>>}
    BY DEF ListedFrom
<1> QED
    BY <1>1

\* What the methods list.
LEMMA CliDevices ==
    ASSUME NEW m, NEW dev, NEW a \in CliLists(m, dev)
    PROVE  a[1] = dev \/ \E c : a[1] = Arcmsr(c)
<1>1. CASE Hardware[m].areca.runs
    BY <1>1 DEF CliLists
<1>2. CASE ~Hardware[m].areca.runs
    <2>1. PICK scan \in Range(ByPort) : a \in ListedByPort(m, scan)
        BY <1>2 DEF CliLists
    <2>2. scan \in PortScans
        BY ByPortScans DEF PortsLeft
    <2> QED
        BY <2>1, <2>2, PortScansList, PortScanFields
<1> QED
    BY <1>1, <1>2

LEMMA MethodDevices ==
    ASSUME NEW m, Hardware[m].system = "windows", WellFormed(m)
    PROVE  /\ \A a \in ListedIn(m, "physical") : a[1][1] = "pd"
           /\ \A a \in ListedIn(m, "3dm2") : a[1][1] = "tw_cli"
           /\ \A a \in ListedIn(m, "arcmsr") : a[1][1] = "arcmsr"
<1>1. ASSUME NEW a \in ListedIn(m, "physical") PROVE a[1][1] = "pd"
    <2>1. StartOf(m, "physical") = <<AllPds>>
        BY DEF StartOf
    <2>2. PICK scan \in Range(StartOf(m, "physical")) : a \in ListedBy(m, scan)
        BY <1>1 DEF ListedIn
    <2>3. scan.rule = "pd"
        BY <2>1, <2>2, SmallSeqs DEF AllPds, Scan
    <2>4. a \in PdsFrom(m, scan.from)
        BY <2>2, <2>3 DEF ListedBy, ListedFrom
    <2>5. PICK n : a = <<Pd(n), Settled(m, Pd(n), <<>>).type>>
        BY <2>4, Zenon DEF PdsFrom
    <2>6. a[1] = Pd(n)
        BY <2>5
    <2> QED
        BY <2>6 DEF Pd
<1>2. ASSUME NEW a \in ListedIn(m, "3dm2") PROVE a[1][1] = "tw_cli"
    <2>1. PICK scan : scan \in Range(ToolScans(m)) /\ a \in ListedBy(m, scan)
        <3>1. PICK scan \in Range(StartOf(m, "3dm2")) : a \in ListedBy(m, scan)
            BY <1>2 DEF ListedIn
        <3>2. Range(<<>>) = {}
            BY SmallSeqs
        <3> QED
            BY <3>1, <3>2 DEF StartOf
    <2>2. scan.rule = "3dm2"
        BY <2>1, ToolScansAre
    <2> QED
        BY <2>1, <2>2 DEF ListedBy, ListedFrom
<1>3. ASSUME NEW a \in ListedIn(m, "arcmsr") PROVE a[1][1] = "arcmsr"
    <2> DEFINE presence == Scan("presence", Arcmsr(0), 0, 0)
    <2>1. PICK scan \in Range(ArecaStart(m, HasArecaPort(m))) : a \in ListedBy(m, scan)
        BY <1>3 DEF ListedIn, StartOf
    <2>2. presence.rule = "presence" /\ presence.dev = Arcmsr(0)
        BY DEF Scan
    <2>3. ArecaStart(m, HasArecaPort(m)) \in {<<presence>>, ByPort, <<>>}
        BY DEF ArecaStart
    <2> HIDE DEF presence
    <2>4. scan = presence \/ scan \in Range(ByPort)
        BY <2>1, <2>3, SmallSeqs
    <2>5. CASE scan = presence
        <3>1. a \in CliLists(m, Arcmsr(0))
            BY <2>1, <2>2, <2>5 DEF ListedBy, ListedFrom
        <3> QED
            BY <3>1, CliDevices DEF Arcmsr
    <2>6. CASE scan \in Range(ByPort)
        <3>1. scan \in PortScans
            BY <2>6, ByPortScans DEF PortsLeft
        <3> QED
            BY <2>1, <3>1, PortScansList, PortScanFields DEF Arcmsr
    <2> QED
        BY <2>4, <2>5, <2>6
<1> QED
    BY <1>1, <1>2, <1>3

-----------------------------------------------------------------------------
(* The PhysicalDrives.                                                     *)

\* Those that do not open are counted one by one.
LEMMA MissesOn ==
    ASSUME NEW m, NEW n \in Nat
    PROVE  /\ Misses(m, 0) = 0 /\ Misses(m, n) \in Nat
           /\ Misses(m, n + 1) = Misses(m, n) + IF n \in UsedPds(m) \cup Hardware[m].pds THEN 0 ELSE 1
           /\ \A k \in Nat : n <= k => Misses(m, n) <= Misses(m, k)
<1> DEFINE opens == UsedPds(m) \cup Hardware[m].pds
           Shut(k) == {i \in 0 .. k - 1 : i \notin opens}
<1>1. \A k : Misses(m, k) = Cardinality(Shut(k))
    BY DEF Misses
<1>2. Shut(0) = {}
    OBVIOUS
<1>3. ASSUME NEW k \in Nat PROVE IsFiniteSet(Shut(k)) /\ Cardinality(Shut(k)) \in Nat
    <2>1. IsFiniteSet(0 .. k - 1)
        BY k - 1 \in Int, FS_Interval
    <2>2. Shut(k) \subseteq 0 .. k - 1
        OBVIOUS
    <2> HIDE DEF Shut
    <2> QED
        BY <2>1, <2>2, FS_Subset, FS_CardinalityType
<1>4. Shut(n + 1) = IF n \in opens THEN Shut(n) ELSE Shut(n) \cup {n}
    OBVIOUS
<1>5. n \notin Shut(n)
    OBVIOUS
<1>6. \A k \in Nat : n <= k => Shut(n) \subseteq Shut(k)
    OBVIOUS
<1> HIDE DEF Shut
<1>7. Cardinality(Shut(n + 1)) = Cardinality(Shut(n)) + IF n \in opens THEN 0 ELSE 1
    <2>1. CASE n \in opens
        BY <1>3, <1>4, <2>1
    <2>2. CASE n \notin opens
        <3>1. Cardinality(Shut(n) \cup {n}) = Cardinality(Shut(n)) + 1
            BY <1>3, <1>5, FS_AddElement
        <3> QED
            BY <1>4, <2>2, <3>1
    <2> QED
        BY <2>1, <2>2
<1>8. \A k \in Nat : n <= k => Cardinality(Shut(n)) <= Cardinality(Shut(k))
    BY <1>3, <1>6, FS_Subset
<1>9. Cardinality(Shut(0)) = 0
    BY <1>2, FS_EmptySet
<1> QED
    BY <1>1, <1>3, <1>7, <1>8, <1>9 DEF opens

\* The PhysicalDrives from one on: it, if it is listed, and those from the next on.
LEMMA PdsOn ==
    ASSUME NEW m, NEW n \in Nat, n <= MaxPd, Misses(m, n) < 3
    PROVE  /\ \A a : a \in PdsFrom(m, n) <=>
                  \/ /\ n \in Hardware[m].pds \ UsedPds(m)
                     /\ Serials(m, Pd(n), Settled(m, Pd(n), <<>>)) \cap OpenSerials(m) = {}
                     /\ a = <<Pd(n), Settled(m, Pd(n), <<>>).type>>
                  \/ a \in PdsFrom(m, n + 1)
           /\ \A a \in PdsFrom(m, n + 1) : a[1] # Pd(n)
<1> DEFINE Kept(k) == /\ k \in Hardware[m].pds \ UsedPds(m)
                      /\ Serials(m, Pd(k), Settled(m, Pd(k), <<>>)) \cap OpenSerials(m) = {}
           At(k) == <<Pd(k), Settled(m, Pd(k), <<>>).type>>
<1>1. \A i, a : a \in PdsFrom(m, i) <=> \E k \in i .. MaxPd : Misses(m, k) < 3 /\ Kept(k) /\ a = At(k)
    BY DEF PdsFrom
<1>2. \A k : At(k)[1] = Pd(k)
    OBVIOUS
<1> HIDE DEF Kept, At
<1>3. n .. MaxPd = {n} \cup (n + 1 .. MaxPd) /\ n \notin n + 1 .. MaxPd
    BY PdAssumption
<1>4. \A a : a \in PdsFrom(m, n) <=> (Kept(n) /\ a = At(n)) \/ a \in PdsFrom(m, n + 1)
    BY <1>1, <1>3
<1>5. \A k : Pd(k) = Pd(n) => k = n
    BY DEF Pd
<1>6. \A a \in PdsFrom(m, n + 1) : a[1] # Pd(n)
    BY <1>1, <1>2, <1>3, <1>5
<1> QED
    BY <1>4, <1>6 DEF Kept, At

\* None is tried after the last, or after three that do not open.
LEMMA NoMorePds ==
    ASSUME NEW m, NEW n \in Nat, n > MaxPd \/ Misses(m, n) >= 3
    PROVE  PdsFrom(m, n) = {}
<1> SUFFICES ASSUME NEW k \in n .. MaxPd, Misses(m, k) < 3 PROVE FALSE
    BY DEF PdsFrom
<1>1. k \in Nat /\ n <= k /\ n <= MaxPd
    BY PdAssumption
<1>2. Misses(m, n) <= Misses(m, k) /\ Misses(m, n) \in Nat /\ Misses(m, k) \in Nat
    BY <1>1, MissesOn
<1> QED
    BY <1>1, <1>2, PdAssumption


-----------------------------------------------------------------------------
(* The methods of Windows one after the other, and what is known of each.  *)

OnWindows ==
    Hardware[machine].system = "windows" /\ WellFormed(machine) /\ OpensApart(machine)

Remembers == DOMAIN known = {"pds", "serials", "misses", "ports", "areca", "byPort"}

\* Which drives and ports have been seen in --scan-open.
Opened == known.pds = UsedPds(machine) /\ (known.ports <=> Hardware[machine].scanOpen # <<>>)

\* What the devices with a port have said.
HaveSaid ==
    /\ \A serial : serial \in known.serials <=> serial \in OpenSerials(machine)
    /\ known.areca <=> HasArecaPort(machine)

Starts == methods = <<"scan-open", "physical", "3dm2", "arcmsr">> /\ scans = <<>> /\ known = Nothing

\* Devices with a port are left to read; those that were read have said what they say.
OpensLeft ==
    /\ methods = <<"physical", "3dm2", "arcmsr">>
    /\ Opened /\ known.misses = 0 /\ port = 0
    /\ IsSeq(scans) /\ \A scan \in Range(scans) : scan.rule = "open" /\ scan.from = 0 /\ scan.to = 0
    /\ \A serial : serial \in OpenSerials(machine) <=>
                       \/ serial \in known.serials
                       \/ \E scan \in Range(scans) : serial \in Serials(machine, scan.dev[1], AtOpen(machine, scan))
    /\ HasArecaPort(machine) <=> known.areca \/ \E scan \in Range(scans) : AtOpen(machine, scan).type[1] = "areca"

\* PhysicalDrives are left to try, unless three have not opened.
PdsLeft ==
    /\ methods = <<"3dm2", "arcmsr">>
    /\ Opened /\ HaveSaid
    /\ scans # <<>> => /\ scans = <<AllPds>> /\ port \in 0 .. MaxPd
                       /\ known.misses = Misses(machine, port) /\ known.misses < 3

\* Controllers are left to ask tw_cli about.
ToolsLeft ==
    /\ methods = <<"arcmsr">>
    /\ HaveSaid /\ port = 0
    /\ IsSeq(scans)
    /\ \A scan \in Range(scans) : /\ scan.rule = "3dm2" /\ scan.from = 0 /\ scan.to = 0
                                  /\ scan.host \in DOMAIN Hardware[machine].twCli

\* The ports of Areca controllers are what this machine lists of them.
ByPorts ==
    \A a : a \in ListedIn(machine, "arcmsr") <=> \E scan \in Range(ByPort) : a \in ListedByPort(machine, scan)

\* Areca controllers are left: to see if there is one, to ask the CLI, or to ask port by port.
ArecasLeft ==
    /\ methods = <<>>
    /\ known.byPort <=> MayByPort(machine)
    /\ \/ scans = <<>>
       \/ scans = <<Scan("presence", Arcmsr(0), 0, 0)>> /\ \A a : a \in ListedIn(machine, "arcmsr") <=> ScansList(a)
       \/ scans = <<Scan("cli", Arcmsr(0), 0, 0)>> /\ \A a : a \in ListedIn(machine, "arcmsr") <=> ScansList(a)
       \/ PortsLeft(scans) /\ port \in Int /\ ByPorts

WinInv ==
    /\ OnPlan /\ Fresh /\ Remembers
    /\ Starts \/ OpensLeft \/ PdsLeft \/ ToolsLeft \/ ArecasLeft

\* The methods list no address twice.
LEMMA PlansApart ==
    ASSUME NEW m, Hardware[m].system = "windows", WellFormed(m), OpensApart(m)
    PROVE  /\ \A method \in {"physical", "3dm2", "arcmsr"} : \A a \in ListedIn(m, method) : a \notin ListedIn(m, "scan-open")
           /\ \A method \in {"3dm2", "arcmsr"} : \A a \in ListedIn(m, method) : a \notin ListedIn(m, "physical")
           /\ \A a \in ListedIn(m, "arcmsr") : a \notin ListedIn(m, "3dm2")
<1>1. \A method \in {"physical", "3dm2", "arcmsr"} : ListedIn(m, "scan-open") \cap ListedIn(m, method) = {}
    BY DEF OpensApart
<1>2. /\ \A a \in ListedIn(m, "physical") : a[1][1] = "pd"
      /\ \A a \in ListedIn(m, "3dm2") : a[1][1] = "tw_cli"
      /\ \A a \in ListedIn(m, "arcmsr") : a[1][1] = "arcmsr"
    BY MethodDevices
<1> QED
    BY <1>1, <1>2

\* A command that did not fail in a scan that is still smooth.
LEMMA Unfailed ==
    ASSUME NEW dev, NEW type, NEW got \in Fetched(dev, type), Note(got.reply = "nothing"), smooth'
    PROVE  got = Settled(machine, dev, type) /\ got.reply # "nothing"
BY FetchedIsSettled DEF Note

LEMMA WindowsMethods ==
    /\ \A a, b, c, d : LET s == <<a, b, c, d>> IN IsSeq(s) /\ s # <<>> /\ Head(s) = a /\ Tail(s) = <<b, c, d>>
    /\ \A a, b, c : LET s == <<a, b, c>> IN IsSeq(s) /\ s # <<>> /\ Head(s) = a /\ Tail(s) = <<b, c>> /\ Range(s) = {a, b, c}
    /\ \A a, b : LET s == <<a, b>> IN IsSeq(s) /\ s # <<>> /\ Head(s) = a /\ Tail(s) = <<b>> /\ Range(s) = {a, b}
    /\ \A a : LET s == <<a>> IN IsSeq(s) /\ s # <<>> /\ Head(s) = a /\ Tail(s) = <<>> /\ Range(s) = {a}
    /\ IsSeq(<<>>) /\ Range(<<>>) = {}
<1>1. ASSUME NEW a, NEW b, NEW c, NEW d
      PROVE  LET s == <<a, b, c, d>> IN IsSeq(s) /\ s # <<>> /\ Head(s) = a /\ Tail(s) = <<b, c, d>>
    <2>1. <<a, b, c, d>> \in Seq({a, b, c, d})
        OBVIOUS
    <2>2. IsSeq(<<a, b, c, d>>)
        BY <2>1, SeqIsOfRange
    <2> QED
        BY <2>2
<1>2. ASSUME NEW a, NEW b, NEW c
      PROVE  LET s == <<a, b, c>> IN IsSeq(s) /\ s # <<>> /\ Head(s) = a /\ Tail(s) = <<b, c>> /\ Range(s) = {a, b, c}
    <2>1. <<a, b, c>> \in Seq({a, b, c}) /\ Head(<<a, b, c>>) = a /\ Tail(<<a, b, c>>) = <<b, c>>
        OBVIOUS
    <2>2. IsSeq(<<a, b, c>>) /\ <<a, b, c>> # <<>>
        BY <2>1, SeqIsOfRange
    <2>3. Range(<<a, b, c>>) = {a} \cup Range(<<b, c>>)
        BY <2>1, <2>2, HeadAndTail
    <2> QED
        BY <2>1, <2>2, <2>3, PairIsSeq
<1>3. ASSUME NEW a, NEW b
      PROVE  LET s == <<a, b>> IN IsSeq(s) /\ s # <<>> /\ Head(s) = a /\ Tail(s) = <<b>> /\ Range(s) = {a, b}
    BY PairIsSeq
<1>4. ASSUME NEW a
      PROVE  LET s == <<a>> IN IsSeq(s) /\ s # <<>> /\ Head(s) = a /\ Tail(s) = <<>> /\ Range(s) = {a}
    BY SmallSeqs
<1> QED
    BY <1>1, <1>2, <1>3, <1>4, SmallSeqs

\* smartctl --scan-open
LEMMA ScanOpenOnPlan ==
    ASSUME OnWindows, OnPlan, Fresh, Starts, ScanOpen, smooth'
    PROVE  OnPlan' /\ Fresh' /\ Remembers' /\ OpensLeft'
<1> DEFINE s == OpenScans(machine)
<1>1. /\ methods # <<>> /\ IsSeq(methods) /\ Head(methods) = "scan-open"
      /\ Tail(methods) = <<"physical", "3dm2", "arcmsr">> /\ Range(Tail(methods)) = {"physical", "3dm2", "arcmsr"}
    BY WindowsMethods DEF Starts
<1>2. /\ methods' = Tail(methods) /\ UNCHANGED <<machine, found>>
      /\ known' = [known EXCEPT !.pds = UsedPds(machine), !.ports = Hardware[machine].scanOpen # <<>>]
      /\ GoOn(s)
    BY DEF ScanOpen, Method, Note, restVars
<1>3. IsSeq(s) /\ \A scan \in Range(s) : scan.rule = "open" /\ scan.from = 0 /\ scan.to = 0
    BY OpenScansAre DEF OnWindows
<1>4. Separate(machine, s)
    BY DEF OnWindows, OpensApart
<1>5. s = StartOf(machine, "scan-open")
    BY DEF StartOf
<1>6. \A later \in Range(Tail(methods)) : \A a \in ListedIn(machine, later) : a \notin ListedIn(machine, "scan-open")
    BY <1>1, PlansApart DEF OnWindows
<1>7. OnPlan' /\ Fresh'
    BY <1>1, <1>2, <1>3, <1>4, <1>5, <1>6, MethodStarts DEF Starts
<1>8. /\ DOMAIN known' = {"pds", "serials", "misses", "ports", "areca", "byPort"}
      /\ known'.pds = UsedPds(machine) /\ known'.ports = (Hardware[machine].scanOpen # <<>>)
      /\ known'.misses = 0 /\ known'.serials = {} /\ known'.areca = FALSE
    BY <1>2 DEF Starts, Nothing
<1>9. scans' = s /\ port' = 0
    <2>1. s # <<>> => Head(s) \in Range(s)
        BY <1>3, SeqParts
    <2> QED
        BY <1>2, <1>3, <2>1 DEF GoOn
<1>10. \A serial : serial \in OpenSerials(machine) <=>
                       \E scan \in Range(s) : serial \in Serials(machine, scan.dev[1], AtOpen(machine, scan))
    BY Zenon DEF OpenSerials
<1>11. HasArecaPort(machine) <=> \E scan \in Range(s) : AtOpen(machine, scan).type[1] = "areca"
    BY DEF HasArecaPort
<1> HIDE DEF s
<1>12. OpensLeft'
    <2>1. methods' = <<"physical", "3dm2", "arcmsr">>
        BY <1>1, <1>2
    <2>2. UNCHANGED machine
        BY <1>2
    <2> QED
        BY <1>3, <1>8, <1>9, <1>10, <1>11, <2>1, <2>2 DEF OpensLeft, Opened
<1> QED
    BY <1>7, <1>8, <1>12 DEF Remembers

\* A device with a port is read: it is listed whatever it says, and what it says is known.
LEMMA FetchOpenOnPlan ==
    ASSUME OnWindows, OnPlan, Fresh, Remembers, OpensLeft, FetchOpen, smooth'
    PROVE  OnPlan' /\ Fresh' /\ Remembers' /\ OpensLeft'
<1> DEFINE scan == Head(scans)
           said == AtOpen(machine, scan)
<1>1. scans # <<>> /\ UNCHANGED <<machine, methods>> /\ NextPort(FALSE)
    BY DEF FetchOpen, InScan, restVars
<1>2. PICK got \in Fetched(scan.dev[1], scan.dev[2]) :
          /\ found' = found (+) One(NewDrive(scan.dev[1], got.type, got.reply # "nothing"))
          /\ known' = [known EXCEPT !.serials = @ \cup Serials(machine, scan.dev[1], got),
                                    !.areca = @ \/ got.type[1] = "areca"]
          /\ Note(got.reply = "nothing")
    BY Zenon DEF FetchOpen
<1>3. got = said
    BY <1>2, Unfailed DEF AtOpen
<1>4. /\ IsSeq(scans) /\ IsSeq(Tail(scans)) /\ Range(scans) = {scan} \cup Range(Tail(scans))
      /\ scan.rule = "open" /\ scan.from = 0 /\ scan.to = 0
      /\ \A later \in Range(Tail(scans)) : later.rule = "open" /\ later.from = 0 /\ later.to = 0
    BY <1>1, SeqParts, HeadAndTail DEF OpensLeft
<1>5. GoOn(Tail(scans))
    BY <1>1, <1>4 DEF OpensLeft, NextPort
<1> DEFINE d0 == NewDrive(scan.dev[1], got.type, got.reply # "nothing")
           new == {d0}
<1>6. found' = found (+) SetToBag(new)
    BY <1>2 DEF One
<1>7. Address(d0) = <<scan.dev[1], said.type>>
    BY <1>3, AddressOfNew
<1>8. \A a : a \in ListedFrom(machine, scan, port) <=> a = <<scan.dev[1], said.type>>
    BY <1>4, OpenIsListed
<1> HIDE DEF d0
<1>9. \A d, e \in new : Address(d) = Address(e) => d = e
    OBVIOUS
<1>10. \A a : a \in ListedFrom(machine, scan, port) <=> \E d \in new : Address(d) = a
    BY <1>7, <1>8
<1> HIDE DEF new
<1>11. OnPlan' /\ Fresh'
    BY <1>1, <1>4, <1>5, <1>6, <1>9, <1>10, HeadListed
<1>12. /\ DOMAIN known' = DOMAIN known
       /\ known'.pds = known.pds /\ known'.ports = known.ports /\ known'.misses = known.misses
       /\ known'.serials = known.serials \cup Serials(machine, scan.dev[1], said)
       /\ known'.areca = (known.areca \/ said.type[1] = "areca")
    BY <1>2, <1>3 DEF Remembers
<1>13. scans' = Tail(scans) /\ port' = 0
    <2>1. Tail(scans) # <<>> => Head(Tail(scans)) \in Range(Tail(scans))
        BY <1>4, SeqParts
    <2> QED
        BY <1>4, <1>5, <2>1 DEF GoOn
<1>14. \A serial : serial \in OpenSerials(machine) <=>
           \/ serial \in known'.serials
           \/ \E later \in Range(Tail(scans)) : serial \in Serials(machine, later.dev[1], AtOpen(machine, later))
    BY <1>4, <1>12 DEF OpensLeft
<1>15. HasArecaPort(machine) <=> known'.areca \/ \E later \in Range(Tail(scans)) : AtOpen(machine, later).type[1] = "areca"
    <2> DEFINE Has(s) == AtOpen(machine, s).type[1] = "areca"
    <2>1. HasArecaPort(machine) <=> known.areca \/ \E s \in Range(scans) : Has(s)
        BY DEF OpensLeft
    <2>2. known'.areca <=> known.areca \/ Has(scan)
        BY <1>12
    <2> HIDE DEF Has
    <2>3. HasArecaPort(machine) <=> known'.areca \/ \E later \in Range(Tail(scans)) : Has(later)
        BY <1>4, <2>1, <2>2
    <2> QED
        BY <2>3 DEF Has
<1> HIDE DEF scan, said
<1>16. OpensLeft'
    <2>1. UNCHANGED machine /\ methods' = <<"physical", "3dm2", "arcmsr">> /\ Opened' /\ known'.misses = 0
        BY <1>1, <1>12 DEF OpensLeft, Opened
    <2> QED
        BY <1>4, <1>13, <1>14, <1>15, <2>1 DEF OpensLeft
<1> QED
    BY <1>11, <1>12, <1>16 DEF Remembers

\* PhysicalDriveN are tried from 0.
LEMMA PhysicalDrivesOnPlan ==
    ASSUME OnWindows, OnPlan, Fresh, OpensLeft, PhysicalDrives
    PROVE  OnPlan' /\ Fresh' /\ PdsLeft'
<1> DEFINE s == <<AllPds>>
<1>1. /\ methods # <<>> /\ IsSeq(methods) /\ Head(methods) = "physical"
      /\ Tail(methods) = <<"3dm2", "arcmsr">> /\ Range(Tail(methods)) = {"3dm2", "arcmsr"}
    BY WindowsMethods DEF OpensLeft
<1>2. /\ methods' = Tail(methods) /\ scans = <<>> /\ UNCHANGED <<machine, found, known>> /\ GoOn(s)
    BY DEF PhysicalDrives, Method, restVars
<1>3. s = StartOf(machine, "physical")
    BY DEF StartOf
<1>4. IsSeq(s) /\ Separate(machine, s)
    BY SmallSeqs, SmallSeparate
<1>5. \A later \in Range(Tail(methods)) : \A a \in ListedIn(machine, later) : a \notin ListedIn(machine, "physical")
    BY <1>1, PlansApart DEF OnWindows
<1>6. OnPlan' /\ Fresh'
    BY <1>1, <1>2, <1>3, <1>4, <1>5, MethodStarts
<1>7. scans' = <<AllPds>> /\ port' = 0
    BY <1>2, SmallSeqs DEF GoOn, AllPds, Scan
<1>8. HaveSaid'
    <2>1. Range(scans) = {}
        BY <1>2, SmallSeqs
    <2>2. HaveSaid
        BY <2>1 DEF HaveSaid, OpensLeft
    <2> QED
        BY <1>2, <2>2 DEF HaveSaid
<1>9. Misses(machine, 0) = 0 /\ 0 \in 0 .. MaxPd
    BY MissesOn, PdAssumption
<1>10. known'.misses = 0 /\ Opened' /\ UNCHANGED machine
    BY <1>2 DEF OpensLeft, Opened
<1>11. PdsLeft'
    BY <1>1, <1>2, <1>7, <1>8, <1>9, <1>10 DEF PdsLeft
<1> QED
    BY <1>6, <1>11

\* The next PhysicalDrive is tried, unless three have not opened.
LEMMA NextPdOnPlan ==
    ASSUME OnPlan, Fresh, Remembers, PdsLeft, scans # <<>>, UNCHANGED <<machine, methods>>,
           NEW new, found' = found (+) SetToBag(new) \/ (found' = found /\ new = {}),
           \A d, e \in new : Address(d) = Address(e) => d = e,
           \A a : (\E d \in new : Address(d) = a) <=>
                      /\ port \in Hardware[machine].pds \ UsedPds(machine)
                      /\ Serials(machine, Pd(port), Settled(machine, Pd(port), <<>>)) \cap OpenSerials(machine) = {}
                      /\ a = <<Pd(port), Settled(machine, Pd(port), <<>>).type>>,
           \/ known' = [known EXCEPT !.misses = Misses(machine, port + 1)]
           \/ known' = known /\ known.misses = Misses(machine, port + 1),
           NEW stop, stop <=> Misses(machine, port + 1) >= 3, NextPort(stop)
    PROVE  OnPlan' /\ Fresh' /\ Remembers' /\ PdsLeft'
<1>1. scans = <<AllPds>> /\ port \in Nat /\ port <= MaxPd /\ Misses(machine, port) < 3
    BY PdAssumption DEF PdsLeft
<1>2. Head(scans) = AllPds /\ Tail(scans) = <<>> /\ Head(scans).rule = "pd" /\ Head(scans).to = MaxPd
    BY <1>1 DEF AllPds, Scan
<1>3. \A n, a : a \in ListedFrom(machine, Head(scans), n) <=> a \in PdsFrom(machine, n)
    BY <1>2 DEF ListedFrom
<1>4. Range(<<>>) = {}
    BY SmallSeqs
<1>5. Misses(machine, port + 1) \in Nat /\ port + 1 \in Nat
    BY <1>1, MissesOn
<1>6. /\ \A a : ScansList(a)' <=> a \in PdsFrom(machine, port + 1)
      /\ SeparateScans'
      /\ scans' # <<>> => /\ scans' = <<AllPds>> /\ port' \in 0 .. MaxPd
                          /\ Misses(machine, port + 1) = Misses(machine, port') /\ Misses(machine, port + 1) < 3
    <2>1. CASE stop \/ port >= MaxPd
        <3>1. scans' = <<>>
            BY <1>2, <2>1 DEF NextPort, GoOn
        <3>2. PdsFrom(machine, port + 1) = {}
            <4>1. port + 1 > MaxPd \/ Misses(machine, port + 1) >= 3
                BY <1>1, <2>1, PdAssumption
            <4> QED
                BY <1>5, <4>1, NoMorePds
        <3> QED
            BY <3>1, <3>2 DEF ScansList, SeparateScans
    <2>2. CASE ~(stop \/ port >= MaxPd)
        <3>1. UNCHANGED scans /\ port' = port + 1
            BY <1>2, <2>2 DEF NextPort
        <3>2. port + 1 \in 0 .. MaxPd /\ Misses(machine, port + 1) < 3
            BY <1>1, <1>5, <2>2, PdAssumption
        <3>3. SeparateScans'
            BY <1>2, <1>4, <3>1, SmallSeparate DEF SeparateScans
        <3>4. \A a : ScansList(a)' <=> a \in PdsFrom(machine, port + 1)
            BY <1>2, <1>3, <1>4, <3>1 DEF ScansList
        <3> QED
            BY <1>1, <3>1, <3>2, <3>3, <3>4
    <2> QED
        BY <2>1, <2>2
<1>7. \A a : ScansList(a) <=> a \in PdsFrom(machine, port)
    BY <1>2, <1>3, <1>4 DEF ScansList
<1>8. \A a : ScansList(a) <=> ScansList(a)' \/ \E d \in new : Address(d) = a
    BY <1>1, <1>6, <1>7, PdsOn
<1>9. \A d \in new : \A a : a = Address(d) => ~ScansList(a)'
    <2> SUFFICES ASSUME NEW d \in new PROVE Address(d) \notin PdsFrom(machine, port + 1)
        BY <1>6
    <2>1. Address(d) = <<Pd(port), Settled(machine, Pd(port), <<>>).type>>
        OBVIOUS
    <2>2. Address(d)[1] = Pd(port)
        BY <2>1
    <2> QED
        BY <1>1, <2>2, PdsOn
<1>10. OnPlan' /\ Fresh'
    BY <1>6, <1>8, <1>9, ListsNew
<1>11. /\ DOMAIN known' = DOMAIN known /\ known'.misses = Misses(machine, port + 1)
       /\ known'.pds = known.pds /\ known'.ports = known.ports
       /\ known'.serials = known.serials /\ known'.areca = known.areca
    BY DEF Remembers
<1>12. Opened' /\ HaveSaid'
    BY <1>11 DEF PdsLeft, Opened, HaveSaid
<1>13. PdsLeft'
    BY <1>6, <1>11, <1>12 DEF PdsLeft
<1> QED
    BY <1>10, <1>11, <1>13 DEF Remembers

LEMMA SkipUsedOnPlan ==
    ASSUME OnPlan, Fresh, Remembers, PdsLeft, SkipUsed
    PROVE  OnPlan' /\ Fresh' /\ Remembers' /\ PdsLeft'
<1> DEFINE new == {}
<1>1. scans # <<>> /\ port \in UsedPds(machine) /\ NextPort(FALSE) /\ UNCHANGED <<machine, methods, found, known>>
    BY DEF SkipUsed, InScan, restVars, PdsLeft, Opened
<1>2. port \in Nat /\ known.misses = Misses(machine, port) /\ Misses(machine, port) < 3
    BY <1>1 DEF PdsLeft
<1>3. Misses(machine, port + 1) = Misses(machine, port)
    BY <1>1, <1>2, MissesOn
<1>4. known' = known /\ known.misses = Misses(machine, port + 1)
    BY <1>1, <1>2, <1>3
<1>5. FALSE <=> Misses(machine, port + 1) >= 3
    BY <1>2, <1>3, MissesOn
<1>6. found' = found (+) SetToBag(new) \/ (found' = found /\ new = {})
    BY <1>1
<1>7. /\ \A d, e \in new : Address(d) = Address(e) => d = e
      /\ \A a : (\E d \in new : Address(d) = a) <=>
                      /\ port \in Hardware[machine].pds \ UsedPds(machine)
                      /\ Serials(machine, Pd(port), Settled(machine, Pd(port), <<>>)) \cap OpenSerials(machine) = {}
                      /\ a = <<Pd(port), Settled(machine, Pd(port), <<>>).type>>
    BY <1>1
<1> HIDE DEF new
<1> QED
    BY <1>1, <1>4, <1>5, <1>6, <1>7, NextPdOnPlan

LEMMA CannotOpenOnPlan ==
    ASSUME OnPlan, Fresh, Remembers, PdsLeft, CannotOpen
    PROVE  OnPlan' /\ Fresh' /\ Remembers' /\ PdsLeft'
<1> DEFINE new == {}
<1>1. /\ scans # <<>> /\ port \notin UsedPds(machine) \cup Hardware[machine].pds
      /\ NextPort(known.misses + 1 >= 3) /\ UNCHANGED <<machine, methods, found>>
      /\ known' = [known EXCEPT !.misses = known.misses + 1]
    BY DEF CannotOpen, InScan, restVars, PdsLeft, Opened
<1>2. port \in Nat /\ known.misses = Misses(machine, port) /\ Misses(machine, port) < 3
    BY <1>1 DEF PdsLeft
<1>3. Misses(machine, port + 1) = known.misses + 1
    BY <1>1, <1>2, MissesOn
<1>4. known' = [known EXCEPT !.misses = Misses(machine, port + 1)]
    BY <1>1, <1>3
<1>5. known.misses + 1 >= 3 <=> Misses(machine, port + 1) >= 3
    BY <1>3
<1>6. found' = found (+) SetToBag(new) \/ (found' = found /\ new = {})
    BY <1>1
<1>7. /\ \A d, e \in new : Address(d) = Address(e) => d = e
      /\ \A a : (\E d \in new : Address(d) = a) <=>
                      /\ port \in Hardware[machine].pds \ UsedPds(machine)
                      /\ Serials(machine, Pd(port), Settled(machine, Pd(port), <<>>)) \cap OpenSerials(machine) = {}
                      /\ a = <<Pd(port), Settled(machine, Pd(port), <<>>).type>>
    BY <1>1
<1> HIDE DEF new
<1> QED
    BY <1>1, <1>4, <1>5, <1>6, <1>7, NextPdOnPlan

\* One that opens is listed unless a device with a port has its serial number.
LEMMA ProbePhysicalOnPlan ==
    ASSUME OnPlan, Fresh, Remembers, PdsLeft, ProbePhysical, smooth'
    PROVE  OnPlan' /\ Fresh' /\ Remembers' /\ PdsLeft'
<1> DEFINE says == Settled(machine, Pd(port), <<>>)
           other == Serials(machine, Pd(port), says) \cap OpenSerials(machine) = {}
           here == <<Pd(port), says.type>>
<1>1. /\ scans # <<>> /\ port \in Hardware[machine].pds \ UsedPds(machine)
      /\ NextPort(FALSE) /\ UNCHANGED <<machine, methods, known>>
    BY DEF ProbePhysical, InScan, restVars, PdsLeft, Opened
<1>2. PICK got \in Fetched(Pd(port), <<>>) :
          /\ found' = IF Serials(machine, Pd(port), got) \cap known.serials # {} THEN found
                      ELSE found (+) One(NewDrive(Pd(port), got.type, got.reply # "nothing"))
          /\ Note(got.reply = "nothing")
    BY Zenon DEF ProbePhysical
<1>3. got = says
    BY <1>2, Unfailed
<1>4. Serials(machine, Pd(port), got) \cap known.serials = {} <=> other
    BY <1>3 DEF PdsLeft, HaveSaid
<1> DEFINE d0 == NewDrive(Pd(port), got.type, got.reply # "nothing")
           new == IF other THEN {d0} ELSE {}
<1>5. port \in Nat /\ known.misses = Misses(machine, port) /\ Misses(machine, port) < 3
    BY <1>1 DEF PdsLeft
<1>6. Misses(machine, port + 1) = Misses(machine, port)
    <2>1. port \in UsedPds(machine) \cup Hardware[machine].pds /\ port \in Nat
        BY <1>1, <1>5
    <2>2. /\ Misses(machine, port) \in Nat
          /\ Misses(machine, port + 1) =
                 Misses(machine, port) + IF port \in UsedPds(machine) \cup Hardware[machine].pds THEN 0 ELSE 1
        BY <2>1, MissesOn
    <2>3. Misses(machine, port + 1) = Misses(machine, port) + 0
        BY <2>1, <2>2
    <2> QED
        BY <2>2, <2>3
<1>7. known' = known /\ known.misses = Misses(machine, port + 1)
    BY <1>1, <1>5, <1>6
<1>8. FALSE <=> Misses(machine, port + 1) >= 3
    BY <1>5, <1>6, MissesOn
<1>9. Address(d0) = here
    BY <1>3, AddressOfNew
<1> HIDE DEF other, d0
<1>10. found' = found (+) SetToBag(new) \/ (found' = found /\ new = {})
    BY <1>2, <1>4 DEF One, d0
<1>11. \A d, e \in new : Address(d) = Address(e) => d = e
    OBVIOUS
<1>12. \A a : (\E d \in new : Address(d) = a) <=> other /\ a = here
    BY <1>9
<1> HIDE DEF new
<1>13. \A a : (\E d \in new : Address(d) = a) <=>
                      /\ port \in Hardware[machine].pds \ UsedPds(machine)
                      /\ Serials(machine, Pd(port), Settled(machine, Pd(port), <<>>)) \cap OpenSerials(machine) = {}
                      /\ a = <<Pd(port), Settled(machine, Pd(port), <<>>).type>>
    BY <1>1, <1>12 DEF other
<1> QED
    BY <1>1, <1>7, <1>8, <1>10, <1>11, <1>13, NextPdOnPlan

\* tw_cli is asked if it is installed and no device has a port.
LEMMA TwCliControllersOnPlan ==
    ASSUME OnWindows, OnPlan, Fresh, PdsLeft, TwCliControllers, smooth'
    PROVE  OnPlan' /\ Fresh' /\ UNCHANGED known /\ ToolsLeft'
<1> DEFINE s == StartOf(machine, "3dm2")
<1>1. /\ methods # <<>> /\ IsSeq(methods) /\ Head(methods) = "3dm2"
      /\ Tail(methods) = <<"arcmsr">> /\ Range(Tail(methods)) = {"arcmsr"}
    BY WindowsMethods DEF PdsLeft
<1>2. /\ methods' = Tail(methods) /\ scans = <<>> /\ UNCHANGED <<machine, found, known>>
    BY DEF TwCliControllers, Method, restVars
<1>3. GoOn(IF known.ports \/ ~Hardware[machine].tools THEN <<>> ELSE ToolScans(machine))
    BY DEF TwCliControllers, Note
<1>4. s = IF Hardware[machine].scanOpen # <<>> \/ ~Hardware[machine].tools THEN <<>> ELSE ToolScans(machine)
    BY DEF StartOf
<1>5. known.ports <=> Hardware[machine].scanOpen # <<>>
    BY DEF PdsLeft, Opened
<1>6. GoOn(s)
    BY <1>3, <1>4, <1>5
<1>7. /\ IsSeq(s) /\ Separate(machine, s)
      /\ \A scan \in Range(s) : /\ scan.rule = "3dm2" /\ scan.from = 0 /\ scan.to = 0
                                /\ scan.host \in DOMAIN Hardware[machine].twCli
    <2>1. CASE s = <<>>
        BY <2>1, SmallSeqs, SmallSeparate
    <2>2. CASE s = ToolScans(machine)
        BY <2>2, ToolScansAre DEF OnWindows
    <2> QED
        BY <1>4, <2>1, <2>2
<1>8. \A later \in Range(Tail(methods)) : \A a \in ListedIn(machine, later) : a \notin ListedIn(machine, "3dm2")
    BY <1>1, PlansApart DEF OnWindows
<1> HIDE DEF s
<1>9. OnPlan' /\ Fresh'
    BY <1>1, <1>2, <1>6, <1>7, <1>8, MethodStarts DEF s
<1>10. scans' = s /\ port' = 0
    <2>1. s # <<>> => Head(s) \in Range(s)
        BY <1>7, SeqParts
    <2> QED
        BY <1>6, <1>7, <2>1 DEF GoOn
<1>11. HaveSaid' /\ UNCHANGED machine /\ methods' = <<"arcmsr">>
    BY <1>1, <1>2 DEF PdsLeft, HaveSaid
<1> QED
    BY <1>2, <1>7, <1>9, <1>10, <1>11 DEF ToolsLeft

\* The ports that tw_cli lists.
LEMMA TwCliPortsOnPlan ==
    ASSUME OnPlan, Fresh, ToolsLeft, TwCliPorts, smooth'
    PROVE  OnPlan' /\ Fresh' /\ UNCHANGED known /\ ToolsLeft'
<1> DEFINE scan == Head(scans)
           c == scan.host
           ports == Hardware[machine].twCli[c]
           Shown(p) == NewDrive(<<"tw_cli", c, p>>, <<>>, FALSE)
           At(p) == <<<<"tw_cli", c, p>>, <<>>>>
           new == {Shown(p) : p \in ports}
<1>1. scans # <<>> /\ UNCHANGED <<machine, methods, known>> /\ NextPort(FALSE)
    BY DEF TwCliPorts, InScan, restVars
<1>2. /\ IsSeq(scans) /\ IsSeq(Tail(scans)) /\ Range(scans) = {scan} \cup Range(Tail(scans))
      /\ scan.rule = "3dm2" /\ scan.from = 0 /\ scan.to = 0 /\ c \in DOMAIN Hardware[machine].twCli
      /\ \A later \in Range(Tail(scans)) : /\ later.rule = "3dm2" /\ later.from = 0 /\ later.to = 0
                                           /\ later.host \in DOMAIN Hardware[machine].twCli
    BY <1>1, SeqParts, HeadAndTail DEF ToolsLeft
<1>3. GoOn(Tail(scans))
    BY <1>1, <1>2 DEF ToolsLeft, NextPort
<1>4. found' = found (+) SetToBag(new)
    BY <1>2 DEF TwCliPorts, Note
<1>5. \A p : Address(Shown(p)) = At(p)
    BY AddressOfNew
<1>6. \A p, q : At(p) = At(q) => p = q
    <2> SUFFICES ASSUME NEW p, NEW q, At(p) = At(q) PROVE p = q
        OBVIOUS
    <2>1. At(p)[1][3] = p /\ At(q)[1][3] = q
        OBVIOUS
    <2> QED
        BY <2>1
<1>7. ListedFrom(machine, scan, port) = {At(p) : p \in ports}
    BY <1>2 DEF ListedFrom
<1> HIDE DEF Shown, At, ports, scan
<1>8. \A d, e \in new : Address(d) = Address(e) => d = e
    BY <1>5, <1>6
<1>9. \A a : a \in ListedFrom(machine, scan, port) <=> \E d \in new : Address(d) = a
    BY <1>5, <1>7
<1> HIDE DEF new
<1>10. OnPlan' /\ Fresh'
    BY <1>1, <1>2, <1>3, <1>4, <1>8, <1>9, HeadListed DEF scan
<1>11. scans' = Tail(scans) /\ port' = 0
    <2>1. Tail(scans) # <<>> => Head(Tail(scans)) \in Range(Tail(scans))
        BY <1>2, SeqParts
    <2> QED
        BY <1>2, <1>3, <2>1 DEF GoOn
<1>12. HaveSaid' /\ methods' = <<"arcmsr">>
    BY <1>1 DEF ToolsLeft, HaveSaid
<1> QED
    BY <1>1, <1>2, <1>10, <1>11, <1>12 DEF ToolsLeft

\* The ports of all controllers, from the first on.
LEMMA PortsBegin ==
    ASSUME GoOn(ByPort)
    PROVE  scans' = ByPort /\ port' \in Int
<1>1. IsSeq(ByPort) /\ Range(ByPort) \subseteq PortScans
    BY ByPortScans DEF PortsLeft
<1>2. ByPort # <<>> => Head(ByPort) \in PortScans
    BY <1>1, SeqParts
<1>3. \A scan \in PortScans : scan.from \in Int
    BY PortScanFields, PortsAndExpanders
<1> QED
    BY <1>2, <1>3 DEF GoOn

LEMMA PortsList == \A m : \A scan \in Range(ByPort) : ListedBy(m, scan) = ListedByPort(m, scan)
<1>1. Range(ByPort) \subseteq PortScans
    BY ByPortScans DEF PortsLeft
<1> QED
    BY <1>1, PortScansList

\* The CLI or the ports, by what is installed and configured.
LEMMA ArecaToolsOnPlan ==
    ASSUME OnWindows, OnPlan, Fresh, Remembers, ToolsLeft, ArecaTools
    PROVE  OnPlan' /\ Fresh' /\ Remembers' /\ ArecasLeft'
<1> DEFINE s == StartOf(machine, "arcmsr")
           presence == Scan("presence", Arcmsr(0), 0, 0)
<1>1. /\ methods # <<>> /\ IsSeq(methods) /\ Head(methods) = "arcmsr"
      /\ Tail(methods) = <<>> /\ Range(Tail(methods)) = {}
    BY WindowsMethods DEF ToolsLeft
<1>2. /\ methods' = Tail(methods) /\ scans = <<>> /\ UNCHANGED <<machine, found>>
      /\ known' = [known EXCEPT !.byPort = MayByPort(machine)]
      /\ GoOn(ArecaStart(machine, known.areca))
    BY DEF ArecaTools, Method, restVars
<1>3. known.areca <=> HasArecaPort(machine)
    BY DEF ToolsLeft, HaveSaid
<1>4. \A p, q : (p <=> q) => ArecaStart(machine, p) = ArecaStart(machine, q)
    BY DEF ArecaStart
<1>5. GoOn(s) /\ s = ArecaStart(machine, HasArecaPort(machine))
    BY <1>2, <1>3, <1>4 DEF StartOf
<1>6. s = <<presence>> \/ s = ByPort \/ s = <<>>
    BY <1>5 DEF ArecaStart
<1> HIDE DEF presence
<1>7. IsSeq(s) /\ Separate(machine, s)
    <2>1. IsSeq(ByPort) /\ Separate(machine, ByPort)
        BY ByPortScans, PortsAreSeparate, ByPortIsSeq
    <2> QED
        BY <1>6, <2>1, SmallSeqs, SmallSeparate
<1> HIDE DEF s
<1>8. OnPlan' /\ Fresh'
    BY <1>1, <1>2, <1>5, <1>7, MethodStarts DEF s
<1>9. DOMAIN known' = DOMAIN known /\ known'.byPort = MayByPort(machine)
    BY <1>2 DEF Remembers
<1>10. scans' = s
    BY <1>5 DEF GoOn
<1>11. \A a : a \in ListedIn(machine, "arcmsr") <=> \E scan \in Range(s) : a \in ListedBy(machine, scan)
    BY Zenon DEF ListedIn, s
<1>12. \A a : a \in ListedIn(machine, "arcmsr") <=> ScansList(a)'
    BY <1>2, <1>5, <1>7, <1>11, GoneOn
<1>13. s = ByPort => PortsLeft(s) /\ port' \in Int /\ ByPorts
    BY <1>5, <1>11, ByPortScans, PortsBegin, PortsList DEF ByPorts
<1>14. ArecasLeft'
    <2>1. methods' = <<>> /\ (known'.byPort <=> MayByPort(machine)) /\ UNCHANGED machine
        BY <1>1, <1>2, <1>9
    <2>2. ByPorts => ByPorts'
        BY <2>1 DEF ByPorts
    <2> QED
        BY <1>6, <1>10, <1>12, <1>13, <2>1, <2>2 DEF ArecasLeft, presence
<1> QED
    BY <1>8, <1>9, <1>14 DEF Remembers

\* What the scans of the last method list is still to come.
LEMMA ArecaReplaced ==
    ASSUME OnPlan, Fresh, UNCHANGED <<machine, methods, found, known>>, methods = <<>>,
           known.byPort <=> MayByPort(machine),
           \A a : a \in ListedIn(machine, "arcmsr") <=> ScansList(a),
           NEW s, s = <<>> \/ s = ByPort \/ s = <<Scan("cli", Arcmsr(0), 0, 0)>>, GoOn(s),
           \A a : ScansList(a) <=> \E scan \in Range(s) : a \in ListedBy(machine, scan)
    PROVE  OnPlan' /\ Fresh' /\ ArecasLeft'
<1>1. IsSeq(s) /\ Separate(machine, s)
    <2>1. IsSeq(ByPort) /\ Separate(machine, ByPort)
        BY ByPortScans, PortsAreSeparate, ByPortIsSeq
    <2> QED
        BY <2>1, SmallSeqs, SmallSeparate
<1>2. OnPlan' /\ Fresh'
    BY <1>1, ScansReplaced
<1>3. \A a : a \in ListedIn(machine, "arcmsr") <=> ScansList(a)'
    BY <1>1, GoneOn
<1>4. scans' = s
    BY DEF GoOn
<1>5. s = ByPort => PortsLeft(s) /\ port' \in Int /\ ByPorts
    BY ByPortScans, PortsBegin, PortsList DEF ByPorts
<1>6. ByPorts => ByPorts'
    BY DEF ByPorts
<1> QED
    BY <1>2, <1>3, <1>4, <1>5, <1>6 DEF ArecasLeft

\* Without a controller the CLI is not asked.
LEMMA ArecaPresenceOnPlan ==
    ASSUME OnPlan, Fresh, ArecasLeft, ArecaPresence, smooth'
    PROVE  OnPlan' /\ Fresh' /\ UNCHANGED known /\ ArecasLeft'
<1> DEFINE scan == Head(scans)
           cli == Scan("cli", Arcmsr(0), 0, 0)
           says == ReplyOf(machine, Arcmsr(0), <<"areca", 1>>)
           s == IF says \in NoArcmsr THEN <<>> ELSE <<cli>>
<1>1. scans # <<>> /\ scan.rule = "presence" /\ UNCHANGED <<machine, methods, found, known>>
    BY DEF ArecaPresence, InScan, restVars
<1>2. /\ scans = <<Scan("presence", Arcmsr(0), 0, 0)>>
      /\ \A a : a \in ListedIn(machine, "arcmsr") <=> ScansList(a)
    <2>1. Scan("cli", Arcmsr(0), 0, 0).rule = "cli"
        BY DEF Scan
    <2>2. PortsLeft(scans) => scan.rule # "presence"
        BY <1>1, SeqParts, PortScanFields, PortsAndExpanders DEF PortsLeft
    <2> QED
        BY <1>1, <2>1, <2>2, WindowsMethods DEF ArecasLeft
<1>3. scan.dev = Arcmsr(0) /\ Tail(scans) = <<>>
    BY <1>2 DEF Scan
<1>4. GoOn(s)
    <2>1. PICK reply \in Replies(scan.dev, <<"areca", 1>>) :
              /\ GoOn(IF reply \in NoArcmsr THEN <<>> ELSE <<Scan("cli", scan.dev, 0, 0)>>)
              /\ Note(reply = "nothing")
        BY Zenon DEF ArecaPresence
    <2>2. reply # "nothing"
        BY <2>1 DEF Note
    <2>3. reply = says
        BY <1>3, <2>2 DEF Replies, Reply
    <2> QED
        BY <1>3, <2>1, <2>3
<1>5. cli.rule = "cli" /\ cli.dev = Arcmsr(0)
    BY DEF Scan
<1>6. ListedBy(machine, cli) = CliLists(machine, Arcmsr(0))
    BY <1>5 DEF ListedBy, ListedFrom
<1>7. \A n : ListedFrom(machine, scan, n) = IF says \in NoArcmsr THEN {} ELSE CliLists(machine, Arcmsr(0))
    BY <1>1, <1>3 DEF ListedFrom
<1>8. \A a : ScansList(a) <=> a \in ListedFrom(machine, scan, port)
    BY <1>1, <1>3, SmallSeqs DEF ScansList
<1> HIDE DEF cli, says, scan
<1>9. \A a : ScansList(a) <=> \E x \in Range(s) : a \in ListedBy(machine, x)
    BY <1>6, <1>7, <1>8, SmallSeqs
<1>10. s = <<>> \/ s = <<cli>>
    OBVIOUS
<1> HIDE DEF s
<1>11. methods = <<>> /\ (known.byPort <=> MayByPort(machine))
    BY DEF ArecasLeft
<1> QED
    BY <1>1, <1>2, <1>4, <1>9, <1>10, <1>11, ArecaReplaced DEF cli

\* The CLI lists the disks; if it does not run, the ports are asked unless it is forced.
LEMMA ArecaCliOnPlan ==
    ASSUME OnPlan, Fresh, ArecasLeft, ArecaCli, smooth'
    PROVE  OnPlan' /\ Fresh' /\ UNCHANGED known /\ ArecasLeft'
<1> DEFINE scan == Head(scans)
           dev == Arcmsr(0)
           areca == Hardware[machine].areca
<1>1. scans # <<>> /\ scan.rule = "cli" /\ UNCHANGED <<machine, methods, known>>
    BY DEF ArecaCli, InScan, restVars
<1>2. /\ scans = <<Scan("cli", Arcmsr(0), 0, 0)>>
      /\ \A a : a \in ListedIn(machine, "arcmsr") <=> ScansList(a)
    <2>1. Scan("presence", Arcmsr(0), 0, 0).rule = "presence"
        BY DEF Scan
    <2>2. PortsLeft(scans) => scan.rule # "cli"
        BY <1>1, SeqParts, PortScanFields, PortsAndExpanders DEF PortsLeft
    <2> QED
        BY <1>1, <2>1, <2>2, WindowsMethods DEF ArecasLeft
<1>3. scan.dev = dev /\ Tail(scans) = <<>> /\ IsSeq(scans)
    BY <1>2, SmallSeqs DEF Scan
<1>4. \A n : ListedFrom(machine, scan, n) = CliLists(machine, dev)
    BY <1>1, <1>3 DEF ListedFrom
<1>5. \A a : ScansList(a) <=> a \in CliLists(machine, dev)
    BY <1>1, <1>3, <1>4, SmallSeqs DEF ScansList
<1>6. methods = <<>> /\ (known.byPort <=> MayByPort(machine))
    BY DEF ArecasLeft
<1>7. CASE areca.runs
    <2> DEFINE Shown(type) == NewDrive(dev, type, FALSE)
               new == {Shown(type) : type \in areca.lists}
    <2>1. found' = found (+) SetToBag(new) /\ GoOn(<<>>)
        BY <1>3, <1>7 DEF ArecaCli, Note
    <2>2. CliLists(machine, dev) = {<<dev, type>> : type \in areca.lists}
        BY <1>7 DEF CliLists
    <2>3. \A type : Address(Shown(type)) = <<dev, type>>
        BY AddressOfNew
    <2> HIDE DEF Shown
    <2>4. \A d, e \in new : Address(d) = Address(e) => d = e
        BY <2>3
    <2>5. \A a : a \in ListedFrom(machine, scan, port) <=> \E d \in new : Address(d) = a
        BY <1>4, <2>2, <2>3
    <2> HIDE DEF new, scan
    <2>6. OnPlan' /\ Fresh'
        BY <1>1, <1>3, <2>1, <2>4, <2>5, HeadListed DEF scan
    <2>7. scans' = <<>>
        BY <2>1 DEF GoOn
    <2> QED
        BY <1>1, <1>6, <2>6, <2>7 DEF ArecasLeft
<1>8. CASE ~areca.runs
    <2> DEFINE s == IF MayByPort(machine) THEN ByPort ELSE <<>>
    <2>1. GoOn(s) /\ UNCHANGED found
        BY <1>6, <1>8 DEF ArecaCli
    <2>2. \A a : a \in CliLists(machine, dev) <=> \E x \in Range(s) : a \in ListedBy(machine, x)
        <3>1. CASE MayByPort(machine)
            <4>1. \A a : a \in CliLists(machine, dev) <=> \E x \in Range(ByPort) : a \in ListedByPort(machine, x)
                BY <1>8, <3>1, Zenon DEF CliLists
            <4> QED
                BY <3>1, <4>1, PortsList
        <3>2. CASE ~MayByPort(machine)
            BY <1>8, <3>2, SmallSeqs DEF CliLists
        <3> QED
            BY <3>1, <3>2
    <2>3. s = <<>> \/ s = ByPort
        OBVIOUS
    <2> HIDE DEF s
    <2> QED
        BY <1>1, <1>2, <1>5, <1>6, <2>1, <2>2, <2>3, ArecaReplaced
<1> QED
    BY <1>7, <1>8

\* The ports after the head of those left are left, too.
LEMMA PortsLeftOn ==
    ASSUME NEW s, PortsLeft(s), s # <<>>
    PROVE  /\ PortsLeft(Tail(s)) /\ Head(s) \in PortScans
           /\ \A later \in Range(Tail(s)) : later \in PortScans /\ <<Head(s), later>> \in InOrder
<1>1. /\ IsSeq(s) /\ IsSeq(Tail(s)) /\ Range(s) = {Head(s)} \cup Range(Tail(s)) /\ Range(s) \subseteq PortScans
      /\ 1 \in DOMAIN s /\ Head(s) = s[1]
      /\ \A i \in DOMAIN Tail(s) : i \in Int /\ i + 1 \in DOMAIN s /\ 1 < i + 1 /\ Tail(s)[i] = s[i + 1]
    BY TailFollows DEF PortsLeft
<1>2. Paired(InOrder, s)
    BY DEF PortsLeft
<1>3. Paired(InOrder, Tail(s))
    <2> SUFFICES ASSUME NEW i \in DOMAIN Tail(s), NEW j \in DOMAIN Tail(s), i < j
                 PROVE  <<Tail(s)[i], Tail(s)[j]>> \in InOrder
        BY DEF Paired
    <2>1. /\ i + 1 \in DOMAIN s /\ j + 1 \in DOMAIN s /\ i + 1 < j + 1
          /\ Tail(s)[i] = s[i + 1] /\ Tail(s)[j] = s[j + 1]
        BY <1>1
    <2> QED
        BY <1>2, <2>1, Zenon DEF Paired
<1>4. ASSUME NEW later \in Range(Tail(s)) PROVE <<Head(s), later>> \in InOrder
    <2>1. PICK i \in DOMAIN Tail(s) : Tail(s)[i] = later
        BY InRange
    <2>2. i + 1 \in DOMAIN s /\ 1 < i + 1 /\ later = s[i + 1]
        BY <1>1, <2>1
    <2> QED
        BY <1>1, <1>2, <2>2, Zenon DEF Paired
<1> QED
    BY <1>1, <1>3, <1>4 DEF PortsLeft

\* A port of a controller or of an enclosure is read, and listed unless it ends the scan.
LEMMA PortOnPlan ==
    ASSUME OnPlan, Fresh, ArecasLeft, Probe, UNCHANGED known, smooth'
    PROVE  OnPlan' /\ Fresh' /\ ArecasLeft'
<1> DEFINE scan == Head(scans)
           says == AtPort(machine, scan, port)
           stop == Stops(scan.rule, port, says.reply)
           here == <<scan.dev, says.type>>
<1>1. scans # <<>> /\ scan.rule \in Asked /\ UNCHANGED <<machine, methods>>
    BY DEF Probe, InScan, Asked
<1>2. PortsLeft(scans) /\ port \in Int /\ ByPorts
    <2>1. Scan("presence", Arcmsr(0), 0, 0).rule \notin Asked /\ Scan("cli", Arcmsr(0), 0, 0).rule \notin Asked
        BY DEF Scan, Asked
    <2> QED
        BY <1>1, <2>1, WindowsMethods DEF ArecasLeft
<1>3. /\ IsSeq(scans) /\ PortsLeft(Tail(scans)) /\ scan \in PortScans
      /\ \A later \in Range(Tail(scans)) : later \in PortScans
    BY <1>1, <1>2, PortsLeftOn DEF PortsLeft
<1>4. scan.rule = "areca" /\ scan.to \in Int /\ \A n : ListedFrom(machine, scan, n) = AnsweringFrom(machine, scan, n)
    <2>1. "expanders" \notin Asked
        BY DEF Asked
    <2>2. scan.rule = "areca" /\ scan.to \in Int
        BY <1>1, <1>3, <2>1, PortScanFields, PortsAndExpanders
    <2> QED
        BY <1>3, <2>2, PortScansList
<1>5. PICK got \in Fetched(scan.dev, TypeAt(scan, port)) :
          /\ found' = IF /\ ~Stops(scan.rule, port, got.reply) /\ got.reply # "nothing"
                         /\ ~(scan.rule = "partition" /\ got.reply = "raid")
                      THEN found (+) One(NewDrive(scan.dev, got.type, TRUE)) ELSE found
          /\ Note(got.reply = "nothing")
          /\ NextPort(Stops(scan.rule, port, got.reply))
    BY Zenon DEF Probe
<1>6. got = says /\ got.reply # "nothing"
    BY <1>5, Unfailed DEF AtPort
<1>7. NextPort(stop)
    BY <1>5, <1>6
<1> DEFINE d0 == NewDrive(scan.dev, got.type, TRUE)
           new == IF stop THEN {} ELSE {d0}
<1>8. found' = found (+) SetToBag(new) \/ (found' = found /\ new = {})
    BY <1>4, <1>5, <1>6 DEF One
<1>9. Address(d0) = here
    BY <1>6, AddressOfNew
<1>10. \A a : ScansList(a) <=> ScansList(a)' \/ (~stop /\ a = here)
    <2>1. \A a : ScansList(a) <=>
                      \/ ScansList(a)'
                      \/ /\ ~stop
                         /\ ~(scan.rule = "partition" /\ says.reply = "raid")
                         /\ a = here
        BY <1>1, <1>2, <1>3, <1>4, <1>7, NextPortOnPlan
    <2> QED
        BY <1>4, <2>1
<1>11. says.type = TypeAt(scan, port) /\ TypeAt(scan, port)[2] = port
    BY <1>4, ArecaTypes, SettledType DEF AtPort
<1>12. /\ \A a \in AnsweringFrom(machine, scan, port + 1) : a # here
       /\ ~stop => here \in ListedFrom(machine, scan, port)
       /\ \A a \in AnsweringFrom(machine, scan, port + 1) :
              ~stop /\ ~(port >= scan.to) => a \in ListedFrom(machine, scan, port)
    <2>1. ASSUME here \in AnsweringFrom(machine, scan, port + 1) PROVE FALSE
        <3>1. PICK p \in Int : port + 1 <= p /\ here = <<scan.dev, TypeAt(scan, p)>>
            BY <1>4, <2>1, ArecaAnswers
        <3>2. TypeAt(scan, p) = TypeAt(scan, port)
            BY <1>11, <3>1
        <3>3. TypeAt(scan, p)[2] = p
            BY <1>4, ArecaTypes
        <3>4. p = port
            BY <1>11, <3>2, <3>3
        <3> QED
            BY <1>2, <3>1, <3>4
    <2>2. \A a : a \in AnsweringFrom(machine, scan, port) <=>
                      ~stop /\ (a = here \/ (~(port >= scan.to) /\ a \in AnsweringFrom(machine, scan, port + 1)))
        BY <1>2, <1>4, AnsweringOn
    <2> HIDE DEF here, stop
    <2> QED
        BY <1>4, <2>1, <2>2
<1>13. SeparateScans
    BY DEF Fresh
<1>14. /\ SeparateScans'
       /\ \A a : ~stop /\ a = here => ~ScansList(a)'
       /\ PortsLeft(scans') /\ port' \in Int
    <2>1. CASE stop \/ port >= scan.to
        <3>1. GoOn(Tail(scans))
            BY <1>7, <2>1 DEF NextPort
        <3>2. IsSeq(Tail(scans))
            BY <1>3 DEF PortsLeft
        <3>3. SeparateScans'
            BY <1>1, <1>13, <3>1, <3>2, GoneOnSeparate DEF SeparateScans
        <3>4. \A a : ScansList(a)' <=> \E later \in Range(Tail(scans)) : a \in ListedBy(machine, later)
            BY <1>1, <3>1, <3>2, GoneOn
        <3>5. \A a : ~stop /\ a = here => ~ScansList(a)'
            <4>1. \A a : ~stop /\ a = here => a \in ListedFrom(machine, scan, port)
                BY <1>12
            <4> HIDE DEF here, stop
            <4> QED
                BY <1>1, <1>13, <3>4, <4>1 DEF SeparateScans
        <3>6. scans' = Tail(scans) /\ port' \in Int
            <4>1. Tail(scans) # <<>> => Head(Tail(scans)) \in PortScans
                BY <1>3, SeqParts DEF PortsLeft
            <4>2. \A x \in PortScans : x.from \in Int
                BY PortScanFields, PortsAndExpanders
            <4> QED
                BY <3>1, <4>1, <4>2 DEF GoOn
        <3> QED
            BY <1>3, <3>3, <3>5, <3>6
    <2>2. CASE ~(stop \/ port >= scan.to)
        <3>1. UNCHANGED scans /\ port' = port + 1
            BY <1>7, <2>2 DEF NextPort
        <3>2. \A a \in ListedFrom(machine, scan, port + 1) : a \in ListedFrom(machine, scan, port) /\ a # here
            BY <1>4, <1>12, <2>2
        <3>3. \A later \in Range(Tail(scans)) : \A a \in ListedBy(machine, later) :
                  a \notin ListedFrom(machine, scan, port + 1)
            BY <1>1, <1>13, <3>2 DEF SeparateScans
        <3>4. SeparateScans'
            BY <1>1, <1>13, <3>1, <3>3 DEF SeparateScans
        <3>5. \A a : a = here => a \in ListedFrom(machine, scan, port)
            BY <1>12, <2>2
        <3>6. \A a : ScansList(a)' => \/ a \in ListedFrom(machine, scan, port + 1)
                                       \/ \E later \in Range(Tail(scans)) : a \in ListedBy(machine, later)
            BY <1>1, <3>1 DEF ScansList
        <3> HIDE DEF here
        <3>7. \A a : a = here => ~ScansList(a)'
            BY <1>1, <1>13, <3>2, <3>5, <3>6 DEF SeparateScans
        <3> QED
            BY <1>2, <3>1, <3>4, <3>7
    <2> QED
        BY <2>1, <2>2
<1> HIDE DEF d0, here, stop
<1>15. \A d, e \in new : Address(d) = Address(e) => d = e
    OBVIOUS
<1>16. \A a : (\E d \in new : Address(d) = a) <=> ~stop /\ a = here
    BY <1>9
<1>17. \A a : ScansList(a) <=> ScansList(a)' \/ \E d \in new : Address(d) = a
    BY <1>10, <1>16
<1>18. \A d \in new : \A a : a = Address(d) => ~ScansList(a)'
    BY <1>14, <1>16
<1> HIDE DEF new
<1>19. OnPlan' /\ Fresh'
    BY <1>1, <1>8, <1>14, <1>15, <1>17, <1>18, ListsNew
<1>20. ArecasLeft'
    <2>1. ByPorts' /\ methods' = <<>> /\ (known'.byPort <=> MayByPort(machine)) /\ UNCHANGED machine
        BY <1>1, <1>2 DEF ByPorts, ArecasLeft
    <2> QED
        BY <1>14, <2>1 DEF ArecasLeft
<1> QED
    BY <1>19, <1>20

\* Before the enclosures of a controller are asked, something of it has been found exactly if
\* a port of it has answered or smartctl has listed it.
LEMMA PortsAnswered ==
    ASSUME OnWindows, OnPlan, Fresh, methods = <<>>, ByPorts, scans # <<>>, PortsLeft(scans),
           NEW dev, Head(scans) = Expanders(dev)
    PROVE  (\E d \in DOMAIN found : d.dev = dev) <=>
               \/ \E scan \in Range(OpenScans(machine)) : scan.dev[1] = dev
               \/ AnsweringFrom(machine, PortsOf(dev), 1) # {}
<1> DEFINE opened == \E scan \in Range(OpenScans(machine)) : scan.dev[1] = dev
           answered == AnsweringFrom(machine, PortsOf(dev), 1) # {}
<1>1. /\ Head(scans).rule = "expanders" /\ Head(scans).dev = dev
      /\ PortsOf(dev).rule = "areca" /\ PortsOf(dev).dev = dev
    BY PortsAndExpanders
<1>2. \A later \in Range(Tail(scans)) : later \in PortScans /\ later.dev # dev
    BY <1>1, PortsLeftOn DEF InOrder
<1>3. \A n : ListedFrom(machine, Head(scans), n) = Boxed(machine, dev)
    BY <1>1 DEF ListedFrom
<1>4. PICK c \in 0 .. WinSetting.controllers - 1 : dev = Arcmsr(c)
    <2>1. Head(scans) \in PortScans
        BY PortsLeftOn
    <2> QED
        BY <1>1, <2>1, PortScanFields
<1>5. Range(methods) = {}
    BY SmallSeqs
<1>6. \A a : a \in Plan(machine) <=> Found(a) \/ ScansList(a)
    BY <1>5 DEF OnPlan
<1>7. \A a : a \in Plan(machine) <=> \/ a \in ListedIn(machine, "scan-open") \/ a \in ListedIn(machine, "physical")
                                     \/ a \in ListedIn(machine, "3dm2") \/ a \in ListedIn(machine, "arcmsr")
    <2>1. Range(MethodsOf("windows")) = {"scan-open", "physical", "3dm2", "arcmsr"}
        BY DEF MethodsOf, Range
    <2>2. Plan(machine) = UNION {ListedIn(machine, method) : method \in {"scan-open", "physical", "3dm2", "arcmsr"}}
        BY <2>1 DEF Plan, OnWindows
    <2> QED
        BY <2>2
<1>8. \A d : Address(d)[1] = d.dev
    BY DEF Address
<1>9. ASSUME NEW a, a \in Plan(machine), a[1] = dev, opened \/ answered
      PROVE  \E d \in DOMAIN found : d.dev = dev
    <2>1. a \notin Boxed(machine, dev)
        BY <1>9, BoxesAnswer
    <2>2. \A later \in Range(Tail(scans)) : a \notin ListedBy(machine, later)
        BY <1>2, <1>9, PortScansList
    <2>3. ~ScansList(a)
        BY <1>3, <2>1, <2>2 DEF ScansList
    <2>4. Found(a)
        BY <1>6, <1>9, <2>3
    <2> QED
        BY <1>8, <1>9, <2>4 DEF Found
<1>10. ASSUME opened PROVE \E d \in DOMAIN found : d.dev = dev
    <2>1. PICK scan \in Range(OpenScans(machine)) : scan.dev[1] = dev
        BY <1>10
    <2> DEFINE a == <<scan.dev[1], AtOpen(machine, scan).type>>
    <2>2. a \in ListedBy(machine, scan)
        BY OpenScansAre, OpenIsListed DEF ListedBy, OnWindows
    <2>3. a \in ListedIn(machine, "scan-open")
        BY <2>2, Zenon DEF ListedIn, StartOf
    <2>4. a[1] = dev
        BY <2>1
    <2> HIDE DEF a
    <2> QED
        BY <1>7, <1>9, <1>10, <2>3, <2>4
<1>11. ASSUME answered PROVE \E d \in DOMAIN found : d.dev = dev
    <2>1. PICK a : a \in AnsweringFrom(machine, PortsOf(dev), 1)
        BY <1>11
    <2>2. PortsOf(dev) \in Range(ByPort)
        BY <1>4, ByPortScans
    <2>3. a \in ListedIn(machine, "arcmsr")
        BY <1>1, <2>1, <2>2 DEF ByPorts, ListedByPort
    <2>4. a[1] = dev
        BY <1>1, <2>1, ArecaAnswers
    <2> QED
        BY <1>7, <1>9, <1>11, <2>3, <2>4
<1>12. ASSUME NEW d \in DOMAIN found, d.dev = dev, ~opened, ~answered PROVE FALSE
    <2> DEFINE a == Address(d)
    <2>1. Found(a) /\ a[1] = dev /\ a[1][1] = "arcmsr"
        BY <1>4, <1>8, <1>12 DEF Found, Arcmsr
    <2> HIDE DEF a
    <2>2. ~ScansList(a)
        BY <2>1 DEF Fresh
    <2>3. a \in ListedIn(machine, "scan-open") \/ a \in ListedIn(machine, "arcmsr")
        BY <1>6, <1>7, <2>1, MethodDevices DEF OnWindows
    <2>4. CASE a \in ListedIn(machine, "scan-open")
        <3>1. PICK scan \in Range(OpenScans(machine)) : a \in ListedBy(machine, scan)
            BY <2>4 DEF ListedIn, StartOf
        <3>2. a = <<scan.dev[1], AtOpen(machine, scan).type>>
            BY <3>1, OpenScansAre, OpenIsListed DEF ListedBy, OnWindows
        <3> QED
            BY <1>12, <2>1, <3>2
    <2>5. CASE a \in ListedIn(machine, "arcmsr")
        <3>1. PICK scan \in Range(ByPort) : a \in ListedByPort(machine, scan)
            BY <2>5 DEF ByPorts
        <3>2. a[1] = scan.dev
            BY <3>1, ByPortScans, PortScansList DEF PortsLeft
        <3>3. scan = PortsOf(dev) \/ scan = Expanders(dev)
            <4>1. PICK b \in 0 .. WinSetting.controllers - 1 : scan = PortsOf(Arcmsr(b)) \/ scan = Expanders(Arcmsr(b))
                BY <3>1, ByPortScans
            <4>2. scan.dev = Arcmsr(b)
                BY <4>1, PortsAndExpanders
            <4> QED
                BY <2>1, <3>2, <4>1, <4>2
        <3>4. CASE scan = PortsOf(dev)
            BY <1>1, <1>12, <3>1, <3>4 DEF ListedByPort
        <3>5. CASE scan = Expanders(dev)
            <4>1. a \in Boxed(machine, dev)
                BY <3>1, <3>5, PortsAndExpanders DEF ListedByPort
            <4> QED
                BY <1>3, <2>2, <4>1 DEF ScansList
        <3> QED
            BY <3>3, <3>4, <3>5
    <2> QED
        BY <2>3, <2>4, <2>5
<1> QED
    BY <1>10, <1>11, <1>12

\* The enclosures of a controller come next unless something of it has been found.
LEMMA ArecaExpandersOnPlan ==
    ASSUME OnWindows, OnPlan, Fresh, ArecasLeft, ArecaExpanders
    PROVE  OnPlan' /\ Fresh' /\ UNCHANGED known /\ ArecasLeft'
<1> DEFINE dev == Head(scans).dev
           boxes == IF \E d \in DOMAIN found : d.dev = dev THEN <<>> ELSE BoxesOf(dev)
           s == boxes \o Tail(scans)
<1>1. /\ scans # <<>> /\ Head(scans).rule = "expanders" /\ UNCHANGED <<machine, methods, found, known>>
      /\ GoOn(s)
    BY DEF ArecaExpanders, InScan, restVars
<1>2. PortsLeft(scans) /\ ByPorts /\ methods = <<>>
    <2>1. Scan("presence", Arcmsr(0), 0, 0).rule # "expanders" /\ Scan("cli", Arcmsr(0), 0, 0).rule # "expanders"
        BY DEF Scan
    <2> QED
        BY <1>1, <2>1, WindowsMethods DEF ArecasLeft
<1>3. /\ PortsLeft(Tail(scans)) /\ Head(scans) \in PortScans
      /\ \A later \in Range(Tail(scans)) : later \in PortScans /\ <<Head(scans), later>> \in InOrder
    BY <1>1, <1>2, PortsLeftOn
<1>4. Head(scans) = Expanders(dev)
    BY <1>1, <1>3, PortScanFields
<1>5. (\E d \in DOMAIN found : d.dev = dev) <=>
               \/ \E scan \in Range(OpenScans(machine)) : scan.dev[1] = dev
               \/ AnsweringFrom(machine, PortsOf(dev), 1) # {}
    BY <1>1, <1>2, <1>4, PortsAnswered
<1>6. /\ IsSeq(BoxesOf(dev)) /\ DOMAIN BoxesOf(dev) \subseteq Nat \ {0}
      /\ \A e \in DOMAIN BoxesOf(dev) :
             BoxesOf(dev)[e].rule = "areca" /\ BoxesOf(dev)[e].dev = dev /\ BoxesOf(dev)[e].enclosure = e
      /\ \A box \in Range(BoxesOf(dev)) : box.rule = "areca" /\ box.dev = dev
    BY BoxesAreSeq
<1>7. \A box \in Range(BoxesOf(dev)) : box \in PortScans
    <2>1. PICK c \in 0 .. WinSetting.controllers - 1 : dev = Arcmsr(c)
        BY <1>3, PortScanFields
    <2> QED
        BY <2>1 DEF PortScans, ScansOfController
<1>8. PortsLeft(BoxesOf(dev))
    <2>1. ASSUME NEW i \in DOMAIN BoxesOf(dev), NEW j \in DOMAIN BoxesOf(dev), i < j
          PROVE  <<BoxesOf(dev)[i], BoxesOf(dev)[j]>> \in InOrder
        <3>1. i # j
            BY <1>6, <2>1
        <3>2. BoxesOf(dev)[i] \in PortScans /\ BoxesOf(dev)[j] \in PortScans
            BY <1>7, InRange
        <3>3. BoxesOf(dev)[i].enclosure # BoxesOf(dev)[j].enclosure
            BY <1>6, <3>1
        <3> QED
            BY <1>6, <3>2, <3>3 DEF InOrder
    <2> QED
        BY <1>6, <1>7, <2>1 DEF PortsLeft, Paired
<1>9. \A later \in Range(Tail(scans)) : later.dev # dev
    BY <1>1, <1>3, PortsAndExpanders DEF InOrder
<1>10. PortsLeft(boxes) /\ AllPaired(InOrder, boxes, Tail(scans))
    <2>1. CASE \E d \in DOMAIN found : d.dev = dev
        <3>1. boxes = <<>>
            BY <2>1
        <3>2. \A i, j : ~(i \in DOMAIN <<>> /\ j \in DOMAIN <<>>)
            OBVIOUS
        <3> QED
            BY <3>1, <3>2, SmallSeqs DEF PortsLeft, Paired, AllPaired
    <2>2. CASE ~\E d \in DOMAIN found : d.dev = dev
        <3>1. boxes = BoxesOf(dev)
            BY <2>2
        <3>2. ASSUME NEW x \in Range(BoxesOf(dev)), NEW y \in Range(Tail(scans)) PROVE <<x, y>> \in InOrder
            BY <1>3, <1>6, <1>7, <1>9 DEF InOrder
        <3> QED
            BY <1>8, <3>1, <3>2 DEF AllPaired
    <2> QED
        BY <2>1, <2>2
<1> HIDE DEF dev, boxes
<1>11. PortsLeft(s) /\ \A scan : scan \in Range(s) <=> scan \in Range(boxes) \/ scan \in Range(Tail(scans))
    <2>1. IsSeq(boxes) /\ IsSeq(Tail(scans)) /\ Paired(InOrder, boxes) /\ Paired(InOrder, Tail(scans))
        BY <1>3, <1>10 DEF PortsLeft
    <2>2. Paired(InOrder, s)
        BY <1>10, <2>1, JoinedPaired
    <2>3. IsSeq(s) /\ Range(s) = Range(boxes) \cup Range(Tail(scans))
        BY <2>1, SeqsJoined
    <2> QED
        BY <1>3, <1>10, <2>2, <2>3 DEF PortsLeft
<1>12. \A a : a \in ListedFrom(machine, Head(scans), port) <=> \E box \in Range(boxes) : a \in ListedBy(machine, box)
    <2>1. ListedFrom(machine, Head(scans), port) = Boxed(machine, dev)
        BY <1>1 DEF ListedFrom, dev
    <2>2. CASE \E d \in DOMAIN found : d.dev = dev
        <3>1. boxes = <<>>
            BY <2>2 DEF boxes
        <3>2. \A a : a \notin Boxed(machine, dev)
            BY <1>5, <2>2, BoxesAnswer
        <3> QED
            BY <2>1, <3>1, <3>2, SmallSeqs
    <2>3. CASE ~\E d \in DOMAIN found : d.dev = dev
        <3>1. boxes = BoxesOf(dev)
            BY <2>3 DEF boxes
        <3>2. Boxed(machine, dev) = UNION {AnsweringFrom(machine, box, 1) : box \in Range(BoxesOf(dev))}
            BY <1>5, <2>3 DEF Boxed
        <3>3. \A box \in Range(BoxesOf(dev)) : ListedBy(machine, box) = AnsweringFrom(machine, box, 1)
            <4> SUFFICES ASSUME NEW box \in Range(BoxesOf(dev))
                         PROVE  ListedBy(machine, box) = AnsweringFrom(machine, box, 1)
                OBVIOUS
            <4>1. box \in PortScans /\ box.rule = "areca"
                BY <1>6, <1>7
            <4> QED
                BY <4>1, PortScansList DEF ListedByPort
        <3> QED
            BY <2>1, <3>1, <3>2, <3>3
    <2> QED
        BY <2>2, <2>3
<1> HIDE DEF s
<1>13. \A a : ScansList(a) <=> \E scan \in Range(s) : a \in ListedBy(machine, scan)
    BY <1>1, <1>11, <1>12 DEF ScansList
<1>14. IsSeq(s) /\ Separate(machine, s)
    BY <1>11, PortsAreSeparate DEF PortsLeft
<1>15. OnPlan' /\ Fresh'
    BY <1>1, <1>13, <1>14, ScansReplaced
<1>16. scans' = s /\ port' \in Int
    <2>1. s # <<>> => Head(s) \in PortScans
        BY <1>11, PortsLeftOn
    <2>2. \A x \in PortScans : x.from \in Int
        BY PortScanFields, PortsAndExpanders
    <2> QED
        BY <1>1, <2>1, <2>2 DEF GoOn
<1>17. ByPorts' /\ methods' = <<>> /\ (known'.byPort <=> MayByPort(machine)) /\ UNCHANGED machine
    BY <1>1, <1>2 DEF ByPorts, ArecasLeft
<1> QED
    BY <1>1, <1>11, <1>15, <1>16, <1>17 DEF ArecasLeft

\* A step of a scan is of the next method if no scan is left, else of the rule of the next scan.
LEMMA StepOfNext ==
    ASSUME OtherMethods \/ ((StartMethod \/ Probe \/ ProbeAdaptec \/ AskTwCli) /\ UNCHANGED known)
    PROVE  \/ /\ scans = <<>> /\ methods # <<>>
              /\ \/ Head(methods) = "scan-open" /\ ScanOpen
                 \/ Head(methods) = "physical" /\ PhysicalDrives
                 \/ Head(methods) = "3dm2" /\ TwCliControllers
                 \/ Head(methods) = "arcmsr" /\ ArecaTools
                 \/ Head(methods) \in {"partitions", "3ware", "areca", "adaptec", "cciss", "hpsa", "dev"}
           \/ /\ scans # <<>>
              /\ \/ Head(scans).rule = "open" /\ FetchOpen
                 \/ Head(scans).rule = "pd" /\ (SkipUsed \/ CannotOpen \/ ProbePhysical)
                 \/ Head(scans).rule = "3dm2" /\ TwCliPorts
                 \/ Head(scans).rule = "presence" /\ ArecaPresence
                 \/ Head(scans).rule = "cli" /\ ArecaCli
                 \/ Head(scans).rule = "expanders" /\ ArecaExpanders
                 \/ Head(scans).rule = "areca" /\ Probe /\ UNCHANGED known
                 \/ Head(scans).rule \in {"partition", "3ware", "cciss", "hpsa", "adaptec", "tw_cli"}
<1>1. CASE ScanOpen \/ PhysicalDrives \/ TwCliControllers \/ ArecaTools \/ DeviceNodes
    BY <1>1 DEF ScanOpen, PhysicalDrives, TwCliControllers, ArecaTools, DeviceNodes, Method
<1>2. CASE StartMethod
    BY <1>2, MethodNames DEF StartMethod
<1>3. CASE SkipUsed \/ CannotOpen \/ ProbePhysical
    BY <1>3 DEF SkipUsed, CannotOpen, ProbePhysical, InScan
<1>4. CASE FetchOpen \/ TwCliPorts
    BY <1>4 DEF FetchOpen, TwCliPorts, InScan
<1>5. CASE ArecaPresence \/ ArecaCli \/ ArecaExpanders
    BY <1>5 DEF ArecaPresence, ArecaCli, ArecaExpanders, InScan
<1>6. CASE (Probe \/ ProbeAdaptec \/ AskTwCli) /\ UNCHANGED known
    BY <1>6 DEF Probe, ProbeAdaptec, AskTwCli, InScan
<1> QED
    BY <1>1, <1>2, <1>3, <1>4, <1>5, <1>6 DEF OtherMethods

\* A scan begins.
LEMMA BeginOnWindows ==
    ASSUME Begin, known' = Nothing, Hardware[machine].system = "windows"
    PROVE  WinInv'
<1>1. /\ methods' = <<"scan-open", "physical", "3dm2", "arcmsr">> /\ scans' = <<>>
      /\ found' = EmptyBag /\ UNCHANGED machine
    BY DEF Begin, MethodsOf
<1>2. DOMAIN found' = {}
    BY <1>1, SetIsBag DEF EmptyBag
<1>3. \A a : ~Found(a)' /\ ~ScansList(a)'
    BY <1>1, <1>2 DEF Found, ScansList
<1>4. \A a : a \in Plan(machine) <=> \E m \in Range(methods') : a \in ListedIn(machine, m)
    BY <1>1 DEF Plan, MethodsOf
<1>5. OnPlan'
    BY <1>1, <1>3, <1>4 DEF OnPlan
<1>6. Fresh'
    BY <1>1, <1>2, <1>3 DEF Fresh, SeparateScans, Unrepeated
<1>7. Starts' /\ Remembers'
    BY <1>1 DEF Starts, Remembers, Nothing
<1> QED
    BY <1>5, <1>6, <1>7 DEF WinInv

\* So it goes on, method by method.
LEMMA WindowsOnPlan ==
    ASSUME OnWindows, WinInv, smooth',
           OtherMethods \/ ((StartMethod \/ Probe \/ ProbeAdaptec \/ AskTwCli) /\ UNCHANGED known)
    PROVE  WinInv'
<1>1. OnPlan /\ Fresh /\ Remembers
    BY DEF WinInv
<1>2. UNCHANGED known => Remembers'
    BY <1>1 DEF Remembers
<1>3. CASE Starts
    <2>1. scans = <<>> /\ Head(methods) = "scan-open"
        BY <1>3, WindowsMethods DEF Starts
    <2>2. ScanOpen
        BY <2>1, StepOfNext
    <2> QED
        BY <1>1, <1>3, <2>2, ScanOpenOnPlan DEF WinInv
<1>4. CASE OpensLeft
    <2>1. Head(methods) = "physical" /\ (scans # <<>> => Head(scans).rule = "open")
        BY <1>4, SeqParts, WindowsMethods DEF OpensLeft
    <2>2. PhysicalDrives \/ FetchOpen
        BY <2>1, StepOfNext
    <2>3. CASE PhysicalDrives
        <3>1. OnPlan' /\ Fresh' /\ PdsLeft'
            BY <1>1, <1>4, <2>3, PhysicalDrivesOnPlan
        <3>2. UNCHANGED known
            BY <2>3 DEF PhysicalDrives
        <3> QED
            BY <1>2, <3>1, <3>2 DEF WinInv
    <2>4. CASE FetchOpen
        BY <1>1, <1>4, <2>4, FetchOpenOnPlan DEF WinInv
    <2> QED
        BY <2>2, <2>3, <2>4
<1>5. CASE PdsLeft
    <2>1. Head(methods) = "3dm2" /\ (scans # <<>> => Head(scans).rule = "pd")
        BY <1>5, WindowsMethods DEF PdsLeft, AllPds, Scan
    <2>2. TwCliControllers \/ SkipUsed \/ CannotOpen \/ ProbePhysical
        BY <2>1, StepOfNext
    <2>3. CASE TwCliControllers
        BY <1>1, <1>2, <1>5, <2>3, TwCliControllersOnPlan DEF WinInv
    <2>4. CASE SkipUsed \/ CannotOpen \/ ProbePhysical
        BY <1>1, <1>5, <2>4, SkipUsedOnPlan, CannotOpenOnPlan, ProbePhysicalOnPlan DEF WinInv
    <2> QED
        BY <2>2, <2>3, <2>4
<1>6. CASE ToolsLeft
    <2>1. Head(methods) = "arcmsr" /\ (scans # <<>> => Head(scans).rule = "3dm2")
        BY <1>6, SeqParts, WindowsMethods DEF ToolsLeft
    <2>2. ArecaTools \/ TwCliPorts
        BY <2>1, StepOfNext
    <2>3. CASE ArecaTools
        BY <1>1, <1>6, <2>3, ArecaToolsOnPlan DEF WinInv
    <2>4. CASE TwCliPorts
        BY <1>1, <1>2, <1>6, <2>4, TwCliPortsOnPlan DEF WinInv
    <2> QED
        BY <2>2, <2>3, <2>4
<1>7. CASE ArecasLeft
    <2>1. methods = <<>> /\ (scans # <<>> => Head(scans).rule \in {"presence", "cli", "expanders", "areca"})
        <3>1. Scan("presence", Arcmsr(0), 0, 0).rule = "presence" /\ Scan("cli", Arcmsr(0), 0, 0).rule = "cli"
            BY DEF Scan
        <3>2. PortsLeft(scans) /\ scans # <<>> => Head(scans).rule \in {"expanders", "areca"}
            BY PortsLeftOn, PortScanFields, PortsAndExpanders
        <3> QED
            BY <1>7, <3>1, <3>2, WindowsMethods DEF ArecasLeft
    <2>2. ArecaPresence \/ ArecaCli \/ ArecaExpanders \/ (Probe /\ UNCHANGED known)
        BY <2>1, StepOfNext
    <2>3. CASE ArecaPresence
        BY <1>1, <1>2, <1>7, <2>3, ArecaPresenceOnPlan DEF WinInv
    <2>4. CASE ArecaCli
        BY <1>1, <1>2, <1>7, <2>4, ArecaCliOnPlan DEF WinInv
    <2>5. CASE ArecaExpanders
        BY <1>1, <1>2, <1>7, <2>5, ArecaExpandersOnPlan DEF WinInv
    <2>6. CASE Probe /\ UNCHANGED known
        BY <1>1, <1>2, <1>7, <2>6, PortOnPlan DEF WinInv
    <2> QED
        BY <2>2, <2>3, <2>4, <2>5, <2>6
<1> QED
    BY <1>3, <1>4, <1>5, <1>6, <1>7 DEF WinInv

-----------------------------------------------------------------------------
(* On every system: what a complete scan lists.                            *)

\* A complete list has the addresses of the plan, and those that the user adds.
HasPlan ==
    \A a : a \notin ManualAddresses =>
               ((\E d \in DOMAIN list : Address(d) = a) <=> a \in Plan(machine) /\ a[1] \notin Blacklist)

ListsPlan == Complete /\ OpensApart(machine) => HasPlan /\ ListedOnce

PlanInv ==
    /\ pc = "detect" /\ smooth /\ Hardware[machine].system # "windows" =>
          DOMAIN cache \cap Hardware[machine].missing = {} /\ OnPlan
    /\ pc = "detect" /\ smooth /\ Hardware[machine].system = "windows" /\ OpensApart(machine) => WinInv
    /\ ListsPlan

\* A scan begins with its plan.
LEMMA BeginOnPlan ==
    ASSUME Begin
    PROVE  OnPlan' /\ DOMAIN cache' = {}
<1>1. /\ cache' = <<>> /\ methods' = MethodsOf(Hardware[machine].system) /\ scans' = <<>>
      /\ found' = EmptyBag /\ UNCHANGED machine
    BY DEF Begin
<1>2. DOMAIN found' = {}
    BY <1>1, SetIsBag DEF EmptyBag
<1>3. \A a : ~Found(a)' /\ ~ScansList(a)'
    BY <1>1, <1>2 DEF Found, ScansList
<1>4. \A a : a \in Plan(machine) <=> \E m \in Range(methods') : a \in ListedIn(machine, m)
    BY <1>1 DEF Plan
<1> QED
    BY <1>1, <1>3, <1>4 DEF OnPlan

\* A scan ends: what it has found is listed unless it is blacklisted.
LEMMA FinishLists ==
    ASSUME OnPlan, Unrepeated(found), DOMAIN list \subseteq Manual, Finish
    PROVE  HasPlan' /\ ListedOnce'
<1>1. /\ scans = <<>> /\ methods = <<>> /\ list' = list (+) Wanted(found) /\ UNCHANGED machine
    BY DEF Finish, Detected
<1>2. \A a : a \in Plan(machine) <=> Found(a)
    <2>1. \A a : ~ScansList(a)
        BY <1>1 DEF ScansList
    <2>2. Range(methods) = {}
        BY <1>1, SmallSeqs
    <2> QED
        BY <2>1, <2>2 DEF OnPlan
<1>3. DOMAIN list' = DOMAIN list \cup DOMAIN Wanted(found)
    BY <1>1 DEF (+)
<1>4. \A d : d \in DOMAIN Wanted(found) <=> d \in DOMAIN found /\ d.dev \notin Blacklist
    BY DEF Wanted
<1>5. \A d : Address(d)[1] = d.dev
    BY DEF Address
<1>6. \A d \in DOMAIN list : Address(d) \in ManualAddresses
    BY DEF ManualAddresses
<1>7. ASSUME NEW a, a \notin ManualAddresses
      PROVE  (\E d \in DOMAIN list' : Address(d) = a) <=> a \in Plan(machine) /\ a[1] \notin Blacklist
    BY <1>2, <1>3, <1>4, <1>5, <1>6, <1>7 DEF Found
<1>8. HasPlan'
    BY <1>1, <1>7 DEF HasPlan, ManualAddresses, Address
<1> QED
    BY <1>1, <1>8, FinishOnce

\* The user adds a device.
LEMMA AddingLists ==
    ASSUME ListsPlan, NEW d \in Manual, UserAdds(d)
    PROVE  ListsPlan'
<1>1. /\ list' = list (+) One(d) /\ UNCHANGED <<machine, status, smooth>>
      /\ pc' = pc \/ pc' = "dead"
    BY DEF UserAdds
<1>2. DOMAIN list' = DOMAIN list \cup {d}
    BY <1>1, AddedToBag DEF One
<1>3. Address(d) \in ManualAddresses
    BY DEF ManualAddresses
<1>4. Complete' => Complete
    BY <1>1 DEF Complete
<1>5. \A a : a \notin ManualAddresses =>
                 ((\E e \in DOMAIN list' : Address(e) = a) <=> (\E e \in DOMAIN list : Address(e) = a))
    BY <1>2, <1>3
<1>6. HasPlan => HasPlan'
    BY <1>1, <1>5 DEF HasPlan, ManualAddresses, Address
<1>7. ListedOnce => ListedOnce'
    BY <1>1, AddingOnce
<1> QED
    BY <1>1, <1>4, <1>6, <1>7 DEF ListsPlan

\* A step of a scan on Linux or a BSD keeps to the plan.
LEMMA DetectingOnPlan ==
    ASSUME BagInv, GhostInv, OnceInv, OnceInv', PlanInv, smooth', Hardware[machine].system # "windows",
           OtherMethods \/ StartMethod \/ Probe \/ ProbeAdaptec \/ AskTwCli
    PROVE  OnPlan' /\ DOMAIN cache' \cap Hardware[machine].missing = {}
<1>1. pc = "detect" /\ UNCHANGED <<pc, machine>>
    <2>1. pc = "detect" /\ UNCHANGED pc
        BY DetectingFinds, InDetection DEF Detecting
    <2>2. UNCHANGED machine
        BY KnownStays DEF StartMethod, Probe, ProbeAdaptec, AskTwCli
    <2> QED
        BY <2>1, <2>2
<1>2. smooth
    BY InDetection
<1>3. OnPlan /\ DOMAIN cache \cap Hardware[machine].missing = {} /\ SeesMachine
    BY <1>1, <1>2 DEF PlanInv, GhostInv
<1>4. Hardware[machine].system \in {"linux", "other"}
    BY HardwareAssumption DEF OnceInv, WellFormed
<1>5. CASE Hardware[machine].system = "linux"
    <2>1. Turns /\ Turns' /\ AreFiles(Contents)
        BY <1>1, <1>5, ContentsAreFiles DEF OnceInv
    <2>2. ~OtherMethods
        BY <2>1, StepsOfLinux DEF Turns
    <2>3. CASE StartMethod
        <3>1. Contents = FilesNow(machine)
            BY <1>3 DEF Contents, FilesNow, Source, SeesMachine
        <3> QED
            BY <1>3, <2>1, <2>3, <3>1, StartMethodOnPlan
    <2>4. CASE Probe \/ ProbeAdaptec \/ AskTwCli
        <3>1. UNCHANGED cache
            BY <2>4 DEF Probe, ProbeAdaptec, AskTwCli
        <3>2. OnPlan'
            BY <1>3, <2>1, <2>4, ProbeOnPlan, ProbeAdaptecOnPlan, AskTwCliOnPlan
        <3> QED
            BY <1>3, <3>1, <3>2
    <2> QED
        BY <2>2, <2>3, <2>4
<1>6. CASE Hardware[machine].system = "other"
    <2>1. NodesOnce
        BY <1>1, <1>6 DEF OnceInv
    <2>2. DeviceNodes
        BY <2>1, StepsOfOthers
    <2>3. OnPlan' /\ UNCHANGED cache
        BY <1>3, <2>1, <2>2, DeviceNodesOnPlan
    <2> QED
        BY <1>3, <2>3
<1> QED
    BY <1>4, <1>5, <1>6

\* Steps that find nothing.
LEMMA PlanStays ==
    ASSUME PlanInv, UNCHANGED <<machine, cache, methods, scans, port, found, known>>, pc' = "detect" => pc = "detect",
           smooth' => smooth, ListsPlan'
    PROVE  PlanInv'
<1>1. \A a : (Found(a) <=> Found(a)') /\ (ScansList(a) <=> ScansList(a)')
    BY DEF Found, ScansList, Address
<1>2. OnPlan => OnPlan'
    BY <1>1 DEF OnPlan
<1>3. WinInv => WinInv'
    <2>1. SeparateScans => SeparateScans'
        BY DEF SeparateScans
    <2>2. Unrepeated(found) => Unrepeated(found)'
        BY DEF Unrepeated, Address
    <2>3. Fresh => Fresh'
        BY <1>1, <2>1, <2>2 DEF Fresh
    <2>4. /\ Remembers => Remembers'
          /\ Starts => Starts'
          /\ OpensLeft => OpensLeft'
          /\ PdsLeft => PdsLeft'
          /\ ToolsLeft => ToolsLeft'
        BY DEF Remembers, Starts, OpensLeft, PdsLeft, ToolsLeft, Opened, HaveSaid
    <2>5. ArecasLeft => ArecasLeft'
        BY <1>1 DEF ArecasLeft, ByPorts
    <2> QED
        BY <1>2, <2>3, <2>4, <2>5 DEF WinInv
<1> QED
    BY <1>2, <1>3 DEF PlanInv

LEMMA PlanInvInitially == AnyInit => PlanInv
BY DEF AnyInit, Init, PlanInv, ListsPlan, Complete

LEMMA PlanInvPreserved == BagInv /\ GhostInv /\ OnceInv /\ OnceInv' /\ PlanInv /\ [AnyNext]_allVars => PlanInv'
<1> SUFFICES ASSUME BagInv, GhostInv, OnceInv, OnceInv', PlanInv, [AnyNext]_allVars PROVE PlanInv'
    OBVIOUS
<1>1. CASE Begin /\ known' = Nothing
    <2>1. pc' = "detect" /\ UNCHANGED machine
        BY <1>1 DEF Begin
    <2> QED
        BY <1>1, <2>1, BeginOnPlan, BeginOnWindows DEF PlanInv, ListsPlan, Complete
<1>2. CASE OtherMethods \/ ((StartMethod \/ Probe \/ ProbeAdaptec \/ AskTwCli) /\ UNCHANGED known)
    <2>1. pc = "detect" /\ UNCHANGED <<pc, machine>>
        <3>1. pc = "detect" /\ UNCHANGED pc
            BY <1>2, DetectingFinds, InDetection DEF Detecting
        <3>2. UNCHANGED machine
            BY <1>2, KnownStays DEF StartMethod, Probe, ProbeAdaptec, AskTwCli
        <3> QED
            BY <3>1, <3>2
    <2>2. ASSUME smooth', Hardware[machine].system # "windows"
          PROVE  OnPlan' /\ DOMAIN cache' \cap Hardware[machine].missing = {}
        BY <1>2, <2>2, DetectingOnPlan
    <2>3. ListsPlan'
        BY <2>1 DEF ListsPlan, Complete
    <2>4. ASSUME smooth', Hardware[machine].system = "windows", OpensApart(machine) PROVE WinInv'
        <3>1. WinInv
            BY <1>2, <2>1, <2>4, InDetection DEF PlanInv
        <3>2. OnWindows
            BY <2>4, HardwareAssumption DEF OnWindows, GhostInv
        <3> QED
            BY <1>2, <2>4, <3>1, <3>2, WindowsOnPlan
    <2> QED
        BY <2>1, <2>2, <2>3, <2>4 DEF PlanInv
<1>3. CASE (SettingThrows \/ FinishFailed \/ FetchEnds) /\ UNCHANGED known
    <2>1. /\ UNCHANGED <<machine, cache, methods, scans, port, found, smooth, known>> /\ pc' # "detect"
          /\ ~(pc' = "idle" /\ status' = "ok")
        BY <1>3 DEF SettingThrows, FinishFailed, FetchEnds, detectVars
    <2>2. ListsPlan'
        BY <2>1 DEF ListsPlan, Complete
    <2> QED
        BY <2>1, <2>2, PlanStays
<1>4. CASE Finish /\ UNCHANGED known
    <2>1. /\ UNCHANGED <<machine, cache, methods, scans, port, found, smooth, known>> /\ pc = "detect" /\ pc' = "idle"
        BY <1>4 DEF Finish, Detected, detectVars
    <2>2. ListsPlan'
        <3> SUFFICES ASSUME smooth, OpensApart(machine) PROVE HasPlan' /\ ListedOnce'
            BY <2>1 DEF ListsPlan, Complete
        <3>1. OnPlan /\ DOMAIN list \subseteq Manual
            BY <2>1 DEF PlanInv, GhostInv, WinInv
        <3>2. Unrepeated(found)
            BY <2>1 DEF PlanInv, OnceInv, WinInv, Fresh
        <3> QED
            BY <1>4, <3>1, <3>2, FinishLists
    <2> QED
        BY <2>1, <2>2, PlanStays
<1>5. CASE (\E d \in left : FetchDrive(d)) /\ UNCHANGED known
    <2>1. UNCHANGED <<machine, cache, methods, scans, port, found, pc>> /\ pc = "fetch"
        BY <1>5 DEF FetchDrive, detectVars
    <2>2. pc' # "detect" /\ ListsPlan'
        BY <2>1 DEF ListsPlan, Complete
    <2> QED
        BY <2>2 DEF PlanInv
<1>6. CASE (\E d \in Manual : UserAdds(d)) /\ UNCHANGED known
    <2>1. PICK d \in Manual : UserAdds(d)
        BY <1>6
    <2>2. /\ UNCHANGED <<machine, cache, methods, scans, port, found, smooth, known>>
          /\ pc' = pc \/ pc' = "dead"
        BY <1>6, <2>1 DEF UserAdds, detectVars
    <2>3. ListsPlan'
        BY <2>1, AddingLists DEF PlanInv
    <2> QED
        BY <2>2, <2>3, PlanStays
<1>7. CASE Replug
    <2>1. ~smooth'
        BY <1>7 DEF Replug
    <2> QED
        BY <2>1 DEF PlanInv, ListsPlan, Complete
<1>8. CASE UNCHANGED allVars
    <2>1. UNCHANGED <<machine, cache, methods, scans, port, found, pc, list, status, smooth, known>>
        BY <1>8 DEF allVars, vars, detectVars, listVars
    <2>2. ListsPlan'
        <3>1. (HasPlan => HasPlan') /\ (ListedOnce => ListedOnce')
            BY <2>1 DEF HasPlan, ListedOnce, ManualAddresses, Address
        <3> QED
            BY <2>1, <3>1 DEF PlanInv, ListsPlan, Complete
    <2> QED
        BY <2>1, <2>2, PlanStays
<1> QED
    BY <1>1, <1>2, <1>3, <1>4, <1>5, <1>6, <1>7, <1>8 DEF AnyNext, AnyProgram, Program

\* An address is listed once if it is on the plan, and not at all if it is not.
LEMMA PlanIsShown ==
    ASSUME PlanInv, Complete, AsksForEach(machine),
           NEW disk \in Hardware[machine].disks, \E a \in disk : a[1] \notin Blacklist,
           \A a \in disk : a \notin ManualAddresses
    PROVE  ShownOnce(disk)
<1>1. HasPlan /\ ListedOnce
    BY DEF AsksForEach, PlanInv, ListsPlan
<1>2. PICK a \in disk : {b \in disk \cap Plan(machine) : b[1] \notin Blacklist} = {a}
    BY DEF AsksForEach
<1>3. \A b \in disk : (\E d \in DOMAIN list : Address(d) = b) <=> b = a
    BY <1>1, <1>2 DEF HasPlan
<1>4. PICK d \in DOMAIN list : Address(d) = a
    BY <1>3
<1>5. list[d] = 1 /\ \A e \in DOMAIN list : Address(e) = Address(d) => e = d
    BY <1>1, <1>4 DEF ListedOnce
<1>6. {x \in DOMAIN list : Address(x) \in disk} = {d}
    BY <1>3, <1>4, <1>5
<1> QED
    BY <1>5, <1>6 DEF ShownOnce

\* On every machine, with any of the systems, that names each of its disks under exactly one of
\* the addresses it is asked for: a scan in which nothing failed or changed shows each disk
\* exactly once, whatever the user adds meanwhile, as long as that is another disk.
THEOREM EveryAskedDiskOnce ==
    ASSUME \A m \in DOMAIN Hardware : \A disk \in Hardware[m].disks : disk \cap ManualAddresses = {}
    PROVE  AnySpec => [](AsksForEach(machine) => EveryDiskOnce)
<1>1. OnceInv /\ PlanInv => (AsksForEach(machine) => EveryDiskOnce)
    <2> SUFFICES ASSUME OnceInv, PlanInv, Complete, AsksForEach(machine), NEW disk \in Hardware[machine].disks,
                        \E a \in disk : a[1] \notin Blacklist
                 PROVE  ShownOnce(disk)
        BY DEF EveryDiskOnce
    <2>1. machine \in DOMAIN Hardware
        BY DEF OnceInv
    <2>2. \A a \in disk : a \notin ManualAddresses
        BY <2>1
    <2> QED
        BY <2>2, PlanIsShown
<1>2. AnySpec => [](BagInv /\ GhostInv)
    BY BagsAlways, GhostInvInitially, GhostInvPreserved, PTL DEF AnySpec
<1>3. AnySpec => [](BagInv /\ GhostInv /\ OnceInv)
    BY <1>2, OnceInvInitially, OnceInvPreserved, PTL DEF AnySpec
<1> QED
    BY <1>1, <1>3, PlanInvInitially, PlanInvPreserved, PTL DEF AnySpec
=============================================================================
