--------------------------- MODULE OrderedProofs ---------------------------
(***************************************************************************)
(* What the operators of Ordered return, for every finite set of integers  *)
(* and every sequence; and what the sum of natural numbers over a finite   *)
(* set is, which the community modules fold in an order of their choice.   *)
(***************************************************************************)
EXTENDS Ordered, FiniteSetTheorems, SequenceTheorems, TLAPS

(* A function on 1 .. n is a sequence. *)
LEMMA FunctionsAreSequences ==
    ASSUME NEW T, NEW n \in Nat, NEW f \in [1 .. n -> T]
    PROVE  f \in Seq(T) /\ Len(f) = n /\ DOMAIN f = 1 .. n
OBVIOUS

(* Each element of a concatenation is one of the two sequences'.            *)
LEMMA ConcatElements ==
    ASSUME NEW T, NEW s \in Seq(T), NEW t \in Seq(T)
    PROVE  /\ s \o t \in Seq(T) /\ Len(s) \in Nat /\ Len(s \o t) = Len(s) + Len(t)
           /\ \A k \in DOMAIN s : k \in DOMAIN (s \o t) /\ (s \o t)[k] = s[k]
           /\ \A k \in DOMAIN t : /\ k + Len(s) \in DOMAIN (s \o t)
                                 /\ (s \o t)[k + Len(s)] = t[k]
           /\ \A k \in DOMAIN (s \o t) :
                 \/ k \in DOMAIN s /\ (s \o t)[k] = s[k]
                 \/ k > Len(s) /\ k - Len(s) \in DOMAIN t /\ (s \o t)[k] = t[k - Len(s)]
<1>1. s \o t \in Seq(T) /\ Len(s \o t) = Len(s) + Len(t) /\ Len(s) \in Nat /\ Len(t) \in Nat
  BY ConcatProperties
<1>2. /\ DOMAIN s = 1 .. Len(s) /\ DOMAIN t = 1 .. Len(t)
      /\ DOMAIN (s \o t) = 1 .. Len(s) + Len(t)
  BY <1>1
<1>3. \A i \in 1 .. Len(s) + Len(t) : (s \o t)[i] = IF i <= Len(s) THEN s[i] ELSE t[i - Len(s)]
  BY ConcatProperties
<1> QED
  BY <1>1, <1>2, <1>3

(* Ranks count from one, and grow with the element. *)
LEMMA RankGrows ==
    ASSUME NEW S \in SUBSET Int, IsFiniteSet(S)
    PROVE  /\ \A k \in S : Rank(S, k) \in 1 .. Cardinality(S)
           /\ \A j, k \in S : j < k => Rank(S, j) < Rank(S, k)
<1> DEFINE Upto(k) == {j \in S : j <= k}
<1>1. \A k \in S : IsFiniteSet(Upto(k)) /\ Cardinality(Upto(k)) <= Cardinality(S)
  BY FS_Subset
<1>2. \A k \in S : Cardinality(Upto(k)) \in Nat /\ Cardinality(Upto(k)) # 0
  <2> TAKE k \in S
  <2>1. k \in Upto(k)
    OBVIOUS
  <2> QED
    BY <1>1, <2>1, FS_CardinalityType, FS_EmptySet
<1>3. ASSUME NEW j \in S, NEW k \in S, j < k
      PROVE  Cardinality(Upto(j)) < Cardinality(Upto(k))
  <2>0. \A i \in S : i \in Int
    OBVIOUS
  <2>1. Upto(j) \subseteq Upto(k) /\ k \in Upto(k) /\ k \notin Upto(j)
    <3>1. \A i \in S : i <= j => i <= k
      BY <1>3, <2>0
    <3>2. k <= k /\ ~ (k <= j)
      BY <1>3, <2>0
    <3> QED
      BY <3>1, <3>2
  <2>2. Cardinality(Upto(j)) <= Cardinality(Upto(k))
        /\ Cardinality(Upto(j)) # Cardinality(Upto(k))
    <3> DEFINE U == Upto(k)
               V == Upto(j)
    <3>1. IsFiniteSet(U) /\ V \in SUBSET U /\ U # V
      BY <1>1, <2>1
    <3> HIDE DEF U, V
    <3>2. Cardinality(V) <= Cardinality(U) /\ Cardinality(U) # Cardinality(V)
      BY <3>1, FS_Subset
    <3> QED
      BY <3>2 DEF U, V
  <2> QED
    BY <1>2, <2>2
<1>4. Cardinality(S) \in Nat
  BY FS_CardinalityType
<1> QED
  BY <1>1, <1>2, <1>3, <1>4 DEF Rank

(* Every rank up to the number of elements is the rank of one of them. *)
LEMMA RanksAreTaken ==
    ASSUME NEW S \in SUBSET Int, IsFiniteSet(S), NEW n \in 1 .. Cardinality(S)
    PROVE  \E k \in S : Rank(S, k) = n
<1> DEFINE r == [k \in S |-> Rank(S, k)]
           T == 1 .. Cardinality(S)
<1>1. Cardinality(S) \in Nat
  BY FS_CardinalityType
<1>2. IsFiniteSet(T) /\ Cardinality(T) = Cardinality(S)
  BY <1>1, FS_Interval
<1>3. r \in [S -> T]
  BY RankGrows
<1>4. \A j, k \in S : r[j] = r[k] => j = k
  <2> SUFFICES ASSUME NEW j \in S, NEW k \in S, r[j] = r[k], j # k PROVE FALSE
    OBVIOUS
  <2>1. j < k \/ k < j
    OBVIOUS
  <2> QED
    BY <1>3, <1>1, <2>1, RankGrows
<1> HIDE DEF r, T
<1>5. r \in Injection(S, T)
  BY <1>3, <1>4 DEF Injection, IsInjective
<1>6. r \in Surjection(S, T)
  BY <1>2, <1>5, FS_Injection
<1> QED
  BY <1>6 DEF Surjection, r, T

(* Ascending enumerates its set, strictly upwards. *)
LEMMA AscendingEnumerates ==
    ASSUME NEW S \in SUBSET Int, IsFiniteSet(S)
    PROVE  /\ Cardinality(S) \in Nat
           /\ Ascending(S) \in [1 .. Cardinality(S) -> S]
           /\ \A k \in S : Rank(S, k) \in 1 .. Cardinality(S) /\ Ascending(S)[Rank(S, k)] = k
           /\ \A m, n \in 1 .. Cardinality(S) : m < n => Ascending(S)[m] < Ascending(S)[n]
<1> DEFINE at(n) == CHOOSE k \in S : Rank(S, k) = n
<1>1. Cardinality(S) \in Nat
  BY FS_CardinalityType
<1>2. \A n \in 1 .. Cardinality(S) : at(n) \in S /\ Rank(S, at(n)) = n
  BY RanksAreTaken
<1>3. \A n \in 1 .. Cardinality(S) : Ascending(S)[n] = at(n)
  BY DEF Ascending
<1>4. Ascending(S) \in [1 .. Cardinality(S) -> S]
  BY <1>2 DEF Ascending
<1> HIDE DEF at
<1>5. ASSUME NEW j \in S, NEW k \in S, Rank(S, j) = Rank(S, k) PROVE j = k
  <2>1. Rank(S, j) \in Int
    BY <1>1, RankGrows
  <2>2. ~ (j < k) /\ ~ (k < j)
    BY <1>5, <2>1, RankGrows
  <2> QED
    BY <2>2
<1>6. ASSUME NEW k \in S
      PROVE  Rank(S, k) \in 1 .. Cardinality(S) /\ Ascending(S)[Rank(S, k)] = k
  <2>1. Rank(S, k) \in 1 .. Cardinality(S)
    BY RankGrows
  <2> QED
    BY <1>2, <1>3, <1>5, <2>1
<1>7. ASSUME NEW m \in 1 .. Cardinality(S), NEW n \in 1 .. Cardinality(S), m < n
      PROVE  at(m) < at(n)
  <2>1. at(m) \in Int /\ at(n) \in Int
    BY <1>2
  <2>2. at(m) \in S /\ at(n) \in S /\ Rank(S, at(m)) < Rank(S, at(n))
    BY <1>2, <1>7
  <2>3. at(n) # at(m) /\ ~ (at(n) < at(m))
    <3>1. Rank(S, at(m)) \in Int /\ Rank(S, at(n)) \in Int
      BY <1>2
    <3>2. at(n) < at(m) => Rank(S, at(n)) < Rank(S, at(m))
      BY <2>2, RankGrows
    <3> QED
      BY <2>2, <3>1, <3>2
  <2> QED
    BY <2>1, <2>3
<1> QED
  BY <1>1, <1>3, <1>4, <1>6, <1>7

(* There is no other such enumeration. *)
LEMMA AscendingIsUnique ==
    ASSUME NEW S \in SUBSET Int, NEW n \in Nat, NEW f \in [1 .. n -> S],
           \A i, j \in 1 .. n : i < j => f[i] < f[j],
           \A k \in S : \E i \in 1 .. n : f[i] = k
    PROVE  IsFiniteSet(S) /\ Cardinality(S) = n /\ Ascending(S) = f
<1>1. \A i, j \in 1 .. n : f[i] = f[j] => i = j
  <2> SUFFICES ASSUME NEW i \in 1 .. n, NEW j \in 1 .. n, f[i] = f[j], i # j PROVE FALSE
    OBVIOUS
  <2>1. f[i] \in Int /\ f[j] \in Int
    OBVIOUS
  <2>2. f[i] < f[j] \/ f[j] < f[i]
    OBVIOUS
  <2> QED
    BY <2>1, <2>2
<1>2. IsFiniteSet(1 .. n) /\ Cardinality(1 .. n) = n
  BY FS_Interval
<1>3. f \in Surjection(1 .. n, S) /\ f \in Injection(1 .. n, S)
  BY <1>1 DEF Surjection, Injection, IsInjective
<1>4. IsFiniteSet(S) /\ Cardinality(S) = n
  BY <1>2, <1>3, FS_Surjection
<1>5. ASSUME NEW i \in 1 .. n PROVE Rank(S, f[i]) = i
  <2> DEFINE low == {k \in S : k <= f[i]}
             g   == [j \in 1 .. i |-> f[j]]
  <2>1. g \in [1 .. i -> low]
    <3> SUFFICES ASSUME NEW j \in 1 .. i PROVE f[j] \in S /\ f[j] <= f[i]
      OBVIOUS
    <3>1. j \in 1 .. n
      OBVIOUS
    <3>4. f[j] \in S /\ f[j] \in Int /\ f[i] \in Int
      BY <3>1
    <3>2. j = i \/ j < i
      OBVIOUS
    <3> QED
      BY <3>1, <3>2, <3>4
  <2>2. \A k \in low : \E j \in 1 .. i : g[j] = k
    <3> SUFFICES ASSUME NEW k \in S, k <= f[i] PROVE \E j \in 1 .. i : g[j] = k
      OBVIOUS
    <3>1. PICK j \in 1 .. n : f[j] = k
      OBVIOUS
    <3>2. f[j] \in Int /\ f[i] \in Int
      OBVIOUS
    <3>3. ~ (i < j)
      BY <3>1, <3>2
    <3>4. j \in 1 .. i
      BY <3>3
    <3> QED
      BY <3>1, <3>4
  <2>3. \A j, k \in 1 .. i : g[j] = g[k] => j = k
    BY <1>1
  <2> HIDE DEF low, g
  <2>4. g \in Surjection(1 .. i, low) /\ g \in Injection(1 .. i, low)
    BY <2>1, <2>2, <2>3 DEF Surjection, Injection, IsInjective
  <2>5. IsFiniteSet(1 .. i) /\ Cardinality(1 .. i) = i
    BY FS_Interval
  <2>6. Cardinality(low) = i
    BY <2>4, <2>5, FS_Surjection
  <2> QED
    BY <2>6 DEF Rank, low
<1>6. \A i \in 1 .. n : Ascending(S)[i] = f[i]
  <2> TAKE i \in 1 .. n
  <2>1. Rank(S, f[i]) = i /\ f[i] \in S
    BY <1>5
  <2>2. Ascending(S)[Rank(S, f[i])] = f[i]
    BY <1>4, <2>1, AscendingEnumerates
  <2> QED
    BY <2>1, <2>2
<1>7. Ascending(S) \in [1 .. n -> S]
  BY <1>4, AscendingEnumerates
<1> QED
  BY <1>4, <1>6, <1>7

(* A strictly ascending choice that leaves out no smaller element is how    *)
(* the enumeration begins.                                                 *)
LEMMA AscendingPrefix ==
    ASSUME NEW S \in SUBSET Int, IsFiniteSet(S), NEW n \in Nat, NEW f \in [1 .. n -> S],
           \A i, j \in 1 .. n : i < j => f[i] < f[j],
           \A i \in 1 .. n : \A k \in S : k <= f[i] => \E j \in 1 .. n : f[j] = k
    PROVE  n <= Cardinality(S) /\ \A i \in 1 .. n : Ascending(S)[i] = f[i]
<1> DEFINE T == {f[i] : i \in 1 .. n}
<1>1. T \subseteq S /\ T \in SUBSET Int /\ f \in [1 .. n -> T] /\ \A k \in T : \E i \in 1 .. n : f[i] = k
  OBVIOUS
<1> HIDE DEF T
<1>2. IsFiniteSet(T) /\ Cardinality(T) = n /\ Ascending(T) = f
  BY <1>1, AscendingIsUnique
<1>3. n <= Cardinality(S)
  BY <1>1, <1>2, FS_Subset
<1>4. ASSUME NEW i \in 1 .. n PROVE Ascending(S)[i] = f[i]
  <2>1. f[i] \in T /\ f[i] \in S
    BY <1>1
  <2>2. {j \in S : j <= f[i]} = {j \in T : j <= f[i]}
    BY <1>1 DEF T
  <2>3. Rank(S, f[i]) = Rank(T, f[i])
    BY <2>2 DEF Rank
  <2>4. Rank(T, f[i]) \in 1 .. n /\ f[Rank(T, f[i])] = f[i]
    BY <1>1, <1>2, <2>1, AscendingEnumerates
  <2>5. Rank(T, f[i]) = i
    <3> DEFINE r == Rank(T, f[i])
    <3> HIDE DEF r
    <3>1. r \in 1 .. n /\ f[r] = f[i]
      BY <2>4 DEF r
    <3>2. f[i] \in Int
      OBVIOUS
    <3>3. ~ (r < i) /\ ~ (i < r)
      BY <3>1, <3>2
    <3> QED
      BY <3>1, <3>3 DEF r
  <2>6. Ascending(S)[Rank(S, f[i])] = f[i]
    BY <2>1, AscendingEnumerates
  <2> QED
    BY <2>3, <2>5, <2>6
<1> QED
  BY <1>3, <1>4

(* A new greatest element goes to the end. *)
LEMMA AscendingAppends ==
    ASSUME NEW S \in SUBSET Int, IsFiniteSet(S), NEW l \in Int, \A k \in S : k < l
    PROVE  Ascending(S \cup {l}) = Append(Ascending(S), l)
<1> DEFINE n == Cardinality(S)
           a == Ascending(S)
           f == Append(a, l)
           T == S \cup {l}
<1>1. /\ n \in Nat /\ a \in [1 .. n -> S]
      /\ \A k \in S : Rank(S, k) \in 1 .. n /\ a[Rank(S, k)] = k
      /\ \A i, j \in 1 .. n : i < j => a[i] < a[j]
  BY AscendingEnumerates
<1>2. S \subseteq T /\ T \in SUBSET Int /\ l \in T
  OBVIOUS
<1> HIDE DEF n, a, T
<1>3. a \in Seq(T) /\ Len(a) = n
  BY <1>1, <1>2, FunctionsAreSequences
<1>4. /\ f \in Seq(T) /\ Len(f) = n + 1 /\ f[n + 1] = l
      /\ \A i \in 1 .. n : f[i] = a[i]
  BY <1>2, <1>3, AppendProperties
<1> HIDE DEF f
<1>5. f \in [1 .. n + 1 -> T]
  BY <1>4
<1>6. \A i, j \in 1 .. n + 1 : i < j => f[i] < f[j]
  <2> SUFFICES ASSUME NEW i \in 1 .. n + 1, NEW j \in 1 .. n + 1, i < j PROVE f[i] < f[j]
    OBVIOUS
  <2>1. i \in 1 .. n
    BY <1>1
  <2>2. CASE j = n + 1
    BY <1>1, <1>4, <2>1, <2>2
  <2>3. CASE j \in 1 .. n
    BY <1>1, <1>4, <2>1, <2>3
  <2> QED
    BY <1>1, <2>2, <2>3
<1>7. \A k \in T : \E i \in 1 .. n + 1 : f[i] = k
  <2> TAKE k \in T
  <2>1. CASE k = l
    <3>1. n + 1 \in 1 .. n + 1
      BY <1>1
    <3> QED
      BY <1>4, <2>1, <3>1
  <2>2. CASE k \in S
    <3>1. Rank(S, k) \in 1 .. n /\ a[Rank(S, k)] = k
      BY <1>1, <2>2
    <3>2. Rank(S, k) \in 1 .. n + 1
      BY <1>1, <3>1
    <3> QED
      BY <1>4, <3>1, <3>2
  <2> QED
    BY <2>1, <2>2 DEF T
<1>8. Ascending(T) = f
  <2>1. n + 1 \in Nat
    BY <1>1
  <2> QED
    BY <1>2, <1>5, <1>6, <1>7, <2>1, AscendingIsUnique
<1> QED
  BY <1>8 DEF T, f, a

(* Picked takes each of the positions once, in their order. *)
LEMMA PickedKeepsOrder ==
    ASSUME NEW T, NEW seq \in Seq(T), NEW K \in SUBSET (1 .. Len(seq))
    PROVE  /\ Picked(seq, K) \in Seq(T) /\ Len(Picked(seq, K)) = Cardinality(K)
           /\ Ascending(K) \in [1 .. Len(Picked(seq, K)) -> K]
           /\ \A n \in 1 .. Len(Picked(seq, K)) : Picked(seq, K)[n] = seq[Ascending(K)[n]]
           /\ \A m, n \in 1 .. Len(Picked(seq, K)) : m < n => Ascending(K)[m] < Ascending(K)[n]
           /\ \A k \in K : \E n \in 1 .. Len(Picked(seq, K)) : Ascending(K)[n] = k
<1>1. IsFiniteSet(K) /\ K \in SUBSET Int
  <2>1. Len(seq) \in Nat
    OBVIOUS
  <2>2. IsFiniteSet(1 .. Len(seq))
    BY <2>1, FS_Interval
  <2>3. IsFiniteSet(K)
    BY <2>2, FS_Subset
  <2>4. K \in SUBSET Int
    BY <2>1
  <2> QED
    BY <2>3, <2>4
<1>2. /\ Cardinality(K) \in Nat
      /\ Ascending(K) \in [1 .. Cardinality(K) -> K]
      /\ \A k \in K : Rank(K, k) \in 1 .. Cardinality(K) /\ Ascending(K)[Rank(K, k)] = k
      /\ \A m, n \in 1 .. Cardinality(K) : m < n => Ascending(K)[m] < Ascending(K)[n]
  BY <1>1, AscendingEnumerates
<1>3. \A n \in 1 .. Cardinality(K) : seq[Ascending(K)[n]] \in T
  <2> TAKE n \in 1 .. Cardinality(K)
  <2>1. Ascending(K)[n] \in 1 .. Len(seq)
    BY <1>2
  <2> QED
    BY <2>1, ElementOfSeq
<1>4. Picked(seq, K) \in [1 .. Cardinality(K) -> T]
  BY <1>3 DEF Picked
<1>5. Picked(seq, K) \in Seq(T) /\ Len(Picked(seq, K)) = Cardinality(K)
  BY <1>2, <1>4
<1> QED
  BY <1>2, <1>5 DEF Picked

-----------------------------------------------------------------------------
(* Sums over finite sets. *)

(* Induction over the subsets of a finite set. *)
LEMMA SubsetInduction ==
    ASSUME NEW S, IsFiniteSet(S), NEW G,
           \A U \in SUBSET S : (\A V \in SUBSET U : V # U => V \in G) => U \in G
    PROVE  \A U \in SUBSET S : U \in G
<1> DEFINE B == (SUBSET S) \ G
<1> SUFFICES ASSUME B # {} PROVE FALSE
  OBVIOUS
<1>1. IsWellFoundedOn(StrictSubsetOrdering(S), SUBSET S)
  <2>1. FiniteSubsetsOf(S) = SUBSET S
    BY FS_FiniteSubsetsOfFinite
  <2>2. IsWellFoundedOn(StrictSubsetOrdering(S), FiniteSubsetsOf(S))
    BY FS_StrictSubsetOrderingWellFounded
  <2> QED
    BY <2>1, <2>2
<1> HIDE DEF B
<1>2. PICK U \in B : \A V \in B : <<V, U>> \notin StrictSubsetOrdering(S)
  <2>1. B \subseteq SUBSET S
    BY DEF B
  <2> QED
    BY <1>1, <2>1, WFMin
<1>3. U \in SUBSET S /\ U \notin G
  BY DEF B
<1>4. \A V \in SUBSET U : V # U => V \in G
  <2> SUFFICES ASSUME NEW V \in SUBSET U, V # U, V \notin G PROVE FALSE
    OBVIOUS
  <2>1. V \in B
    BY <1>3 DEF B
  <2>2. <<V, U>> \in StrictSubsetOrdering(S)
    BY <1>3 DEF StrictSubsetOrdering
  <2> QED
    BY <1>2, <2>1, <2>2
<1> QED
  BY <1>3, <1>4

(* The sum of w over a set, as MapThenSumSet takes it: element by element. *)
AnyOf(s) == CHOOSE x \in s : TRUE

Sums(f, w, S) == f = [s \in SUBSET S |-> IF s = {} THEN 0 ELSE w[AnyOf(s)] + f[s \ {AnyOf(s)}]]

SumOver(w, S) == (CHOOSE f : Sums(f, w, S))[S]

(* There is at most one function of partial sums ... *)
LEMMA SumsAreUnique ==
    ASSUME NEW S, IsFiniteSet(S), NEW w, NEW f, NEW g, NEW T \in SUBSET S,
           Sums(f, w, T), Sums(g, w, S)
    PROVE  \A U \in SUBSET T : f[U] = g[U]
<1> DEFINE G == {U \in SUBSET T : f[U] = g[U]}
<1>1. IsFiniteSet(T)
  BY FS_Subset
<1>2. ASSUME NEW U \in SUBSET T, \A V \in SUBSET U : V # U => V \in G
      PROVE  U \in G
  <2>1. U \in SUBSET S
    OBVIOUS
  <2>2. /\ f[U] = IF U = {} THEN 0 ELSE w[AnyOf(U)] + f[U \ {AnyOf(U)}]
        /\ g[U] = IF U = {} THEN 0 ELSE w[AnyOf(U)] + g[U \ {AnyOf(U)}]
    BY <2>1 DEF Sums
  <2>3. CASE U = {}
    BY <2>2, <2>3
  <2>4. CASE U # {}
    <3>1. AnyOf(U) \in U
      BY <2>4 DEF AnyOf
    <3>2. U \ {AnyOf(U)} \in G
      BY <1>2, <3>1
    <3> QED
      BY <2>2, <2>4, <3>2
  <2> QED
    BY <2>3, <2>4
<1> HIDE DEF G
<1>3. \A U \in SUBSET T : U \in G
  BY <1>1, <1>2, SubsetInduction
<1> QED
  BY <1>3 DEF G

(* ... and there is one. *)
LEMMA SumsExist ==
    ASSUME NEW S, IsFiniteSet(S), NEW w
    PROVE  \E f : Sums(f, w, S)
<1> DEFINE G == {U \in SUBSET S : \E f : Sums(f, w, U)}
<1>1. ASSUME NEW U \in SUBSET S, \A V \in SUBSET U : V # U => V \in G
      PROVE  U \in G
  <2> DEFINE p(V) == CHOOSE f : Sums(f, w, V)
             rest(V) == V \ {AnyOf(V)}
             f == [V \in SUBSET U |-> IF V = {} THEN 0 ELSE w[AnyOf(V)] + p(rest(V))[rest(V)]]
  <2>1. \A V \in SUBSET U : V # U => Sums(p(V), w, V)
    BY <1>1
  <2>2. \A V \in SUBSET U : V # {} => AnyOf(V) \in V
    BY DEF AnyOf
  <2> HIDE DEF p
  <2>3. ASSUME NEW V \in SUBSET U, V # U PROVE p(V)[V] = f[V]
    <3>1. p(V)[V] = IF V = {} THEN 0 ELSE w[AnyOf(V)] + p(V)[rest(V)]
      <4>1. Sums(p(V), w, V)
        BY <2>1, <2>3
      <4> QED
        BY <4>1 DEF Sums
    <3>2. CASE V = {}
      BY <3>1, <3>2
    <3>3. CASE V # {}
      <4>1. rest(V) \in SUBSET V /\ rest(V) # U /\ rest(V) \in SUBSET U
        BY <2>2, <2>3, <3>3
      <4>2. IsFiniteSet(V)
        BY FS_Subset
      <4>3. Sums(p(rest(V)), w, rest(V)) /\ Sums(p(V), w, V)
        BY <2>1, <2>3, <4>1
      <4> HIDE DEF rest
      <4>4. p(rest(V))[rest(V)] = p(V)[rest(V)]
        BY <4>1, <4>2, <4>3, SumsAreUnique
      <4> QED
        BY <3>1, <3>3, <4>4
    <3> QED
      BY <3>2, <3>3
  <2>4. Sums(f, w, U)
    <3>1. ASSUME NEW V \in SUBSET U, V # {} PROVE p(rest(V))[rest(V)] = f[rest(V)]
      <4>1. rest(V) \in SUBSET U /\ rest(V) # U
        BY <2>2, <3>1
      <4> HIDE DEF rest, f
      <4> QED
        BY <2>3, <4>1
    <3>2. f = [V \in SUBSET U |-> IF V = {} THEN 0 ELSE w[AnyOf(V)] + f[V \ {AnyOf(V)}]]
      BY <3>1
    <3> HIDE DEF f
    <3> QED
      BY <3>2 DEF Sums
  <2> QED
    BY <2>4
<1> HIDE DEF G
<1>2. \A U \in SUBSET S : U \in G
  BY <1>1, SubsetInduction
<1> QED
  BY <1>2 DEF G

(* A sum is the chosen element's weight and the sum over the others. *)
LEMMA SumUnfolds ==
    ASSUME NEW S, IsFiniteSet(S), NEW w
    PROVE  /\ S = {} => SumOver(w, S) = 0
           /\ S # {} => /\ AnyOf(S) \in S
                        /\ SumOver(w, S) = w[AnyOf(S)] + SumOver(w, S \ {AnyOf(S)})
<1> DEFINE f(V) == CHOOSE g : Sums(g, w, V)
           T == S \ {AnyOf(S)}
<1>1. T \in SUBSET S /\ IsFiniteSet(T)
  BY FS_Subset
<1>2. Sums(f(S), w, S) /\ Sums(f(T), w, T)
  <2> HIDE DEF T
  <2> QED
    BY <1>1, SumsExist
<1> HIDE DEF f
<1>3. f(S)[S] = IF S = {} THEN 0 ELSE w[AnyOf(S)] + f(S)[T]
  BY <1>2 DEF Sums
<1>4. f(T)[T] = f(S)[T]
  <2> HIDE DEF T
  <2> QED
    BY <1>1, <1>2, SumsAreUnique
<1>5. S # {} => AnyOf(S) \in S
  BY DEF AnyOf
<1> QED
  BY <1>3, <1>4, <1>5 DEF SumOver, f

(* Any element can be taken out of a sum of naturals. *)
LEMMA SumTakesOut ==
    ASSUME NEW S, IsFiniteSet(S), NEW w, \A x \in S : w[x] \in Nat
    PROVE  /\ SumOver(w, S) \in Nat
           /\ \A x \in S : SumOver(w, S) = w[x] + SumOver(w, S \ {x})
                           /\ SumOver(w, S \ {x}) \in Nat
<1> DEFINE G == {U \in SUBSET S : SumOver(w, U) \in Nat
                     /\ \A x \in U : /\ SumOver(w, U) = w[x] + SumOver(w, U \ {x})
                                     /\ SumOver(w, U \ {x}) \in Nat}
<1>1. ASSUME NEW U \in SUBSET S, \A V \in SUBSET U : V # U => V \in G
      PROVE  U \in G
  <2>1. IsFiniteSet(U)
    BY FS_Subset
  <2>2. CASE U = {}
    <3>1. SumOver(w, U) = 0
      BY <2>1, <2>2, SumUnfolds
    <3> QED
      BY <2>2, <3>1
  <2>3. CASE U # {}
    <3> DEFINE c == AnyOf(U)
               V == U \ {c}
    <3>1. c \in U /\ SumOver(w, U) = w[c] + SumOver(w, V)
      BY <2>1, <2>3, SumUnfolds
    <3>2. V \in G /\ w[c] \in Nat
      BY <1>1, <3>1
    <3>3. SumOver(w, U) \in Nat
      BY <3>1, <3>2
    <3> HIDE DEF c
    <3>4. ASSUME NEW x \in U
          PROVE  SumOver(w, U) = w[x] + SumOver(w, U \ {x}) /\ SumOver(w, U \ {x}) \in Nat
      <4>1. CASE x = c
        BY <3>1, <3>2, <4>1
      <4>2. CASE x # c
        <5> DEFINE X == U \ {x}
        <5>1. X \in G /\ x \in V /\ c \in X /\ w[x] \in Nat
          BY <1>1, <3>1, <4>2
        <5>2. V \ {x} = X \ {c}
          OBVIOUS
        <5>3. SumOver(w, V) = w[x] + SumOver(w, V \ {x}) /\ SumOver(w, V \ {x}) \in Nat
          BY <3>2, <5>1
        <5>4. SumOver(w, X) = w[c] + SumOver(w, X \ {c}) /\ SumOver(w, X) \in Nat
          BY <5>1
        <5> DEFINE rest == SumOver(w, V \ {x})
        <5>5. /\ SumOver(w, V) = w[x] + rest /\ rest \in Nat
              /\ SumOver(w, X) = w[c] + rest
          BY <5>2, <5>3, <5>4
        <5> HIDE DEF X, V, G, rest
        <5>6. SumOver(w, U) = w[x] + SumOver(w, X)
          BY <3>1, <3>2, <5>1, <5>5
        <5> QED
          BY <5>4, <5>6 DEF X
      <4> QED
        BY <4>1, <4>2
    <3> QED
      BY <3>3, <3>4
  <2> QED
    BY <2>2, <2>3
<1> HIDE DEF G
<1>2. \A U \in SUBSET S : U \in G
  BY <1>1, SubsetInduction
<1>3. S \in G
  BY <1>2
<1> QED
  BY <1>3 DEF G

(* A sum depends on the weights in its set alone. *)
LEMMA SumIsLocal ==
    ASSUME NEW S, IsFiniteSet(S), NEW v, NEW w, \A x \in S : v[x] = w[x]
    PROVE  SumOver(v, S) = SumOver(w, S)
<1> DEFINE G == {U \in SUBSET S : SumOver(v, U) = SumOver(w, U)}
<1>1. ASSUME NEW U \in SUBSET S, \A V \in SUBSET U : V # U => V \in G
      PROVE  U \in G
  <2>1. IsFiniteSet(U)
    BY FS_Subset
  <2>2. CASE U = {}
    BY <2>1, <2>2, SumUnfolds
  <2>3. CASE U # {}
    <3>1. /\ AnyOf(U) \in U
          /\ SumOver(v, U) = v[AnyOf(U)] + SumOver(v, U \ {AnyOf(U)})
          /\ SumOver(w, U) = w[AnyOf(U)] + SumOver(w, U \ {AnyOf(U)})
      BY <2>1, <2>3, SumUnfolds
    <3>2. U \ {AnyOf(U)} \in G
      BY <1>1, <3>1
    <3>3. SumOver(v, U \ {AnyOf(U)}) = SumOver(w, U \ {AnyOf(U)})
      BY <3>2
    <3>4. v[AnyOf(U)] = w[AnyOf(U)]
      BY <3>1
    <3> QED
      BY <3>1, <3>3, <3>4
  <2> QED
    BY <2>2, <2>3
<1> HIDE DEF G
<1>2. \A U \in SUBSET S : U \in G
  BY <1>1, SubsetInduction
<1> QED
  BY <1>2 DEF G

(* A weight that changes changes the sum by as much. *)
LEMMA SumFollows ==
    ASSUME NEW S, IsFiniteSet(S), NEW v, NEW w, NEW x \in S,
           \A y \in S : v[y] \in Nat /\ w[y] \in Nat,
           \A y \in S : y # x => v[y] = w[y]
    PROVE  /\ SumOver(v, S) \in Nat /\ SumOver(w, S) \in Nat
           /\ SumOver(w, S) = SumOver(v, S) - v[x] + w[x]
<1> DEFINE T == S \ {x}
<1>1. IsFiniteSet(T) /\ \A y \in T : v[y] = w[y]
  BY FS_Subset
<1>2. SumOver(v, T) = SumOver(w, T)
  <2> HIDE DEF T
  <2> QED
    BY <1>1, SumIsLocal
<1>3. /\ SumOver(v, S) = v[x] + SumOver(v, T) /\ SumOver(v, S) \in Nat /\ SumOver(v, T) \in Nat
      /\ SumOver(w, S) = w[x] + SumOver(w, T) /\ SumOver(w, S) \in Nat /\ SumOver(w, T) \in Nat
  BY SumTakesOut
<1>4. v[x] \in Nat /\ w[x] \in Nat
  OBVIOUS
<1> HIDE DEF T
<1> QED
  BY <1>2, <1>3, <1>4

(* The elements of S that g puts into the classes K. *)
InClasses(S, g, K) == {r \in S : g[r] \in K}

(* Counted class by class, a set adds up to what its classes hold together. *)
LEMMA SumOfClasses ==
    ASSUME NEW S, IsFiniteSet(S), NEW T, IsFiniteSet(T), NEW g, NEW w,
           \A t \in T : w[t] = Cardinality(InClasses(S, g, {t}))
    PROVE  SumOver(w, T) = Cardinality(InClasses(S, g, T))
<1> DEFINE C(U) == InClasses(S, g, U)
           G == {U \in SUBSET T : SumOver(w, U) = Cardinality(C(U))}
<1>1. ASSUME NEW U \in SUBSET T, \A V \in SUBSET U : V # U => V \in G
      PROVE  U \in G
  <2>1. IsFiniteSet(U)
    BY FS_Subset
  <2>2. CASE U = {}
    <3>1. SumOver(w, U) = 0
      BY <2>1, <2>2, SumUnfolds
    <3>2. C(U) = {}
      BY <2>2 DEF InClasses
    <3> QED
      BY <3>1, <3>2, FS_EmptySet
  <2>3. CASE U # {}
    <3> DEFINE t == AnyOf(U)
               V == U \ {t}
               K == C({t})
    <3>1. t \in U /\ SumOver(w, U) = w[t] + SumOver(w, V)
      BY <2>1, <2>3, SumUnfolds
    <3>2. V \in G
      BY <1>1, <3>1
    <3>3. w[t] = Cardinality(K)
      BY <3>1
    <3>4. C(U) = K \cup C(V) /\ K \cap C(V) = {}
      BY <3>1 DEF InClasses
    <3>5. IsFiniteSet(K) /\ IsFiniteSet(C(V))
      BY FS_Subset DEF InClasses
    <3>6. SumOver(w, V) = Cardinality(C(V))
      BY <3>2
    <3> HIDE DEF K, V, C, t
    <3>7. Cardinality(C(U)) = Cardinality(K) + Cardinality(C(V)) - Cardinality({})
      BY <3>4, <3>5, FS_Union
    <3>8. Cardinality(K) \in Nat /\ Cardinality(C(V)) \in Nat /\ Cardinality({}) = 0
      BY <3>5, FS_CardinalityType, FS_EmptySet
    <3>9. SumOver(w, U) = Cardinality(C(U))
      BY <3>1, <3>3, <3>6, <3>7, <3>8
    <3> QED
      BY <3>9
  <2> QED
    BY <2>2, <2>3
<1> HIDE DEF G
<1>2. \A U \in SUBSET T : U \in G
  BY <1>1, SubsetInduction
<1>3. T \in G
  BY <1>2
<1> QED
  BY <1>3 DEF G

=============================================================================
