-------------------------- MODULE CollectionLemmas --------------------------
(* Facts about maps, sets of numbers and sequences, cited by the proofs. *)
EXTENDS Integers, SequencesExt, HashMaps, FiniteSetTheorems, SequenceTheorems, TLAPS

-----------------------------------------------------------------------------
(* Maps *)

\* A map of Maps(K, V) takes keys of K to values of V.
LEMMA MapsDef ==
  ASSUME NEW K, NEW V, NEW m
  PROVE  m \in Maps(K, V) <=> (DOMAIN m \subseteq K /\ m \in [DOMAIN m -> V])
BY DEF Maps

\* What the entries of a map are.
LEMMA MapsEntries ==
  ASSUME NEW K, NEW V, NEW m \in Maps(K, V)
  PROVE  DOMAIN m \subseteq K /\ \A k \in DOMAIN m : m[k] \in V
BY MapsDef

\* The map without entries is a map of any type.
LEMMA EmptyMapType ==
  ASSUME NEW K, NEW V
  PROVE  EmptyMap \in Maps(K, V) /\ DOMAIN EmptyMap = {}
BY DEF EmptyMap, Maps

\* What HashMap::insert binds, and what it leaves alone.
LEMMA InsertLemma ==
  ASSUME NEW m, NEW k, NEW v
  PROVE  /\ DOMAIN Insert(m, k, v) = DOMAIN m \cup {k}
         /\ Insert(m, k, v)[k] = v
         /\ \A x \in DOMAIN m : x # k => Insert(m, k, v)[x] = m[x]
BY DEF Insert

\* HashMap::insert preserves the type of a map.
LEMMA InsertType ==
  ASSUME NEW K, NEW V, NEW m \in Maps(K, V), NEW k \in K, NEW v \in V
  PROVE  Insert(m, k, v) \in Maps(K, V)
<1>1. DOMAIN Insert(m, k, v) \subseteq K
  BY MapsDef DEF Insert
<1>2. Insert(m, k, v) \in [DOMAIN m \cup {k} -> V]
  BY MapsDef DEF Insert
<1>3. QED
  BY <1>1, <1>2, InsertLemma, MapsDef

\* What HashMap::remove leaves.
LEMMA WithoutLemma ==
  ASSUME NEW m, NEW k
  PROVE  /\ DOMAIN Without(m, k) = DOMAIN m \ {k}
         /\ \A x \in DOMAIN m : x # k => Without(m, k)[x] = m[x]
BY DEF Without, Restrict

\* HashMap::remove preserves the type of a map.
LEMMA WithoutType ==
  ASSUME NEW K, NEW V, NEW m \in Maps(K, V), NEW k
  PROVE  Without(m, k) \in Maps(K, V)
<1>1. Without(m, k) \in [DOMAIN m \ {k} -> V]
  BY MapsDef DEF Without, Restrict
<1>2. QED
  BY <1>1, WithoutLemma, MapsDef

-----------------------------------------------------------------------------
(* Sets of numbers *)

\* The least-number principle, from the well-foundedness of strict inclusion.
LEMMA LeastNumber ==
  ASSUME NEW S \in SUBSET Nat, S # {}
  PROVE  \E m \in S : \A n \in S : m <= n
<1> DEFINE Below(n) == {k \in Nat : k < n}
           Initial == {Below(n) : n \in S}
<1>1. \A n \in Nat : IsFiniteSet(Below(n))
  <2>1. TAKE n \in Nat
  <2>2. Below(n) \in SUBSET Nat /\ \A k \in Below(n) : k <= n
    OBVIOUS
  <2>3. QED
    BY <2>2, FS_BoundedSetOfNaturals
<1>2. Initial \subseteq FiniteSubsetsOf(Nat) /\ Initial # {}
  BY <1>1 DEF FiniteSubsetsOf
<1>3. PICK X \in Initial : \A Y \in Initial : <<Y, X>> \notin StrictSubsetOrdering(Nat)
  <2> HIDE DEF Initial
  <2> QED BY <1>2, FS_StrictSubsetOrderingWellFounded, WFMin
<1>4. PICK m \in S : X = Below(m)
  OBVIOUS
<1>5. ASSUME NEW n \in S, n < m PROVE FALSE
  <2>1. Below(n) \subseteq Below(m) /\ n \in Below(m) /\ n \notin Below(n)
    BY <1>5
  <2>2. <<Below(n), X>> \in StrictSubsetOrdering(Nat)
    BY <1>4, <2>1 DEF StrictSubsetOrdering
  <2>3. QED
    BY <1>3, <2>2
<1>6. QED
  BY <1>5

\* What Min returns.
LEMMA MinLemma ==
  ASSUME NEW S \in SUBSET Nat, S # {}
  PROVE  Min(S) \in S /\ \A n \in S : Min(S) <= n
BY LeastNumber DEF Min

\* The rank of a number in a finite set of numbers grows by one with each member.
LEMMA RankStep ==
  ASSUME NEW n \in Nat, NEW S \in SUBSET (1..n)
  PROVE  /\ IsFiniteSet(S) /\ Cardinality(S) \in 0..n
         /\ Cardinality(S \cap (1..0)) = 0 /\ Cardinality(S \cap (1..n)) = Cardinality(S)
         /\ \A i \in Nat : IsFiniteSet(S \cap (1..i)) /\ Cardinality(S \cap (1..i)) \in Nat
         /\ \A i \in Nat \ {0} : Cardinality(S \cap (1..i))
              = Cardinality(S \cap (1..(i-1))) + (IF i \in S THEN 1 ELSE 0)
<1>1. IsFiniteSet(1..n) /\ Cardinality(1..n) = n
  BY FS_Interval
<1>2. IsFiniteSet(S) /\ Cardinality(S) \in 0..n
  <2>1. IsFiniteSet(S) /\ Cardinality(S) <= Cardinality(1..n)
    BY <1>1, FS_Subset
  <2>2. Cardinality(S) \in Nat
    BY <2>1, FS_CardinalityType
  <2>3. QED
    BY <1>1, <2>1, <2>2
<1>3. S \cap (1..0) = {} /\ S \cap (1..n) = S
  <2>1. 1..0 = {} /\ \A i \in S : i \in 1..n
    OBVIOUS
  <2>2. QED
    BY <2>1
<1>4. \A i \in Nat : IsFiniteSet(S \cap (1..i)) /\ Cardinality(S \cap (1..i)) \in Nat
  BY <1>2, FS_Intersection, FS_CardinalityType
<1>5. ASSUME NEW i \in Nat \ {0}
      PROVE  Cardinality(S \cap (1..i)) = Cardinality(S \cap (1..(i-1))) + (IF i \in S THEN 1 ELSE 0)
  <2> DEFINE B == S \cap (1..(i-1))
  <2>1. S \cap (1..i) = IF i \in S THEN B \cup {i} ELSE B
    OBVIOUS
  <2>2. i \notin B /\ IsFiniteSet(B) /\ Cardinality(B) \in Nat
    BY <1>4
  <2> HIDE DEF B
  <2>3. Cardinality(B \cup {i}) = Cardinality(B) + 1
    BY <2>2, FS_AddElement
  <2>4. QED
    BY <2>1, <2>2, <2>3 DEF B
<1>6. QED
  BY <1>2, <1>3, <1>4, <1>5, FS_EmptySet

\* A set of numbers has a member of every rank up to its cardinality, and only one.
LEMMA RankLemma ==
  ASSUME NEW n \in Nat, NEW S \in SUBSET (1..n)
  PROVE  /\ \A k \in 1..Cardinality(S) : \E i \in S : Cardinality(S \cap (1..i)) = k
         /\ \A i \in S : Cardinality(S \cap (1..i)) \in 1..Cardinality(S)
         /\ \A i, j \in S : i < j => Cardinality(S \cap (1..i)) < Cardinality(S \cap (1..j))
<1> DEFINE rank(i) == Cardinality(S \cap (1..i))
<1>1. /\ Cardinality(S) \in Nat /\ rank(0) = 0 /\ rank(n) = Cardinality(S)
      /\ \A i \in Nat : rank(i) \in Nat /\ IsFiniteSet(S \cap (1..i))
      /\ \A i \in Nat \ {0} : rank(i) = rank(i-1) + (IF i \in S THEN 1 ELSE 0)
  BY RankStep
<1>2. ASSUME NEW k \in 1..Cardinality(S) PROVE \E i \in S : rank(i) = k
  <2> DEFINE Far == {i \in Nat : rank(i) >= k}
  <2>1. n \in Far /\ Far \in SUBSET Nat
    BY <1>1
  <2>2. PICK i \in Far : \A j \in Far : i <= j
    <3> HIDE DEF Far
    <3> QED BY <2>1, LeastNumber
  <2> HIDE DEF rank
  <2>3. i \in Nat \ {0} /\ i - 1 \in Nat /\ i - 1 \notin Far /\ rank(i) >= k
    BY <1>1, <2>2
  <2>4. rank(i) \in Nat /\ rank(i-1) \in Nat
    BY <1>1, <2>3
  <2>5. rank(i-1) < k
    BY <2>3, <2>4
  <2>6. i \in S /\ rank(i) = k
    BY <1>1, <2>3, <2>4, <2>5
  <2>7. QED
    BY <2>6
<1>3. ASSUME NEW i \in Nat, NEW j \in Nat, i <= j PROVE rank(i) <= rank(j)
  <2>1. S \cap (1..i) \in SUBSET (S \cap (1..j))
    BY <1>3
  <2>2. QED
    BY <1>1, <2>1, FS_Subset
<1>4. ASSUME NEW i \in S PROVE rank(i) \in 1..Cardinality(S)
  <2>1. i \in Nat \ {0} /\ i <= n /\ i - 1 \in Nat
    OBVIOUS
  <2>2. rank(i) <= rank(n)
    BY <1>3, <2>1
  <2> HIDE DEF rank
  <2>3. rank(i) = rank(i-1) + 1 /\ rank(i-1) \in Nat
    BY <1>1, <2>1
  <2>4. QED
    BY <1>1, <2>2, <2>3
<1>5. ASSUME NEW i \in S, NEW j \in S, i < j PROVE rank(i) < rank(j)
  <2>1. i \in Nat /\ j \in Nat \ {0} /\ j - 1 \in Nat /\ i <= j - 1
    BY <1>5
  <2>2. rank(i) <= rank(j-1)
    BY <1>3, <2>1
  <2> HIDE DEF rank
  <2>3. rank(j) = rank(j-1) + 1 /\ rank(j-1) \in Nat /\ rank(i) \in Nat
    BY <1>1, <2>1
  <2>4. QED
    BY <2>2, <2>3
<1>6. QED
  BY <1>2, <1>4, <1>5

\* The rank of a number in a set of numbers, and its facts in that form.
Rank(S, i) == Cardinality(S \cap (1..i))

\* The ranks from none to all.
LEMMA RankFacts ==
  ASSUME NEW n \in Nat, NEW S \in SUBSET (1..n)
  PROVE  /\ IsFiniteSet(S) /\ Cardinality(S) \in Nat
         /\ Rank(S, 0) = 0 /\ Rank(S, n) = Cardinality(S)
         /\ \A i \in Nat : Rank(S, i) \in Nat
         /\ \A i \in Nat \ {0} : Rank(S, i) = Rank(S, i-1) + (IF i \in S THEN 1 ELSE 0)
         /\ \A i \in S : Rank(S, i) \in 1..Cardinality(S)
         /\ \A k \in 1..Cardinality(S) : \E i \in S : Rank(S, i) = k
         /\ \A i, j \in S : i < j => Rank(S, i) < Rank(S, j)
         /\ \A i, j \in S : Rank(S, i) = Rank(S, j) => i = j
<1>1. /\ IsFiniteSet(S) /\ Cardinality(S) \in Nat
      /\ Rank(S, 0) = 0 /\ Rank(S, n) = Cardinality(S)
      /\ \A i \in Nat : Rank(S, i) \in Nat
      /\ \A i \in Nat \ {0} : Rank(S, i) = Rank(S, i-1) + (IF i \in S THEN 1 ELSE 0)
  BY RankStep DEF Rank
<1>2. /\ \A i \in S : Rank(S, i) \in 1..Cardinality(S)
      /\ \A k \in 1..Cardinality(S) : \E i \in S : Rank(S, i) = k
      /\ \A i, j \in S : i < j => Rank(S, i) < Rank(S, j)
  BY RankLemma DEF Rank
<1>3. ASSUME NEW i \in S, NEW j \in S, Rank(S, i) = Rank(S, j)
      PROVE  i = j
  <2>1. i \in Nat /\ j \in Nat /\ Rank(S, i) \in Nat
    BY <1>1
  <2>2. ~(i < j) /\ ~(j < i)
    BY <1>2, <1>3, <2>1
  <2>3. QED
    BY <2>1, <2>2
<1>4. QED
  BY <1>1, <1>2, <1>3

\* What becomes of the ranks when one of the positions counted is taken out.
LEMMA RankRemoved ==
  ASSUME NEW n \in Nat, NEW S \in SUBSET (1..n), NEW i \in S, NEW T,
         T = {j \in 1..(n-1) : IF j < i THEN j \in S ELSE j+1 \in S}
  PROVE  /\ \A j \in 0..(n-1) : Rank(T, j) = IF j < i THEN Rank(S, j) ELSE Rank(S, j+1) - 1
         /\ Cardinality(T) = Cardinality(S) - 1
<1>1. i \in 1..n /\ n - 1 \in Nat /\ T \in SUBSET (1..(n-1))
  OBVIOUS
<1>2. /\ Rank(S, 0) = 0 /\ Rank(S, n) = Cardinality(S) /\ Cardinality(S) \in Nat
      /\ \A j \in Nat : Rank(S, j) \in Nat
      /\ \A j \in Nat \ {0} : Rank(S, j) = Rank(S, j-1) + (IF j \in S THEN 1 ELSE 0)
  BY RankFacts
<1>3. /\ Rank(T, 0) = 0 /\ Rank(T, n-1) = Cardinality(T)
      /\ \A j \in Nat : Rank(T, j) \in Nat
      /\ \A j \in Nat \ {0} : Rank(T, j) = Rank(T, j-1) + (IF j \in T THEN 1 ELSE 0)
  <2>1. PICK k \in Nat : k = n - 1 /\ T \in SUBSET (1..k)
    BY <1>1
  <2>2. /\ Rank(T, 0) = 0 /\ Rank(T, k) = Cardinality(T)
        /\ \A j \in Nat : Rank(T, j) \in Nat
        /\ \A j \in Nat \ {0} : Rank(T, j) = Rank(T, j-1) + (IF j \in T THEN 1 ELSE 0)
    BY ONLY <2>1, RankFacts
  <2>3. QED
    BY <2>1, <2>2
<1> DEFINE As(j) == Rank(T, j) = IF j < i THEN Rank(S, j) ELSE Rank(S, j+1) - 1
           Bad == {j \in 0..(n-1) : ~As(j)}
<1>4. Bad = {}
  <2> SUFFICES ASSUME Bad # {} PROVE FALSE
    OBVIOUS
  <2>1. PICK m \in Bad : \A j \in Bad : m <= j
    <3>1. Bad \in SUBSET Nat
      OBVIOUS
    <3> HIDE DEF Bad
    <3>2. QED
      BY <3>1, LeastNumber
  <2>2. m \in 0..(n-1) /\ ~As(m)
    OBVIOUS
  <2>3. m # 0
    BY <1>1, <1>2, <1>3, <2>2
  <2>4. m - 1 \in 0..(n-1) /\ As(m-1)
    <3>1. m - 1 \in 0..(n-1) /\ ~(m <= m - 1)
      BY <2>2, <2>3
    <3>2. m - 1 \notin Bad
      BY <2>1, <3>1
    <3>3. QED
      BY <3>1, <3>2
  <2>5. Rank(T, m) = Rank(T, m-1) + (IF m \in T THEN 1 ELSE 0)
    BY <1>3, <2>2, <2>3
  <2>6. /\ Rank(S, m) = Rank(S, m-1) + (IF m \in S THEN 1 ELSE 0)
        /\ Rank(S, m+1) = Rank(S, m) + (IF m+1 \in S THEN 1 ELSE 0)
        /\ Rank(S, m-1) \in Nat /\ Rank(S, m) \in Nat /\ Rank(S, m+1) \in Nat
    <3>1. m \in Nat \ {0} /\ m+1 \in Nat \ {0} /\ m - 1 \in Nat /\ (m+1) - 1 = m
      BY <2>2, <2>3
    <3>2. Rank(S, m+1) = Rank(S, (m+1)-1) + (IF m+1 \in S THEN 1 ELSE 0)
      BY <1>2, <3>1
    <3>3. QED
      BY <1>2, <3>1, <3>2
  <2>7. m \in T <=> IF m < i THEN m \in S ELSE m+1 \in S
    BY <1>1, <2>2, <2>3
  <2>8. CASE m < i
    BY <1>1, <2>2, <2>4, <2>5, <2>6, <2>7, <2>8
  <2>9. CASE m = i
    BY <1>1, <2>2, <2>4, <2>5, <2>6, <2>7, <2>9
  <2>10. CASE m > i
    <3>1. ~(m - 1 < i) /\ (m - 1) + 1 = m
      BY <1>1, <2>2, <2>10
    <3>2. Rank(T, m-1) = Rank(S, m) - 1
      BY <2>4, <3>1
    <3>3. QED
      BY <1>1, <2>2, <2>5, <2>6, <2>7, <2>10, <3>2
  <2>11. QED
    BY <1>1, <2>2, <2>8, <2>9, <2>10
<1>5. \A j \in 0..(n-1) : As(j)
  BY <1>4
<1>6. Cardinality(T) = Cardinality(S) - 1
  <2>1. As(n-1)
    BY <1>1, <1>5
  <2>2. CASE i = n
    <3>1. Rank(S, n) = Rank(S, n-1) + 1
      BY <1>1, <1>2, <2>2
    <3>2. QED
      BY <1>1, <1>2, <1>3, <2>1, <2>2, <3>1
  <2>3. CASE i < n
    <3>1. ~(n - 1 < i) /\ (n - 1) + 1 = n
      BY <1>1, <2>3
    <3>2. QED
      BY <1>2, <1>3, <2>1, <3>1
  <2>4. QED
    BY <1>1, <2>2, <2>3
<1>7. QED
  BY <1>5, <1>6

-----------------------------------------------------------------------------
(* Sequences *)

\* What Vec::remove leaves.
LEMMA RemoveAtLemma ==
  ASSUME NEW S, NEW s \in Seq(S), NEW i \in 1..Len(s)
  PROVE  /\ RemoveAt(s, i) \in Seq(S) /\ Len(RemoveAt(s, i)) = Len(s) - 1
         /\ \A j \in 1..(Len(s) - 1) : RemoveAt(s, i)[j] = IF j < i THEN s[j] ELSE s[j+1]
<1> DEFINE a == SubSeq(s, 1, i-1)
           b == SubSeq(s, i+1, Len(s))
<1>1. Len(s) \in Nat /\ i \in Int /\ \A j \in 1..Len(s) : s[j] \in S
  BY LenProperties, ElementOfSeq
<1>2. a \in Seq(S) /\ Len(a) = i - 1 /\ \A j \in 1..(i-1) : a[j] = s[j]
  BY <1>1, SubSeqProperties
<1>3. b \in Seq(S) /\ Len(b) = Len(s) - i /\ \A j \in 1..(Len(s) - i) : b[j] = s[j+i]
  BY <1>1, SubSeqProperties
<1>4. RemoveAt(s, i) = a \o b
  BY DEF RemoveAt
<1> HIDE DEF a, b
<1>5. /\ a \o b \in Seq(S) /\ Len(a \o b) = Len(a) + Len(b)
      /\ \A j \in 1..(Len(a) + Len(b)) : (a \o b)[j] = IF j <= Len(a) THEN a[j] ELSE b[j - Len(a)]
  BY <1>2, <1>3, ConcatProperties
<1>6. Len(a \o b) = Len(s) - 1
  BY <1>1, <1>2, <1>3, <1>5
<1>7. ASSUME NEW j \in 1..(Len(s) - 1) PROVE (a \o b)[j] = IF j < i THEN s[j] ELSE s[j+1]
  <2>1. (a \o b)[j] = IF j <= i - 1 THEN a[j] ELSE b[j - (i - 1)]
    BY <1>1, <1>2, <1>3, <1>5
  <2>2. CASE j < i
    BY <1>1, <1>2, <2>1, <2>2
  <2>3. CASE ~(j < i)
    <3>1. j - (i - 1) \in 1..(Len(s) - i) /\ (j - (i - 1)) + i = j + 1
      BY <1>1, <2>3
    <3>2. b[j - (i - 1)] = s[j + 1]
      BY <1>3, <3>1
    <3>3. QED
      BY <1>1, <2>1, <2>3, <3>2
  <2>4. QED
    BY <2>2, <2>3
<1>8. QED
  BY <1>4, <1>5, <1>6, <1>7

-----------------------------------------------------------------------------
(* Folds over a sequence *)

\* A set of places that is not empty has a largest one.
LEMMA LargestLemma ==
  ASSUME NEW n \in Nat, NEW S \in SUBSET (1..n), S # {}
  PROVE  Max(S) \in S /\ \A x \in S : x <= Max(S)
<1> DEFINE D == {n - x : x \in S}
<1>1. D \in SUBSET Nat /\ D # {}
  <2>1. \A x \in S : x \in 1..n /\ n - x \in Nat
    OBVIOUS
  <2>2. PICK x : x \in S
    OBVIOUS
  <2>3. n - x \in D
    BY <2>2
  <2>4. \A d \in D : d \in Nat
    BY <2>1
  <2>5. QED
    BY <2>3, <2>4
<1>2. PICK m \in D : \A d \in D : m <= d
  BY <1>1, LeastNumber
<1>3. PICK x \in S : m = n - x
  BY <1>2
<1>4. \A y \in S : y <= x
  <2> SUFFICES ASSUME NEW y \in S PROVE y <= x
    OBVIOUS
  <2>1. n - y \in D /\ y \in 1..n /\ x \in 1..n
    OBVIOUS
  <2>2. n - x <= n - y
    BY <1>2, <1>3, <2>1
  <2>3. QED
    BY <2>1, <2>2
<1>5. QED
  BY <1>4 DEF Max

\* What holds for 0 and passes to the next holds up to n.
LEMMA CountUp ==
  ASSUME NEW n \in Nat, NEW P, 0 \in P, \A k \in 1..n : k - 1 \in P => k \in P
  PROVE  \A k \in 0..n : k \in P
<1> DEFINE S == {k \in 0..n : k \notin P}
<1>1. CASE S = {}
  BY <1>1
<1>2. CASE S # {}
  <2>1. S \in SUBSET Nat
    OBVIOUS
  <2>2. PICK m \in S : \A k \in S : m <= k
    BY <1>2, <2>1, LeastNumber
  <2>3. m \in 1..n /\ m - 1 \in 0..n /\ m - 1 \notin S
    BY <2>2
  <2>4. QED
    BY <2>2, <2>3
<1>3. QED
  BY <1>1, <1>2

\* it[s] is what folding the places s of seq gives.
Iterates(A, base, op, seq, it) ==
  /\ it \in [SUBSET (1..Len(seq)) -> A]
  /\ \A s \in SUBSET (1..Len(seq)) :
       it[s] = IF s = {} THEN base ELSE op[<<it[s \ {Max(s)}], seq[Max(s)]>>]

\* The recursion that defines a fold has a solution.
LEMMA FoldExists ==
  ASSUME NEW A, NEW B, NEW base \in A, NEW op \in [A \X B -> A], NEW seq \in Seq(B)
  PROVE  \E it : Iterates(A, base, op, seq, it)
<1> DEFINE Solves(it, n) ==
             /\ it \in [SUBSET (1..n) -> A]
             /\ \A s \in SUBSET (1..n) :
                  it[s] = IF s = {} THEN base ELSE op[<<it[s \ {Max(s)}], seq[Max(s)]>>]
           P == {n \in Nat : \E it : Solves(it, n)}
<1>1. Len(seq) \in Nat /\ \A k \in 1..Len(seq) : seq[k] \in B
  BY LenProperties, ElementOfSeq
<1>2. 0 \in P
  <2> DEFINE it == [s \in SUBSET (1..0) |-> base]
  <2>1. \A s \in SUBSET (1..0) : s = {}
    OBVIOUS
  <2>2. Solves(it, 0)
    BY <2>1
  <2>3. QED
    BY <2>2
<1>3. ASSUME NEW n \in 1..Len(seq), n - 1 \in P PROVE n \in P
  <2>1. PICK it : Solves(it, n - 1)
    BY <1>3
  <2> DEFINE new == [s \in SUBSET (1..n) |->
                       IF n \in s THEN op[<<it[s \ {n}], seq[n]>>] ELSE it[s]]
  <2>2. ASSUME NEW s \in SUBSET (1..n), n \in s
        PROVE  /\ s # {} /\ Max(s) = n /\ s \ {n} \in SUBSET (1..(n - 1)) /\ s \ {n} \in SUBSET (1..n)
               /\ it[s \ {n}] \in A /\ new[s] = op[<<it[s \ {n}], seq[n]>>]
               /\ new[s \ {n}] = it[s \ {n}]
    <3>1. Max(s) = n
      <4>1. n \in Nat /\ s # {} /\ s \in SUBSET (1..n)
        BY <2>2
      <4>2. Max(s) \in s /\ n <= Max(s)
        BY <2>2, <4>1, LargestLemma
      <4>3. Max(s) \in 1..n
        BY <4>1, <4>2
      <4>4. QED
        BY <4>2, <4>3
    <3>2. s \ {n} \in SUBSET (1..(n - 1)) /\ s \ {n} \in SUBSET (1..n) /\ n \notin s \ {n}
      OBVIOUS
    <3>3. it[s \ {n}] \in A
      BY <2>1, <3>2
    <3>4. QED
      BY <2>2, <3>1, <3>2, <3>3
  <2>3. ASSUME NEW s \in SUBSET (1..n), n \notin s
        PROVE  /\ s \in SUBSET (1..(n - 1)) /\ it[s] \in A /\ new[s] = it[s]
               /\ s # {} => /\ Max(s) \in s /\ s \ {Max(s)} \in SUBSET (1..n)
                            /\ n \notin s \ {Max(s)} /\ new[s \ {Max(s)}] = it[s \ {Max(s)}]
    <3>1. s \in SUBSET (1..(n - 1))
      BY <2>3
    <3>2. it[s] \in A /\ new[s] = it[s]
      BY <2>1, <2>3, <3>1
    <3>3. ASSUME s # {} 
          PROVE  Max(s) \in s /\ s \ {Max(s)} \in SUBSET (1..n) /\ n \notin s \ {Max(s)}
      <4>1. n \in Nat /\ s \in SUBSET (1..n)
        OBVIOUS
      <4>2. Max(s) \in s
        BY <3>3, <4>1, LargestLemma
      <4>3. QED
        BY <2>3, <4>2
    <3>4. QED
      BY <3>1, <3>2, <3>3
  <2>4. new \in [SUBSET (1..n) -> A]
    <3>1. ASSUME NEW s \in SUBSET (1..n) PROVE new[s] \in A
      <4>1. CASE n \in s
        <5>1. new[s] = op[<<it[s \ {n}], seq[n]>>] /\ it[s \ {n}] \in A
          BY <2>2, <4>1
        <5>2. seq[n] \in B
          BY <1>1
        <5>3. QED
          BY <5>1, <5>2
      <4>2. CASE n \notin s
        BY <2>3, <4>2
      <4>3. QED
        BY <4>1, <4>2
    <3>2. QED
      BY <3>1
  <2> HIDE DEF new
  <2>5. ASSUME NEW s \in SUBSET (1..n)
        PROVE  new[s] = IF s = {} THEN base ELSE op[<<new[s \ {Max(s)}], seq[Max(s)]>>]
    <3>1. CASE n \in s
      <4>1. s # {} /\ Max(s) = n /\ new[s] = op[<<it[s \ {n}], seq[n]>>]
            /\ new[s \ {n}] = it[s \ {n}]
        BY <2>2, <3>1
      <4>2. QED
        BY <4>1
    <3>2. CASE n \notin s
      <4>1. /\ s \in SUBSET (1..(n - 1)) /\ new[s] = it[s]
            /\ s # {} => new[s \ {Max(s)}] = it[s \ {Max(s)}]
        BY <2>3, <3>2
      <4>2. it[s] = IF s = {} THEN base ELSE op[<<it[s \ {Max(s)}], seq[Max(s)]>>]
        BY <2>1, <4>1
      <4>3. QED
        BY <4>1, <4>2
    <3>3. QED
      BY <3>1, <3>2
  <2>6. Solves(new, n)
    BY <2>4, <2>5
  <2> HIDE DEF Solves
  <2>7. QED
    BY <2>6
<1> HIDE DEF P
<1>4. Len(seq) \in P
  <2>1. \A k \in 0..Len(seq) : k \in P
    BY <1>1, <1>2, <1>3, CountUp
  <2>2. QED
    BY <1>1, <2>1
<1>5. QED
  BY <1>4 DEF P, Iterates

\* The places a fold has seen after k rounds.
LEMMA FoldPrefix ==
  ASSUME NEW n \in Nat, NEW k \in 1..n, NEW S, S = 1..k
  PROVE  S \in SUBSET (1..n) /\ S # {} /\ Max(S) = k /\ S \ {Max(S)} = 1..(k - 1)
<1>1. S \in SUBSET (1..n) /\ S # {} /\ k \in S /\ S \ {k} = 1..(k - 1)
      /\ \A x \in S : x <= k /\ x \in Nat
  OBVIOUS
<1>2. Max(S) \in S /\ \A x \in S : x <= Max(S)
  BY <1>1, LargestLemma
<1>3. Max(S) = k
  BY <1>1, <1>2
<1>4. QED
  BY <1>1, <1>3

-----------------------------------------------------------------------------
(* Sequences *)

\* A sequence of its own elements stays one when another is appended.
LEMMA AppendToSet ==
  ASSUME NEW list, list \in Seq(ToSet(list)), NEW e, NEW n \in Nat, n = Len(list)
  PROVE  LET new == Append(list, e) IN
         /\ new \in Seq(ToSet(new)) /\ Len(new) = n + 1 /\ new[n + 1] = e
         /\ \A i \in 1..n : new[i] = list[i]
<1> DEFINE S == ToSet(list) \cup {e}
           new == Append(list, e)
<1>1. list \in [1..n -> ToSet(list)]
  BY LenProperties
<1>2. list \in [1..n -> S]
  BY <1>1
<1>3. list \in Seq(S) /\ e \in S
  BY <1>2
<1>4. /\ new \in Seq(S) /\ Len(new) = n + 1 /\ new[n + 1] = e
      /\ \A i \in 1..n : new[i] = list[i]
  BY <1>3, AppendProperties
<1>5. new \in [1..(n + 1) -> S] /\ DOMAIN new = 1..(n + 1)
  BY <1>4, LenProperties
<1>6. new \in [1..(n + 1) -> ToSet(new)]
  BY <1>5 DEF ToSet
<1> HIDE DEF new
<1>8. new \in Seq(ToSet(new))
  <2>1. PICK X : X = ToSet(new)
    OBVIOUS
  <2>2. PICK m \in Nat : m = n + 1
    OBVIOUS
  <2>3. new \in [1..m -> X]
    BY <1>6, <2>1, <2>2
  <2>4. new \in Seq(X)
    BY <2>3
  <2>5. QED
    BY <2>1, <2>4
<1>9. QED
  BY <1>4, <1>8 DEF new
=============================================================================
