-------------------------- MODULE RoutingTableProofs --------------------------
(***************************************************************************)
(* The diversity filter keeps its limits for any number of peers, IP       *)
(* groups and connections, and the targets of lookups fit for keys and     *)
(* words of any length.  The filter counts connections and its limits are  *)
(* about peers: a peer of a group has at least one connection counted, so  *)
(* there are at most as many peers as counted connections.                 *)
(***************************************************************************)
EXTENDS RoutingTable, FiniteSetTheorems, WellFoundedInduction, TLAPS

-----------------------------------------------------------------------------
(* Keys.                                                                   *)

LEMMA CplRange ==
  ASSUME NEW k, NEW l
  PROVE  CommonPrefixLength(k, l) \in Cpls
<1> DEFINE S == {n \in 1 .. BitLen : IsPrefixOf(k, n, l)}
<1>1. BitLen \in Nat /\ IsFiniteSet(1 .. BitLen) /\ Cardinality(1 .. BitLen) = BitLen
  BY KeyAssumption, FS_Interval
<1>2. IsFiniteSet(S) /\ Cardinality(S) <= BitLen /\ Cardinality(S) \in Nat
  BY <1>1, FS_Subset, FS_CardinalityType
<1>3. QED  BY <1>1, <1>2 DEF CommonPrefixLength, Cpls

(* Keys that agree on n bits and differ in the next share exactly n.       *)
LEMMA CplIs ==
  ASSUME NEW k, NEW l, NEW n \in 0 .. BitLen - 1, IsPrefixOf(k, n, l), k[n] # l[n]
  PROVE  CommonPrefixLength(k, l) = n
<1>1. n \in Nat /\ BitLen \in Nat
  BY KeyAssumption
<1>2. \A m \in 1 .. BitLen : IsPrefixOf(k, m, l) <=> m \in 1 .. n
  BY <1>1 DEF IsPrefixOf
<1>3. {m \in 1 .. BitLen : IsPrefixOf(k, m, l)} = 1 .. n
  BY <1>1, <1>2
<1>4. Cardinality(1 .. n) = n
  BY <1>1, FS_Interval
<1>5. QED  BY <1>3, <1>4 DEF CommonPrefixLength

LEMMA TableIsRight ==
  ASSUME NEW w \in Word
  PROVE  keyPrefixMap[w] \in Preimages /\ IsPrefixOf(w, WordLen, Hash[keyPrefixMap[w]])
BY KeyAssumption DEF keyPrefixMap

(* The target for a bucket shares cpl bits with the key, and not the next. *)
LEMMA BucketTarget ==
  ASSUME NEW k \in Key, NEW cpl \in Cpls, NEW m \in GenRandPeerID(k, cpl)
  PROVE  /\ m \in Preimages /\ cpl \in 0 .. BitLen - 1
         /\ \A i \in 0 .. cpl - 1 : Hash[m][i] = k[i]
         /\ Hash[m][cpl] # k[cpl]
<1>1. cpl \in 0 .. WordLen - 1 /\ WordLen \in 1 .. BitLen /\ BitLen \in Nat
  BY KeyAssumption DEF GenRandPeerID, Cpls
<1>2. PICK w \in prefix(k, cpl) : m = keyPrefixMap[w]
  BY <1>1 DEF GenRandPeerID
<1>3. PICK r \in Word :
        w = [i \in 0 .. WordLen - 1 |->
               IF i < cpl THEN k[i] ELSE IF i = cpl THEN 1 - k[i] ELSE r[i]]
  BY <1>2 DEF prefix
<1>4. \A i \in 0 .. WordLen - 1 : k[i] \in Bit /\ r[i] \in Bit
  BY <1>1, <1>3 DEF Key, Word
<1>5. w \in Word
  BY <1>3, <1>4 DEF Word, Bit
<1>6. m \in Preimages /\ IsPrefixOf(w, WordLen, Hash[m])
  BY <1>2, <1>5, TableIsRight
<1>7. \A i \in 0 .. cpl : i \in 0 .. WordLen - 1 /\ Hash[m][i] = w[i]
  BY <1>1, <1>6 DEF IsPrefixOf
<1>8. \A i \in 0 .. cpl - 1 : i \in 0 .. cpl /\ i < cpl
  BY <1>1
<1>9. cpl \in 0 .. cpl /\ ~(cpl < cpl)
  BY <1>1
<1>10. \A i \in 0 .. cpl - 1 : Hash[m][i] = k[i]
  BY <1>3, <1>7, <1>8
<1>11. Hash[m][cpl] = 1 - k[cpl] /\ k[cpl] \in {0, 1}
  BY <1>3, <1>4, <1>7, <1>9 DEF Bit
<1>12. QED  BY <1>1, <1>6, <1>10, <1>11

(* Whatever shares one bit more than cpl with the target shares exactly    *)
(* cpl bits with the key that the target was made for.                     *)
LEMMA ExploreTarget ==
  ASSUME NEW k \in Key, NEW cpl \in Cpls, NEW m \in GenRandPeerID(k, cpl),
         NEW l \in Key, IsPrefixOf(l, cpl + 1, Hash[m])
  PROVE  CommonPrefixLength(k, l) = cpl
<1>1. /\ cpl \in 0 .. BitLen - 1 /\ BitLen \in Nat
      /\ \A i \in 0 .. cpl - 1 : Hash[m][i] = k[i]
      /\ Hash[m][cpl] # k[cpl]
  BY KeyAssumption, BucketTarget
<1>2. \A i \in 0 .. cpl : l[i] = Hash[m][i]
  BY <1>1 DEF IsPrefixOf
<1>3. IsPrefixOf(k, cpl, l) /\ k[cpl] # l[cpl]
  BY <1>1, <1>2 DEF IsPrefixOf
<1>4. QED  BY <1>1, <1>3, CplIs

LEMMA SurveyTarget ==
  ASSUME NEW n \in Cpls, NEW p \in [0 .. n - 1 -> Bit], NEW m \in GenRandKeyForPrefix(p, n)
  PROVE  m \in Preimages /\ IsPrefixOf(p, n, Hash[m])
<1>1. n \in 0 .. WordLen /\ WordLen \in 1 .. BitLen /\ BitLen \in Nat
  BY KeyAssumption DEF GenRandKeyForPrefix, Cpls
<1>2. PICK r \in Word :
        m = keyPrefixMap[[i \in 0 .. WordLen - 1 |-> IF i < n THEN p[i] ELSE r[i]]]
  BY <1>1 DEF GenRandKeyForPrefix
<1> DEFINE w == [i \in 0 .. WordLen - 1 |-> IF i < n THEN p[i] ELSE r[i]]
<1>3. w \in Word
  BY <1>1 DEF Word
<1>4. m \in Preimages /\ IsPrefixOf(w, WordLen, Hash[m])
  BY <1>2, <1>3, TableIsRight
<1>5. \A i \in 0 .. n - 1 : p[i] = w[i] /\ w[i] = Hash[m][i]
  BY <1>1, <1>4 DEF IsPrefixOf
<1>6. QED  BY <1>4, <1>5 DEF IsPrefixOf

(* Different keys have a first bit in which they differ: the one after     *)
(* their common prefix.                                                    *)
LEMMA FirstDifference ==
  ASSUME NEW k \in Key, NEW l \in Key, k # l
  PROVE  \E n \in 0 .. BitLen - 1 : IsPrefixOf(k, n, l) /\ k[n] # l[n]
<1> DEFINE S == {n \in 1 .. BitLen : IsPrefixOf(k, n, l)}
           c == Cardinality(S)
<1>1. BitLen \in Nat /\ IsFiniteSet(1 .. BitLen) /\ Cardinality(1 .. BitLen) = BitLen
  BY KeyAssumption, FS_Interval
<1>2. IsFiniteSet(S) /\ c \in Nat /\ c <= BitLen
  BY <1>1, FS_Subset, FS_CardinalityType
<1>3. \A n \in S : n \in Nat /\ 1 .. n \subseteq S
  <2> SUFFICES ASSUME NEW n \in S, NEW m \in 1 .. n PROVE n \in Nat /\ m \in S
    BY <1>1
  <2>1. n \in 1 .. BitLen /\ IsPrefixOf(k, n, l)
    OBVIOUS
  <2>2. m \in 1 .. BitLen /\ \A i \in 0 .. m - 1 : i \in 0 .. n - 1
    BY <1>1, <2>1
  <2>3. QED  BY <1>1, <2>1, <2>2 DEF IsPrefixOf
<1>4. \A n \in S : n <= c
  <2> SUFFICES ASSUME NEW n \in S PROVE n <= c
    OBVIOUS
  <2>1. n \in Nat /\ 1 .. n \subseteq S
    BY <1>3
  <2>2. Cardinality(1 .. n) = n
    BY <2>1, FS_Interval
  <2>3. Cardinality(1 .. n) <= c
    <3> HIDE DEF S
    <3>1. QED  BY <1>2, <2>1, FS_Subset
  <2>4. QED  BY <2>2, <2>3
<1>5. S = 1 .. c
  <2>1. S \subseteq 1 .. c
    BY <1>1, <1>2, <1>4
  <2>2. IsFiniteSet(1 .. c) /\ Cardinality(1 .. c) = c
    BY <1>2, FS_Interval
  <2>3. QED  BY <2>1, <2>2, FS_Subset
<1>6. IsPrefixOf(k, c, l)
  <2>1. CASE c = 0
    BY <2>1 DEF IsPrefixOf
  <2>2. CASE c # 0
    <3>1. c \in 1 .. c
      BY <1>2, <2>2
    <3>2. c \in S
      BY <1>5, <3>1
    <3>3. QED  BY <3>2
  <2>3. QED  BY <2>1, <2>2
<1>7. c # BitLen
  <2> SUFFICES ASSUME c = BitLen PROVE FALSE
    OBVIOUS
  <2>1. \A i \in 0 .. BitLen - 1 : k[i] = l[i]
    BY <1>6 DEF IsPrefixOf
  <2>2. k = [i \in 0 .. BitLen - 1 |-> k[i]] /\ l = [i \in 0 .. BitLen - 1 |-> l[i]]
    BY DEF Key
  <2>3. QED  BY <2>1, <2>2, Zenon
<1>8. c \in 0 .. BitLen - 1 /\ c + 1 \in 1 .. BitLen /\ c + 1 \notin S
  BY <1>1, <1>2, <1>5, <1>7
<1>9. k[c] # l[c]
  <2> SUFFICES ASSUME k[c] = l[c] PROVE FALSE
    OBVIOUS
  <2>1. \A i \in 0 .. (c + 1) - 1 : i = c \/ i \in 0 .. c - 1
    BY <1>2
  <2>2. IsPrefixOf(k, c + 1, l)
    BY <1>6, <2>1 DEF IsPrefixOf
  <2>3. QED  BY <1>8, <2>2
<1>10. QED  BY <1>6, <1>8, <1>9

(* To be closer to a target is a strict total order on keys: Compare never *)
(* says that two different keys are equally far away.                      *)
LEMMA CloserIsTotal ==
  ASSUME NEW k \in Key, NEW l \in Key, NEW t \in Key, k # l
  PROVE  Closer(k, l, t) \/ Closer(l, k, t)
<1>1. PICK n \in 0 .. BitLen - 1 : IsPrefixOf(k, n, l) /\ k[n] # l[n]
  BY FirstDifference
<1>2. k[n] \in {0, 1} /\ l[n] \in {0, 1} /\ t[n] \in {0, 1}
  BY DEF Key, Bit
<1>3. IsPrefixOf(l, n, k)
  BY <1>1 DEF IsPrefixOf
<1>4. QED  BY <1>1, <1>2, <1>3 DEF Closer

LEMMA CloserIsTransitive ==
  ASSUME NEW k, NEW l, NEW m, NEW t, Closer(k, l, t), Closer(l, m, t)
  PROVE  Closer(k, m, t)
<1>1. PICK a \in 0 .. BitLen - 1 : IsPrefixOf(k, a, l) /\ k[a] # l[a] /\ k[a] = t[a]
  BY DEF Closer
<1>2. PICK b \in 0 .. BitLen - 1 : IsPrefixOf(l, b, m) /\ l[b] # m[b] /\ l[b] = t[b]
  BY DEF Closer
<1>3. BitLen \in Nat
  BY KeyAssumption
<1>4. CASE a < b
  <2>1. a \in 0 .. b - 1 /\ \A i \in 0 .. a - 1 : i \in 0 .. b - 1
    BY <1>3, <1>4
  <2>2. k[a] # m[a] /\ IsPrefixOf(k, a, m)
    BY <1>1, <1>2, <2>1 DEF IsPrefixOf
  <2>3. QED  BY <1>1, <2>2 DEF Closer
<1>5. CASE b < a
  <2>1. b \in 0 .. a - 1 /\ \A i \in 0 .. b - 1 : i \in 0 .. a - 1
    BY <1>3, <1>5
  <2>2. k[b] = l[b] /\ IsPrefixOf(k, b, m)
    BY <1>1, <1>2, <2>1 DEF IsPrefixOf
  <2>3. QED  BY <1>2, <2>2 DEF Closer
<1>6. a # b
  BY <1>1, <1>2
<1>7. QED  BY <1>3, <1>4, <1>5, <1>6

LEMMA CloserIsIrreflexive ==
  ASSUME NEW k, NEW t
  PROVE  ~Closer(k, k, t)
BY DEF Closer

(* How many nodes of the table are closer to a key than a node is.         *)
Before(p, k) == {q \in table : Closer(KeyOf[q], KeyOf[p], k)}

LEMMA BeforeGrows ==
  ASSUME NEW k \in Key, table \subseteq Peers, IsFiniteSet(table),
         NEW p \in table, NEW q \in table, p # q
  PROVE  /\ Cardinality(Before(p, k)) \in Nat /\ Cardinality(Before(q, k)) \in Nat
         /\ \/ /\ Closer(KeyOf[p], KeyOf[q], k)
               /\ Cardinality(Before(p, k)) < Cardinality(Before(q, k))
            \/ /\ Closer(KeyOf[q], KeyOf[p], k)
               /\ Cardinality(Before(q, k)) < Cardinality(Before(p, k))
<1>1. \A n \in table :
        IsFiniteSet(Before(n, k)) /\ Cardinality(Before(n, k)) \in Nat
  BY FS_Subset, FS_CardinalityType DEF Before
<1>2. ASSUME NEW m \in table, NEW n \in table, Closer(KeyOf[m], KeyOf[n], k)
      PROVE  Cardinality(Before(m, k)) < Cardinality(Before(n, k))
  <2>1. Before(m, k) \subseteq Before(n, k)
    BY <1>2, CloserIsTransitive DEF Before
  <2>2. m \in Before(n, k) /\ m \notin Before(m, k)
    BY <1>2, CloserIsIrreflexive DEF Before
  <2>3. Cardinality(Before(m, k)) <= Cardinality(Before(n, k))
        /\ Cardinality(Before(m, k)) # Cardinality(Before(n, k))
    BY <1>1, <2>1, <2>2, FS_Subset
  <2>4. QED  BY <1>1, <2>3
<1>3. KeyOf[p] \in Key /\ KeyOf[q] \in Key /\ KeyOf[p] # KeyOf[q]
  BY ConstantsAssumption
<1>4. Closer(KeyOf[p], KeyOf[q], k) \/ Closer(KeyOf[q], KeyOf[p], k)
  BY <1>3, CloserIsTotal
<1>5. QED  BY <1>1, <1>2, <1>4

(* There are no more nearest nodes than a bucket holds: if there were, two *)
(* of them would have as many nodes before them, but one is before the     *)
(* other.                                                                  *)
LEMMA NearestBounded ==
  ASSUME NEW k \in Key, table \subseteq Peers, IsFiniteSet(table)
  PROVE  /\ IsFiniteSet(NearestNodes(k)) /\ Cardinality(NearestNodes(k)) \in Nat
         /\ Cardinality(NearestNodes(k)) <= BucketSize
<1> DEFINE N == NearestNodes(k)
           rank == [p \in N |-> Cardinality(Before(p, k))]
<1>1. BucketSize \in Nat /\ N \subseteq table
      /\ \A p \in N : Cardinality(Before(p, k)) < BucketSize
  BY ConstantsAssumption DEF NearestNodes, Before
<1>2. IsFiniteSet(N) /\ Cardinality(N) \in Nat
  BY <1>1, FS_Subset, FS_CardinalityType
<1>3. \A p \in table : Cardinality(Before(p, k)) \in Nat
  BY FS_Subset, FS_CardinalityType DEF Before
<1>4. \A p, q \in N : rank[p] = rank[q] => p = q
  <2> SUFFICES ASSUME NEW p \in N, NEW q \in N, p # q PROVE rank[p] # rank[q]
    OBVIOUS
  <2>1. Cardinality(Before(p, k)) # Cardinality(Before(q, k))
    BY <1>1, BeforeGrows
  <2>2. QED  BY <2>1
<1>5. rank \in [N -> 0 .. BucketSize - 1]
  BY <1>1, <1>3
<1>6. IsFiniteSet(0 .. BucketSize - 1) /\ Cardinality(0 .. BucketSize - 1) = BucketSize
  BY <1>1, FS_Interval
<1>7. Cardinality(N) <= BucketSize
  <2> SUFFICES ASSUME BucketSize < Cardinality(N) PROVE FALSE
    BY <1>1, <1>2
  <2>1. \E p, q \in N : p # q /\ rank[p] = rank[q]
    <3> HIDE DEF rank, N
    <3>1. QED  BY <1>2, <1>5, <1>6, FS_PigeonHole
  <2>2. QED  BY <1>4, <2>1
<1>8. QED  BY <1>2, <1>7

(* A set of finite sets has a member that contains no other.               *)
LEMMA SmallestSet ==
  ASSUME NEW S, IsFiniteSet(S), NEW T \in SUBSET SUBSET S, T # {}
  PROVE  \E x \in T : \A y \in T : y \subseteq x => y = x
<1>1. SUBSET S = FiniteSubsetsOf(S)
  BY FS_FiniteSubsetsOfFinite
<1>2. IsWellFoundedOn(StrictSubsetOrdering(S), SUBSET S)
  BY <1>1, FS_StrictSubsetOrderingWellFounded
<1>3. PICK x \in T : \A y \in T : <<y, x>> \notin StrictSubsetOrdering(S)
  BY <1>2, WFMin
<1>4. \A x1, y \in SUBSET S :
        y \subseteq x1 /\ y # x1 => <<y, x1>> \in StrictSubsetOrdering(S)
  BY DEF StrictSubsetOrdering
<1>5. QED  BY <1>3, <1>4

(* All of the nearest nodes are closer than all others, and as long as     *)
(* there are others they are as many as a bucket holds.                    *)
LEMMA NearestAreNearest ==
  ASSUME NEW k \in Key, table \subseteq Peers, IsFiniteSet(table)
  PROVE  /\ \A p \in NearestNodes(k), q \in table \ NearestNodes(k) :
               Closer(KeyOf[p], KeyOf[q], k)
         /\ NearestNodes(k) # table => Cardinality(NearestNodes(k)) = BucketSize
<1> DEFINE N == NearestNodes(k)
           R == {Before(p, k) : p \in table \ N}
<1>1. /\ BucketSize \in Nat /\ N \subseteq table
      /\ \A p \in table : p \in N <=> Cardinality(Before(p, k)) < BucketSize
  BY ConstantsAssumption DEF NearestNodes, Before
<1>2. \A p \in table : IsFiniteSet(Before(p, k)) /\ Cardinality(Before(p, k)) \in Nat
  BY FS_Subset, FS_CardinalityType DEF Before
<1>3. \A p \in N, q \in table \ N : Closer(KeyOf[p], KeyOf[q], k)
  BY <1>1, <1>2, BeforeGrows
<1>4. ASSUME N # table PROVE Cardinality(N) = BucketSize
  <2>1. R \in SUBSET SUBSET table /\ R # {}
    BY <1>1, <1>4 DEF Before
  <2>2. PICK p \in table \ N :
          \A q \in table \ N : Before(q, k) \subseteq Before(p, k) => Before(q, k) = Before(p, k)
    <3>1. PICK x \in R : \A y \in R : y \subseteq x => y = x
      <4> HIDE DEF R
      <4>1. QED  BY <2>1, SmallestSet
    <3>2. QED  BY <3>1
  <2>3. Before(p, k) \subseteq N
    <3> SUFFICES ASSUME NEW q \in Before(p, k), q \notin N PROVE FALSE
      OBVIOUS
    <3>1. q \in table \ N /\ Closer(KeyOf[q], KeyOf[p], k)
      BY DEF Before
    <3>2. Before(q, k) \subseteq Before(p, k) /\ q \notin Before(q, k)
      BY <3>1, CloserIsIrreflexive, CloserIsTransitive DEF Before
    <3>3. QED  BY <2>2, <3>1, <3>2
  <2>4. IsFiniteSet(N) /\ Cardinality(N) \in Nat /\ Cardinality(N) <= BucketSize
    BY NearestBounded
  <2>5. Cardinality(Before(p, k)) <= Cardinality(N)
    BY <2>3, <2>4, FS_Subset
  <2>6. BucketSize <= Cardinality(Before(p, k)) /\ Cardinality(Before(p, k)) \in Nat
    BY <1>1, <1>2
  <2>7. QED  BY <1>1, <2>4, <2>5, <2>6
<1>5. QED  BY <1>3, <1>4

-----------------------------------------------------------------------------
(* Counting.                                                               *)

InBucket(C, b) == {c \in C : Bucket(Owner[c]) = b}

LEMMA Finite ==
  ASSUME NEW C \in SUBSET Conns, NEW g, NEW b
  PROVE  /\ IsFiniteSet(C) /\ IsFiniteSet(InGroup(C, g))
         /\ IsFiniteSet(InBucket(InGroup(C, g), b))
         /\ Cardinality(InGroup(C, g)) \in Nat
         /\ Cardinality(InBucket(InGroup(C, g), b)) \in Nat
<1>1. IsFiniteSet(C)
  BY ConstantsAssumption, FS_Subset
<1>2. InGroup(C, g) \subseteq C /\ InBucket(InGroup(C, g), b) \subseteq C
  BY DEF InGroup, InBucket
<1>3. IsFiniteSet(InGroup(C, g)) /\ IsFiniteSet(InBucket(InGroup(C, g), b))
  BY <1>1, <1>2, FS_Subset
<1>4. QED  BY <1>1, <1>3, FS_CardinalityType

(* Connections are counted for the peers at their other ends.              *)
LEMMA PeersPerConn ==
  ASSUME NEW C \in SUBSET Conns, NEW P,
         \A p \in P : \E c \in C : Owner[c] = p
  PROVE  IsFiniteSet(P) /\ Cardinality(P) <= Cardinality(C) /\ Cardinality(P) \in Nat
<1> DEFINE D == {c \in C : Owner[c] \in P}
           f == [c \in D |-> Owner[c]]
<1>1. IsFiniteSet(C) /\ IsFiniteSet(D) /\ Cardinality(D) <= Cardinality(C)
  BY ConstantsAssumption, FS_Subset
<1>2. f \in Surjection(D, P)
  BY DEF Surjection
<1>3. IsFiniteSet(P) /\ Cardinality(P) <= Cardinality(D)
  BY <1>1, <1>2, FS_Surjection
<1>4. Cardinality(P) \in Nat /\ Cardinality(C) \in Nat /\ Cardinality(D) \in Nat
  BY <1>1, <1>3, FS_CardinalityType
<1>5. QED  BY <1>1, <1>3, <1>4

(* A set of peers that grows by one at most.                               *)
LEMMA OneMore ==
  ASSUME NEW P, NEW Q, NEW p, IsFiniteSet(P), Cardinality(P) \in Nat, Q \subseteq P \cup {p}
  PROVE  IsFiniteSet(Q) /\ Cardinality(Q) \in Nat /\ Cardinality(Q) <= Cardinality(P) + 1
<1>1. /\ IsFiniteSet(P \cup {p}) /\ Cardinality(P \cup {p}) \in Nat
      /\ Cardinality(P \cup {p}) <= Cardinality(P) + 1
  BY FS_AddElement, FS_CardinalityType
<1>2. IsFiniteSet(Q) /\ Cardinality(Q) <= Cardinality(P \cup {p})
  BY <1>1, FS_Subset
<1>3. Cardinality(Q) \in Nat
  BY <1>2, FS_CardinalityType
<1>4. QED  BY <1>1, <1>2, <1>3

(* What TryAdd counts, for the peer that it adds.                          *)
LEMMA AddNodeCounts ==
  ASSUME IInv, NEW p \in Peers, AddNode(p), Admits(p)
  PROVE  CountsInv' /\ GroupsWithinLimits'
<1> DEFINE C == ConnsToPeer(p)
<1>1. /\ p \notin table /\ table' = table \cup {p} /\ counted' = counted \cup C
      /\ Increment(Bucket(p), C)
  BY DEF AddNode
<1>2. /\ table \subseteq Peers /\ counted \in SUBSET Conns /\ C \in SUBSET Conns
      /\ counted' \in SUBSET Conns
      /\ cplIpGroupCount \in [Cpls -> [Groups -> Nat]] /\ tableIpGroupCount \in [Groups -> Nat]
      /\ CountsInv /\ GroupsWithinLimits
  BY <1>1 DEF IInv, TypeOK, ConnsToPeer
<1>3. \A c \in C : Owner[c] = p /\ Group[c] # NoGroup /\ Allow(Group[c], Bucket(p))
  BY DEF Admits, ConnsToPeer
<1>4. counted \cap C = {}
  BY <1>1, <1>2, <1>3 DEF CountsInv
<1>5. Bucket(p) \in Cpls
  BY CplRange DEF Bucket, BucketOf
<1>6. ASSUME NEW g \in Groups
      PROVE  /\ InGroup(counted', g) = InGroup(counted, g) \cup InGroup(C, g)
             /\ Cardinality(InGroup(counted', g)) =
                  Cardinality(InGroup(counted, g)) + Cardinality(InGroup(C, g))
  <2>1. /\ InGroup(counted', g) = InGroup(counted, g) \cup InGroup(C, g)
        /\ InGroup(counted, g) \cap InGroup(C, g) = {}
    BY <1>1, <1>4 DEF InGroup
  <2>2. /\ IsFiniteSet(InGroup(counted, g)) /\ IsFiniteSet(InGroup(C, g))
        /\ Cardinality(InGroup(counted, g)) \in Nat /\ Cardinality(InGroup(C, g)) \in Nat
    BY <1>2, Finite
  <2>3. QED  BY <2>1, <2>2, FS_Union, FS_EmptySet
<1>7. ASSUME NEW g \in Groups, NEW b \in Cpls
      PROVE  Cardinality(InBucket(InGroup(counted', g), b)) =
               Cardinality(InBucket(InGroup(counted, g), b)) +
                 (IF b = Bucket(p) THEN Cardinality(InGroup(C, g)) ELSE 0)
  <2>1. /\ IsFiniteSet(InBucket(InGroup(counted, g), b)) /\ IsFiniteSet(InGroup(C, g))
        /\ Cardinality(InBucket(InGroup(counted, g), b)) \in Nat
        /\ Cardinality(InGroup(C, g)) \in Nat
    BY <1>2, Finite
  <2>2. CASE b = Bucket(p)
    <3>1. /\ InBucket(InGroup(counted', g), b) =
               InBucket(InGroup(counted, g), b) \cup InGroup(C, g)
          /\ InBucket(InGroup(counted, g), b) \cap InGroup(C, g) = {}
      BY <1>1, <1>3, <1>4, <2>2 DEF InGroup, InBucket
    <3>2. QED  BY <2>1, <2>2, <3>1, FS_Union, FS_EmptySet
  <2>3. CASE b # Bucket(p)
    <3>1. InBucket(InGroup(counted', g), b) = InBucket(InGroup(counted, g), b)
      BY <1>1, <1>3, <2>3 DEF InGroup, InBucket
    <3>2. QED  BY <2>1, <2>3, <3>1
  <2>4. QED  BY <2>2, <2>3
<1>8. ASSUME NEW g \in Groups
      PROVE  /\ tableIpGroupCount'[g] = Cardinality(InGroup(counted', g))
             /\ \A b \in Cpls :
                  cplIpGroupCount'[b][g] = Cardinality(InBucket(InGroup(counted', g), b))
  <2>1. tableIpGroupCount'[g] = tableIpGroupCount[g] + Cardinality(InGroup(C, g))
    BY <1>1 DEF Increment
  <2>2. tableIpGroupCount[g] = Cardinality(InGroup(counted, g))
    BY <1>2 DEF CountsInv
  <2>3. \A b \in Cpls :
          /\ cplIpGroupCount[b][g] = Cardinality(InBucket(InGroup(counted, g), b))
          /\ cplIpGroupCount[b][g] \in Nat
    BY <1>2 DEF CountsInv, InBucket
  <2>4. \A b \in Cpls :
          cplIpGroupCount'[b][g] =
            IF b = Bucket(p) THEN cplIpGroupCount[b][g] + Cardinality(InGroup(C, g))
            ELSE cplIpGroupCount[b][g]
    BY <1>1, <1>2, <1>5 DEF Increment
  <2>5. QED  BY <1>6, <1>7, <2>1, <2>2, <2>3, <2>4
<1>9. CountsInv'
  <2>1. \A c \in counted' : Owner[c] \in table' /\ Group[c] # NoGroup
    BY <1>1, <1>2, <1>3 DEF CountsInv
  <2>2. \E c \in C : Owner[c] = p
    BY <1>3 DEF Admits, Connected
  <2>3. \A q \in table' : \E c \in counted' : Owner[c] = q
    BY <1>1, <1>2, <2>2 DEF CountsInv
  <2>4. QED  BY <1>8, <2>1, <2>3 DEF CountsInv, InBucket, InGroup, Bucket
<1>10. ASSUME NEW g \in Groups
       PROVE  /\ Cardinality(Members(g)') <= maxForTable
              /\ \A b \in Cpls : Cardinality({q \in Members(g)' : Bucket(q) = b}) <= maxPerCpl
  <2> DEFINE B(b) == {q \in Members(g) : Bucket(q) = b}
             B1(b) == {q \in Members(g)' : Bucket(q) = b}
  <2>1. /\ Cardinality(Members(g)) <= maxForTable
        /\ \A b \in Cpls : Cardinality(B(b)) <= maxPerCpl
    BY <1>2 DEF GroupsWithinLimits
  <2>2. CASE InGroup(C, g) = {}
    <3>1. Members(g)' = Members(g)
      BY <1>1, <1>2, <1>3, <2>2 DEF Members, InGroup, CountsInv
    <3>2. QED  BY <2>1, <3>1
  <2>3. CASE InGroup(C, g) # {}
    <3>1. /\ tableIpGroupCount[g] < maxForTable /\ cplIpGroupCount[Bucket(p)][g] < maxPerCpl
      BY <1>3, <2>3 DEF InGroup, Allow
    <3>2. /\ Members(g)' \subseteq Members(g) \cup {p}
          /\ B1(Bucket(p)) \subseteq B(Bucket(p)) \cup {p}
          /\ \A b \in Cpls : b # Bucket(p) => B1(b) = B(b)
      BY <1>1, <1>2, <1>3 DEF Members, CountsInv
    <3>3. /\ IsFiniteSet(Members(g)) /\ Cardinality(Members(g)) \in Nat
          /\ Cardinality(Members(g)) <= Cardinality(InGroup(counted, g))
      <4>1. InGroup(counted, g) \in SUBSET Conns
            /\ \A q \in Members(g) : \E c \in InGroup(counted, g) : Owner[c] = q
        BY <1>2 DEF InGroup, Members
      <4>2. QED  BY <4>1, PeersPerConn
    <3>4. /\ IsFiniteSet(B(Bucket(p))) /\ Cardinality(B(Bucket(p))) \in Nat
          /\ Cardinality(B(Bucket(p))) <=
               Cardinality(InBucket(InGroup(counted, g), Bucket(p)))
      <4>1. InBucket(InGroup(counted, g), Bucket(p)) \in SUBSET Conns
            /\ \A q \in B(Bucket(p)) :
                 \E c \in InBucket(InGroup(counted, g), Bucket(p)) : Owner[c] = q
        BY <1>2 DEF InGroup, InBucket, Members
      <4>2. QED  BY <4>1, PeersPerConn
    <3>5. /\ tableIpGroupCount[g] = Cardinality(InGroup(counted, g))
          /\ cplIpGroupCount[Bucket(p)][g] =
               Cardinality(InBucket(InGroup(counted, g), Bucket(p)))
          /\ tableIpGroupCount[g] \in Nat /\ cplIpGroupCount[Bucket(p)][g] \in Nat
          /\ maxForTable \in Nat /\ maxPerCpl \in Nat
      BY <1>2, <1>5, ConstantsAssumption DEF CountsInv, InBucket
    <3>6. Cardinality(Members(g)') <= Cardinality(Members(g)) + 1
          /\ Cardinality(Members(g)') \in Nat
      BY <3>2, <3>3, OneMore
    <3>7. Cardinality(B1(Bucket(p))) <= Cardinality(B(Bucket(p))) + 1
          /\ Cardinality(B1(Bucket(p))) \in Nat
      BY <3>2, <3>4, OneMore
    <3>8. Cardinality(Members(g)') <= maxForTable
      BY <3>1, <3>3, <3>5, <3>6
    <3>9. Cardinality(B1(Bucket(p))) <= maxPerCpl
      BY <3>1, <3>4, <3>5, <3>7
    <3>10. QED  BY <2>1, <3>2, <3>8, <3>9
  <2>4. QED  BY <2>2, <2>3
<1>11. GroupsWithinLimits'
  BY <1>10 DEF GroupsWithinLimits, Bucket
<1>12. QED  BY <1>9, <1>11

(* What Remove takes back is what had been counted for the peer, so the    *)
(* counters stay what they count, and never fall below zero.               *)
LEMMA RemoveNodeCounts ==
  ASSUME IInv, NEW p \in Peers, RemoveNode(p)
  PROVE  CountsInv' /\ GroupsWithinLimits'
<1> DEFINE C == {c \in counted : Owner[c] = p}
<1>1. /\ p \in table /\ table' = table \ {p} /\ counted' = counted \ C
      /\ Decrement(Bucket(p), C)
  BY DEF RemoveNode
<1>2. /\ table \subseteq Peers /\ counted \in SUBSET Conns /\ C \in SUBSET Conns
      /\ counted' \in SUBSET Conns
      /\ cplIpGroupCount \in [Cpls -> [Groups -> Nat]] /\ tableIpGroupCount \in [Groups -> Nat]
      /\ CountsInv /\ GroupsWithinLimits
  BY <1>1 DEF IInv, TypeOK
<1>3. Bucket(p) \in Cpls
  BY CplRange DEF Bucket, BucketOf
<1>4. ASSUME NEW g \in Groups
      PROVE  Cardinality(InGroup(counted', g)) =
               Cardinality(InGroup(counted, g)) - Cardinality(InGroup(C, g))
  <2>1. /\ InGroup(counted', g) = InGroup(counted, g) \ InGroup(C, g)
        /\ InGroup(counted, g) \cap InGroup(C, g) = InGroup(C, g)
    BY <1>1 DEF InGroup
  <2>2. IsFiniteSet(InGroup(counted, g))
    BY <1>2, Finite
  <2>3. Cardinality(InGroup(counted, g) \ InGroup(C, g)) =
          Cardinality(InGroup(counted, g)) - Cardinality(InGroup(counted, g) \cap InGroup(C, g))
    BY <2>2, FS_Difference
  <2>4. QED  BY <2>1, <2>3
<1>5. ASSUME NEW g \in Groups, NEW b \in Cpls
      PROVE  Cardinality(InBucket(InGroup(counted', g), b)) =
               Cardinality(InBucket(InGroup(counted, g), b)) -
                 (IF b = Bucket(p) THEN Cardinality(InGroup(C, g)) ELSE 0)
  <2>1. /\ IsFiniteSet(InBucket(InGroup(counted, g), b))
        /\ Cardinality(InBucket(InGroup(counted, g), b)) \in Nat
    BY <1>2, Finite
  <2>2. CASE b = Bucket(p)
    <3>1. /\ InBucket(InGroup(counted', g), b) =
               InBucket(InGroup(counted, g), b) \ InGroup(C, g)
          /\ InBucket(InGroup(counted, g), b) \cap InGroup(C, g) = InGroup(C, g)
      BY <1>1, <2>2 DEF InGroup, InBucket
    <3>2. Cardinality(InBucket(InGroup(counted', g), b)) =
            Cardinality(InBucket(InGroup(counted, g), b)) - Cardinality(InGroup(C, g))
      BY <2>1, <3>1, FS_Difference
    <3>3. QED  BY <2>2, <3>2
  <2>3. CASE b # Bucket(p)
    <3>1. InBucket(InGroup(counted', g), b) = InBucket(InGroup(counted, g), b)
      BY <1>1, <2>3 DEF InGroup, InBucket
    <3>2. QED  BY <2>1, <2>3, <3>1
  <2>4. QED  BY <2>2, <2>3
<1>6. ASSUME NEW g \in Groups
      PROVE  /\ tableIpGroupCount'[g] = Cardinality(InGroup(counted', g))
             /\ \A b \in Cpls :
                  cplIpGroupCount'[b][g] = Cardinality(InBucket(InGroup(counted', g), b))
  <2>1. tableIpGroupCount'[g] = tableIpGroupCount[g] - Cardinality(InGroup(C, g))
    BY <1>1 DEF Decrement
  <2>2. tableIpGroupCount[g] = Cardinality(InGroup(counted, g))
    BY <1>2 DEF CountsInv
  <2>3. \A b \in Cpls :
          /\ cplIpGroupCount[b][g] = Cardinality(InBucket(InGroup(counted, g), b))
          /\ cplIpGroupCount[b][g] \in Nat
    BY <1>2 DEF CountsInv, InBucket
  <2>4. \A b \in Cpls :
          cplIpGroupCount'[b][g] =
            IF b = Bucket(p) THEN cplIpGroupCount[b][g] - Cardinality(InGroup(C, g))
            ELSE cplIpGroupCount[b][g]
    BY <1>1, <1>2, <1>3 DEF Decrement
  <2>5. QED  BY <1>4, <1>5, <2>1, <2>2, <2>3, <2>4
<1>7. CountsInv'
  <2>1. \A c \in counted' : Owner[c] \in table' /\ Group[c] # NoGroup
    BY <1>1, <1>2 DEF CountsInv
  <2>2. \A q \in table' : \E c \in counted' : Owner[c] = q
    BY <1>1, <1>2 DEF CountsInv
  <2>3. QED  BY <1>6, <2>1, <2>2 DEF CountsInv, InBucket, InGroup, Bucket
<1>8. ASSUME NEW g \in Groups
      PROVE  /\ Cardinality(Members(g)') <= maxForTable
             /\ \A b \in Cpls : Cardinality({q \in Members(g)' : Bucket(q) = b}) <= maxPerCpl
  <2>1. /\ Cardinality(Members(g)) <= maxForTable
        /\ \A b \in Cpls : Cardinality({q \in Members(g) : Bucket(q) = b}) <= maxPerCpl
    BY <1>2 DEF GroupsWithinLimits
  <2>2. Members(g)' \subseteq Members(g)
    BY <1>1 DEF Members
  <2>3. \A P \in SUBSET Members(g) : IsFiniteSet(P) /\ Cardinality(P) \in Nat
    <3>1. \A P \in SUBSET Members(g) : \A q \in P : \E c \in counted : Owner[c] = q
      BY DEF Members
    <3>2. QED  BY <1>2, <3>1, PeersPerConn
  <2>4. Cardinality(Members(g)') <= Cardinality(Members(g))
    BY <2>2, <2>3, FS_Subset
  <2>5. ASSUME NEW b \in Cpls
        PROVE  Cardinality({q \in Members(g)' : Bucket(q) = b}) <= maxPerCpl
    <3> DEFINE B == {q \in Members(g) : Bucket(q) = b}
               B1 == {q \in Members(g)' : Bucket(q) = b}
    <3>1. B1 \subseteq B /\ B \in SUBSET Members(g) /\ B1 \in SUBSET Members(g)
      BY <2>2
    <3>2. Cardinality(B1) <= Cardinality(B)
      BY <2>3, <3>1, FS_Subset
    <3>3. Cardinality(B) \in Nat /\ Cardinality(B1) \in Nat /\ Cardinality(B) <= maxPerCpl
      BY <2>1, <2>3, <3>1
    <3>4. QED  BY <3>2, <3>3, ConstantsAssumption
  <2>6. Members(g) \in SUBSET Members(g) /\ maxForTable \in Nat
    BY ConstantsAssumption
  <2>7. Cardinality(Members(g)) \in Nat /\ Cardinality(Members(g)') \in Nat
    BY <2>2, <2>3, <2>6
  <2>8. Cardinality(Members(g)') <= maxForTable
    BY <2>1, <2>4, <2>6, <2>7
  <2>9. QED  BY <2>5, <2>8
<1>9. GroupsWithinLimits'
  BY <1>8 DEF GroupsWithinLimits, Bucket
<1>10. QED  BY <1>7, <1>9

-----------------------------------------------------------------------------
(* Types.  The actions of the table change neither the host nor the task,  *)
(* and the others leave the table alone.                                   *)

LEMMA FilterTypes ==
  ASSUME IInv, NEW p \in Peers, AddNode(p) \/ RemoveNode(p)
  PROVE  TypeOK'
<1> USE DEF rtVars, filterVars, hostVars
<1>1. TypeOK /\ CountsInv
  BY DEF IInv
<1>2. CASE AddNode(p) /\ ~Admits(p)
  <2>1. UNCHANGED <<table, counted, cplIpGroupCount, tableIpGroupCount, open, known, task>>
        /\ candidates' = candidates \ {p}
    BY <1>2 DEF AddNode
  <2>2. QED  BY <1>1, <2>1 DEF TypeOK
<1>3. CASE (AddNode(p) /\ Admits(p)) \/ RemoveNode(p)
  <2>1. PICK C \in SUBSET Conns :
          \/ Increment(Bucket(p), C)
          \/ Decrement(Bucket(p), C)
    BY <1>1, <1>3 DEF AddNode, RemoveNode, ConnsToPeer, TypeOK
  <2>2. /\ table' \subseteq Peers /\ counted' \subseteq Conns
        /\ open' \subseteq Conns /\ known' \subseteq Peers /\ candidates' \subseteq Peers
        /\ task' \in TaskType
    BY <1>1, <1>3 DEF AddNode, RemoveNode, ConnsToPeer, TypeOK
  <2>3. CountsInv'
    BY <1>3, AddNodeCounts, RemoveNodeCounts
  <2>4. /\ tableIpGroupCount' = [g \in Groups |-> tableIpGroupCount'[g]]
        /\ cplIpGroupCount' = [b \in Cpls |-> [g \in Groups |-> cplIpGroupCount'[b][g]]]
    <3>1. cplIpGroupCount \in [Cpls -> [Groups -> Nat]] /\ Bucket(p) \in Cpls
      BY <1>1, CplRange DEF TypeOK, Bucket, BucketOf
    <3>2. CASE Increment(Bucket(p), C)
      BY <3>1, <3>2 DEF Increment
    <3>3. CASE Decrement(Bucket(p), C)
      BY <3>1, <3>3 DEF Decrement
    <3>4. QED  BY <2>1, <3>2, <3>3
  <2>5. \A g \in Groups : /\ tableIpGroupCount'[g] \in Nat
                          /\ \A b \in Cpls : cplIpGroupCount'[b][g] \in Nat
    <3> SUFFICES ASSUME NEW g \in Groups
                 PROVE  /\ tableIpGroupCount'[g] \in Nat
                        /\ \A b \in Cpls : cplIpGroupCount'[b][g] \in Nat
      OBVIOUS
    <3>1. /\ tableIpGroupCount'[g] = Cardinality(InGroup(counted', g))
          /\ \A b \in Cpls :
               cplIpGroupCount'[b][g] = Cardinality(InBucket(InGroup(counted', g), b))
      BY <2>3 DEF CountsInv, InBucket, InGroup, Bucket
    <3>2. QED  BY <2>2, <3>1, Finite
  <2>6. tableIpGroupCount' \in [Groups -> Nat]
    BY <2>4, <2>5
  <2>7. cplIpGroupCount' \in [Cpls -> [Groups -> Nat]]
    BY <2>4, <2>5
  <2>8. QED  BY <2>2, <2>6, <2>7 DEF TypeOK
<1>4. QED  BY <1>2, <1>3

LEMMA NearestInTable ==
  ASSUME NEW k
  PROVE  NearestNodes(k) \subseteq table
BY DEF NearestNodes

LEMMA HostTypes ==
  ASSUME TypeOK,
         \/ \E p \in Peers : \/ Forget(p) \/ onEvtPeerIdentificationCompleted(p)
                            \/ Expire(p) \/ AddAddresses(p)
         \/ \E c \in Conns : Connect(c) \/ Disconnect(c)
  PROVE  TypeOK' /\ UNCHANGED <<rtVars, task>>
BY DEF Forget, onEvtPeerIdentificationCompleted, Expire, AddAddresses, Connect, Disconnect,
   rtVars, filterVars, hostVars, TypeOK

LEMMA AnswerTypes ==
  ASSUME TypeOK,
         \/ \E p \in Peers, target \in Peers \cup {Self} : handleFindPeer(p, target)
         \/ \E p \in Peers, k \in Contents : handleGet(p, k)
         \/ \E p \in Peers : ReadAddresses(p)
         \/ AnswerFindPeer \/ AnswerGet
  PROVE  /\ TypeOK' /\ UNCHANGED rtVars
         /\ task'.op \notin {"explore", "survey"}
<1> USE DEF rtVars, filterVars, hostVars
<1> DEFINE Answering ==
      [op : {"FIND_NODE", "GET"}, remote : Peers, target : Peers \cup {Self} \cup Contents,
       answered : BOOLEAN, todo : SUBSET Peers, closer : SUBSET Entry, also : SUBSET Entry]
<1>1. table \subseteq Peers /\ task \in TaskType
  BY DEF TypeOK
<1>2. Answering \subseteq TaskType /\ NoTask \in TaskType
  BY DEF TaskType
<1>3. \A q \in Peers : HasAddress(q) \in Entry
  <2> SUFFICES ASSUME NEW q \in Peers PROVE HasAddress(q) \in Entry
    OBVIOUS
  <2>1. <<q, TRUE>> \in Entry /\ <<q, FALSE>> \in Entry
    BY DEF Entry
  <2>2. CASE q \in known
    <3>1. (q \in known) = TRUE  BY <2>2
    <3>2. QED  BY <2>1, <3>1, Zenon DEF HasAddress
  <2>3. CASE q \notin known
    <3>1. (q \in known) = FALSE  BY <2>3
    <3>2. QED  BY <2>1, <3>1, Zenon DEF HasAddress
  <2>4. QED  BY <2>2, <2>3
<1>4. \A op \in {"FIND_NODE", "GET"}, p \in Peers, target \in Peers \cup {Self} \cup Contents :
        closerPeers(op, p, target) \in Answering
  BY <1>1, NearestInTable DEF closerPeers
<1>5. IsAnswer => task \in Answering
  BY <1>1 DEF TaskType, IsAnswer, NoTask
<1>6. \A t \in Answering : t.op \notin {"explore", "survey"}
  OBVIOUS
<1>7. ASSUME NEW p \in Peers, NEW target \in Peers \cup {Self}, handleFindPeer(p, target)
      PROVE  task' \in Answering
  <2>1. CASE target = Self
    <3>1. PICK addr \in BOOLEAN :
            task' = [closerPeers("FIND_NODE", p, Self) EXCEPT
                       !.answered = TRUE, !.todo = {}, !.also = {<<Self, addr>>}]
      BY <1>7, <2>1 DEF handleFindPeer
    <3>2. {<<Self, addr>>} \in SUBSET Entry /\ {} \in SUBSET Peers
      BY DEF Entry
    <3>3. closerPeers("FIND_NODE", p, Self) \in Answering
      BY <1>4
    <3>4. \A t \in Answering, S \in SUBSET Entry, T \in SUBSET Peers :
            [t EXCEPT !.answered = TRUE, !.todo = T, !.also = S] \in Answering
      OBVIOUS
    <3>5. QED  BY <3>1, <3>2, <3>3, <3>4
  <2>2. CASE target # Self
    <3>1. task' = closerPeers("FIND_NODE", p, target)
      BY <1>7, <2>2 DEF handleFindPeer
    <3>2. "FIND_NODE" \in {"FIND_NODE", "GET"} /\ target \in Peers \cup {Self} \cup Contents
      OBVIOUS
    <3>3. QED  BY <1>4, <1>7, <3>1, <3>2
  <2>3. QED  BY <2>1, <2>2
<1>8. ASSUME NEW p \in Peers, NEW k \in Contents, handleGet(p, k) PROVE task' \in Answering
  BY <1>4, <1>8 DEF handleGet
<1>9. ASSUME NEW p \in Peers, ReadAddresses(p)
      PROVE  TypeOK' /\ UNCHANGED rtVars /\ task'.op \notin {"explore", "survey"}
  <2>1. task \in Answering /\ \E S \in SUBSET Entry :
          task' = [task EXCEPT !.todo = @ \ {p}, !.closer = S]
    BY <1>3, <1>5, <1>9 DEF ReadAddresses
  <2>2. task' \in Answering
    BY <2>1
  <2>3. QED  BY <1>2, <1>6, <1>9, <2>2 DEF ReadAddresses, TypeOK
<1>10. CASE AnswerFindPeer
  <2>1. IsAnswer /\ task \in Answering
    BY <1>5, <1>10 DEF AnswerFindPeer, IsAnswer
  <2>2. \E S \in SUBSET Entry : task' = [task EXCEPT !.answered = TRUE, !.also = S]
    <3>1. CASE task.target \in known
      BY <1>3, <1>10, <3>1 DEF AnswerFindPeer, TypeOK
    <3>2. CASE task.target \notin known
      BY <1>10, <3>2 DEF AnswerFindPeer
    <3>3. QED  BY <3>1, <3>2
  <2>3. task' \in Answering
    BY <2>1, <2>2
  <2>4. QED  BY <1>2, <1>6, <1>10, <2>3 DEF AnswerFindPeer, TypeOK
<1>11. CASE AnswerGet
  <2>1. task \in Answering
    BY <1>5, <1>11 DEF AnswerGet, IsAnswer
  <2>2. task' = NoTask \/ task' \in Answering
    BY <1>11, <2>1 DEF AnswerGet
  <2>3. QED  BY <1>2, <1>6, <1>11, <2>2 DEF AnswerGet, TypeOK, NoTask
<1>12. QED
  BY <1>2, <1>6, <1>7, <1>8, <1>9, <1>10, <1>11 DEF handleFindPeer, handleGet, TypeOK

LEMMA FindTypes ==
  ASSUME TypeOK,
         \/ \E p \in Peers : \/ FindPeer(p)
                            \/ \E P \in SUBSET (Peers \cup {Self}) : Visit(p, P)
         \/ FindFails \/ TaskEnds
  PROVE  /\ TypeOK' /\ UNCHANGED rtVars
         /\ task'.op \notin {"explore", "survey"}
<1> USE DEF rtVars, filterVars, hostVars
<1> DEFINE Finding == [op : {"FindPeer"}, id : Peers, local : BOOLEAN, heard : SUBSET Peers,
                       result : {"pending", "found", "failed"}]
<1>1. Finding \subseteq TaskType /\ NoTask \in TaskType
  BY DEF TaskType
<1>2. task.op = "FindPeer" => task \in Finding
  BY DEF TaskType, NoTask, TypeOK
<1>3. ASSUME NEW p \in Peers, FindPeer(p)
      PROVE  TypeOK' /\ UNCHANGED rtVars /\ task'.op \notin {"explore", "survey"}
  <2>1. task' \in Finding
    BY <1>3 DEF FindPeer, Connected
  <2>2. QED  BY <1>1, <1>3, <2>1 DEF FindPeer, TypeOK
<1>4. ASSUME NEW p \in Peers, NEW P \in SUBSET (Peers \cup {Self}), Visit(p, P)
      PROVE  task' \in Finding /\ known' \subseteq Peers /\ candidates' \subseteq Peers
  BY <1>2, <1>4 DEF Visit, Learned, TypeOK
<1>5. CASE FindFails
  <2>1. task' \in Finding
    BY <1>2, <1>5 DEF FindFails
  <2>2. QED  BY <1>1, <1>5, <2>1 DEF FindFails, TypeOK
<1>6. CASE TaskEnds
  BY <1>1, <1>6 DEF TaskEnds, TypeOK, NoTask
<1>7. QED  BY <1>1, <1>3, <1>4, <1>5, <1>6 DEF Visit, TypeOK

LEMMA TargetTypes ==
  ASSUME TypeOK,
         \/ \E cpl \in Cpls : Explore(cpl)
         \/ \E n \in Cpls : \E p \in [0 .. n - 1 -> Bit] : Survey(p, n)
  PROVE  TypeOK' /\ UNCHANGED rtVars /\ TargetsFit'
<1> USE DEF rtVars, filterVars, hostVars
<1>1. CASE \E cpl \in Cpls : Explore(cpl)
  <2>1. PICK cpl \in Cpls : Explore(cpl)
    BY <1>1
  <2>2. PICK m \in GenRandPeerID(KeyOf[Self], cpl) :
          task' = [op |-> "explore", cpl |-> cpl, target |-> m]
    BY <2>1 DEF Explore
  <2>3. KeyOf[Self] \in Key
    BY ConstantsAssumption
  <2>4. m \in Preimages
    BY <2>2, <2>3, BucketTarget
  <2>5. \A k \in Key : IsPrefixOf(k, cpl + 1, Hash[m]) =>
          CommonPrefixLength(KeyOf[Self], k) = cpl
    BY <2>2, <2>3, ExploreTarget
  <2>6. TargetsFit'
    BY <2>2, <2>5 DEF TargetsFit
  <2>7. TypeOK'
    BY <2>1, <2>2, <2>4 DEF Explore, TypeOK, TaskType
  <2>8. QED  BY <2>1, <2>6, <2>7 DEF Explore
<1>2. ASSUME NEW n \in Cpls, NEW p \in [0 .. n - 1 -> Bit], Survey(p, n)
      PROVE  TypeOK' /\ UNCHANGED rtVars /\ TargetsFit'
  <2>1. PICK m \in GenRandKeyForPrefix(p, n) :
          task' = [op |-> "survey", prefix |-> p, len |-> n, target |-> m]
    BY <1>2 DEF Survey
  <2>2. m \in Preimages /\ IsPrefixOf(p, n, Hash[m])
    BY <2>1, SurveyTarget
  <2>3. p \in Prefix
    BY DEF Prefix, Cpls
  <2>4. TargetsFit'
    BY <2>1, <2>2 DEF TargetsFit
  <2>5. TypeOK'
    BY <1>2, <2>1, <2>2, <2>3 DEF Survey, TypeOK, TaskType
  <2>6. QED  BY <1>2, <2>4, <2>5 DEF Survey
<1>3. QED  BY <1>1, <1>2

-----------------------------------------------------------------------------
(* Answers.                                                                *)

(* Every node of the table has been counted with a connection.             *)
LEMMA TableIsFinite ==
  ASSUME TypeOK, CountsInv
  PROVE  table \subseteq Peers /\ IsFiniteSet(table)
BY PeersPerConn DEF TypeOK, CountsInv

LEMMA AnswerBegins ==
  ASSUME IInv, NEW p \in Peers,
         \/ \E target \in Peers \cup {Self} : handleFindPeer(p, target)
         \/ \E k \in Contents : handleGet(p, k)
  PROVE  TaskInv' /\ AnswersAreGrounded'
<1>1. TypeOK /\ CountsInv /\ BucketSize \in Nat /\ Self \notin Peers
  BY ConstantsAssumption DEF IInv
<1>2. IsFiniteSet({}) /\ Cardinality({}) = 0
  BY FS_EmptySet
<1>3. CASE handleFindPeer(p, Self)
  <2>1. PICK addr \in BOOLEAN :
          task' = [closerPeers("FIND_NODE", p, Self) EXCEPT
                     !.answered = TRUE, !.todo = {}, !.also = {<<Self, addr>>}]
    BY <1>3 DEF handleFindPeer
  <2>2. /\ task'.op = "FIND_NODE" /\ task'.remote = p /\ task'.target = Self
        /\ task'.answered /\ task'.todo = {} /\ task'.closer = {}
        /\ task'.also = {<<Self, addr>>}
    BY <2>1 DEF closerPeers
  <2>3. Cardinality({<<Self, addr>>}) = 1
    BY FS_Singleton, Zenon
  <2>4. \A e \in task'.also : e[1] = Self
    BY <2>2
  <2>5. QED  BY <1>1, <1>2, <2>2, <2>3, <2>4 DEF TaskInv, AnswersAreGrounded, IsAnswer
<1>4. CASE \/ \E target \in Peers : handleFindPeer(p, target)
           \/ \E k \in Contents : handleGet(p, k)
  <2>1. PICK op \in {"FIND_NODE", "GET"}, target \in Peers \cup Contents :
          task' = closerPeers(op, p, target)
    BY <1>1, <1>4 DEF handleFindPeer, handleGet
  <2>2. /\ task'.op \in {"FIND_NODE", "GET"} /\ task'.todo = NearestNodes(KeyOf[target])
        /\ ~task'.answered /\ task'.closer = {} /\ task'.also = {}
    BY <2>1 DEF closerPeers
  <2>3. /\ IsFiniteSet(task'.todo) /\ Cardinality(task'.todo) \in Nat
        /\ Cardinality(task'.todo) <= BucketSize
    BY <1>1, <2>2, TableIsFinite, NearestBounded, ConstantsAssumption
  <2>4. QED  BY <1>1, <1>2, <2>2, <2>3 DEF TaskInv, AnswersAreGrounded, IsAnswer
<1>5. QED  BY <1>3, <1>4

(* Each node that is looked at is named at most once.                      *)
LEMMA AnswerGrows ==
  ASSUME IInv, NEW p \in Peers, ReadAddresses(p)
  PROVE  TaskInv' /\ AnswersAreGrounded'
<1>1. IsAnswer /\ ~task.answered /\ p \in task.todo /\ TaskInv /\ BucketSize \in Nat
  BY ConstantsAssumption DEF ReadAddresses, IInv
<1>2. PICK S : /\ task' = [task EXCEPT !.todo = @ \ {p}, !.closer = S]
               /\ \/ S = task.closer
                  \/ p # task.remote /\ p \in known /\ S = task.closer \cup {HasAddress(p)}
  BY DEF ReadAddresses
<1>3. task \in [op : {"FIND_NODE", "GET"}, remote : Peers,
                target : Peers \cup {Self} \cup Contents, answered : BOOLEAN,
                todo : SUBSET Peers, closer : SUBSET Entry, also : SUBSET Entry]
  BY <1>1 DEF IInv, TypeOK, TaskType, IsAnswer, NoTask
<1>4. /\ task'.op = task.op /\ task'.remote = task.remote /\ task'.answered = task.answered
      /\ task'.todo = task.todo \ {p} /\ task'.closer = S /\ task'.also = task.also
  BY <1>2, <1>3
<1>5. /\ IsFiniteSet(task.todo) /\ IsFiniteSet(task.closer)
      /\ Cardinality(task.todo) \in Nat /\ Cardinality(task.closer) \in Nat
      /\ Cardinality(task.todo) + Cardinality(task.closer) <= BucketSize
  BY <1>1, FS_CardinalityType DEF TaskInv
<1>6. IsFiniteSet(task.todo \ {p})
      /\ Cardinality(task.todo \ {p}) = Cardinality(task.todo) - 1
  BY <1>1, <1>5, FS_RemoveElement
<1>7. IsFiniteSet(S) /\ Cardinality(S) \in Nat /\ Cardinality(S) <= Cardinality(task.closer) + 1
  BY <1>2, <1>5, OneMore
<1>8. \A e \in S : e[1] \in Peers \ {task.remote} /\ e[2]
  <2>1. \A e \in task.closer : e[1] \in Peers \ {task.remote} /\ e[2]
    BY <1>1 DEF TaskInv
  <2>2. CASE p # task.remote /\ p \in known /\ S = task.closer \cup {HasAddress(p)}
    <3>1. HasAddress(p)[1] = p /\ HasAddress(p)[2]
      BY <2>2 DEF HasAddress
    <3>2. QED  BY <2>1, <2>2, <3>1
  <2>3. QED  BY <1>2, <2>1, <2>2
<1>9. Cardinality(task.todo \ {p}) + Cardinality(S) <= BucketSize
  BY <1>1, <1>5, <1>6, <1>7
<1>10. TaskInv'
  BY <1>1, <1>4, <1>6, <1>7, <1>8, <1>9 DEF TaskInv
<1>11. AnswersAreGrounded'
  BY <1>1, <1>4 DEF AnswersAreGrounded, IsAnswer
<1>12. QED  BY <1>10, <1>11

LEMMA AnswerIsComplete ==
  ASSUME IInv, AnswerFindPeer \/ AnswerGet
  PROVE  TaskInv' /\ AnswersAreGrounded'
<1>1. CASE task' = NoTask
  BY <1>1 DEF TaskInv, AnswersAreGrounded, IsAnswer, NoTask
<1>2. CASE task' # NoTask
  <2>1. IsAnswer /\ ~task.answered /\ task.todo = {} /\ TaskInv /\ BucketSize \in Nat
        /\ Self \notin Peers
    BY ConstantsAssumption DEF AnswerFindPeer, AnswerGet, IInv, IsAnswer
  <2>2. task \in [op : {"FIND_NODE", "GET"}, remote : Peers,
                  target : Peers \cup {Self} \cup Contents, answered : BOOLEAN,
                  todo : SUBSET Peers, closer : SUBSET Entry, also : SUBSET Entry]
    BY <2>1 DEF IInv, TypeOK, TaskType, IsAnswer, NoTask
  <2>3. PICK S : /\ task' = [task EXCEPT !.answered = TRUE, !.also = S]
                 /\ \/ S = {}
                    \/ /\ S = {HasAddress(task.target)} /\ task.target \in known
                       /\ ~ContainsCloserPeer(task.target) /\ task.target # task.remote
    <3>1. CASE AnswerFindPeer
      BY <3>1 DEF AnswerFindPeer
    <3>2. CASE AnswerGet
      <4>1. task' = [task EXCEPT !.answered = TRUE] /\ task.also = {}
        BY <1>2, <2>1, <3>2 DEF AnswerGet, TaskInv
      <4>2. task' = [task EXCEPT !.answered = TRUE, !.also = {}]
        BY <2>2, <4>1
      <4>3. QED  BY <4>2
    <3>3. QED  BY <3>1, <3>2
  <2>4. /\ task'.op = task.op /\ task'.remote = task.remote /\ task'.target = task.target
        /\ task'.answered /\ task'.todo = {} /\ task'.closer = task.closer /\ task'.also = S
    BY <2>1, <2>2, <2>3
  <2>5. /\ IsFiniteSet(task.closer) /\ Cardinality(task.closer) \in Nat
        /\ Cardinality(task.closer) <= BucketSize
        /\ \A e \in task.closer : e[1] \in Peers \ {task.remote} /\ e[2]
    <3>1. Cardinality({}) = 0 /\ IsFiniteSet(task.closer)
          /\ Cardinality(task.todo) + Cardinality(task.closer) <= BucketSize
          /\ \A e \in task.closer : e[1] \in Peers \ {task.remote} /\ e[2]
      BY <2>1, FS_EmptySet DEF TaskInv
    <3>2. QED  BY <2>1, <3>1, FS_CardinalityType
  <2>6. /\ Cardinality(S) <= 1
        /\ \A e \in S : e[1] # task.remote /\ e[2] /\ ~ContainsCloserPeer(e[1])
    <3>1. CASE S = {}
      BY <3>1, FS_EmptySet
    <3>2. CASE S # {}
      <4>1. HasAddress(task.target)[1] = task.target /\ HasAddress(task.target)[2]
        BY <2>3, <3>2 DEF HasAddress
      <4>2. Cardinality(S) = 1
        BY <2>3, <3>2, FS_Singleton
      <4>3. QED  BY <2>3, <3>2, <4>1, <4>2
    <3>3. QED  BY <3>1, <3>2
  <2>7. TaskInv'
    BY <2>1, <2>4, <2>5, FS_EmptySet DEF TaskInv
  <2>8. AnswersAreGrounded'
    <3>1. task'.op # "FindPeer"
      BY <2>1, <2>4 DEF IsAnswer
    <3>2. \A e \in task.closer, f \in S : e[1] # f[1]
      BY <2>6 DEF ContainsCloserPeer
    <3>3. QED  BY <2>1, <2>4, <2>5, <2>6, <3>1, <3>2 DEF AnswersAreGrounded
  <2>9. QED  BY <2>7, <2>8
<1>3. QED  BY <1>1, <1>2

LEMMA FindIsGrounded ==
  ASSUME IInv,
         \/ \E p \in Peers : \/ FindPeer(p)
                            \/ \E P \in SUBSET (Peers \cup {Self}) : Visit(p, P)
         \/ FindFails \/ TaskEnds
  PROVE  TaskInv' /\ AnswersAreGrounded'
<1>1. ASSUME NEW p \in Peers, FindPeer(p) PROVE TaskInv' /\ AnswersAreGrounded'
  BY <1>1 DEF FindPeer, TaskInv, AnswersAreGrounded, IsAnswer
<1>2. CASE \/ \E p \in Peers, P \in SUBSET (Peers \cup {Self}) : Visit(p, P)
           \/ FindFails
  <2>1. task.op = "FindPeer" /\ task.result = "pending"
    BY <1>2 DEF Visit, FindFails
  <2>2. task \in [op : {"FindPeer"}, id : Peers, local : BOOLEAN, heard : SUBSET Peers,
                  result : {"pending", "found", "failed"}]
    BY <2>1 DEF IInv, TypeOK, TaskType, NoTask
  <2>3. /\ task'.op = "FindPeer" /\ task'.id = task.id
        /\ task'.result = "found" => task.id \in task'.heard
    <3>1. CASE \E n \in Peers, P \in SUBSET (Peers \cup {Self}) : Visit(n, P)
      <4>1. PICK n \in Peers :
              task' = [task EXCEPT !.heard = @ \cup {n},
                         !.result = IF n = task.id THEN "found" ELSE @]
        BY <3>1 DEF Visit
      <4>2. /\ task'.op = task.op /\ task'.id = task.id /\ task'.heard = task.heard \cup {n}
            /\ task'.result = IF n = task.id THEN "found" ELSE task.result
        BY <2>2, <4>1
      <4>3. QED  BY <2>1, <4>2
    <3>2. CASE FindFails
      BY <2>1, <2>2, <3>2 DEF FindFails
    <3>3. QED  BY <1>2, <3>1, <3>2
  <2>4. QED  BY <2>3 DEF TaskInv, AnswersAreGrounded, IsAnswer
<1>3. CASE TaskEnds
  BY <1>3 DEF TaskEnds, TaskInv, AnswersAreGrounded, IsAnswer, NoTask
<1>4. QED  BY <1>1, <1>2, <1>3

LEMMA TargetsAreNoAnswers ==
  ASSUME \/ \E cpl \in Cpls : Explore(cpl)
         \/ \E n \in Cpls : \E p \in [0 .. n - 1 -> Bit] : Survey(p, n)
  PROVE  TaskInv' /\ AnswersAreGrounded'
BY DEF Explore, Survey, TaskInv, AnswersAreGrounded, IsAnswer

-----------------------------------------------------------------------------
(* The invariant.                                                          *)

LEMMA TableKept ==
  ASSUME IInv, TypeOK', UNCHANGED rtVars,
         UNCHANGED task \/ task'.op \notin {"explore", "survey"} \/ TargetsFit',
         UNCHANGED task \/ (TaskInv' /\ AnswersAreGrounded')
  PROVE  IInv'
<1> USE DEF rtVars, filterVars
<1>1. CountsInv /\ GroupsWithinLimits /\ TargetsFit /\ TaskInv /\ AnswersAreGrounded
  BY DEF IInv
<1>2. CountsInv'
  BY <1>1 DEF CountsInv, InGroup, Bucket
<1>3. GroupsWithinLimits'
  BY <1>1 DEF GroupsWithinLimits, Members, Bucket
<1>4. TargetsFit'
  BY <1>1 DEF TargetsFit
<1>5. TaskInv' /\ AnswersAreGrounded'
  BY <1>1 DEF TaskInv, AnswersAreGrounded, IsAnswer
<1>6. QED  BY <1>2, <1>3, <1>4, <1>5 DEF IInv

LEMMA InitIInv == Init => IInv
<1> SUFFICES ASSUME Init PROVE IInv
  OBVIOUS
<1>1. TypeOK
  <2>1. /\ cplIpGroupCount \in [Cpls -> [Groups -> Nat]] /\ tableIpGroupCount \in [Groups -> Nat]
        /\ task \in TaskType
    BY DEF Init, TaskType
  <2>2. QED  BY <2>1, ConstantsAssumption DEF Init, TypeOK, BootstrapPeers
<1>2. CountsInv
  <2>1. counted = {} /\ \A g \in Groups : InGroup(counted, g) = {}
    BY DEF Init, InGroup
  <2>2. \A g \in Groups, b \in Cpls : {c \in InGroup(counted, g) : Bucket(Owner[c]) = b} = {}
    BY <2>1
  <2>3. Cardinality({}) = 0
    BY FS_EmptySet
  <2>4. QED  BY <2>1, <2>2, <2>3 DEF Init, CountsInv
<1>3. GroupsWithinLimits
  <2>1. \A g \in Groups : Members(g) = {}
    BY DEF Init, Members
  <2>2. \A g \in Groups, b \in Cpls : {p \in Members(g) : Bucket(p) = b} = {}
    BY <2>1
  <2>3. Cardinality({}) = 0 /\ maxForTable \in Nat /\ maxPerCpl \in Nat
    BY FS_EmptySet, ConstantsAssumption
  <2>4. QED  BY <2>1, <2>2, <2>3 DEF GroupsWithinLimits
<1>4. TargetsFit /\ TaskInv /\ AnswersAreGrounded
  BY DEF Init, TargetsFit, TaskInv, AnswersAreGrounded, IsAnswer, NoTask
<1>5. QED  BY <1>1, <1>2, <1>3, <1>4 DEF IInv

LEMMA NextIInv == IInv /\ [Next]_vars => IInv'
<1> SUFFICES ASSUME IInv, [Next]_vars PROVE IInv'
  OBVIOUS
<1>1. TypeOK /\ CountsInv /\ GroupsWithinLimits /\ TargetsFit /\ TaskInv /\ AnswersAreGrounded
  BY DEF IInv
<1>2. ASSUME NEW p \in Peers, AddNode(p) \/ RemoveNode(p) PROVE IInv'
  <2>1. TypeOK'
    BY <1>2, FilterTypes
  <2>2. CASE AddNode(p) /\ ~Admits(p)
    <3>1. UNCHANGED rtVars /\ UNCHANGED task
      BY <2>2 DEF AddNode
    <3>2. QED  BY <2>1, <3>1, TableKept
  <2>3. CASE (AddNode(p) /\ Admits(p)) \/ RemoveNode(p)
    <3>1. CountsInv' /\ GroupsWithinLimits'
      BY <2>3, AddNodeCounts, RemoveNodeCounts
    <3>2. UNCHANGED task
      BY <2>3 DEF AddNode, RemoveNode
    <3>3. TargetsFit' /\ TaskInv' /\ AnswersAreGrounded'
      BY <1>1, <3>2 DEF TargetsFit, TaskInv, AnswersAreGrounded, IsAnswer
    <3>4. QED  BY <2>1, <3>1, <3>3 DEF IInv
  <2>4. QED  BY <1>2, <2>2, <2>3
<1>3. ASSUME NEW p \in Peers,
             \/ Forget(p) \/ onEvtPeerIdentificationCompleted(p)
             \/ Expire(p) \/ AddAddresses(p)
      PROVE  IInv'
  BY <1>1, <1>3, HostTypes, TableKept
<1>4. ASSUME NEW p \in Peers,
             \/ \E target \in Peers \cup {Self} : handleFindPeer(p, target)
             \/ \E k \in Contents : handleGet(p, k)
             \/ ReadAddresses(p)
      PROVE  IInv'
  <2>1. ASSUME NEW target \in Peers \cup {Self}, handleFindPeer(p, target) PROVE IInv'
    BY <1>1, <2>1, AnswerTypes, AnswerBegins, TableKept
  <2>2. ASSUME NEW k \in Contents, handleGet(p, k) PROVE IInv'
    BY <1>1, <2>2, AnswerTypes, AnswerBegins, TableKept
  <2>3. CASE ReadAddresses(p)
    BY <1>1, <2>3, AnswerTypes, AnswerGrows, TableKept
  <2>4. QED  BY <1>4, <2>1, <2>2, <2>3
<1>5. ASSUME NEW p \in Peers,
             FindPeer(p) \/ \E P \in SUBSET (Peers \cup {Self}) : Visit(p, P)
      PROVE  IInv'
  BY <1>1, <1>5, FindTypes, FindIsGrounded, TableKept
<1>6. CASE \E c \in Conns : Connect(c) \/ Disconnect(c)
  BY <1>1, <1>6, HostTypes, TableKept
<1>7. CASE AnswerFindPeer \/ AnswerGet
  BY <1>1, <1>7, AnswerTypes, AnswerIsComplete, TableKept
<1>8. CASE FindFails \/ TaskEnds
  BY <1>1, <1>8, FindTypes, FindIsGrounded, TableKept
<1>9. CASE \/ \E cpl \in Cpls : Explore(cpl)
           \/ \E n \in Cpls : \E p \in [0 .. n - 1 -> Bit] : Survey(p, n)
  BY <1>1, <1>9, TargetTypes, TargetsAreNoAnswers, TableKept
<1>10. CASE UNCHANGED vars
  <2>1. UNCHANGED rtVars /\ UNCHANGED task /\ UNCHANGED hostVars /\ UNCHANGED candidates
    BY <1>10 DEF vars
  <2>2. TypeOK'
    BY <1>1, <2>1 DEF TypeOK, rtVars, filterVars, hostVars
  <2>3. QED  BY <2>1, <2>2, TableKept
<1>11. CASE Next
  <2>1. ASSUME NEW p \in Peers,
               \/ AddNode(p) \/ RemoveNode(p) \/ Forget(p)
               \/ onEvtPeerIdentificationCompleted(p) \/ Expire(p) \/ AddAddresses(p)
               \/ ReadAddresses(p) \/ FindPeer(p)
               \/ \E target \in Peers \cup {Self} : handleFindPeer(p, target)
               \/ \E k \in Contents : handleGet(p, k)
               \/ \E P \in SUBSET (Peers \cup {Self}) : Visit(p, P)
        PROVE  IInv'
    BY <1>2, <1>3, <1>4, <1>5, <2>1
  <2>2. QED  BY <1>6, <1>7, <1>8, <1>9, <1>11, <2>1 DEF Next
<1>12. QED  BY <1>10, <1>11

(* The counters of the filter are right whatever comes and goes, and with  *)
(* them its limits.                                                        *)
THEOREM IInvHolds == Spec => []IInv
<1>1. QED  BY InitIInv, NextIInv, PTL DEF Spec

(* No IP group ever has more peers in the routing table, or in one of its  *)
(* buckets, than NewRTPeerDiversityFilter was told to allow.               *)
THEOREM FilterKeepsLimits == Spec => []GroupsWithinLimits
<1>1. IInv => GroupsWithinLimits  BY DEF IInv
<1>2. QED  BY <1>1, IInvHolds, PTL

(* GenRandPeerID and GenRandKeyForPrefix hit the bucket and the region     *)
(* they are asked for, for keys and tables of any width.                   *)
THEOREM TargetsHit == Spec => []TargetsFit
<1>1. IInv => TargetsFit  BY DEF IInv
<1>2. QED  BY <1>1, IInvHolds, PTL

(* What the DHT tells of peers is worth telling: closerLocalPeers names at *)
(* most as many as a bucket holds, each once and with an address, neither  *)
(* the DHT itself nor the one who asks, and handleFindPeer adds the target *)
(* only if it is not among them, whatever the host and the table do while  *)
(* the answer is put together.  FindPeer returns nobody it has not reached.*)
THEOREM AnswersGrounded == Spec => []AnswersAreGrounded
<1>1. IInv => AnswersAreGrounded  BY DEF IInv
<1>2. QED  BY <1>1, IInvHolds, PTL

(* Closest-first selection from the table: with every key, whatever the    *)
(* table has become.                                                       *)
NearestNodesAreNearest ==
  \A k \in Key :
    /\ Cardinality(NearestNodes(k)) <= BucketSize
    /\ \A p \in NearestNodes(k), q \in table \ NearestNodes(k) : Closer(KeyOf[p], KeyOf[q], k)
    /\ NearestNodes(k) # table => Cardinality(NearestNodes(k)) = BucketSize

(* The nodes that closerLocalPeers asks the table for are closer to the    *)
(* key than every other node of the table, and as many as a bucket holds   *)
(* unless the table holds fewer.                                           *)
THEOREM NearestNodesSelected == Spec => []NearestNodesAreNearest
<1>1. IInv => NearestNodesAreNearest
  BY TableIsFinite, NearestBounded, NearestAreNearest DEF IInv, NearestNodesAreNearest
<1>2. QED  BY <1>1, IInvHolds, PTL
=============================================================================
