------------------------- MODULE BannerBoard_proofs -------------------------
(***************************************************************************)
(* Lemmas about the queue of BannerBoard, for the proofs of Banner and of  *)
(* Approval: what taking places, putting a banner on the queue and taking  *)
(* one off leave of it.  What these operators keep is that the queue is    *)
(* orderly: an id once, one request at most, and no more than MaxPassive   *)
(* others.                                                                 *)
(***************************************************************************)
EXTENDS BannerBoard, FiniteSetTheorems, SequenceTheorems, TLAPS

\* The nth of the places, for every n, is one of them, and each of them is the nth for one n.
LEMMA PlacesAreRanked ==
  ASSUME NEW m \in Nat, NEW places \in SUBSET (1..m)
  PROVE  /\ Cardinality(places) \in Nat
         /\ \A n \in 1..Cardinality(places) :
              \E i \in places : Cardinality({j \in places : j <= i}) = n
         /\ \A i \in places : Cardinality({j \in places : j <= i}) \in 1..Cardinality(places)
         /\ \A i, k \in places :
              Cardinality({j \in places : j <= i}) = Cardinality({j \in places : j <= k}) => i = k
<1> DEFINE Rank(i) == Cardinality({j \in places : j <= i})
           size == Cardinality(places)
           f == [i \in places |-> Rank(i)]
<1>1. IsFiniteSet(places)
  <2>1. IsFiniteSet(1..m)
    BY FS_Interval, 1 \in Int, m \in Int
  <2> QED
    BY <2>1, FS_Subset
<1>2. size \in Nat
  BY <1>1, FS_CardinalityType
<1>3. ASSUME NEW i \in places PROVE Rank(i) \in 1..size
  <2> DEFINE below == {j \in places : j <= i}
  <2>1. below \in SUBSET places /\ i \in below
    OBVIOUS
  <2>2. IsFiniteSet(below) /\ Cardinality(below) <= size /\ Cardinality(below) \in Nat
    BY <1>1, <2>1, FS_Subset, FS_CardinalityType
  <2>3. Cardinality(below) # 0
    BY <2>1, <2>2, FS_EmptySet
  <2> QED
    BY <1>2, <2>2, <2>3
<1>4. ASSUME NEW i \in places, NEW k \in places, i < k PROVE Rank(i) # Rank(k)
  <2> DEFINE below == {j \in places : j <= i}
             upto == {j \in places : j <= k}
  <2>1. below \in SUBSET upto /\ k \in upto /\ k \notin below /\ upto \in SUBSET places
    <3>1. i \in Nat /\ k \in Nat /\ \A j \in places : j \in Nat
      OBVIOUS
    <3>2. \A j \in places : j <= i => j <= k
      BY <1>4, <3>1
    <3>3. k <= k /\ ~(k <= i)
      BY <1>4, <3>1
    <3> QED
      BY <3>2, <3>3
  <2>2. IsFiniteSet(upto)
    BY <1>1, <2>1, FS_Subset
  <2>3. Cardinality(upto) = Cardinality(below) => upto = below
    BY <2>1, <2>2, FS_Subset
  <2> QED
    BY <2>1, <2>3
<1> HIDE DEF Rank
<1>5. f \in [places -> 1..size]
  BY <1>3
<1>6. ASSUME NEW i \in places, NEW k \in places, f[i] = f[k] PROVE i = k
  <2>1. ~(i < k) /\ ~(k < i)
    BY <1>4, <1>6
  <2> QED
    BY <2>1
<1>7. f \in Injection(places, 1..size)
  BY <1>5, <1>6 DEF Injection, IsInjective
<1>8. IsFiniteSet(1..size) /\ Cardinality(1..size) = size
  BY <1>2, FS_Interval
<1>9. f \in Surjection(places, 1..size)
  BY <1>7, <1>8, FS_Injection
<1>10. \A n \in 1..size : \E i \in places : f[i] = n
  BY <1>9 DEF Surjection
<1>11. \A i, k \in places : Rank(i) = Rank(k) => i = k
  BY <1>6
<1> QED
  BY <1>2, <1>3, <1>10, <1>11 DEF Rank

\* The first of the places is the least of them.
LEMMA FirstIsLeast ==
  ASSUME NEW m \in Nat, NEW places \in SUBSET (1..m), places # {}
  PROVE  \E i \in places : \A j \in places : i <= j
<1>1. IsFiniteSet(places)
  BY FS_Interval, FS_Subset, 1 \in Int, m \in Int
<1>2. 1 \in 1..Cardinality(places)
  BY <1>1, FS_CardinalityType, FS_EmptySet
<1>3. PICK i \in places : Cardinality({j \in places : j <= i}) = 1
  <2>1. \A n \in 1..Cardinality(places) :
          \E i \in places : Cardinality({j \in places : j <= i}) = n
    BY PlacesAreRanked
  <2> QED
    BY <1>2, <2>1
<1> DEFINE below == {j \in places : j <= i}
<1>4. IsFiniteSet(below) /\ i \in below
  <2>1. below \in SUBSET places /\ i \in below
    OBVIOUS
  <2> QED
    BY <1>1, <2>1, FS_Subset
<1>5. \A j \in below : j = i
  <2> HIDE DEF below
  <2>1. \E x : below = {x}
    BY <1>3, <1>4, FS_Singleton DEF below
  <2> QED
    BY <1>4, <2>1
<1>6. \A j \in places : j <= i => j = i
  BY <1>5
<1> QED
  BY <1>6

\* What is taken at some places of a queue is what was there, each place once.
LEMMA AtTakes ==
  ASSUME NEW S, NEW q \in Seq(S), NEW places \in SUBSET DOMAIN q
  PROVE  /\ At(q, places) \in Seq(S)
         /\ \A b \in ToSet(At(q, places)) : \E i \in places : b = q[i]
         /\ \A i \in places : q[i] \in ToSet(At(q, places))
         /\ \E f \in [DOMAIN At(q, places) -> places] :
              /\ \A n \in DOMAIN At(q, places) : At(q, places)[n] = q[f[n]]
              /\ \A n, m \in DOMAIN At(q, places) : f[n] = f[m] => n = m
<1> DEFINE Rank(i) == Cardinality({j \in places : j <= i})
           size == Cardinality(places)
           f == [n \in 1..size |-> CHOOSE i \in places : Rank(i) = n]
<1>1. Len(q) \in Nat /\ DOMAIN q = 1..Len(q) /\ \A i \in DOMAIN q : q[i] \in S
  BY LenProperties, ElementOfSeq
<1>2. /\ size \in Nat
      /\ \A n \in 1..size : \E i \in places : Rank(i) = n
      /\ \A i \in places : Rank(i) \in 1..size
      /\ \A i, k \in places : Rank(i) = Rank(k) => i = k
  <2> HIDE DEF size
  <2> QED
    BY <1>1, PlacesAreRanked DEF size
<1>3. At(q, places) = [n \in 1..size |-> q[f[n]]]
  BY DEF At
<1> HIDE DEF Rank
<1>4. \A n \in 1..size : f[n] \in places /\ Rank(f[n]) = n
  BY <1>2
<1>5. f \in [1..size -> places]
  BY <1>4
<1> HIDE DEF f, size
<1>6. \A n \in 1..size : q[f[n]] \in S
  BY <1>1, <1>4
<1>7. At(q, places) \in Seq(S)
  BY <1>2, <1>3, <1>6, IsASeq
<1>8. DOMAIN At(q, places) = 1..size /\ \A n \in 1..size : At(q, places)[n] = q[f[n]]
  BY <1>3
<1>9. \A i \in places : Rank(i) \in 1..size /\ f[Rank(i)] = i
  BY <1>2, <1>4
<1>10. \A n, m \in 1..size : f[n] = f[m] => n = m
  BY <1>4
<1>11. \A b \in ToSet(At(q, places)) : \E i \in places : b = q[i]
  BY <1>4, <1>8 DEF ToSet
<1>12. \A i \in places : q[i] \in ToSet(At(q, places))
  <2> SUFFICES ASSUME NEW i \in places PROVE q[i] \in ToSet(At(q, places))
    OBVIOUS
  <2>1. Rank(i) \in DOMAIN At(q, places) /\ At(q, places)[Rank(i)] = q[i]
    BY <1>8, <1>9
  <2> QED
    BY <2>1 DEF ToSet
<1>13. \E g \in [DOMAIN At(q, places) -> places] :
         /\ \A n \in DOMAIN At(q, places) : At(q, places)[n] = q[g[n]]
         /\ \A n, m \in DOMAIN At(q, places) : g[n] = g[m] => n = m
  <2>1. f \in [DOMAIN At(q, places) -> places]
    BY <1>5, <1>8
  <2> WITNESS f \in [DOMAIN At(q, places) -> places]
  <2> QED
    BY <1>8, <1>10
<1> QED
  BY <1>7, <1>11, <1>12, <1>13

\* A dismissal leaves the others.
LEMMA WithoutDrops ==
  ASSUME NEW q \in Seq(Banner), NEW h
  PROVE  /\ Without(q, h) \in Seq(Banner)
         /\ IdsOf(Without(q, h)) \subseteq IdsOf(q) \ {h}
<1> DEFINE places == {i \in DOMAIN q : q[i].id # h}
<1>1. places \in SUBSET DOMAIN q /\ Without(q, h) = At(q, places)
  BY DEF Without
<1>2. /\ At(q, places) \in Seq(Banner)
      /\ \A b \in ToSet(At(q, places)) : \E i \in places : b = q[i]
  BY <1>1, AtTakes
<1>3. \A i \in places : q[i].id \in IdsOf(q) \ {h}
  BY DEF IdsOf, ToSet
<1> QED
  BY <1>1, <1>2, <1>3 DEF IdsOf

\* What is visible is of the queue.
LEMMA VisibleIsQueued ==
  ASSUME NEW q \in Seq(Banner)
  PROVE  Visible(q) \in Seq(Banner) /\ IdsOf(Visible(q)) \subseteq IdsOf(q)
<1> DEFINE places == {i \in DOMAIN q : q[i].approval}
<1>1. places \in SUBSET DOMAIN q
  OBVIOUS
<1>2. /\ At(q, places) \in Seq(Banner)
      /\ \A b \in ToSet(At(q, places)) : \E i \in places : b = q[i]
  BY <1>1, AtTakes
<1>3. \A i \in places : q[i].id \in IdsOf(q)
  BY DEF IdsOf, ToSet
<1>4. IdsOf(At(q, places)) \subseteq IdsOf(q)
  BY <1>2, <1>3 DEF IdsOf
<1> QED
  BY <1>2, <1>4 DEF Visible

\* The empty queue.
LEMMA NoneQueued == << >> \in Seq(Banner) /\ IdsOf(<< >>) = {}
  BY EmptySeq DEF IdsOf, ToSet

-------------------------------------------------------------------------------
(* The order of the queue *)

PassivePlaces(q) == {i \in DOMAIN q : Passive(q[i])}

\* An id once, one request at most, and no more than MaxPassive other banners.
Orderly(q) ==
  /\ \A i, j \in DOMAIN q : q[i].id = q[j].id => i = j
  /\ \A i, j \in DOMAIN q : q[i].approval /\ q[j].approval => i = j
  /\ Cardinality(PassivePlaces(q)) <= MaxPassive

LEMMA PassiveAreFinite ==
  ASSUME NEW q \in Seq(Banner)
  PROVE  IsFiniteSet(PassivePlaces(q)) /\ Cardinality(PassivePlaces(q)) \in Nat
<1>1. DOMAIN q = 1..Len(q) /\ Len(q) \in Nat
  BY LenProperties
<1>2. IsFiniteSet(DOMAIN q)
  BY <1>1, FS_Interval, 1 \in Int, Len(q) \in Int
<1>3. PassivePlaces(q) \in SUBSET DOMAIN q
  BY DEF PassivePlaces
<1> QED
  BY <1>2, <1>3, FS_Subset, FS_CardinalityType

\* A queue that has its banners from other places of an orderly one is orderly: f says which.
LEMMA TakenIsOrderly ==
  ASSUME NEW q \in Seq(Banner), Orderly(q),
         NEW r \in Seq(Banner), NEW f \in [DOMAIN r -> DOMAIN q],
         \A n \in DOMAIN r : r[n].id = q[f[n]].id /\ r[n].approval = q[f[n]].approval,
         \A n, m \in DOMAIN r : f[n] = f[m] => n = m
  PROVE  Orderly(r)
<1>1. IsFiniteSet(PassivePlaces(q)) /\ Cardinality(PassivePlaces(q)) \in Nat
  BY PassiveAreFinite
<1> DEFINE g == [n \in PassivePlaces(r) |-> f[n]]
<1>2. g \in Injection(PassivePlaces(r), PassivePlaces(q))
  BY DEF PassivePlaces, Passive, Injection, IsInjective
<1>3. /\ Cardinality(PassivePlaces(r)) <= Cardinality(PassivePlaces(q))
      /\ IsFiniteSet(PassivePlaces(r))
  <2> HIDE DEF g
  <2> QED
    BY <1>1, <1>2, FS_Injection
<1>4. Cardinality(PassivePlaces(r)) <= MaxPassive
  BY <1>1, <1>3, FS_CardinalityType, BoardAssumption DEF Orderly
<1>5. ASSUME NEW n \in DOMAIN r, NEW m \in DOMAIN r
      PROVE  /\ r[n].id = r[m].id => n = m
             /\ r[n].approval /\ r[m].approval => n = m
  <2>1. f[n] \in DOMAIN q /\ f[m] \in DOMAIN q
    OBVIOUS
  <2>2. /\ q[f[n]].id = q[f[m]].id => f[n] = f[m]
        /\ q[f[n]].approval /\ q[f[m]].approval => f[n] = f[m]
    BY <2>1 DEF Orderly
  <2> QED
    BY <2>2
<1> QED
  BY <1>4, <1>5 DEF Orderly

\* A dismissal takes one banner away and keeps the order.
LEMMA WithoutKeepsOrder ==
  ASSUME NEW q \in Seq(Banner), NEW id, Orderly(q)
  PROVE  /\ Without(q, id) \in Seq(Banner) /\ Orderly(Without(q, id))
         /\ ToSet(Without(q, id)) = {b \in ToSet(q) : b.id # id}
<1> DEFINE places == {i \in DOMAIN q : q[i].id # id}
           r == At(q, places)
<1>1. places \in SUBSET DOMAIN q /\ Without(q, id) = r
  BY DEF Without
<1> HIDE DEF r
<1>2. /\ r \in Seq(Banner)
      /\ \A b \in ToSet(r) : \E i \in places : b = q[i]
      /\ \A i \in places : q[i] \in ToSet(r)
      /\ \E f \in [DOMAIN r -> places] :
           /\ \A n \in DOMAIN r : r[n] = q[f[n]]
           /\ \A n, m \in DOMAIN r : f[n] = f[m] => n = m
  <2> HIDE DEF places
  <2> QED
    BY <1>1, AtTakes DEF r
<1>3. PICK f \in [DOMAIN r -> places] :
        /\ \A n \in DOMAIN r : r[n] = q[f[n]]
        /\ \A n, m \in DOMAIN r : f[n] = f[m] => n = m
  BY <1>2
<1>4. f \in [DOMAIN r -> DOMAIN q]
  BY <1>1, <1>3
<1>5. Orderly(r)
  <2>1. \A n \in DOMAIN r : r[n].id = q[f[n]].id /\ r[n].approval = q[f[n]].approval
    BY <1>3
  <2>2. \A n, m \in DOMAIN r : f[n] = f[m] => n = m
    BY <1>3
  <2> HIDE DEF places
  <2>3. r \in Seq(Banner)
    BY <1>2
  <2> QED
    BY <1>4, <2>1, <2>2, <2>3, TakenIsOrderly
<1>6. ToSet(r) = {b \in ToSet(q) : b.id # id}
  <2>1. \A i \in places : q[i] \in ToSet(q) /\ q[i].id # id
    BY DEF ToSet
  <2>2. \A b \in ToSet(r) : b \in ToSet(q) /\ b.id # id
    BY <1>2, <2>1
  <2>3. \A b \in ToSet(q) : b.id # id => b \in ToSet(r)
    BY <1>2 DEF ToSet
  <2> QED
    BY <2>2, <2>3
<1> QED
  BY <1>1, <1>2, <1>5, <1>6

\* A banner at the end keeps the order when there is room for it.
LEMMA AppendKeepsOrder ==
  ASSUME NEW q \in Seq(Banner), NEW b \in Banner, Orderly(q), b.id \notin IdsOf(q),
         Passive(b) => Cardinality(PassivePlaces(q)) < MaxPassive,
         b.approval => \A i \in DOMAIN q : ~q[i].approval
  PROVE  /\ Append(q, b) \in Seq(Banner) /\ Orderly(Append(q, b))
         /\ ToSet(Append(q, b)) = ToSet(q) \union {b}
<1> DEFINE r == Append(q, b)
           last == Len(q) + 1
<1>1. Len(q) \in Nat /\ DOMAIN q = 1..Len(q) /\ last \in Nat
  BY LenProperties
<1>2. r \in Seq(Banner) /\ DOMAIN r = 1..last
  BY <1>1, AppendProperties, LenProperties
<1>3. r[last] = b /\ \A i \in DOMAIN q : r[i] = q[i]
  BY <1>1, AppendProperties
<1>4. DOMAIN r = DOMAIN q \union {last} /\ last \notin DOMAIN q
  BY <1>1, <1>2
<1> HIDE DEF r, last
<1>5. \A i \in DOMAIN q : q[i].id # b.id
  BY DEF IdsOf, ToSet
<1>6. \A i, j \in DOMAIN r : r[i].id = r[j].id => i = j
  BY <1>3, <1>4, <1>5 DEF Orderly
<1>7. \A i, j \in DOMAIN r : r[i].approval /\ r[j].approval => i = j
  BY <1>3, <1>4 DEF Orderly
<1>8. Cardinality(PassivePlaces(r)) <= MaxPassive
  <2>1. IsFiniteSet(PassivePlaces(q)) /\ Cardinality(PassivePlaces(q)) \in Nat
    BY PassiveAreFinite
  <2>2. CASE Passive(b)
    <3>1. PassivePlaces(r) = PassivePlaces(q) \union {last}
      BY <1>3, <1>4, <2>2 DEF PassivePlaces
    <3>2. Cardinality(PassivePlaces(r)) = Cardinality(PassivePlaces(q)) + 1
      BY <1>4, <2>1, <3>1, FS_AddElement DEF PassivePlaces
    <3> QED
      BY <2>1, <2>2, <3>2, BoardAssumption
  <2>3. CASE ~Passive(b)
    <3>1. PassivePlaces(r) = PassivePlaces(q)
      BY <1>3, <1>4, <2>3 DEF PassivePlaces
    <3> QED
      BY <3>1 DEF Orderly
  <2> QED
    BY <2>2, <2>3
<1>9. ToSet(r) = ToSet(q) \union {b}
  BY <1>3, <1>4 DEF ToSet
<1> QED
  BY <1>2, <1>6, <1>7, <1>8, <1>9 DEF Orderly, r

\* A banner that makes room leaves an orderly queue with one passive banner less.
LEMMA EvictionMakesRoom ==
  ASSUME NEW q \in Seq(Banner), Orderly(q), NEW k \in PassivePlaces(q)
  PROVE  /\ RemoveAt(q, k) \in Seq(Banner) /\ Orderly(RemoveAt(q, k))
         /\ ToSet(RemoveAt(q, k)) \subseteq ToSet(q)
         /\ Cardinality(PassivePlaces(RemoveAt(q, k))) < MaxPassive
<1> DEFINE r == RemoveAt(q, k)
           before == SubSeq(q, 1, k - 1)
           after == SubSeq(q, k + 1, Len(q))
           n == Len(q)
           f == [i \in 1..(n - 1) |-> IF i < k THEN i ELSE i + 1]
<1>1. n \in Nat /\ DOMAIN q = 1..n /\ k \in 1..n /\ \A i \in 1..n : q[i] \in Banner
  BY LenProperties, ElementOfSeq DEF PassivePlaces
<1>2. /\ before \in Seq(Banner) /\ Len(before) = k - 1
      /\ \A i \in 1..(k - 1) : before[i] = q[i]
  <2>1. 1 \in Int /\ k - 1 \in Int /\ \A i \in 1..(k - 1) : q[i] \in Banner
    BY <1>1
  <2>2. /\ before \in Seq(Banner)
        /\ Len(before) = IF 1 <= k - 1 THEN k - 1 - 1 + 1 ELSE 0
        /\ \A i \in 1..(k - 1 - 1 + 1) : before[i] = q[1 + i - 1]
    BY <2>1, SubSeqProperties
  <2> QED
    BY <1>1, <2>2
<1>3. /\ after \in Seq(Banner) /\ Len(after) = n - k
      /\ \A i \in 1..(n - k) : after[i] = q[k + i]
  <2>1. k + 1 \in Int /\ n \in Int /\ \A i \in (k + 1)..n : q[i] \in Banner
    BY <1>1
  <2>2. /\ after \in Seq(Banner)
        /\ Len(after) = IF k + 1 <= n THEN n - (k + 1) + 1 ELSE 0
        /\ \A i \in 1..(n - (k + 1) + 1) : after[i] = q[k + 1 + i - 1]
    BY <2>1, SubSeqProperties
  <2>3. n - (k + 1) + 1 = n - k /\ (~(k + 1 <= n) => n - k = 0)
    <3>1. n \in Nat /\ k \in 1..n
      BY <1>1
    <3> HIDE DEF n
    <3> QED
      BY <3>1
  <2>4. \A i \in 1..(n - k) : k + 1 + i - 1 = k + i
    BY <1>1
  <2> HIDE DEF after, n
  <2> QED
    BY <2>2, <2>3, <2>4
<1>4. r = before \o after
  BY DEF RemoveAt
<1> HIDE DEF r, before, after
<1>5. /\ r \in Seq(Banner) /\ Len(r) = n - 1
      /\ \A i \in 1..(n - 1) : r[i] = IF i <= k - 1 THEN before[i] ELSE after[i - (k - 1)]
  <2>1. /\ r \in Seq(Banner) /\ Len(r) = Len(before) + Len(after)
        /\ \A i \in 1..(Len(before) + Len(after)) :
             r[i] = IF i <= Len(before) THEN before[i] ELSE after[i - Len(before)]
    BY <1>2, <1>3, <1>4, ConcatProperties
  <2>2. Len(before) + Len(after) = n - 1
    BY <1>1, <1>2, <1>3
  <2> QED
    BY <1>2, <2>1, <2>2
<1>6. DOMAIN r = 1..(n - 1)
  BY <1>5, LenProperties
<1>7. \A i \in 1..(n - 1) : r[i] = q[f[i]] /\ f[i] \in 1..n \ {k}
  <2> SUFFICES ASSUME NEW i \in 1..(n - 1)
               PROVE  r[i] = q[f[i]] /\ f[i] \in 1..n \ {k}
    OBVIOUS
  <2>1. CASE i < k
    <3>1. i <= k - 1 /\ i \in 1..(k - 1) /\ i \in 1..n \ {k}
      BY <1>1, <2>1
    <3>2. f[i] = i
      BY <2>1
    <3>3. r[i] = before[i]
      BY <1>5, <3>1
    <3>4. before[i] = q[i]
      BY <1>2, <3>1
    <3> QED
      BY <3>1, <3>2, <3>3, <3>4
  <2>2. CASE ~(i < k)
    <3>1. /\ i - (k - 1) \in 1..(n - k) /\ k + (i - (k - 1)) = i + 1
          /\ ~(i <= k - 1) /\ i + 1 \in 1..n \ {k}
      BY <1>1, <2>2
    <3>2. r[i] = after[i - (k - 1)]
      BY <1>5, <3>1
    <3>3. after[i - (k - 1)] = q[i + 1]
      BY <1>3, <3>1
    <3>4. f[i] = i + 1
      BY <2>2
    <3> QED
      BY <3>1, <3>2, <3>3, <3>4
  <2> QED
    BY <2>1, <2>2
<1>8. \A i, j \in 1..(n - 1) : f[i] = f[j] => i = j
  BY <1>1
<1>9. f \in [DOMAIN r -> DOMAIN q]
  BY <1>1, <1>6, <1>7
<1> HIDE DEF f, n
<1>10. Orderly(r)
  <2>1. \A i \in DOMAIN r : r[i].id = q[f[i]].id /\ r[i].approval = q[f[i]].approval
    BY <1>6, <1>7
  <2>2. \A i, j \in DOMAIN r : f[i] = f[j] => i = j
    BY <1>6, <1>8
  <2>3. r \in Seq(Banner)
    BY <1>5
  <2> QED
    BY <1>9, <2>1, <2>2, <2>3, TakenIsOrderly
<1>11. ToSet(r) \subseteq ToSet(q)
  BY <1>1, <1>6, <1>7 DEF ToSet
<1>12. Cardinality(PassivePlaces(r)) < MaxPassive
  <2> DEFINE others == PassivePlaces(q) \ {k}
             g == [i \in PassivePlaces(r) |-> f[i]]
  <2>1. IsFiniteSet(PassivePlaces(q)) /\ Cardinality(PassivePlaces(q)) \in Nat
    BY PassiveAreFinite
  <2>2. IsFiniteSet(others) /\ Cardinality(others) = Cardinality(PassivePlaces(q)) - 1
    BY <2>1, FS_RemoveElement
  <2>3. g \in Injection(PassivePlaces(r), others)
    BY <1>1, <1>6, <1>7, <1>8 DEF PassivePlaces, Passive, Injection, IsInjective
  <2>4. Cardinality(PassivePlaces(r)) <= Cardinality(others) /\ Cardinality(PassivePlaces(r)) \in Nat
    <3> HIDE DEF g, others
    <3> QED
      BY <1>5, <2>2, <2>3, FS_Injection, PassiveAreFinite
  <2> QED
    BY <2>1, <2>2, <2>4, BoardAssumption DEF Orderly
<1> QED
  BY <1>5, <1>10, <1>11, <1>12 DEF r

\* Putting a banner on the queue keeps the order and what it does not replace or evict.
LEMMA PutKeepsOrder ==
  ASSUME NEW q \in Seq(Banner), NEW b \in Banner, Orderly(q), ~Refused(q, b),
         \A c \in ToSet(q) : c.id = b.id => c.approval = b.approval
  PROVE  /\ Put(q, b) \in Seq(Banner) /\ Orderly(Put(q, b))
         /\ b \in ToSet(Put(q, b)) /\ ToSet(Put(q, b)) \subseteq ToSet(q) \union {b}
<1>1. Len(q) \in Nat /\ DOMAIN q = 1..Len(q) /\ \A i \in DOMAIN q : q[i] \in Banner
  BY LenProperties, ElementOfSeq
<1>2. CASE b.id \in IdsOf(q)
  <2> DEFINE r == [i \in DOMAIN q |-> IF q[i].id = b.id THEN b ELSE q[i]]
             f == [i \in DOMAIN q |-> i]
  <2>1. Put(q, b) = r
    BY <1>2 DEF Put
  <2>2. \A i \in 1..Len(q) : r[i] \in Banner
    BY <1>1
  <2>3. r \in Seq(Banner) /\ DOMAIN r = DOMAIN q
    BY <1>1, <2>2, IsASeq
  <2>4. \A i \in DOMAIN q : r[i].id = q[i].id /\ r[i].approval = q[i].approval
    BY DEF ToSet
  <2>5. b \in ToSet(r) /\ ToSet(r) \subseteq ToSet(q) \union {b}
    BY <1>2 DEF IdsOf, ToSet
  <2>6. f \in [DOMAIN r -> DOMAIN q] /\ \A i \in DOMAIN r : f[i] = i
    BY <2>3
  <2> HIDE DEF r, f
  <2>7. /\ \A i \in DOMAIN r : r[i].id = q[f[i]].id /\ r[i].approval = q[f[i]].approval
        /\ \A i, j \in DOMAIN r : f[i] = f[j] => i = j
    BY <2>3, <2>4, <2>6
  <2>8. Orderly(r)
    BY <2>3, <2>6, <2>7, TakenIsOrderly
  <2> QED
    BY <2>1, <2>3, <2>5, <2>8
<1>3. CASE b.id \notin IdsOf(q)
  <2>1. b.approval => \A i \in DOMAIN q : ~q[i].approval
    BY <1>3 DEF Refused, ToSet
  <2>2. PassivePlaces(q) \in SUBSET Nat /\ \A i \in PassivePlaces(q) : i # 0
    BY <1>1 DEF PassivePlaces
  <2>3. Evicted(q, b) = IF Passive(b) /\ Cardinality(PassivePlaces(q)) >= MaxPassive
                        THEN Min(PassivePlaces(q)) ELSE 0
    BY DEF Evicted, PassivePlaces
  <2>4. Cardinality(PassivePlaces(q)) \in Nat
    BY PassiveAreFinite
  <2>5. CASE Passive(b) /\ Cardinality(PassivePlaces(q)) >= MaxPassive
    <3> DEFINE k == Min(PassivePlaces(q))
               r == RemoveAt(q, k)
    <3>1. PassivePlaces(q) # {}
      <4>1. PassivePlaces(q) = {} => Cardinality(PassivePlaces(q)) = 0
        BY FS_EmptySet
      <4> QED
        BY <2>5, <4>1, BoardAssumption
    <3>2. k \in PassivePlaces(q)
      <4>1. PassivePlaces(q) \in SUBSET (1..Len(q))
        BY <1>1 DEF PassivePlaces
      <4>2. \E i \in PassivePlaces(q) : \A j \in PassivePlaces(q) : i <= j
        BY <1>1, <3>1, <4>1, FirstIsLeast
      <4> QED
        BY <4>2 DEF Min
    <3> HIDE DEF k
    <3>3. /\ r \in Seq(Banner) /\ Orderly(r) /\ ToSet(r) \subseteq ToSet(q)
          /\ Cardinality(PassivePlaces(r)) < MaxPassive
      BY <3>2, EvictionMakesRoom
    <3>4. Put(q, b) = Append(r, b)
      BY <1>3, <2>2, <2>3, <2>5, <3>2 DEF Put, k
    <3> HIDE DEF r
    <3>5. b.id \notin IdsOf(r) /\ ~b.approval
      BY <1>3, <2>5, <3>3 DEF IdsOf, Passive
    <3>6. /\ Append(r, b) \in Seq(Banner) /\ Orderly(Append(r, b))
          /\ ToSet(Append(r, b)) = ToSet(r) \union {b}
      BY <3>3, <3>5, AppendKeepsOrder
    <3> QED
      BY <3>3, <3>4, <3>6
  <2>6. CASE ~(Passive(b) /\ Cardinality(PassivePlaces(q)) >= MaxPassive)
    <3>1. Put(q, b) = Append(q, b)
      BY <1>3, <2>3, <2>6 DEF Put
    <3>2. Passive(b) => Cardinality(PassivePlaces(q)) < MaxPassive
      BY <2>4, <2>6, BoardAssumption
    <3>3. /\ Append(q, b) \in Seq(Banner) /\ Orderly(Append(q, b))
          /\ ToSet(Append(q, b)) = ToSet(q) \union {b}
      BY <1>3, <2>1, <3>2, AppendKeepsOrder
    <3> QED
      BY <3>1, <3>3
  <2> QED
    BY <2>5, <2>6
<1> QED
  BY <1>2, <1>3

===============================================================================
