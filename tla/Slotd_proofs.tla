------------------------------ MODULE Slotd_proofs ------------------------------
(***************************************************************************)
(* Proofs about Slotd, for any connections, clients and capacities, and    *)
(* whatever the memory at any moment fits: leases within capacity, first   *)
(* come first served, nobody granted late, a run that was told to go       *)
(* keeps its lease, and peers that stay until they are answered leave      *)
(* nothing behind.                                                         *)
(***************************************************************************)
EXTENDS Slotd, FiniteSetTheorems, SequenceTheorems, WellFoundedInduction, TLAPS

-------------------------------------------------------------------------------
(* The invariants *)

Callbacks == {"decide", "wake", "resume"} \X Connections
Futures   == {"none", "pending", "granted", "refused", "cancelled"}
Waits(c)   == c \in ToSet(queue)
Called(kind, c) == <<kind, c>> \in ToSet(ready)

\* Who waits has no lease, and is the only one of its client.  A pump that raised in
\* its own decision leaves it waiting.
WaitersFit ==
    \A c \in Connections : Waits(c) =>
        /\ promise[c] \in {"pending", "cancelled"} /\ decision[c] \in {"waiting", "failed"}
        /\ leases[ClientOf[c]] = None
        /\ \A d \in Connections : Waits(d) /\ ClientOf[d] = ClientOf[c] => d = c

\* What a decision says of its future, and the loop's callbacks of both.
DecisionFits(c) ==
    /\ promise[c] = "pending" => Waits(c)
    /\ promise[c] = "cancelled" => handler[c] \in {"cancelling", "closed"}
    /\ c \in doomed => promise[c] \notin {"pending", "cancelled"}
    /\ decision[c] = "none" => promise[c] = "none"
    /\ decision[c] = "granted" => promise[c] = "granted"
    /\ decision[c] = "refused" => promise[c] \in {"none", "refused"}
    /\ handler[c] = "new" => decision[c] = "none"
    /\ Called("decide", c) => decision[c] = "none" /\ handler[c] # "new"
    /\ Called("resume", c) => handler[c] # "new"
    /\ Called("wake", c) => decision[c] = "waiting" /\ promise[c] # "pending"
DecisionsFit == \A c \in Connections : DecisionFits(c)

\* A lease is a grant, and a grant is a lease for as long as its handler may serve it.
LeasesFit ==
    /\ IsFiniteSet(Leased(leases))
    /\ \A k \in Clients : leases[k] # None =>
          ClientOf[leases[k]] = k /\ promise[leases[k]] \in {"granted", "cancelled"}
    /\ \A c \in Connections :
          /\ promise[c] = "granted" /\ handler[c] \in {"waiting", "serving"}
                => leases[ClientOf[c]] = c
          /\ handler[c] = "serving" => decision[c] = "granted"

\* While no peer has left before its answer, nothing is cancelled and nobody is woken
\* before the decision.
NothingIsCancelled ==
    /\ doomed = {} /\ hungUp \subseteq gone
    /\ \A c \in Connections :
        /\ handler[c] # "cancelling" /\ promise[c] # "cancelled"
        /\ decision[c] \notin {"failed", "cancelled"}
        /\ handler[c] = "closed" => decision[c] \in {"granted", "refused"}
        /\ c \in gone => handler[c] \in {"serving", "closed"}
        /\ Called("resume", c) /\ handler[c] = "waiting" => decision[c] \notin {"none", "waiting"}
PatienceFits == ~hasty => NothingIsCancelled

IInv ==
    /\ TypeOK /\ WaitersFit /\ DecisionsFit /\ LeasesFit
    /\ PatienceFits /\ PatientPeersLeakNothing

-------------------------------------------------------------------------------
(* Sequences without duplicates *)

\* A function on 1..n is a sequence.
LEMMA IsASeqOf ==
  ASSUME NEW C, NEW n \in Nat, NEW t \in [1..n -> C]
  PROVE  t \in Seq(C) /\ Len(t) = n
  OBVIOUS

\* A set of natural numbers that is not empty has a least element.
LEMMA LeastIsLeast ==
  ASSUME NEW T \in SUBSET Nat, T # {}
  PROVE  Least(T) \in T /\ \A m \in T : Least(T) <= m
  <1> DEFINE R == OpToRel(<, Nat)
  <1>1. IsWellFoundedOn(R, Nat)
    BY NatLessThanWellFounded
  <1>2. \A m, n \in Nat : <<m, n>> \in R <=> m < n
    BY DEF OpToRel
  <1> HIDE DEF R
  <1>3. \E n \in T : \A m \in T : ~ (<<m, n>> \in R)
    BY <1>1, WFMin
  <1>4. \E n \in T : \A m \in T : n <= m
    <2>1. PICK n \in T : \A m \in T : ~ (<<m, n>> \in R)
      BY <1>3
    <2>2. ASSUME NEW m \in T PROVE n <= m
      <3>1. ~ (m < n)
        BY <1>2, <2>1
      <3> QED
        BY <3>1
    <2> QED
      BY <2>2
  <1> QED
    BY <1>4 DEF Least

Ranks(places) == [i \in places |-> Cardinality({j \in places : j <= i})]

\* The rank of a place among some places of a sequence counts them up from one.
LEMMA RanksCount ==
  ASSUME NEW places \in SUBSET Nat, IsFiniteSet(places)
  PROVE  /\ Cardinality(places) \in Nat
         /\ Ranks(places) \in [places -> 1..Cardinality(places)]
         /\ \A i, j \in places : i < j => Ranks(places)[i] < Ranks(places)[j]
         /\ \A k \in 1..Cardinality(places) : \E i \in places : Ranks(places)[i] = k
  <1> DEFINE n == Cardinality(places)
             rank == Ranks(places)
             Below(i) == {j \in places : j <= i}
  <1>1. n \in Nat
    BY FS_CardinalityType
  <1>2. \A i \in places :
          IsFiniteSet(Below(i)) /\ Cardinality(Below(i)) \in Nat /\ Cardinality(Below(i)) <= n
    <2> SUFFICES ASSUME NEW i \in places
                 PROVE IsFiniteSet(Below(i)) /\ Cardinality(Below(i)) \in Nat /\ Cardinality(Below(i)) <= n
      OBVIOUS
    <2>1. Below(i) \in SUBSET places
      OBVIOUS
    <2> HIDE DEF Below
    <2>2. IsFiniteSet(Below(i)) /\ Cardinality(Below(i)) <= n
      BY <2>1, FS_Subset
    <2> QED
      BY <2>2, FS_CardinalityType
  <1>3. \A i \in places : Cardinality(Below(i)) # 0
    <2> SUFFICES ASSUME NEW i \in places PROVE Cardinality(Below(i)) # 0
      OBVIOUS
    <2>1. Below(i) # {}
      OBVIOUS
    <2> QED
      BY <1>2, <2>1, FS_EmptySet
  <1>4. \A i \in places : rank[i] = Cardinality(Below(i))
    BY DEF Ranks
  <1>5. rank \in [places -> 1..n]
    <2>1. rank = [i \in places |-> Cardinality(Below(i))]
      BY DEF Ranks
    <2> HIDE DEF rank, Below, n
    <2>2. ASSUME NEW i \in places PROVE Cardinality(Below(i)) \in 1..n
      BY <1>1, <1>2, <1>3 DEF n
    <2> QED
      BY <2>1, <2>2
  <1>6. \A i, j \in places : i < j => rank[i] < rank[j]
    <2> SUFFICES ASSUME NEW i \in places, NEW j \in places, i < j PROVE rank[i] < rank[j]
      OBVIOUS
    <2>0. places \subseteq Nat /\ i \in Nat /\ j \in Nat
      OBVIOUS
    <2>a. ASSUME NEW x \in Below(i) PROVE x \in Below(j)
      <3>1. x \in Nat /\ x <= i /\ x \in places
        BY <2>0
      <3>2. x <= j
        BY <2>0, <3>1
      <3> QED
        BY <3>1, <3>2
    <2>b. j \in Below(j) /\ j \notin Below(i)
      BY <2>0
    <2>1. Below(i) \in SUBSET Below(j) /\ j \in Below(j) /\ j \notin Below(i)
      BY <2>a, <2>b
    <2>2. IsFiniteSet(Below(j)) /\ Cardinality(Below(i)) \in Nat /\ Cardinality(Below(j)) \in Nat
      BY <1>2
    <2> HIDE DEF Below
    <2>3. Cardinality(Below(i)) <= Cardinality(Below(j)) /\ Cardinality(Below(j)) # Cardinality(Below(i))
      BY <2>1, <2>2, FS_Subset
    <2> QED
      BY <1>4, <2>2, <2>3
  <1>7. rank \in Injection(places, 1..n)
    <2>1. ASSUME NEW i \in places, NEW j \in places, rank[i] = rank[j] PROVE i = j
      <3>1. i \in Nat /\ j \in Nat /\ rank[i] \in Nat
        BY <1>5, <1>1
      <3> QED
        BY <1>6, <2>1, <3>1
    <2> QED
      BY <1>5, <2>1 DEF Injection, IsInjective
  <1> HIDE DEF n, rank, Below
  <1>8. IsFiniteSet(1..n) /\ Cardinality(1..n) = n
    BY <1>1, FS_Interval
  <1>9. rank \in Surjection(places, 1..n)
    <2>1. n = Cardinality(places)
      BY DEF n
    <2> QED
      BY <1>7, <1>8, <2>1, FS_Injection
  <1> QED
    BY <1>1, <1>5, <1>6, <1>9 DEF Surjection, n, rank

\* t lists the elements of s that are in S by their places in s.
Lists(t, s, S, n, place) ==
    /\ t = [k \in 1..n |-> s[place[k]]]
    /\ \A k \in 1..n : s[place[k]] \in S
    /\ \A i \in DOMAIN s : s[i] \in S => \E k \in 1..n : place[k] = i
    /\ \A k, l \in 1..n : k < l => place[k] < place[l]

\* Kept lists its places in ascending order.
LEMMA KeptInOrder ==
  ASSUME NEW C, NEW s \in Seq(C), NEW S
  PROVE  \E n \in Nat : \E place \in [1..n -> DOMAIN s] : Lists(Kept(s, S), s, S, n, place)
  <1> DEFINE places  == {i \in DOMAIN s : s[i] \in S}
             n       == Cardinality(places)
             rank    == Ranks(places)
             Place(k) == CHOOSE i \in places : Cardinality({j \in places : j <= i}) = k
             place   == [k \in 1..n |-> Place(k)]
  <1>1. places \in SUBSET Nat /\ places \in SUBSET (1..Len(s)) /\ places \in SUBSET DOMAIN s
    BY LenProperties
  <1>2. IsFiniteSet(places)
    BY <1>1, LenProperties, FS_Interval, FS_Subset
  <1>3. Kept(s, S) = [k \in 1..n |-> s[Place(k)]]
    BY DEF Kept
  <1>4. /\ n \in Nat
        /\ rank \in [places -> 1..n]
        /\ \A i, j \in places : i < j => rank[i] < rank[j]
        /\ \A k \in 1..n : \E i \in places : rank[i] = k
    <2> HIDE DEF places
    <2> QED
      BY <1>1, <1>2, RanksCount
  <1>5. \A i \in places : rank[i] = Cardinality({j \in places : j <= i})
    BY DEF Ranks
  <1>6. \A k \in 1..n : Place(k) \in places /\ rank[Place(k)] = k
    <2> HIDE DEF places, n, rank
    <2> QED
      BY <1>4, <1>5
  <1>7. place \in [1..n -> places] /\ (\A k \in 1..n : rank[place[k]] = k /\ place[k] = Place(k))
    <2> HIDE DEF places, n, rank, Place
    <2> QED
      BY <1>6
  <1>8. Kept(s, S) = [k \in 1..n |-> s[place[k]]]
    <2> HIDE DEF places, n, rank, Place
    <2> QED
      BY <1>3
  <1>9. \A i \in DOMAIN s : s[i] \in S => i \in places
    OBVIOUS
  <1>10. \A i \in places : s[i] \in S
    OBVIOUS
  <1> HIDE DEF places, n, rank, Place, place
  <1>11. \A i, j \in places : rank[i] = rank[j] => i = j
    <2> SUFFICES ASSUME NEW i \in places, NEW j \in places, rank[i] = rank[j] PROVE i = j
      OBVIOUS
    <2>1. i \in Nat /\ j \in Nat /\ rank[i] \in Nat
      BY <1>1, <1>4
    <2> QED
      BY <2>1, <1>4
  <1>12. \A i \in DOMAIN s : s[i] \in S => \E k \in 1..n : place[k] = i
    BY <1>4, <1>7, <1>9, <1>11
  <1>13. \A k, l \in 1..n : k < l => place[k] < place[l]
    <2> SUFFICES ASSUME NEW k \in 1..n, NEW l \in 1..n, k < l PROVE place[k] < place[l]
      OBVIOUS
    <2>1. place[k] \in places /\ place[l] \in places /\ rank[place[k]] = k /\ rank[place[l]] = l
      BY <1>7
    <2>2. place[k] \in Nat /\ place[l] \in Nat
      BY <2>1, <1>1
    <2>3. k \in Nat /\ l \in Nat
      BY <1>4
    <2> QED
      BY <2>1, <2>2, <2>3, <1>4
  <1>14. place \in [1..n -> DOMAIN s] /\ \A k \in 1..n : s[place[k]] \in S
    BY <1>1, <1>7, <1>10
  <1> QED
    BY <1>4, <1>8, <1>12, <1>13, <1>14 DEF Lists

\* It is what the sequence has in common with the set, without duplicates if that had
\* none, and in the order of the sequence.
LEMMA KeptFits ==
  ASSUME NEW C, NEW s \in Seq(C), IsInjective(s), NEW S
  PROVE  /\ Kept(s, S) \in Seq(C)
         /\ IsInjective(Kept(s, S))
         /\ ToSet(Kept(s, S)) = ToSet(s) \cap S
         /\ \A i, j \in DOMAIN s : i < j /\ s[i] \in S /\ s[j] \in S =>
              \E k, l \in DOMAIN Kept(s, S) :
                 k < l /\ Kept(s, S)[k] = s[i] /\ Kept(s, S)[l] = s[j]
  <1>0. PICK n \in Nat : \E place \in [1..n -> DOMAIN s] : Lists(Kept(s, S), s, S, n, place)
    BY KeptInOrder
  <1>1. PICK place \in [1..n -> DOMAIN s] : Lists(Kept(s, S), s, S, n, place)
    BY <1>0
  <1> DEFINE t == Kept(s, S)
  <1>l. /\ Kept(s, S) = [k \in 1..n |-> s[place[k]]]
        /\ \A k \in 1..n : s[place[k]] \in S
        /\ \A i \in DOMAIN s : s[i] \in S => \E k \in 1..n : place[k] = i
        /\ \A k, l \in 1..n : k < l => place[k] < place[l]
    BY <1>1 DEF Lists
  <1>2. DOMAIN s \in SUBSET Nat /\ \A i \in DOMAIN s : s[i] \in C
    BY LenProperties, ElementOfSeq
  <1>3. DOMAIN t = 1..n /\ (\A k \in 1..n : t[k] = s[place[k]] /\ t[k] \in C)
    BY <1>l, <1>2
  <1>4. t \in Seq(C)
    <2>1. t \in [1..n -> C]
      BY <1>l, <1>2
    <2> QED
      BY <2>1, IsASeqOf
  <1>5. IsInjective(t)
    <2> SUFFICES ASSUME NEW k \in 1..n, NEW l \in 1..n, t[k] = t[l] PROVE k = l
      BY <1>3 DEF IsInjective
    <2>1. place[k] = place[l]
      BY <1>l, <1>3 DEF IsInjective
    <2>2. place[k] \in Nat
      BY <1>l, <1>2
    <2> QED
      BY <2>1, <2>2, <1>l
  <1>6. ToSet(t) = ToSet(s) \cap S
    <2>1. ASSUME NEW k \in 1..n PROVE t[k] \in ToSet(s) \cap S
      BY <1>l, <1>3 DEF ToSet
    <2>2. ASSUME NEW i \in DOMAIN s, s[i] \in S PROVE \E k \in 1..n : t[k] = s[i]
      <3>1. PICK k \in 1..n : place[k] = i
        BY <1>l, <2>2
      <3> QED
        BY <1>3, <3>1
    <2> QED
      <3> HIDE DEF t
      <3>1. \A x \in ToSet(t) : x \in ToSet(s) \cap S
        BY <1>3, <2>1 DEF ToSet
      <3>2. \A x \in ToSet(s) \cap S : x \in ToSet(t)
        <4> SUFFICES ASSUME NEW i \in DOMAIN s, s[i] \in S
                     PROVE  s[i] \in ToSet(t)
          BY DEF ToSet
        <4>1. PICK k \in 1..n : t[k] = s[i]
          BY <2>2
        <4> QED
          BY <1>3, <4>1 DEF ToSet
      <3> QED
        BY <3>1, <3>2
  <1>7. ASSUME NEW i \in DOMAIN s, NEW j \in DOMAIN s, i < j, s[i] \in S, s[j] \in S
        PROVE  \E k, l \in DOMAIN t : k < l /\ t[k] = s[i] /\ t[l] = s[j]
    <2>1. PICK k \in 1..n : place[k] = i
      BY <1>l, <1>7
    <2>2. PICK l \in 1..n : place[l] = j
      BY <1>l, <1>7
    <2>3. i \in Nat /\ j \in Nat /\ k \in Nat /\ l \in Nat
      BY <1>2
    <2>4. k < l
      BY <1>l, <1>7, <2>1, <2>2, <2>3
    <2> QED
      BY <1>3, <2>1, <2>2, <2>4
  <1> QED
    BY <1>4, <1>5, <1>6, <1>7

LEMMA ToSetIsPart ==
  ASSUME NEW C, NEW s \in Seq(C)
  PROVE  ToSet(s) \subseteq C
  BY LenProperties, ElementOfSeq DEF ToSet

\* Appending, joining, taking the head off and taking a prefix keep a sequence without
\* duplicates one, with the elements one expects.
LEMMA AppendFits ==
  ASSUME NEW C, NEW s \in Seq(C), NEW e \in C
  PROVE  /\ Append(s, e) \in Seq(C)
         /\ ToSet(Append(s, e)) = ToSet(s) \cup {e}
         /\ IsInjective(s) /\ e \notin ToSet(s) => IsInjective(Append(s, e))
         /\ \A i \in DOMAIN s : i \in DOMAIN Append(s, e) /\ Append(s, e)[i] = s[i]
  <1> DEFINE t == Append(s, e)
             n == Len(s)
  <1>1. /\ t \in Seq(C) /\ Len(t) = n + 1 /\ n \in Nat
        /\ \A i \in 1..n : t[i] = s[i]
        /\ t[n + 1] = e
        /\ DOMAIN s = 1..n /\ DOMAIN t = 1..(n + 1)
    BY AppendProperties, LenProperties
  <1> HIDE DEF t, n
  <1>2. \A i \in DOMAIN t : i \in DOMAIN s \/ i = n + 1
    BY <1>1
  <1>3. \A i \in DOMAIN s : i \in DOMAIN t /\ t[i] = s[i]
    BY <1>1
  <1>4. n + 1 \in DOMAIN t
    BY <1>1
  <1>5. ToSet(t) = ToSet(s) \cup {e}
    BY <1>1, <1>2, <1>3, <1>4 DEF ToSet
  <1>6. IsInjective(s) /\ e \notin ToSet(s) => IsInjective(t)
    BY <1>1, <1>2, <1>3 DEF ToSet, IsInjective
  <1> QED
    BY <1>1, <1>3, <1>5, <1>6 DEF t

LEMMA JoinFits ==
  ASSUME NEW C, NEW s \in Seq(C), NEW u \in Seq(C)
  PROVE  /\ s \o u \in Seq(C)
         /\ ToSet(s \o u) = ToSet(s) \cup ToSet(u)
         /\ IsInjective(s) /\ IsInjective(u) /\ ToSet(s) \cap ToSet(u) = {} => IsInjective(s \o u)
  <1> DEFINE t == s \o u
             n == Len(s)
             m == Len(u)
  <1>1. /\ t \in Seq(C) /\ Len(t) = n + m /\ n \in Nat /\ m \in Nat
        /\ \A i \in 1..(n + m) : t[i] = IF i <= n THEN s[i] ELSE u[i - n]
        /\ DOMAIN s = 1..n /\ DOMAIN u = 1..m /\ DOMAIN t = 1..(n + m)
    BY ConcatProperties, LenProperties
  <1> HIDE DEF t, n, m
  <1>2. \A i \in DOMAIN t : \/ i \in DOMAIN s /\ t[i] = s[i]
                            \/ i \notin DOMAIN s /\ i - n \in DOMAIN u /\ t[i] = u[i - n]
    BY <1>1
  <1>3. \A i \in DOMAIN s : i \in DOMAIN t /\ t[i] = s[i]
    BY <1>1
  <1>4. \A i \in DOMAIN u : i + n \in DOMAIN t /\ t[i + n] = u[i]
    <2> SUFFICES ASSUME NEW i \in DOMAIN u PROVE i + n \in DOMAIN t /\ t[i + n] = u[i]
      OBVIOUS
    <2>1. i \in Nat /\ i >= 1 /\ i <= m /\ i + n - n = i /\ ~ (i + n <= n)
      BY <1>1
    <2>2. i + n \in 1..(n + m)
      BY <1>1, <2>1
    <2> QED
      BY <1>1, <2>1, <2>2
  <1>5. ToSet(t) = ToSet(s) \cup ToSet(u)
    <2>1. \A x \in ToSet(t) : x \in ToSet(s) \cup ToSet(u)
      BY <1>2 DEF ToSet
    <2>2. \A x \in ToSet(s) \cup ToSet(u) : x \in ToSet(t)
      BY <1>3, <1>4 DEF ToSet
    <2> QED
      BY <2>1, <2>2
  <1>6. ASSUME IsInjective(s), IsInjective(u), ToSet(s) \cap ToSet(u) = {} PROVE IsInjective(t)
    <2> SUFFICES ASSUME NEW i \in DOMAIN t, NEW j \in DOMAIN t, t[i] = t[j] PROVE i = j
      BY DEF IsInjective
    <2>1. i \in Nat /\ j \in Nat
      BY <1>1
    <2>2. i \in DOMAIN s <=> j \in DOMAIN s
      <3>1. \A k \in DOMAIN t : k \in DOMAIN s => t[k] \in ToSet(s)
        BY <1>2 DEF ToSet
      <3>2. \A k \in DOMAIN t : k \notin DOMAIN s => t[k] \in ToSet(u)
        BY <1>2 DEF ToSet
      <3> QED
        BY <1>6, <3>1, <3>2
    <2>3. CASE i \in DOMAIN s
      BY <1>2, <1>6, <2>2, <2>3 DEF IsInjective
    <2>4. CASE i \notin DOMAIN s
      <3>1. i - n \in DOMAIN u /\ j - n \in DOMAIN u /\ u[i - n] = u[j - n]
        BY <1>2, <2>2, <2>4
      <3>2. i - n = j - n
        BY <1>6, <3>1 DEF IsInjective
      <3> QED
        BY <1>1, <2>1, <3>2
    <2> QED
      BY <2>3, <2>4
  <1> QED
    BY <1>1, <1>5, <1>6 DEF t

LEMMA TailFits ==
  ASSUME NEW C, NEW s \in Seq(C), s # <<>>, IsInjective(s)
  PROVE  /\ Tail(s) \in Seq(C)
         /\ IsInjective(Tail(s))
         /\ Head(s) \in ToSet(s)
         /\ ToSet(Tail(s)) = ToSet(s) \ {Head(s)}
  <1> DEFINE t == Tail(s)
             n == Len(t)
  <1>1. /\ t \in Seq(C) /\ Len(s) = n + 1 /\ n \in Nat
        /\ \A i \in 1..n : t[i] = s[i + 1]
        /\ DOMAIN s = 1..(n + 1) /\ DOMAIN t = 1..n /\ Head(s) = s[1]
    <2>1. t \in Seq(C) /\ Len(t) = Len(s) - 1 /\ (\A i \in 1..Len(t) : t[i] = s[i + 1]) /\ Head(s) = s[1]
      BY HeadTailProperties
    <2>2. Len(s) \in Nat /\ Len(t) \in Nat /\ DOMAIN s = 1..Len(s) /\ DOMAIN t = 1..Len(t)
      BY <2>1, LenProperties
    <2> HIDE DEF t
    <2> QED
      BY <2>1, <2>2
  <1> HIDE DEF t, n
  <1>2. \A i \in DOMAIN t : i + 1 \in DOMAIN s /\ t[i] = s[i + 1] /\ i + 1 # 1 /\ i \in Nat
    BY <1>1
  <1>3. 1 \in DOMAIN s
    BY <1>1
  <1>4. \A i \in DOMAIN s : i # 1 => i - 1 \in DOMAIN t /\ t[i - 1] = s[i]
    <2> SUFFICES ASSUME NEW i \in DOMAIN s, i # 1 PROVE i - 1 \in DOMAIN t /\ t[i - 1] = s[i]
      OBVIOUS
    <2>1. i \in Nat /\ i - 1 \in 1..n /\ (i - 1) + 1 = i
      BY <1>1
    <2> QED
      BY <1>1, <2>1
  <1>5. IsInjective(t)
    <2> SUFFICES ASSUME NEW i \in DOMAIN t, NEW j \in DOMAIN t, t[i] = t[j] PROVE i = j
      BY DEF IsInjective
    <2>1. i + 1 = j + 1
      BY <1>2 DEF IsInjective
    <2> QED
      BY <1>2, <2>1
  <1>6. ToSet(t) = ToSet(s) \ {Head(s)}
    <2>1. \A x \in ToSet(t) : x \in ToSet(s) /\ x # Head(s)
      BY <1>1, <1>2, <1>3 DEF ToSet, IsInjective
    <2>2. \A x \in ToSet(s) : x # Head(s) => x \in ToSet(t)
      BY <1>1, <1>4 DEF ToSet
    <2> QED
      BY <2>1, <2>2
  <1>7. Head(s) \in ToSet(s)
    BY <1>1, <1>3 DEF ToSet
  <1> QED
    BY <1>1, <1>5, <1>6, <1>7 DEF t

LEMMA PrefixFits ==
  ASSUME NEW C, NEW s \in Seq(C), IsInjective(s), NEW n \in Nat, n <= Len(s)
  PROVE  /\ SubSeq(s, 1, n) \in Seq(C) /\ Len(SubSeq(s, 1, n)) = n
         /\ IsInjective(SubSeq(s, 1, n))
         /\ \A i \in 1..n : i \in DOMAIN s /\ SubSeq(s, 1, n)[i] = s[i]
         /\ ToSet(SubSeq(s, 1, n)) = {s[i] : i \in 1..n}
  <1> DEFINE t == SubSeq(s, 1, n)
  <1>1. Len(s) \in Nat /\ DOMAIN s = 1..Len(s)
    BY LenProperties
  <1>2. \A i \in 1..n : i \in DOMAIN s /\ s[i] \in C
    BY <1>1, ElementOfSeq
  <1>3. /\ t \in Seq(C) /\ Len(t) = n
        /\ \A i \in 1..n : t[i] = s[i]
    <2>1. /\ t \in Seq(C)
          /\ Len(t) = IF 1 <= n THEN n - 1 + 1 ELSE 0
          /\ \A i \in 1..(n - 1 + 1) : t[i] = s[1 + i - 1]
      BY <1>2, SubSeqProperties
    <2> QED
      BY <2>1
  <1>4. DOMAIN t = 1..n
    BY <1>3, LenProperties
  <1> HIDE DEF t
  <1>5. IsInjective(t)
    BY <1>2, <1>3, <1>4 DEF IsInjective
  <1>6. ToSet(t) = {s[i] : i \in 1..n}
    BY <1>3, <1>4 DEF ToSet
  <1> QED
    BY <1>2, <1>3, <1>5, <1>6 DEF t

\* A sequence without duplicates has as many elements as it is long.
LEMMA LengthCounts ==
  ASSUME NEW C, NEW s \in Seq(C), IsInjective(s)
  PROVE  IsFiniteSet(ToSet(s)) /\ Cardinality(ToSet(s)) = Len(s)
  <1>1. Len(s) \in Nat /\ DOMAIN s = 1..Len(s) /\ s \in [1..Len(s) -> C]
    BY LenProperties
  <1>2. s \in [1..Len(s) -> ToSet(s)]
    BY <1>1 DEF ToSet
  <1>3. s \in Surjection(1..Len(s), ToSet(s)) /\ s \in Injection(1..Len(s), ToSet(s))
    BY <1>1, <1>2 DEF Surjection, Injection, IsInjective, ToSet
  <1>4. IsFiniteSet(1..Len(s)) /\ Cardinality(1..Len(s)) = Len(s)
    <2> DEFINE n == Len(s)
    <2>1. n \in Nat
      BY <1>1
    <2> HIDE DEF n
    <2>2. IsFiniteSet(1..n) /\ Cardinality(1..n) = IF 1 > n THEN 0 ELSE n - 1 + 1
      BY <2>1, FS_Interval
    <2> QED
      BY <2>1, <2>2 DEF n
  <1> QED
    BY <1>3, <1>4, FS_Surjection

-------------------------------------------------------------------------------
(* What a pump does *)

\* A pump that raises stops at a prefix that ends with the cancelled future; one that
\* meets none gets through.
LEMMA UpToFits ==
  ASSUME NEW C, NEW s \in Seq(C), IsInjective(s), NEW futures
  PROVE  /\ \E n \in Nat : n <= Len(s) /\ UpToCancelled(s, futures) = SubSeq(s, 1, n)
         /\ CancelledIn(UpToCancelled(s, futures), futures) = {} => UpToCancelled(s, futures) = s
  <1> DEFINE T == CancelledIn(s, futures)
             u == UpToCancelled(s, futures)
             n == Least(T)
  <1>1. Len(s) \in Nat /\ DOMAIN s = 1..Len(s)
    BY LenProperties
  <1>2. CASE T = {}
    <2>1. u = s
      BY <1>2 DEF UpToCancelled
    <2>2. SubSeq(s, 1, Len(s)) = s
      BY SubSeqFull
    <2>3. u = SubSeq(s, 1, Len(s)) /\ Len(s) <= Len(s)
      BY <1>1, <2>1, <2>2
    <2>4. \E m \in Nat : m <= Len(s) /\ u = SubSeq(s, 1, m)
      <3> HIDE DEF u
      <3> QED
        BY <1>1, <2>3
    <2> QED
      BY <2>1, <2>4
  <1>3. CASE T # {}
    <2>1. T \in SUBSET Nat /\ T \in SUBSET DOMAIN s
      BY <1>1 DEF CancelledIn
    <2>2. n \in T
      <3> HIDE DEF T
      <3> QED
        BY <1>3, <2>1, LeastIsLeast
    <2>3. n \in Nat /\ n <= Len(s) /\ n >= 1 /\ futures[s[n]] = "cancelled"
      BY <1>1, <2>1, <2>2 DEF CancelledIn
    <2>4. u = SubSeq(s, 1, n)
      BY <1>3 DEF UpToCancelled
    <2> HIDE DEF T, u, n
    <2>5. u \in Seq(C) /\ Len(u) = n /\ u[n] = s[n]
      BY <2>3, <2>4, PrefixFits
    <2>6. n \in DOMAIN u
      BY <2>3, <2>5, LenProperties
    <2>7. CancelledIn(u, futures) # {}
      BY <2>3, <2>5, <2>6 DEF CancelledIn
    <2> QED
      BY <2>3, <2>4, <2>7 DEF u
  <1> QED
    BY <1>2, <1>3

\* What a pump of the queue q does that refuses the waiters E and grants the waiters G.
PumpFits(P, q, held, futures, cap, E, G) ==
    /\ E \subseteq ToSet(q) /\ G \subseteq ToSet(q) /\ E \cap G = {}
    /\ E \subseteq overdue /\ G \cap overdue = {}
    /\ P.queue \in Seq(Connections) /\ IsInjective(P.queue)
    /\ ToSet(P.queue) = ToSet(q) \ (E \cup G)
    /\ P.settled \in Seq(Connections) /\ IsInjective(P.settled)
    /\ ToSet(P.settled) = E \cup G
    /\ P.leases \in [Clients -> Connections \cup {None}]
    /\ \A k \in Clients : \/ P.leases[k] \in G /\ ClientOf[P.leases[k]] = k
                          \/ P.leases[k] = held[k] /\ \A c \in G : ClientOf[c] # k
    /\ IsFiniteSet(Leased(P.leases))
    /\ G # {} => Cardinality(Leased(P.leases)) <= cap
    /\ P.promise \in [Connections -> Futures]
    /\ \A c \in Connections :
          P.promise[c] = IF futures[c] # "pending" THEN futures[c]
                         ELSE IF c \in E THEN "refused"
                         ELSE IF c \in G THEN "granted" ELSE "pending"
    /\ P.braked \in BOOLEAN /\ P.raised \in BOOLEAN
    /\ P.raised => \E c \in E \cup G : futures[c] = "cancelled"
    /\ \A i, j \in DOMAIN q : i < j /\ q[j] \in G => q[i] \in E \cup G

\* As many as there is room for are granted, so the leases stay within the capacity.
LEMMA RoomSuffices ==
  ASSUME NEW held \in [Clients -> Connections \cup {None}], IsFiniteSet(Leased(held)),
         NEW cap \in Nat, NEW G \in SUBSET Connections, IsFiniteSet(G),
         Cardinality(G) <= Room(held, cap),
         NEW grown \in [Clients -> Connections \cup {None}],
         \A k \in Clients : \/ grown[k] \in G /\ ClientOf[grown[k]] = k
                            \/ grown[k] = held[k] /\ \A c \in G : ClientOf[c] # k
  PROVE  /\ IsFiniteSet(Leased(grown))
         /\ G # {} => Cardinality(Leased(grown)) <= cap
  <1> DEFINE f == [c \in G |-> ClientOf[c]]
             T == {ClientOf[c] : c \in G}
  <1>1. f \in Surjection(G, T)
    BY DEF Surjection
  <1>2. IsFiniteSet(T) /\ Cardinality(T) <= Cardinality(G)
    BY <1>1, FS_Surjection
  <1>3. Leased(grown) \subseteq Leased(held) \cup T
    BY DEF Leased
  <1>4. Cardinality(Leased(held)) \in Nat /\ Cardinality(G) \in Nat /\ Cardinality(T) \in Nat
    BY <1>2, FS_CardinalityType
  <1> HIDE DEF f, T
  <1>5. /\ IsFiniteSet(Leased(held) \cup T)
        /\ Cardinality(Leased(held) \cup T) <= Cardinality(Leased(held)) + Cardinality(T)
    <2>1. IsFiniteSet(Leased(held) \cap T)
      BY <1>2, FS_Subset
    <2>2. Cardinality(Leased(held) \cap T) \in Nat
      BY <2>1, FS_CardinalityType
    <2>3. /\ IsFiniteSet(Leased(held) \cup T)
          /\ Cardinality(Leased(held) \cup T) =
               Cardinality(Leased(held)) + Cardinality(T) - Cardinality(Leased(held) \cap T)
      BY <1>2, FS_Union
    <2> QED
      BY <1>4, <2>2, <2>3
  <1>6. IsFiniteSet(Leased(grown)) /\ Cardinality(Leased(grown)) <= Cardinality(Leased(held) \cup T)
    BY <1>3, <1>5, FS_Subset
  <1>7. Cardinality(Leased(grown)) \in Nat /\ Cardinality(Leased(held) \cup T) \in Nat
    BY <1>5, <1>6, FS_CardinalityType
  <1>8. ASSUME G # {} PROVE Cardinality(Leased(grown)) <= cap
    <2>1. Cardinality(G) # 0
      BY <1>8, FS_EmptySet
    <2>2. Cardinality(G) + Cardinality(Leased(held)) <= cap
      BY <1>4, <2>1 DEF Room
    <2> QED
      BY <1>2, <1>4, <1>5, <1>6, <1>7, <2>2
  <1> QED
    BY <1>6, <1>8

LEMMA PumpDoes ==
  ASSUME NEW q \in Seq(Connections), IsInjective(q),
         NEW held \in [Clients -> Connections \cup {None}], IsFiniteSet(Leased(held)),
         NEW futures \in [Connections -> Futures],
         NEW cap \in Nat, NEW fitting \in Nat
  PROVE  \E E, G \in SUBSET Connections :
            PumpFits(Pump(q, held, futures, cap, fitting), q, held, futures, cap, E, G)
  <1> DEFINE P       == Pump(q, held, futures, cap, fitting)
             expired == UpToCancelled(Late(q), futures)
             rest    == Without(q, ToSet(expired))
             wanted  == IF Room(held, cap) < Len(rest) THEN Room(held, cap) ELSE Len(rest)
             raised  == CancelledIn(expired, futures) # {}
             braked  == ~raised /\ fitting < wanted
             m       == IF raised THEN 0 ELSE IF braked THEN fitting ELSE wanted
             granted == UpToCancelled(Popped(rest, m), futures)
             E       == ToSet(expired)
             G       == ToSet(granted)
  <1>0. P = [queue   |-> Without(rest, G),
             leases  |-> [k \in Clients |-> IF \E c \in G : ClientOf[c] = k
                                            THEN CHOOSE c \in G : ClientOf[c] = k ELSE held[k]],
             promise |-> [c \in Connections |->
                            IF futures[c] # "pending" THEN futures[c]
                            ELSE IF c \in E THEN "refused"
                            ELSE IF c \in G THEN "granted" ELSE "pending"],
             settled |-> expired \o granted,
             braked  |-> braked /\ CancelledIn(granted, futures) = {},
             raised  |-> CancelledIn(expired \o granted, futures) # {}]
    BY DEF Pump
  <1> HIDE DEF P, expired, rest, wanted, raised, braked, m, granted, E, G
  <1>1. P.queue = Without(rest, G)
    BY <1>0
  <1>2. P.leases = [k \in Clients |-> IF \E c \in G : ClientOf[c] = k
                                      THEN CHOOSE c \in G : ClientOf[c] = k ELSE held[k]]
    BY <1>0
  <1>3. P.promise = [c \in Connections |->
                        IF futures[c] # "pending" THEN futures[c]
                        ELSE IF c \in E THEN "refused"
                        ELSE IF c \in G THEN "granted" ELSE "pending"]
    BY <1>0
  <1>4. P.settled = expired \o granted
    BY <1>0
  <1>5. P.braked = (braked /\ CancelledIn(granted, futures) = {})
    BY <1>0
  <1>6. P.raised = (CancelledIn(expired \o granted, futures) # {})
    BY <1>0
  <1> USE DEF expired, rest, wanted, raised, braked, m, granted, E, G
  \* The expired waiters.
  <1>7. Late(q) \in Seq(Connections) /\ IsInjective(Late(q)) /\ ToSet(Late(q)) = ToSet(q) \cap overdue
    BY KeptFits DEF Late
  <1>8. expired \in Seq(Connections) /\ IsInjective(expired) /\ E \subseteq ToSet(q) \cap overdue
    <2>1. PICK n \in Nat : n <= Len(Late(q)) /\ expired = SubSeq(Late(q), 1, n)
      BY <1>7, UpToFits
    <2>2. /\ expired \in Seq(Connections) /\ IsInjective(expired)
          /\ E = {Late(q)[i] : i \in 1..n}
          /\ \A i \in 1..n : i \in DOMAIN Late(q)
      <3> HIDE DEF expired
      <3> QED
        BY <1>7, <2>1, PrefixFits
    <2> HIDE DEF expired, E
    <2>3. \A i \in 1..n : Late(q)[i] \in ToSet(Late(q))
      BY <2>2 DEF ToSet
    <2> QED
      BY <1>7, <2>2, <2>3
  <1>9. ~raised => E = ToSet(q) \cap overdue
    BY <1>7, UpToFits
  \* The others, and the head of them that is granted.
  <1> DEFINE S == ToSet(q) \ E
  <1>10. /\ rest \in Seq(Connections) /\ IsInjective(rest) /\ ToSet(rest) = ToSet(q) \ E
         /\ \A i, j \in DOMAIN q : i < j /\ q[i] \in S /\ q[j] \in S =>
              \E k, l \in DOMAIN rest : k < l /\ rest[k] = q[i] /\ rest[l] = q[j]
    <2>1. rest = Kept(q, S)
      BY DEF Without
    <2>2. ToSet(q) \cap S = ToSet(q) \ E
      OBVIOUS
    <2> HIDE DEF rest, S
    <2>3. /\ rest \in Seq(Connections) /\ IsInjective(rest) /\ ToSet(rest) = ToSet(q) \cap S
          /\ \A i, j \in DOMAIN q : i < j /\ q[i] \in S /\ q[j] \in S =>
               \E k, l \in DOMAIN rest : k < l /\ rest[k] = q[i] /\ rest[l] = q[j]
      BY <2>1, KeptFits
    <2> QED
      BY <2>2, <2>3
  <1> HIDE DEF expired
  <1>11. Cardinality(Leased(held)) \in Nat /\ Len(rest) \in Nat /\ Room(held, cap) \in Nat
    BY <1>10, FS_CardinalityType, LenProperties DEF Room
  <1>12. m \in Nat /\ m <= Len(rest) /\ m <= Room(held, cap) /\ (raised => m = 0)
    <2> HIDE DEF rest
    <2> QED
      BY <1>11
  <1> HIDE DEF rest, wanted, m
  <1>13. PICK n \in Nat : n <= m /\ granted = SubSeq(rest, 1, n)
    <2> DEFINE s == Popped(rest, m)
    <2>1. s \in Seq(Connections) /\ IsInjective(s) /\ Len(s) = m /\ \A i \in 1..m : s[i] = rest[i]
      BY <1>10, <1>12, PrefixFits DEF Popped
    <2> HIDE DEF s
    <2>2. PICK n \in Nat : n <= Len(s) /\ granted = SubSeq(s, 1, n)
      BY <2>1, UpToFits DEF s
    <2> HIDE DEF granted
    <2>3. granted \in Seq(Connections) /\ Len(granted) = n /\ \A i \in 1..n : granted[i] = s[i]
      BY <2>1, <2>2, PrefixFits
    <2>4. n <= m /\ n <= Len(rest)
      BY <1>11, <1>12, <2>1, <2>2
    <2>5. /\ SubSeq(rest, 1, n) \in Seq(Connections) /\ Len(SubSeq(rest, 1, n)) = n
          /\ \A i \in 1..n : SubSeq(rest, 1, n)[i] = rest[i]
      BY <1>10, <2>4, PrefixFits
    <2>6. \A i \in 1..n : granted[i] = SubSeq(rest, 1, n)[i]
      <3> SUFFICES ASSUME NEW i \in 1..n PROVE granted[i] = SubSeq(rest, 1, n)[i]
        OBVIOUS
      <3>1. i \in 1..m
        BY <1>12, <2>4
      <3>2. granted[i] = s[i] /\ SubSeq(rest, 1, n)[i] = rest[i]
        BY <2>3, <2>5
      <3>3. s[i] = rest[i]
        BY <2>1, <3>1
      <3> QED
        BY <3>2, <3>3
    <2>7. granted = SubSeq(rest, 1, n)
      BY <2>3, <2>5, <2>6, SeqEqual
    <2> QED
      BY <2>4, <2>7
  <1> HIDE DEF granted
  <1>14. n <= Len(rest) /\ n <= Room(held, cap) /\ (raised => n = 0)
    BY <1>11, <1>12, <1>13
  <1>15. /\ granted \in Seq(Connections) /\ IsInjective(granted) /\ Len(granted) = n
         /\ G = {rest[i] : i \in 1..n}
         /\ \A i \in 1..n : i \in DOMAIN rest
    BY <1>10, <1>13, <1>14, PrefixFits
  <1>16. G \subseteq ToSet(rest)
    <2> HIDE DEF G
    <2> QED
      BY <1>15 DEF ToSet
  <1>17. IsFiniteSet(G) /\ Cardinality(G) = n
    BY <1>15, LengthCounts
  <1> HIDE DEF E, G
  <1>18. E \subseteq ToSet(q) /\ G \subseteq ToSet(q) /\ E \cap G = {} /\ E \subseteq overdue
    BY <1>8, <1>10, <1>16
  <1>19. G \cap overdue = {}
    <2>1. CASE raised
      BY <1>14, <1>15, <2>1
    <2>2. CASE ~raised
      BY <1>9, <1>10, <1>16, <2>2
    <2> QED
      BY <2>1, <2>2
  <1>20. /\ P.queue \in Seq(Connections) /\ IsInjective(P.queue)
         /\ ToSet(P.queue) = ToSet(q) \ (E \cup G)
    <2>1. P.queue = Kept(rest, ToSet(rest) \ G)
      BY <1>1 DEF Without
    <2> QED
      BY <1>10, <2>1, KeptFits
  <1>21. /\ P.settled \in Seq(Connections) /\ IsInjective(P.settled)
         /\ ToSet(P.settled) = E \cup G
    BY <1>4, <1>8, <1>15, <1>18, JoinFits DEF E, G
  <1>22. /\ P.leases \in [Clients -> Connections \cup {None}]
         /\ \A k \in Clients : \/ P.leases[k] \in G /\ ClientOf[P.leases[k]] = k
                               \/ P.leases[k] = held[k] /\ \A c \in G : ClientOf[c] # k
    <2>1. \A k \in Clients : P.leases[k] = IF \E c \in G : ClientOf[c] = k
                                           THEN CHOOSE c \in G : ClientOf[c] = k ELSE held[k]
      BY <1>2
    <2>2. G \subseteq Connections
      BY <1>10, <1>16, ToSetIsPart
    <2>3. \A k \in Clients : \/ P.leases[k] \in G /\ ClientOf[P.leases[k]] = k
                             \/ P.leases[k] = held[k] /\ \A c \in G : ClientOf[c] # k
      <3> SUFFICES ASSUME NEW k \in Clients
                   PROVE  \/ P.leases[k] \in G /\ ClientOf[P.leases[k]] = k
                          \/ P.leases[k] = held[k] /\ \A c \in G : ClientOf[c] # k
        OBVIOUS
      <3> HIDE DEF G
      <3>1. CASE \E c \in G : ClientOf[c] = k
        BY <2>1, <3>1
      <3>2. CASE \A c \in G : ClientOf[c] # k
        BY <2>1, <3>2
      <3> QED
        BY <3>1, <3>2
    <2>4. \A k \in Clients : P.leases[k] \in Connections \cup {None}
      BY <2>2, <2>3
    <2> QED
      BY <1>2, <2>3, <2>4
  <1>23. IsFiniteSet(Leased(P.leases)) /\ (G # {} => Cardinality(Leased(P.leases)) <= cap)
    <2>1. G \in SUBSET Connections
      BY <1>10, <1>16, ToSetIsPart
    <2> QED
      BY <1>14, <1>17, <1>22, <2>1, RoomSuffices
  <1>24. /\ P.promise \in [Connections -> Futures]
         /\ \A c \in Connections :
              P.promise[c] = IF futures[c] # "pending" THEN futures[c]
                             ELSE IF c \in E THEN "refused"
                             ELSE IF c \in G THEN "granted" ELSE "pending"
    BY <1>3 DEF Futures
  <1>25. /\ P.braked \in BOOLEAN /\ P.raised \in BOOLEAN
         /\ P.raised => \E c \in E \cup G : futures[c] = "cancelled"
    <2>1. P.braked \in BOOLEAN /\ P.raised \in BOOLEAN
      BY <1>5, <1>6
    <2>2. ASSUME P.raised PROVE \E c \in E \cup G : futures[c] = "cancelled"
      <3>1. PICK i \in DOMAIN P.settled : futures[P.settled[i]] = "cancelled"
        BY <1>4, <1>6, <2>2 DEF CancelledIn
      <3>2. P.settled[i] \in ToSet(P.settled)
        BY DEF ToSet
      <3> QED
        BY <1>21, <3>1, <3>2
    <2> QED
      BY <2>1, <2>2
  <1>26. ASSUME NEW i \in DOMAIN q, NEW j \in DOMAIN q, i < j, q[j] \in G PROVE q[i] \in E \cup G
    <2> SUFFICES ASSUME q[i] \notin E PROVE q[i] \in G
      OBVIOUS
    <2>1. q[i] \in S /\ q[j] \in S
      BY <1>10, <1>16, <1>26 DEF ToSet
    <2>2. PICK k, l \in DOMAIN rest : k < l /\ rest[k] = q[i] /\ rest[l] = q[j]
      BY <1>10, <1>26, <2>1
    <2>3. l \in 1..n
      BY <1>10, <1>15, <1>26, <2>2 DEF IsInjective
    <2>4. k \in 1..n
      BY <1>10, <2>2, <2>3, LenProperties
    <2> QED
      BY <1>15, <2>2, <2>4
  <1>27. E \in SUBSET Connections /\ G \in SUBSET Connections
    BY <1>10, <1>16, <1>18, ToSetIsPart
  <1>28. PumpFits(P, q, held, futures, cap, E, G)
    BY <1>18, <1>19, <1>20, <1>21, <1>22, <1>23, <1>24, <1>25, <1>26 DEF PumpFits
  <1> QED
    BY <1>27, <1>28 DEF P

-------------------------------------------------------------------------------
(* The event loop's callbacks *)

\* A turn of the loop takes the callback it runs off the queue, whatever else it calls.
TurnTaken(kind, c) ==
    \A d \in Connections :
        /\ Called("decide", d)' => Called("decide", d) /\ ~(kind = "decide" /\ d = c)
        /\ Called("wake", d)' => Called("wake", d) /\ ~(kind = "wake" /\ d = c)

LEMMA ResumeFits ==
  ASSUME TypeOK, NEW c \in Connections,
         NEW s \in Seq(Callbacks), IsInjective(s),
         <<"resume", c>> \in ToSet(s) <=> <<"resume", c>> \in ToSet(ready)
  PROVE  /\ Resume(c) \in Seq(Callbacks) /\ IsInjective(Resume(c))
         /\ ToSet(Resume(c)) \subseteq {<<"resume", c>>}
         /\ ToSet(Resume(c)) \cap ToSet(s) = {}
         /\ s \o Resume(c) \in Seq(Callbacks) /\ IsInjective(s \o Resume(c))
         /\ ToSet(s \o Resume(c)) = ToSet(s) \cup {<<"resume", c>>}
  <1> DEFINE e == <<"resume", c>>
  <1>1. e \in Callbacks
    BY DEF Callbacks
  <1>2. CASE e \in ToSet(ready)
    <2>1. Resume(c) = <<>>
      BY <1>2 DEF Resume
    <2>2. /\ <<>> \in Seq(Callbacks) /\ ToSet(<<>>) = {} /\ IsInjective(<<>>)
          /\ s \o <<>> = s
      BY ConcatEmptySeq DEF ToSet, IsInjective
    <2> HIDE DEF e
    <2> QED
      BY <1>2, <2>1, <2>2 DEF e
  <1>3. CASE e \notin ToSet(ready)
    <2>1. Resume(c) = <<e>>
      BY <1>3 DEF Resume
    <2> HIDE DEF e
    <2>2. <<e>> \in Seq(Callbacks) /\ ToSet(<<e>>) = {e} /\ IsInjective(<<e>>)
      BY <1>1 DEF ToSet, IsInjective
    <2>3. e \notin ToSet(s)
      BY <1>3 DEF e
    <2>4. /\ s \o <<e>> \in Seq(Callbacks) /\ IsInjective(s \o <<e>>)
          /\ ToSet(s \o <<e>>) = ToSet(s) \cup {e}
      BY <2>2, <2>3, JoinFits
    <2> QED
      BY <2>1, <2>2, <2>3, <2>4 DEF e
  <1> QED
    BY <1>2, <1>3

\* What is left of the callbacks while one of them runs.
LEMMA HeadRuns ==
  ASSUME TypeOK, NEW c \in Connections, NEW kind, Runs(kind, c)
  PROVE  /\ Tail(ready) \in Seq(Callbacks) /\ IsInjective(Tail(ready))
         /\ ToSet(Tail(ready)) = ToSet(ready) \ {<<kind, c>>}
         /\ Called(kind, c)
  <1>1. ready \in Seq(Callbacks) /\ IsInjective(ready)
    BY DEF TypeOK, Callbacks
  <1> QED
    BY <1>1, TailFits DEF Runs, Called

LEMMA TurnWithResume ==
  ASSUME TypeOK, NEW c \in Connections, NEW kind \in {"decide", "wake"}, Runs(kind, c),
         ready' = Tail(ready) \o Resume(c)
  PROVE  /\ ready' \in Seq(Callbacks) /\ IsInjective(ready')
         /\ TurnTaken(kind, c) /\ Called(kind, c)
         /\ \A d \in Connections : Called("resume", d)' => Called("resume", d) \/ d = c
  <1>1. /\ Tail(ready) \in Seq(Callbacks) /\ IsInjective(Tail(ready))
        /\ ToSet(Tail(ready)) = ToSet(ready) \ {<<kind, c>>}
        /\ Called(kind, c)
    BY HeadRuns
  <1>2. <<"resume", c>> \in ToSet(Tail(ready)) <=> <<"resume", c>> \in ToSet(ready)
    BY <1>1
  <1>3. /\ ready' \in Seq(Callbacks) /\ IsInjective(ready')
        /\ ToSet(ready') = (ToSet(ready) \ {<<kind, c>>}) \cup {<<"resume", c>>}
    BY <1>1, <1>2, ResumeFits
  <1> QED
    BY <1>1, <1>3 DEF TurnTaken, Called

LEMMA TurnAlone ==
  ASSUME TypeOK, NEW c \in Connections, Runs("resume", c), ready' = Tail(ready)
  PROVE  /\ ready' \in Seq(Callbacks) /\ IsInjective(ready')
         /\ TurnTaken("resume", c) /\ Called("resume", c)
         /\ \A d \in Connections : Called("resume", d)' => Called("resume", d) /\ d # c
  <1>1. /\ Tail(ready) \in Seq(Callbacks) /\ IsInjective(Tail(ready))
        /\ ToSet(Tail(ready)) = ToSet(ready) \ {<<"resume", c>>}
        /\ Called("resume", c)
    BY HeadRuns
  <1> QED
    BY <1>1 DEF TurnTaken, Called

LEMMA WakesFit ==
  ASSUME NEW P, P.settled \in Seq(Connections), IsInjective(P.settled)
  PROVE  /\ Wakes(P) \in Seq(Callbacks) /\ IsInjective(Wakes(P))
         /\ \A x \in ToSet(Wakes(P)) : \E d \in ToSet(P.settled) :
               promise[d] = "pending" /\ decision[d] = "waiting" /\ x = <<"wake", d>>
  <1> DEFINE w == Woken(P)
             n == Len(w)
  <1>1. /\ w \in Seq(Connections) /\ IsInjective(w)
        /\ ToSet(w) = ToSet(P.settled) \cap
             {c \in Connections : promise[c] = "pending" /\ decision[c] = "waiting"}
    BY KeptFits DEF Woken
  <1>2. n \in Nat /\ DOMAIN w = 1..n /\ \A i \in 1..n : w[i] \in Connections
    BY <1>1, LenProperties, ElementOfSeq
  <1>3. Wakes(P) = [i \in 1..n |-> <<"wake", w[i]>>]
    BY DEF Wakes
  <1> HIDE DEF w, n
  <1>4. \A i \in 1..n : <<"wake", w[i]>> \in Callbacks
    BY <1>2 DEF Callbacks
  <1>5. Wakes(P) \in [1..n -> Callbacks]
    BY <1>3, <1>4
  <1>6. Wakes(P) \in Seq(Callbacks)
    BY <1>2, <1>5, IsASeqOf
  <1>7. IsInjective(Wakes(P))
    BY <1>1, <1>2, <1>3 DEF IsInjective
  <1>8. ASSUME NEW x \in ToSet(Wakes(P))
        PROVE \E d \in ToSet(P.settled) :
               promise[d] = "pending" /\ decision[d] = "waiting" /\ x = <<"wake", d>>
    <2>1. PICK i \in 1..n : x = <<"wake", w[i]>>
      BY <1>3, <1>8 DEF ToSet
    <2>2. w[i] \in ToSet(w)
      BY <1>2 DEF ToSet
    <2> QED
      BY <1>1, <2>1, <2>2
  <1> QED
    BY <1>6, <1>7, <1>8

\* What a step does that pumps the queue q, with these leases and futures: it refuses
\* the waiters E and grants the waiters G.
\* The callbacks are then some that were ready, the wakes of those it settled, and the
\* resumption of a handler.
Served(P, q, held, futures, cap, before, after, E, G) ==
    /\ PumpFits(P, q, held, futures, cap, E, G)
    /\ queue' = P.queue /\ leases' = P.leases /\ promise' = P.promise
    /\ ready' \in Seq(Callbacks) /\ IsInjective(ready')
    /\ \A d \in Connections :
          /\ Called("decide", d)' => <<"decide", d>> \in ToSet(before)
          /\ Called("wake", d)' => \/ <<"wake", d>> \in ToSet(before)
                                   \/ d \in E \cup G /\ promise[d] = "pending"
                                      /\ decision[d] = "waiting"
          /\ Called("resume", d)' => <<"resume", d>> \in ToSet(before) \cup ToSet(after)

\* What a pump is given, and what is called before and after whom it wakes.
PumpsOn(q, held, futures, cap, fitting) ==
    /\ q \in Seq(Connections) /\ IsInjective(q)
    /\ held \in [Clients -> Connections \cup {None}] /\ IsFiniteSet(Leased(held))
    /\ futures \in [Connections -> Futures] /\ cap \in Nat /\ fitting \in Nat
CallsFit(before, after) ==
    /\ before \in Seq(Callbacks) /\ IsInjective(before) /\ ToSet(before) \subseteq ToSet(ready)
    /\ after \in Seq(Callbacks) /\ IsInjective(after) /\ ToSet(after) \cap ToSet(before) = {}
    /\ \A x \in ToSet(after) : \E d \in Connections : x = <<"resume", d>>

LEMMA PumpedDoes ==
  ASSUME TypeOK, DecisionsFit,
         NEW q, NEW held, NEW futures, NEW cap, NEW fitting, NEW before, NEW after,
         PumpsOn(q, held, futures, cap, fitting), CallsFit(before, after),
         NEW P, P = Pump(q, held, futures, cap, fitting), Pumped(P, before, after)
  PROVE  \E E, G \in SUBSET Connections :
            Served(P, q, held, futures, cap, before, after, E, G)
  <1> USE DEF PumpsOn, CallsFit
  <1>1. PICK E, G \in SUBSET Connections : PumpFits(P, q, held, futures, cap, E, G)
    BY PumpDoes
  <1>2. P.settled \in Seq(Connections) /\ IsInjective(P.settled) /\ ToSet(P.settled) = E \cup G
    BY <1>1 DEF PumpFits
  <1> DEFINE w == Wakes(P)
  <1>3. /\ w \in Seq(Callbacks) /\ IsInjective(w)
        /\ \A x \in ToSet(w) : \E d \in E \cup G :
               promise[d] = "pending" /\ decision[d] = "waiting" /\ x = <<"wake", d>>
    BY <1>2, WakesFit
  <1>4. ToSet(before) \cap ToSet(w) = {}
    <2> SUFFICES ASSUME NEW x, x \in ToSet(before), x \in ToSet(w)
                 PROVE  FALSE
      OBVIOUS
    <2>1. PICK d \in E \cup G :
              promise[d] = "pending" /\ decision[d] = "waiting" /\ x = <<"wake", d>>
      BY <1>3
    <2>2. d \in Connections
      BY <1>1
    <2>3. <<"wake", d>> \in ToSet(ready)
      BY <2>1
    <2>4. Called("wake", d)
      BY <2>3 DEF Called
    <2>5. promise[d] # "pending"
      BY <2>2, <2>4 DEF DecisionsFit, DecisionFits
    <2> QED
      BY <2>1, <2>5
  <1>5. ready' = before \o w \o after
    BY DEF Pumped
  <1> HIDE DEF w
  <1>6. /\ before \o w \in Seq(Callbacks) /\ IsInjective(before \o w)
        /\ ToSet(before \o w) = ToSet(before) \cup ToSet(w)
    BY <1>3, <1>4, JoinFits
  <1>7. ToSet(before \o w) \cap ToSet(after) = {}
    BY <1>3, <1>6
  <1>8. /\ ready' \in Seq(Callbacks) /\ IsInjective(ready')
        /\ ToSet(ready') = ToSet(before) \cup ToSet(w) \cup ToSet(after)
    <2> DEFINE b == before \o w
    <2>1. ready' = b \o after /\ b \in Seq(Callbacks) /\ IsInjective(b)
      BY <1>5, <1>6
    <2>2. ToSet(b) = ToSet(before) \cup ToSet(w) /\ ToSet(b) \cap ToSet(after) = {}
      BY <1>6, <1>7
    <2> HIDE DEF b
    <2> QED
      BY <2>1, <2>2, JoinFits
  <1>9. queue' = P.queue /\ leases' = P.leases /\ promise' = P.promise
    BY DEF Pumped
  <1>10. ASSUME NEW d \in Connections
         PROVE /\ Called("decide", d)' => <<"decide", d>> \in ToSet(before)
               /\ Called("wake", d)' => \/ <<"wake", d>> \in ToSet(before)
                                        \/ d \in E \cup G /\ promise[d] = "pending"
                                           /\ decision[d] = "waiting"
               /\ Called("resume", d)' => <<"resume", d>> \in ToSet(before) \cup ToSet(after)
    BY <1>3, <1>8 DEF Called
  <1> QED
    BY <1>1, <1>8, <1>9, <1>10 DEF Served

-------------------------------------------------------------------------------
(* Steps without a pump *)

\* The invariants when a decision ends and nothing else changes.
LEMMA DecisionEnds ==
  ASSUME IInv, NEW c \in Connections, NEW kind \in {"decide", "wake"}, Runs(kind, c),
         NEW outcome \in {"granted", "refused", "cancelled"}, Decided(c, outcome),
         ready' = Tail(ready) \o Resume(c),
         UNCHANGED <<capacity, broker, overdue, doomed, handler, peers, hungUp, ticker>>,
         ~Waits(c),
         outcome = "granted" => promise[c] = "granted",
         outcome = "refused" => promise[c] \in {"none", "refused"},
         outcome = "cancelled" => c \in doomed \/ promise[c] = "cancelled"
  PROVE  IInv'
  <1> USE DEF IInv
  <1>1. /\ ready' \in Seq(Callbacks) /\ IsInjective(ready')
        /\ TurnTaken(kind, c) /\ Called(kind, c)
        /\ \A d \in Connections : Called("resume", d)' => Called("resume", d) \/ d = c
    BY TurnWithResume
  <1>2. /\ decision' \in [Connections -> {"none", "waiting", "granted", "refused", "cancelled",
                                          "failed"}]
        /\ decision'[c] = outcome
        /\ \A d \in Connections : d # c => decision'[d] = decision[d]
    BY DEF Decided, TypeOK
  <1>3. decision[c] \in {"none", "waiting"}
    BY <1>1 DEF DecisionsFit, DecisionFits
  <1>4. TypeOK'
    BY <1>1, <1>2 DEF TypeOK, broker, peers, Callbacks
  <1>5. WaitersFit'
    BY <1>2 DEF WaitersFit, broker, Waits
  <1>6. DecisionsFit'
    <2> SUFFICES ASSUME NEW d \in Connections PROVE DecisionFits(d)'
      BY DEF DecisionsFit
    <2>1. UNCHANGED <<queue, promise, doomed, handler>>
      BY DEF broker
    <2>2. CASE d # c
      BY <1>1, <1>2, <2>1, <2>2 DEF DecisionsFit, DecisionFits, TurnTaken, Waits
    <2>3. CASE d = c
      <3>1. ~Called("decide", c)' /\ ~Called("wake", c)'
        BY <1>1 DEF DecisionsFit, DecisionFits, TurnTaken
      <3>2. handler[c] # "new" /\ promise[c] # "pending"
        BY <1>1, <1>3 DEF DecisionsFit, DecisionFits
      <3> QED
        BY <1>2, <2>1, <2>3, <3>1, <3>2 DEF DecisionsFit, DecisionFits, Waits
    <2> QED
      BY <2>2, <2>3
  <1>7. LeasesFit'
    BY <1>2, <1>3 DEF LeasesFit, broker, Leased
  <1>8. PatienceFits'
    <2> SUFFICES ASSUME ~hasty' PROVE NothingIsCancelled'
      BY DEF PatienceFits
    <2>1. NothingIsCancelled
      BY DEF PatienceFits, peers
    <2>2. UNCHANGED <<promise, doomed, handler, gone, hungUp>>
      BY DEF broker, peers
    <2>3. outcome \in {"granted", "refused"}
      BY <2>1 DEF NothingIsCancelled
    <2> QED
      BY <1>1, <1>2, <2>1, <2>2, <2>3 DEF NothingIsCancelled
  <1>9. PatientPeersLeakNothing'
    BY DEF PatientPeersLeakNothing, Connected, broker, peers
  <1> QED
    BY <1>4, <1>5, <1>6, <1>7, <1>8, <1>9

LEMMA RefuseKeeps ==
  ASSUME IInv, NEW c \in Connections, Refuse(c)
  PROVE  IInv'
  <1>1. Called("decide", c)
    BY HeadRuns DEF IInv, Refuse
  <1>2. promise[c] = "none" /\ ~Waits(c)
    BY <1>1 DEF IInv, DecisionsFit, DecisionFits, WaitersFit
  <1> QED
    BY <1>2, DecisionEnds DEF Refuse

LEMMA DoomedEndsKeeps ==
  ASSUME IInv, NEW c \in Connections, DoomedEnds(c)
  PROVE  IInv'
  <1>1. ~Waits(c)
    BY DEF IInv, DoomedEnds, DecisionsFit, DecisionFits, WaitersFit
  <1>2. CASE Runs("decide", c)
    BY <1>1, <1>2, DecisionEnds DEF DoomedEnds
  <1>3. CASE Runs("wake", c)
    BY <1>1, <1>3, DecisionEnds DEF DoomedEnds
  <1> QED
    BY <1>2, <1>3 DEF DoomedEnds

LEMMA AnswerKeeps ==
  ASSUME IInv, NEW c \in Connections, Answer(c)
  PROVE  IInv'
  <1>1. ~Waits(c)
    BY DEF IInv, Answer, WaitersFit
  <1> DEFINE outcome == promise[c]
  <1>2. outcome \in {"granted", "refused"} /\ Decided(c, outcome) /\ Runs("wake", c)
    BY DEF Answer
  <1>3. /\ outcome = "granted" => promise[c] = "granted"
        /\ outcome = "refused" => promise[c] \in {"none", "refused"}
        /\ outcome \in {"granted", "refused", "cancelled"}
        /\ outcome # "cancelled"
    BY <1>2
  <1>4. /\ ready' = Tail(ready) \o Resume(c)
        /\ UNCHANGED <<capacity, broker, overdue, doomed, handler, peers, hungUp, ticker>>
    BY DEF Answer
  <1> HIDE DEF outcome
  <1> QED
    BY <1>1, <1>2, <1>3, <1>4, DecisionEnds

LEMMA AcceptKeeps ==
  ASSUME IInv, NEW c \in Connections, Accept(c)
  PROVE  IInv'
  <1> USE DEF IInv
  <1> DEFINE e == <<"decide", c>>
  <1>0. handler[c] = "new" /\ UNCHANGED <<capacity, leases, queue, promise, overdue, decision, doomed,
                                          gone, hasty, hungUp, ticker>>
    BY DEF Accept, broker, peers
  <1>1. /\ ready' \in Seq(Callbacks) /\ IsInjective(ready')
        /\ ToSet(ready') = ToSet(ready) \cup {e}
    <2>1. e \in Callbacks /\ e \notin ToSet(ready)
      BY <1>0 DEF Callbacks, DecisionsFit, DecisionFits, Called
    <2>2. ready \in Seq(Callbacks) /\ IsInjective(ready) /\ ready' = Append(ready, e)
      BY DEF TypeOK, Callbacks, Accept
    <2> HIDE DEF e
    <2> QED
      BY <2>1, <2>2, AppendFits
  <1>2. \A d \in Connections : /\ Called("decide", d)' => Called("decide", d) \/ d = c
                               /\ Called("wake", d)' => Called("wake", d)
                               /\ Called("resume", d)' => Called("resume", d)
    BY <1>1 DEF Called
  <1>3. /\ handler' \in [Connections -> {"new", "waiting", "cancelling", "serving", "closed"}]
        /\ handler'[c] = "waiting"
        /\ \A d \in Connections : d # c => handler'[d] = handler[d]
    BY DEF Accept, TypeOK
  <1>4. decision[c] = "none" /\ promise[c] = "none" /\ (c \notin gone \/ hasty)
    BY <1>0 DEF DecisionsFit, DecisionFits, PatienceFits, NothingIsCancelled
  <1>5. TypeOK'
    BY <1>0, <1>1, <1>3 DEF TypeOK, Callbacks
  <1>6. WaitersFit'
    BY <1>0 DEF WaitersFit, Waits
  <1>7. DecisionsFit'
    BY <1>0, <1>2, <1>3 DEF DecisionsFit, DecisionFits, Waits
  <1>8. LeasesFit'
    <2>1. promise[c] # "granted"
      BY <1>0 DEF DecisionsFit, DecisionFits
    <2> QED
      BY <1>0, <1>3, <2>1 DEF LeasesFit, Leased
  <1>9. PatienceFits'
    <2> SUFFICES ASSUME ~hasty PROVE NothingIsCancelled'
      BY <1>0 DEF PatienceFits
    <2>1. NothingIsCancelled /\ c \notin gone
      BY <1>4 DEF PatienceFits
    <2>2. ~Called("resume", c)'
      BY <1>0, <1>2, <2>1 DEF NothingIsCancelled, DecisionsFit, DecisionFits
    <2> QED
      BY <1>0, <1>2, <1>3, <2>1, <2>2 DEF NothingIsCancelled
  <1>10. PatientPeersLeakNothing'
    <2> SUFFICES ASSUME ~hasty PROVE Connected' /\ (queue' # <<>> => ticker')
      BY <1>0 DEF PatientPeersLeakNothing
    <2>1. \A k \in Clients : leases[k] # None =>
            leases[k] \in Connections /\ handler[leases[k]] \in {"waiting", "serving"}
      BY DEF PatientPeersLeakNothing, Connected, TypeOK
    <2> QED
      BY <1>0, <1>3, <2>1 DEF PatientPeersLeakNothing, Connected
  <1> QED
    BY <1>5, <1>6, <1>7, <1>8, <1>9, <1>10

LEMMA NoticeEofKeeps ==
  ASSUME IInv, NEW c \in Connections, NoticeEof(c)
  PROVE  IInv'
  <1> USE DEF IInv
  <1>0. /\ c \in gone /\ hungUp' = hungUp \cup {c}
        /\ UNCHANGED <<capacity, leases, queue, promise, overdue, decision, doomed, handler,
                       gone, hasty, ticker>>
    BY DEF NoticeEof, broker, peers
  <1>1. /\ ready' \in Seq(Callbacks) /\ IsInjective(ready')
        /\ \/ ToSet(ready') = ToSet(ready) \cup {<<"resume", c>>}
              /\ handler[c] \in {"waiting", "serving"}
           \/ ToSet(ready') = ToSet(ready)
    <2>1. ready \in Seq(Callbacks) /\ IsInjective(ready)
      BY DEF TypeOK, Callbacks
    <2>2. CASE handler[c] \in {"waiting", "serving"}
      <3>1. ready' = ready \o Resume(c)
        BY <2>2 DEF NoticeEof
      <3>2. /\ ready' \in Seq(Callbacks) /\ IsInjective(ready')
            /\ ToSet(ready') = ToSet(ready) \cup {<<"resume", c>>}
        BY <2>1, <3>1, ResumeFits
      <3> QED
        BY <2>2, <3>2
    <2>3. CASE handler[c] \notin {"waiting", "serving"}
      BY <2>1, <2>3 DEF NoticeEof
    <2> QED
      BY <2>2, <2>3
  <1>2. \A d \in Connections :
          /\ Called("decide", d)' => Called("decide", d)
          /\ Called("wake", d)' => Called("wake", d)
          /\ Called("resume", d)' => Called("resume", d) \/ (d = c /\ handler[c] # "new")
    <2>1. CASE ToSet(ready') = ToSet(ready)
      BY <2>1 DEF Called
    <2>2. CASE ToSet(ready') = ToSet(ready) \cup {<<"resume", c>>} /\ handler[c] # "new"
      BY <2>2 DEF Called
    <2> QED
      BY <1>1, <2>1, <2>2
  <1>5. TypeOK'
    BY <1>0, <1>1 DEF TypeOK, Callbacks
  <1>6. WaitersFit'
    BY <1>0 DEF WaitersFit, Waits
  <1>7. DecisionsFit'
    BY <1>0, <1>2 DEF DecisionsFit, DecisionFits, Waits
  <1>8. LeasesFit'
    BY <1>0 DEF LeasesFit, Leased
  <1>9. PatienceFits'
    BY <1>0, <1>2 DEF PatienceFits, NothingIsCancelled
  <1>10. PatientPeersLeakNothing'
    BY <1>0 DEF PatientPeersLeakNothing, Connected
  <1> QED
    BY <1>5, <1>6, <1>7, <1>8, <1>9, <1>10

LEMMA DeadlinePassesKeeps ==
  ASSUME IInv, NEW c \in Connections, DeadlinePasses(c)
  PROVE  IInv'
  <1> USE DEF IInv
  <1>0. /\ overdue' = overdue \cup {c}
        /\ UNCHANGED <<capacity, leases, queue, promise, decision, doomed, handler, ready,
                       gone, hungUp, hasty, ticker>>
    BY DEF DeadlinePasses, broker, peers
  <1>1. TypeOK'
    BY <1>0 DEF TypeOK
  <1>2. WaitersFit' /\ DecisionsFit' /\ LeasesFit'
    BY <1>0 DEF WaitersFit, DecisionsFit, DecisionFits, LeasesFit, Leased, Waits, Called
  <1>3. PatienceFits' /\ PatientPeersLeakNothing'
    BY <1>0 DEF PatienceFits, NothingIsCancelled, Called, PatientPeersLeakNothing, Connected
  <1> QED
    BY <1>1, <1>2, <1>3

LEMMA HangUpKeeps ==
  ASSUME IInv, NEW c \in Connections, HangUp(c)
  PROVE  IInv'
  <1> USE DEF IInv
  <1>0. /\ gone' = gone \cup {c} /\ hasty' = (hasty \/ handler[c] = "waiting")
        /\ handler[c] \in {"waiting", "serving"}
        /\ UNCHANGED <<capacity, leases, queue, promise, decision, doomed, handler, ready,
                       overdue, hungUp, ticker>>
    BY DEF HangUp, broker
  <1>1. TypeOK'
    BY <1>0 DEF TypeOK
  <1>2. WaitersFit' /\ DecisionsFit' /\ LeasesFit'
    BY <1>0 DEF WaitersFit, DecisionsFit, DecisionFits, LeasesFit, Leased, Waits, Called
  <1>3. ~hasty' => ~hasty /\ handler[c] = "serving"
    BY <1>0
  <1>4. PatienceFits' /\ PatientPeersLeakNothing'
    BY <1>0, <1>3 DEF PatienceFits, NothingIsCancelled, Called, PatientPeersLeakNothing, Connected
  <1> QED
    BY <1>1, <1>2, <1>4

\* A handler that changes without its decision, its future or the leases.
HandlerMoves(c, to) ==
    /\ handler[c] # "new" /\ to \notin {"new", "waiting"}
    /\ handler' = [handler EXCEPT ![c] = to]
    /\ ready' = Tail(ready)
    /\ UNCHANGED <<capacity, broker, overdue, decision, doomed, peers, hungUp, ticker>>

LEMMA HandlerMovesKeeps ==
  ASSUME IInv, NEW c \in Connections, Runs("resume", c),
         NEW to \in {"serving", "closed"}, HandlerMoves(c, to),
         to = "serving" => /\ handler[c] = "waiting" /\ decision[c] = "granted"
                           /\ promise[c] = "granted",
         to = "closed" => \/ handler[c] = "cancelling"
                          \/ decision[c] \in {"refused", "failed"}
                          \/ decision[c] = "granted" /\ c \in gone /\ handler[c] = "waiting"
  PROVE  IInv'
  <1> USE DEF IInv
  <1>0. /\ handler[c] # "new"
        /\ UNCHANGED <<capacity, leases, queue, promise, overdue, decision, doomed,
                       gone, hasty, hungUp, ticker>>
    BY DEF HandlerMoves, broker, peers
  <1>1. /\ ready' \in Seq(Callbacks) /\ IsInjective(ready')
        /\ \A d \in Connections :
              /\ Called("decide", d)' => Called("decide", d)
              /\ Called("wake", d)' => Called("wake", d)
              /\ Called("resume", d)' => Called("resume", d) /\ d # c
    BY TurnAlone DEF HandlerMoves, TurnTaken
  <1>3. /\ handler' \in [Connections -> {"new", "waiting", "cancelling", "serving", "closed"}]
        /\ handler'[c] = to
        /\ \A d \in Connections : d # c => handler'[d] = handler[d]
    BY DEF HandlerMoves, TypeOK
  <1>5. TypeOK'
    BY <1>0, <1>1, <1>3 DEF TypeOK, Callbacks
  <1>6. WaitersFit'
    BY <1>0 DEF WaitersFit, Waits
  <1>7. DecisionsFit'
    <2>1. to = "serving" => promise[c] # "cancelled"
      OBVIOUS
    <2> QED
      BY <1>0, <1>1, <1>3, <2>1 DEF DecisionsFit, DecisionFits, Waits
  <1>8. LeasesFit'
    BY <1>0, <1>3 DEF LeasesFit, Leased
  <1>9. ASSUME ~hasty PROVE NothingIsCancelled' /\ PatientPeersLeakNothing'
    <2>1. NothingIsCancelled /\ PatientPeersLeakNothing
      BY <1>9 DEF PatienceFits
    <2>2. to = "closed" => decision[c] = "refused"
      BY <2>1 DEF NothingIsCancelled
    <2>3. NothingIsCancelled'
      BY <1>0, <1>1, <1>3, <2>1, <2>2 DEF NothingIsCancelled
    <2>4. Connected /\ (queue # <<>> => ticker)
      BY <1>9, <2>1 DEF PatientPeersLeakNothing
    <2>5. to = "closed" => \A k \in Clients : leases[k] # c
      <3>1. to = "closed" => promise[c] \notin {"granted", "cancelled"}
        BY <2>1, <2>2 DEF DecisionsFit, DecisionFits, NothingIsCancelled
      <3> QED
        BY <3>1, NoneIsNoConnection DEF LeasesFit
    <2>6. Connected'
      <3> SUFFICES ASSUME NEW k \in Clients, leases[k] # None
                   PROVE handler'[leases[k]] \in {"waiting", "serving"}
        BY <1>0 DEF Connected
      <3>1. leases[k] \in Connections /\ handler[leases[k]] \in {"waiting", "serving"}
        BY <2>4 DEF Connected, TypeOK
      <3> QED
        BY <1>3, <2>5, <3>1
    <2> QED
      BY <1>0, <2>3, <2>4, <2>6 DEF PatientPeersLeakNothing
  <1>10. PatienceFits' /\ PatientPeersLeakNothing'
    BY <1>0, <1>9 DEF PatienceFits, PatientPeersLeakNothing
  <1> QED
    BY <1>5, <1>6, <1>7, <1>8, <1>10

LEMMA ServeKeeps ==
  ASSUME IInv, NEW c \in Connections, Serve(c)
  PROVE  IInv'
  <1>1. promise[c] = "granted" /\ handler[c] = "waiting" /\ decision[c] = "granted"
    BY DEF IInv, Serve, DecisionsFit, DecisionFits
  <1> DEFINE to == "serving"
  <1>2. HandlerMoves(c, to) /\ Runs("resume", c)
    BY <1>1 DEF Serve, HandlerMoves
  <1>3. to \in {"serving", "closed"} /\ to # "closed"
    OBVIOUS
  <1> HIDE DEF to
  <1> QED
    BY <1>1, <1>2, <1>3, HandlerMovesKeeps

LEMMA CloseKeeps ==
  ASSUME IInv, NEW c \in Connections, Close(c)
  PROVE  IInv'
  <1>1. \/ handler[c] = "cancelling"
        \/ decision[c] \in {"refused", "failed"}
        \/ decision[c] = "granted" /\ c \in gone /\ handler[c] = "waiting"
    BY DEF Close
  <1> DEFINE to == "closed"
  <1>2. HandlerMoves(c, to) /\ Runs("resume", c)
    BY DEF Close, HandlerMoves
  <1>3. to \in {"serving", "closed"} /\ to # "serving"
    OBVIOUS
  <1> HIDE DEF to
  <1> QED
    BY <1>1, <1>2, <1>3, HandlerMovesKeeps

LEMMA GiveUpKeeps ==
  ASSUME IInv, NEW c \in Connections, GiveUp(c)
  PROVE  IInv'
  <1> USE DEF IInv
  <1>0. /\ handler[c] = "waiting" /\ decision[c] \in {"none", "waiting"} /\ Runs("resume", c)
        /\ UNCHANGED <<capacity, leases, queue, overdue, decision, gone, hasty, hungUp, ticker>>
    BY DEF GiveUp, peers
  <1>1. /\ Tail(ready) \in Seq(Callbacks) /\ IsInjective(Tail(ready))
        /\ ToSet(Tail(ready)) = ToSet(ready) \ {<<"resume", c>>}
        /\ Called("resume", c)
    BY <1>0, HeadRuns
  <1>2. hasty
    BY <1>0, <1>1 DEF PatienceFits, NothingIsCancelled
  <1>3. /\ handler' \in [Connections -> {"new", "waiting", "cancelling", "serving", "closed"}]
        /\ handler'[c] = "cancelling"
        /\ \A d \in Connections : d # c => handler'[d] = handler[d]
    BY DEF GiveUp, TypeOK
  <1>4. PatienceFits' /\ PatientPeersLeakNothing'
    BY <1>0, <1>2 DEF PatienceFits, PatientPeersLeakNothing
  <1>5. promise[c] # "cancelled"
    BY <1>0 DEF DecisionsFit, DecisionFits
  <1>6. CASE promise[c] = "pending"
    <2> DEFINE e == <<"wake", c>>
    <2>0. /\ doomed' = doomed /\ promise' = [promise EXCEPT ![c] = "cancelled"]
          /\ ready' = Append(Tail(ready), e)
      BY <1>6 DEF GiveUp
    <2>1. /\ promise' \in [Connections -> {"none", "pending", "granted", "refused", "cancelled"}]
          /\ promise'[c] = "cancelled"
          /\ \A d \in Connections : d # c => promise'[d] = promise[d]
      BY <2>0 DEF TypeOK
    <2>2. decision[c] = "waiting" /\ Waits(c)
      BY <1>0, <1>6 DEF DecisionsFit, DecisionFits, WaitersFit
    <2>3. /\ ready' \in Seq(Callbacks) /\ IsInjective(ready')
          /\ ToSet(ready') = (ToSet(ready) \ {<<"resume", c>>}) \cup {e}
      <3>1. e \in Callbacks /\ e \notin ToSet(Tail(ready))
        BY <1>1, <1>6 DEF Callbacks, DecisionsFit, DecisionFits, Called
      <3> HIDE DEF e
      <3> QED
        <4> DEFINE b == Tail(ready)
        <4>1. b \in Seq(Callbacks) /\ IsInjective(b) /\ ready' = Append(b, e) /\ e \notin ToSet(b)
          BY <1>1, <2>0, <3>1
        <4> HIDE DEF b
        <4>2. ready' \in Seq(Callbacks) /\ IsInjective(ready') /\ ToSet(ready') = ToSet(b) \cup {e}
          BY <3>1, <4>1, AppendFits
        <4> QED
          BY <1>1, <4>2 DEF b
    <2>4. \A d \in Connections : /\ Called("decide", d)' => Called("decide", d)
                                 /\ Called("wake", d)' => Called("wake", d) \/ d = c
                                 /\ Called("resume", d)' => Called("resume", d)
      BY <2>3 DEF Called
    <2>5. TypeOK'
      BY <1>0, <1>3, <2>0, <2>1, <2>3 DEF TypeOK, Callbacks
    <2>6. WaitersFit'
      BY <1>0, <2>1 DEF WaitersFit, Waits
    <2>7. DecisionsFit'
      <3>1. c \notin doomed /\ decision[c] # "none" /\ ~Called("decide", c)
        BY <1>6, <2>2 DEF DecisionsFit, DecisionFits
      <3> QED
        BY <1>0, <1>3, <2>0, <2>1, <2>2, <2>4, <3>1 DEF DecisionsFit, DecisionFits, Waits
    <2>8. LeasesFit'
      <3>1. \A k \in Clients : leases[k] # None =>
              leases[k] \in Connections /\ leases[k] # c /\ promise'[leases[k]] = promise[leases[k]]
        BY <1>6, <2>1 DEF LeasesFit, TypeOK
      <3> QED
        BY <1>0, <1>3, <2>1, <3>1 DEF LeasesFit, Leased
    <2> QED
      BY <1>4, <2>5, <2>6, <2>7, <2>8
  <1>7. CASE promise[c] # "pending"
    <2>0. /\ doomed' = doomed \cup {c} /\ promise' = promise /\ ready' = Tail(ready)
      BY <1>7 DEF GiveUp
    <2>3. /\ ready' \in Seq(Callbacks) /\ IsInjective(ready')
          /\ ToSet(ready') = ToSet(ready) \ {<<"resume", c>>}
      BY <1>1, <2>0
    <2>4. \A d \in Connections : /\ Called("decide", d)' => Called("decide", d)
                                 /\ Called("wake", d)' => Called("wake", d)
                                 /\ Called("resume", d)' => Called("resume", d)
      BY <2>3 DEF Called
    <2>5. TypeOK'
      BY <1>0, <1>3, <2>0, <2>3 DEF TypeOK, Callbacks
    <2>6. WaitersFit'
      BY <1>0, <2>0 DEF WaitersFit, Waits
    <2>7. DecisionsFit'
      BY <1>0, <1>3, <1>5, <1>7, <2>0, <2>4 DEF DecisionsFit, DecisionFits, Waits
    <2>8. LeasesFit'
      BY <1>0, <1>3, <2>0 DEF LeasesFit, Leased
    <2> QED
      BY <1>4, <2>5, <2>6, <2>7, <2>8
  <1> QED
    BY <1>6, <1>7

-------------------------------------------------------------------------------
(* Steps with a pump *)

\* The waiters of the queue q, and the leases, as a pump takes them.
QueueFits(q, held, futures) ==
    \A c \in Connections : c \in ToSet(q) =>
        /\ futures[c] \in {"pending", "cancelled"}
        /\ held[ClientOf[c]] = None
        /\ \A d \in Connections : d \in ToSet(q) /\ ClientOf[d] = ClientOf[c] => d = c

HeldFits(held, futures) ==
    \A k \in Clients : held[k] # None =>
        ClientOf[held[k]] = k /\ futures[held[k]] \in {"granted", "cancelled"}

\* They are the same after it, with the grants among the leases.
\* The broker as a pump may find it: nobody who waits is missing in the queue, and
\* who is told of a grant holds the lease.
BrokerFits(q, held, futures) ==
    /\ q \in Seq(Connections) /\ held \in [Clients -> Connections \cup {None}]
    /\ futures \in [Connections -> Futures]
    /\ QueueFits(q, held, futures) /\ HeldFits(held, futures)
    /\ \A c \in Connections : futures[c] = "pending" => c \in ToSet(q)
    /\ \A c \in Connections :
          futures[c] = "granted" /\ handler'[c] \in {"waiting", "serving"} => held[ClientOf[c]] = c

LEMMA ServedFits ==
  ASSUME NEW q, NEW held, NEW futures, NEW cap, NEW P, NEW before, NEW after,
         NEW E \in SUBSET Connections, NEW G \in SUBSET Connections,
         Served(P, q, held, futures, cap, before, after, E, G), BrokerFits(q, held, futures)
  PROVE  /\ \A c \in Connections :
              \/ promise'[c] = futures[c] /\ (futures[c] = "pending" => c \notin E \cup G)
              \/ /\ futures[c] = "pending" /\ c \in E \cup G
                 /\ promise'[c] = IF c \in E THEN "refused" ELSE "granted"
         /\ \A c \in Connections : promise'[c] = "pending" => c \in ToSet(queue')
         /\ \A c \in Connections : c \in ToSet(queue') => c \in ToSet(q) /\ c \notin E \cup G
         /\ QueueFits(queue', leases', promise') /\ HeldFits(leases', promise')
         /\ \A c \in Connections :
              promise'[c] = "granted" /\ handler'[c] \in {"waiting", "serving"}
                => leases'[ClientOf[c]] = c
  <1> USE DEF BrokerFits
  <1>1. /\ E \subseteq ToSet(q) /\ G \subseteq ToSet(q) /\ E \cap G = {}
        /\ ToSet(queue') = ToSet(q) \ (E \cup G)
        /\ \A k \in Clients : \/ leases'[k] \in G /\ ClientOf[leases'[k]] = k
                              \/ leases'[k] = held[k] /\ \A c \in G : ClientOf[c] # k
        /\ \A c \in Connections :
              promise'[c] = IF futures[c] # "pending" THEN futures[c]
                             ELSE IF c \in E THEN "refused"
                             ELSE IF c \in G THEN "granted" ELSE "pending"
    BY DEF Served, PumpFits
  <1>2. \A c \in Connections :
              \/ promise'[c] = futures[c] /\ (futures[c] = "pending" => c \notin E \cup G)
              \/ /\ futures[c] = "pending" /\ c \in E \cup G
                 /\ promise'[c] = IF c \in E THEN "refused" ELSE "granted"
    BY <1>1
  <1>3. \A c \in Connections : promise'[c] = "pending" => c \in ToSet(queue')
    BY <1>1
  <1>4. \A c \in Connections : c \in ToSet(queue') => c \in ToSet(q) /\ c \notin E \cup G
    BY <1>1
  <1>5. ASSUME NEW c \in Connections, c \in ToSet(queue')
        PROVE  /\ promise'[c] \in {"pending", "cancelled"}
               /\ leases'[ClientOf[c]] = None
               /\ \A d \in Connections : d \in ToSet(queue') /\ ClientOf[d] = ClientOf[c] => d = c
    <2>1. /\ futures[c] \in {"pending", "cancelled"} /\ held[ClientOf[c]] = None
          /\ \A d \in Connections : d \in ToSet(q) /\ ClientOf[d] = ClientOf[c] => d = c
          /\ c \in ToSet(q) /\ c \notin E \cup G
      BY <1>4, <1>5 DEF QueueFits
    <2>2. promise'[c] = futures[c]
      BY <1>2, <2>1
    <2>3. leases'[ClientOf[c]] = None
      <3>1. ClientOf[c] \in Clients
        BY ClientOfIsTotal
      <3>2. ~ (leases'[ClientOf[c]] \in G /\ ClientOf[leases'[ClientOf[c]]] = ClientOf[c])
        BY <1>1, <2>1
      <3> QED
        BY <1>1, <2>1, <3>1, <3>2
    <2> QED
      BY <1>4, <2>1, <2>2, <2>3
  <1>6. ASSUME NEW k \in Clients, leases'[k] # None
        PROVE  ClientOf[leases'[k]] = k /\ promise'[leases'[k]] \in {"granted", "cancelled"}
    <2>1. CASE leases'[k] \in G /\ ClientOf[leases'[k]] = k
      <3> DEFINE d == leases'[k]
      <3>1. d \in Connections /\ d \in ToSet(q) /\ d \in G /\ d \notin E
        BY <1>1, <2>1
      <3>2. futures[d] \in {"pending", "cancelled"}
        BY <3>1 DEF QueueFits
      <3> HIDE DEF d
      <3>3. promise'[d] \in {"granted", "cancelled"}
        BY <1>1, <3>1, <3>2
      <3> QED
        BY <2>1, <3>3 DEF d
    <2>2. CASE leases'[k] = held[k]
      <3> DEFINE d == leases'[k]
      <3>1. d \in Connections /\ ClientOf[d] = k /\ futures[d] \in {"granted", "cancelled"}
        BY <1>6, <2>2 DEF HeldFits
      <3> HIDE DEF d
      <3>2. promise'[d] = futures[d]
        BY <1>2, <3>1
      <3> QED
        BY <3>1, <3>2 DEF d
    <2> QED
      BY <1>1, <2>1, <2>2
  <1>7. ASSUME NEW c \in Connections, promise'[c] = "granted", handler'[c] \in {"waiting", "serving"}
        PROVE  leases'[ClientOf[c]] = c
    <2>0. ClientOf[c] \in Clients
      BY ClientOfIsTotal
    <2>1. CASE c \in G
      <3>1. leases'[ClientOf[c]] \in G /\ ClientOf[leases'[ClientOf[c]]] = ClientOf[c]
        BY <1>1, <2>0, <2>1
      <3> QED
        BY <1>1, <2>1, <3>1 DEF QueueFits
    <2>2. CASE c \notin G
      <3>1. futures[c] = "granted"
        BY <1>2, <1>7, <2>2
      <3>2. held[ClientOf[c]] = c
        BY <1>7, <3>1
      <3>3. \A d \in G : ClientOf[d] # ClientOf[c]
        BY <1>1, <3>2, NoneIsNoConnection DEF QueueFits
      <3> QED
        BY <1>1, <2>0, <3>2, <3>3
    <2> QED
      BY <2>1, <2>2
  <1>8. QueueFits(queue', leases', promise')
    BY <1>5 DEF QueueFits
  <1>9. HeldFits(leases', promise')
    BY <1>6 DEF HeldFits
  <1> QED
    BY <1>2, <1>3, <1>4, <1>7, <1>8, <1>9

\* The invariants as a pump finds them in the state.
LEMMA PumpFinds ==
  ASSUME IInv
  PROVE  /\ queue \in Seq(Connections) /\ IsInjective(queue)
         /\ leases \in [Clients -> Connections \cup {None}] /\ IsFiniteSet(Leased(leases))
         /\ promise \in [Connections -> Futures] /\ capacity \in Nat
         /\ ready \in Seq(Callbacks) /\ IsInjective(ready)
         /\ QueueFits(queue, leases, promise) /\ HeldFits(leases, promise)
         /\ \A c \in Connections : promise[c] = "pending" => c \in ToSet(queue)
         /\ \A c \in Connections :
              promise[c] = "granted" /\ handler[c] \in {"waiting", "serving"}
                => leases[ClientOf[c]] = c
  <1>1. capacity \in Nat
    BY CapacityIsPositive DEF IInv, TypeOK
  <1>2. QueueFits(queue, leases, promise) /\ HeldFits(leases, promise)
    BY DEF IInv, WaitersFit, LeasesFit, QueueFits, HeldFits, Waits
  <1> QED
    BY <1>1, <1>2 DEF IInv, TypeOK, LeasesFit, DecisionsFit, DecisionFits, Waits, Callbacks, Futures

\* While nobody has left early, whoever waits has a handler that does.
LEMMA PatientWaitersAreHandled ==
  ASSUME IInv, ~hasty, NEW c \in Connections, Waits(c)
  PROVE  handler[c] = "waiting" /\ promise[c] = "pending" /\ decision[c] = "waiting"
  <1>1. NothingIsCancelled /\ c \in Connections
    BY DEF IInv, PatienceFits
  <1>2. promise[c] = "pending" /\ decision[c] = "waiting"
    BY <1>1 DEF IInv, WaitersFit, NothingIsCancelled
  <1>3. handler[c] \notin {"new", "cancelling", "closed", "serving"}
    BY <1>1, <1>2 DEF IInv, DecisionsFit, DecisionFits, LeasesFit, NothingIsCancelled
  <1> QED
    BY <1>2, <1>3 DEF IInv, TypeOK

\* What a step may do about leases, queue and grants: lease within the capacity, leave
\* nobody behind who waits for longer than one it grants, and grant nobody too late.
LeasesWithin == \A k \in Clients :
    leases[k] = None /\ leases'[k] # None => Cardinality(Leased(leases')) <= capacity'
ServesInOrder == \A i, j \in DOMAIN queue :
    /\ i < j
    /\ promise[queue[j]] = "pending"
    /\ promise'[queue[j]] = "granted"
    => queue[i] \notin ToSet(queue')
GrantsInTime == \A c \in Connections :
    promise[c] = "pending" /\ promise'[c] = "granted" => c \notin overdue
GrantsInTurn == LeasesWithin /\ ServesInOrder /\ GrantsInTime

\* Who is in both queues is in the same order in both.
KeepsOrder(q) ==
    \A i, j \in DOMAIN queue : i < j /\ queue[i] \in ToSet(q) /\ queue[j] \in ToSet(q) =>
        \E k, l \in DOMAIN q : k < l /\ q[k] = queue[i] /\ q[l] = queue[j]

LEMMA ServedInTurn ==
  ASSUME queue \in Seq(Connections), NEW q, KeepsOrder(q),
         NEW held, \A k \in Clients : held[k] = leases[k] \/ held[k] = None,
         NEW futures, \A c \in Connections : promise[c] = "pending" => futures[c] = "pending",
         NEW E \in SUBSET Connections, NEW G \in SUBSET Connections, NEW P,
         NEW before, NEW after,
         Served(P, q, held, futures, capacity', before, after, E, G)
  PROVE  GrantsInTurn
  <1>1. /\ G \subseteq ToSet(q) /\ ToSet(queue') = ToSet(q) \ (E \cup G) /\ G \cap overdue = {}
        /\ \A k \in Clients : leases'[k] \in G \/ leases'[k] = held[k]
        /\ G # {} => Cardinality(Leased(leases')) <= capacity'
        /\ \A c \in Connections : promise'[c] = IF futures[c] # "pending" THEN futures[c]
                                                ELSE IF c \in E THEN "refused"
                                                ELSE IF c \in G THEN "granted" ELSE "pending"
        /\ \A i, j \in DOMAIN q : i < j /\ q[j] \in G => q[i] \in E \cup G
    BY DEF Served, PumpFits
  <1>2. \A c \in Connections : promise[c] = "pending" /\ promise'[c] = "granted" => c \in G
    BY <1>1
  <1>3. LeasesWithin
    <2> SUFFICES ASSUME NEW k \in Clients, leases[k] = None, leases'[k] # None
                 PROVE Cardinality(Leased(leases')) <= capacity'
      BY DEF LeasesWithin
    <2>1. G # {}
      BY <1>1
    <2> QED
      BY <1>1, <2>1
  <1>4. ServesInOrder
    <2> SUFFICES ASSUME NEW i \in DOMAIN queue, NEW j \in DOMAIN queue, i < j,
                        promise[queue[j]] = "pending", promise'[queue[j]] = "granted",
                        queue[i] \in ToSet(queue')
                 PROVE FALSE
      BY DEF ServesInOrder
    <2>1. queue[j] \in G
      BY <1>2, LenProperties, ElementOfSeq
    <2>2. queue[i] \in ToSet(q) /\ queue[i] \notin E \cup G /\ queue[j] \in ToSet(q)
      BY <1>1, <2>1
    <2>3. PICK k, l \in DOMAIN q : k < l /\ q[k] = queue[i] /\ q[l] = queue[j]
      BY <2>2 DEF KeepsOrder
    <2> QED
      BY <1>1, <2>1, <2>2, <2>3
  <1>5. GrantsInTime
    BY <1>1, <1>2 DEF GrantsInTime
  <1> QED
    BY <1>3, <1>4, <1>5 DEF GrantsInTurn

\* The parts of the invariants that hold after any pump.
\* What the tasks are left with while the broker pumps.
TasksStand ==
    /\ UNCHANGED <<overdue, doomed, peers, hungUp>>
    /\ capacity' \in 1..MaxCapacity /\ ticker' \in BOOLEAN
    /\ decision' \in [Connections -> {"none", "waiting", "granted", "refused", "cancelled",
                                      "failed"}]
    /\ handler' \in [Connections -> {"new", "waiting", "cancelling", "serving", "closed"}]
    /\ \A c \in Connections : c \in ToSet(queue') => decision'[c] \in {"waiting", "failed"}
    /\ \A c \in Connections : handler'[c] = "serving" => decision'[c] = "granted"

LEMMA ServedKeeps ==
  ASSUME IInv, TasksStand,
         NEW q, NEW held, NEW futures, NEW cap, NEW P, NEW before, NEW after,
         NEW E \in SUBSET Connections, NEW G \in SUBSET Connections,
         Served(P, q, held, futures, cap, before, after, E, G), BrokerFits(q, held, futures)
  PROVE  TypeOK' /\ WaitersFit' /\ LeasesFit'
  <1>1. TypeOK'
    <2>1. /\ queue' \in Seq(Connections) /\ IsInjective(queue')
          /\ leases' \in [Clients -> Connections \cup {None}]
          /\ promise' \in [Connections -> Futures]
          /\ ready' \in Seq(Callbacks) /\ IsInjective(ready')
      BY DEF Served, PumpFits
    <2>2. UNCHANGED <<overdue, doomed, gone, hasty, hungUp>>
      BY DEF peers, TasksStand
    <2> QED
      BY <2>1, <2>2 DEF IInv, TypeOK, Callbacks, Futures, TasksStand
  <1>2. /\ QueueFits(queue', leases', promise') /\ HeldFits(leases', promise')
        /\ \A c \in Connections :
              promise'[c] = "granted" /\ handler'[c] \in {"waiting", "serving"}
                => leases'[ClientOf[c]] = c
    BY ServedFits
  <1>3. WaitersFit'
    BY <1>2 DEF WaitersFit, QueueFits, Waits, TasksStand
  <1>4. IsFiniteSet(Leased(leases'))
    BY DEF Served, PumpFits
  <1>5. LeasesFit'
    <2>1. IsFiniteSet(Leased(leases))'
      BY <1>4 DEF Leased
    <2> QED
      BY <1>2, <2>1 DEF LeasesFit, HeldFits, TasksStand
  <1> QED
    BY <1>1, <1>3, <1>5

\* What a pump leaves of a connection whose tasks do not change.
LEMMA ServedLeavesFit ==
  ASSUME IInv,
         NEW d \in Connections, DecisionFits(d),
         UNCHANGED <<decision[d], handler[d], doomed>>,
         NEW E \in SUBSET Connections, NEW G \in SUBSET Connections,
         promise'[d] = promise[d] \/ (promise[d] = "pending" /\ promise'[d] \in {"refused", "granted"}),
         promise'[d] = "pending" => d \in ToSet(queue'),
         Called("decide", d)' => Called("decide", d),
         Called("resume", d)' => Called("resume", d),
         Called("wake", d)' => \/ Called("wake", d)
                               \/ /\ d \in E \cup G /\ promise[d] = "pending"
                                  /\ decision[d] = "waiting" /\ promise'[d] # "pending"
  PROVE  DecisionFits(d)'
  <1>1. promise[d] = "pending" => decision[d] \in {"waiting", "failed"}
    BY DEF IInv, DecisionFits, WaitersFit
  <1> QED
    BY <1>1 DEF DecisionFits, Waits

\* Waiting is being in the queue.
LEMMA SomebodyWaits ==
  ASSUME NEW C, NEW s \in Seq(C)
  PROVE  s # <<>> <=> ToSet(s) # {}
  <1>1. Len(s) \in Nat /\ DOMAIN s = 1..Len(s)
    BY LenProperties
  <1>2. ASSUME s # <<>> PROVE ToSet(s) # {}
    <2>1. Len(s) # 0
      BY <1>1, <1>2, EmptySeq
    <2>2. 1 \in DOMAIN s
      BY <1>1, <2>1
    <2> QED
      BY <2>2 DEF ToSet
  <1>3. ASSUME s = <<>> PROVE ToSet(s) = {}
    BY <1>3 DEF ToSet
  <1> QED
    BY <1>2, <1>3

\* A pump of the queue as it is, by nobody's turn.
LEMMA PumpAloneKeeps ==
  ASSUME IInv, NEW fitting \in Nat, capacity' \in 1..MaxCapacity,
         NEW P, P = Pump(queue, leases, promise, capacity', fitting), Pumped(P, ready, <<>>),
         ticker' \in BOOLEAN, ticker /\ ~P.raised /\ P.queue # <<>> => ticker',
         UNCHANGED <<overdue, decision, doomed, handler, peers, hungUp>>
  PROVE  IInv' /\ GrantsInTurn
  <1>0. capacity' \in Nat
    BY CapacityIsPositive
  <1>1. /\ queue \in Seq(Connections) /\ IsInjective(queue)
        /\ leases \in [Clients -> Connections \cup {None}] /\ IsFiniteSet(Leased(leases))
        /\ promise \in [Connections -> Futures] /\ capacity \in Nat
        /\ ready \in Seq(Callbacks) /\ IsInjective(ready)
        /\ QueueFits(queue, leases, promise) /\ HeldFits(leases, promise)
        /\ \A c \in Connections : promise[c] = "pending" => c \in ToSet(queue)
        /\ \A c \in Connections :
              promise[c] = "granted" /\ handler[c] \in {"waiting", "serving"}
                => leases[ClientOf[c]] = c
    BY PumpFinds
  <1>2. <<>> \in Seq(Callbacks) /\ IsInjective(<<>>) /\ ToSet(<<>>) = {}
    BY DEF IsInjective, ToSet
  <1>3. PICK E, G \in SUBSET Connections :
            Served(P, queue, leases, promise, capacity', ready, <<>>, E, G)
    <2>1. PumpsOn(queue, leases, promise, capacity', fitting)
      BY <1>0, <1>1 DEF PumpsOn
    <2>2. CallsFit(ready, <<>>)
      BY <1>1, <1>2 DEF CallsFit
    <2> QED
      BY <2>1, <2>2, PumpedDoes DEF IInv
  <1>4. \A d \in Connections :
           /\ Called("decide", d)' => Called("decide", d)
           /\ Called("wake", d)' => \/ Called("wake", d)
                                    \/ d \in E \cup G /\ promise[d] = "pending"
                                       /\ decision[d] = "waiting"
           /\ Called("resume", d)' => Called("resume", d)
    BY <1>2, <1>3 DEF Called, Served
  <1>5. \A d \in Connections :
           /\ promise'[d] = promise[d]
                 \/ (promise[d] = "pending" /\ promise'[d] \in {"refused", "granted"})
           /\ promise[d] = "pending" /\ d \in E \cup G => promise'[d] # "pending"
           /\ d \in E \cup G => Waits(d)
           /\ d \in ToSet(queue') => Waits(d)
           /\ P.raised => \E x \in E \cup G : promise[x] = "cancelled"
           /\ P.raised \in BOOLEAN /\ P.braked \in BOOLEAN
    BY <1>3 DEF Served, PumpFits, Waits
  <1>6. \A c \in Connections : promise'[c] = "pending" => c \in ToSet(queue')
    <2>1. \A c \in Connections :
              promise[c] = "granted" /\ handler'[c] \in {"waiting", "serving"}
                => leases[ClientOf[c]] = c
      BY <1>1
    <2>2. BrokerFits(queue, leases, promise)
      BY <1>1, <2>1 DEF BrokerFits
    <2> QED
      BY <1>3, <2>2, ServedFits
  <1>7. TypeOK' /\ WaitersFit' /\ LeasesFit'
    <2>1. \A c \in Connections : c \in ToSet(queue') => decision'[c] \in {"waiting", "failed"}
      BY <1>5 DEF IInv, WaitersFit
    <2>2. \A c \in Connections : handler'[c] = "serving" => decision'[c] = "granted"
      BY DEF IInv, LeasesFit
    <2>3. /\ decision' = decision /\ handler' = handler
          /\ \A c \in Connections :
                promise[c] = "granted" /\ handler'[c] \in {"waiting", "serving"}
                  => leases[ClientOf[c]] = c
      BY <1>1
    <2>4. /\ decision' \in [Connections -> {"none", "waiting", "granted", "refused", "cancelled",
                                            "failed"}]
          /\ handler' \in [Connections -> {"new", "waiting", "cancelling", "serving", "closed"}]
      BY <2>3 DEF IInv, TypeOK
    <2> QED
      <3>1. BrokerFits(queue, leases, promise)
        BY <1>1, <2>3 DEF BrokerFits
      <3>2. TasksStand
        BY <2>1, <2>2, <2>4 DEF TasksStand
      <3> QED
        BY <1>3, <3>1, <3>2, ServedKeeps
  <1>8. DecisionsFit'
    <2> SUFFICES ASSUME NEW d \in Connections PROVE DecisionFits(d)'
      BY DEF DecisionsFit
    <2>1. DecisionFits(d)
      BY DEF IInv, DecisionsFit
    <2> QED
      BY <1>4, <1>5, <1>6, <2>1, ServedLeavesFit
  <1>9. PatienceFits'
    BY <1>4, <1>5 DEF IInv, PatienceFits, NothingIsCancelled, peers
  <1>10. PatientPeersLeakNothing'
    <2> SUFFICES ASSUME ~hasty PROVE Connected' /\ (queue' # <<>> => ticker')
      BY DEF PatientPeersLeakNothing, peers
    <2>1. Connected /\ (queue # <<>> => ticker) /\ NothingIsCancelled
      BY DEF IInv, PatientPeersLeakNothing, PatienceFits
    <2>2. Connected'
      <3> SUFFICES ASSUME NEW k \in Clients, leases'[k] # None
                   PROVE handler[leases'[k]] \in {"waiting", "serving"}
        BY DEF Connected
      <3>1. leases'[k] \in G \/ leases'[k] = leases[k]
        BY <1>3 DEF Served, PumpFits
      <3>2. CASE leases'[k] \in G
        BY <1>5, <3>2, PatientWaitersAreHandled
      <3>3. CASE leases'[k] = leases[k]
        BY <2>1, <3>3 DEF Connected
      <3> QED
        BY <3>1, <3>2, <3>3
    <2>3. ASSUME queue' # <<>> PROVE ticker'
      <3>1. queue' \in Seq(Connections) /\ queue' = P.queue
        BY <1>3 DEF Served, PumpFits
      <3>2. PICK d \in ToSet(queue') : d \in Connections
        BY <2>3, <3>1, SomebodyWaits, ToSetIsPart
      <3>3. queue # <<>>
        BY <1>1, <1>5, <3>2, SomebodyWaits DEF Waits
      <3>4. ~P.raised
        BY <1>5, <2>1, <3>2 DEF NothingIsCancelled
      <3> QED
        BY <2>1, <2>3, <3>1, <3>3, <3>4
    <2> QED
      BY <2>2, <2>3
  <1>11. GrantsInTurn
    <2>1. KeepsOrder(queue)
      BY DEF KeepsOrder
    <2> QED
      BY <1>1, <1>3, <2>1, ServedInTurn
  <1> QED
    BY <1>7, <1>8, <1>9, <1>10, <1>11 DEF IInv

LEMMA TickKeeps ==
  ASSUME IInv, Tick
  PROVE  IInv' /\ GrantsInTurn
  <1>1. PICK fitting \in 0..Len(queue) :
            /\ Pumped(Pump(queue, leases, promise, capacity, fitting), ready, <<>>)
            /\ ticker' = (~Pump(queue, leases, promise, capacity, fitting).raised
                          /\ Pump(queue, leases, promise, capacity, fitting).queue # <<>>)
    BY DEF Tick
  <1> DEFINE P == Pump(queue, leases, promise, capacity', fitting)
  <1>2. /\ capacity' = capacity /\ capacity' \in 1..MaxCapacity /\ fitting \in Nat
        /\ UNCHANGED <<overdue, decision, doomed, handler, peers, hungUp>>
    BY LenProperties DEF Tick, IInv, TypeOK
  <1>3. ticker' = (~P.raised /\ P.queue # <<>>) /\ Pumped(P, ready, <<>>)
    BY <1>1, <1>2
  <1> HIDE DEF P
  <1>4. ticker' \in BOOLEAN /\ (ticker /\ ~P.raised /\ P.queue # <<>> => ticker')
    BY <1>3
  <1> QED
    BY <1>2, <1>3, <1>4, PumpAloneKeeps DEF P

LEMMA HupKeeps ==
  ASSUME IInv, Hup
  PROVE  IInv' /\ GrantsInTurn
  <1>1. PICK fitting \in 0..Len(queue) :
            /\ Pumped(Pump(queue, leases, promise, capacity', fitting), ready, <<>>)
            /\ ticker' = (ticker \/ Pump(queue, leases, promise, capacity', fitting).braked)
    BY DEF Hup
  <1> DEFINE P == Pump(queue, leases, promise, capacity', fitting)
  <1>2. /\ capacity' \in 1..MaxCapacity /\ fitting \in Nat
        /\ UNCHANGED <<overdue, decision, doomed, handler, peers, hungUp>>
    BY LenProperties DEF Hup, IInv, TypeOK
  <1>3. ticker' = (ticker \/ P.braked) /\ Pumped(P, ready, <<>>)
    BY <1>1
  <1> HIDE DEF P
  <1>4. ticker' \in BOOLEAN /\ (ticker /\ ~P.raised /\ P.queue # <<>> => ticker')
    BY <1>3
  <1> QED
    BY <1>2, <1>3, <1>4, PumpAloneKeeps DEF P

LEMMA EnqueueKeeps ==
  ASSUME IInv, NEW c \in Connections, Enqueue(c)
  PROVE  IInv' /\ GrantsInTurn
  <1> DEFINE q == Append(queue, c)
             futures == [promise EXCEPT ![c] = "pending"]
  <1>0. /\ Runs("decide", c) /\ c \notin doomed /\ ~AlreadyHolding(c)
        /\ UNCHANGED <<capacity, overdue, doomed, handler, peers, hungUp>>
    BY DEF Enqueue
  <1>1. /\ queue \in Seq(Connections) /\ IsInjective(queue)
        /\ leases \in [Clients -> Connections \cup {None}] /\ IsFiniteSet(Leased(leases))
        /\ promise \in [Connections -> Futures] /\ capacity \in Nat
        /\ ready \in Seq(Callbacks) /\ IsInjective(ready)
        /\ QueueFits(queue, leases, promise) /\ HeldFits(leases, promise)
        /\ \A d \in Connections : promise[d] = "pending" => d \in ToSet(queue)
        /\ \A d \in Connections :
              promise[d] = "granted" /\ handler[d] \in {"waiting", "serving"}
                => leases[ClientOf[d]] = d
    BY PumpFinds
  <1>2. /\ Tail(ready) \in Seq(Callbacks) /\ IsInjective(Tail(ready))
        /\ ToSet(Tail(ready)) = ToSet(ready) \ {<<"decide", c>>}
        /\ Called("decide", c)
    BY <1>0, HeadRuns DEF IInv
  <1>3. DecisionFits(c)
    BY DEF IInv, DecisionsFit
  <1>4. /\ decision[c] = "none" /\ promise[c] = "none" /\ handler[c] # "new"
        /\ ~Called("wake", c) /\ c \notin ToSet(queue)
    BY <1>2, <1>3 DEF DecisionFits, IInv, WaitersFit, Waits
  \* The newcomer fits the queue.
  <1>5. /\ q \in Seq(Connections) /\ IsInjective(q) /\ ToSet(q) = ToSet(queue) \cup {c}
    BY <1>1, <1>4, AppendFits
  <1>6. /\ futures \in [Connections -> Futures] /\ futures[c] = "pending"
        /\ \A d \in Connections : d # c => futures[d] = promise[d]
    BY <1>1 DEF Futures
  <1> HIDE DEF q, futures
  <1>7. QueueFits(q, leases, futures)
    <2>1. leases[ClientOf[c]] = None /\ \A d \in ToSet(queue) : ClientOf[d] # ClientOf[c]
      BY <1>0 DEF AlreadyHolding
    <2> QED
      BY <1>1, <1>4, <1>5, <1>6, <2>1 DEF QueueFits
  <1>8. HeldFits(leases, futures)
    <2> SUFFICES ASSUME NEW k \in Clients, leases[k] # None
                 PROVE ClientOf[leases[k]] = k /\ futures[leases[k]] \in {"granted", "cancelled"}
      BY DEF HeldFits
    <2>1. ClientOf[leases[k]] = k /\ promise[leases[k]] \in {"granted", "cancelled"}
      BY <1>1 DEF HeldFits
    <2>2. leases[k] \in Connections /\ leases[k] # c
      BY <1>1, <1>4, <2>1
    <2> QED
      BY <1>6, <2>1, <2>2
  <1>9. /\ \A d \in Connections : futures[d] = "pending" => d \in ToSet(q)
        /\ \A d \in Connections :
              futures[d] = "granted" /\ handler'[d] \in {"waiting", "serving"}
                => leases[ClientOf[d]] = d
    BY <1>0, <1>1, <1>5, <1>6
  \* The pump, and what it decides about the newcomer.
  <1>10. PICK fitting \in 0..Len(queue) + 1 :
            /\ Decided(c, IF Pump(q, leases, futures, capacity, fitting).raised THEN "failed"
                          ELSE IF Pump(q, leases, futures, capacity, fitting).promise[c] = "granted"
                               THEN "granted" ELSE "waiting")
            /\ Pumped(Pump(q, leases, futures, capacity, fitting), Tail(ready),
                      IF decision'[c] = "waiting" THEN <<>> ELSE Resume(c))
            /\ ticker' = (ticker \/ Pump(q, leases, futures, capacity, fitting).braked
                                 \/ decision'[c] = "waiting")
    BY DEF Enqueue, q, futures
  <1> DEFINE P == Pump(q, leases, futures, capacity, fitting)
             after == IF decision'[c] = "waiting" THEN <<>> ELSE Resume(c)
  <1>11. fitting \in Nat
    BY <1>1, LenProperties
  <1>12. /\ Decided(c, IF P.raised THEN "failed" ELSE IF P.promise[c] = "granted"
                       THEN "granted" ELSE "waiting")
         /\ Pumped(P, Tail(ready), after)
         /\ ticker' = (ticker \/ P.braked \/ decision'[c] = "waiting")
         /\ P = Pump(q, leases, futures, capacity, fitting)
    BY <1>10
  <1>13. /\ after \in Seq(Callbacks) /\ IsInjective(after)
         /\ ToSet(after) \cap ToSet(Tail(ready)) = {}
         /\ ToSet(after) \subseteq {<<"resume", c>>}
         /\ decision'[c] = "waiting" => ToSet(after) = {}
    <2>1. <<>> \in Seq(Callbacks) /\ IsInjective(<<>>) /\ ToSet(<<>>) = {}
      BY DEF IsInjective, ToSet
    <2>2. <<"resume", c>> \in ToSet(Tail(ready)) <=> <<"resume", c>> \in ToSet(ready)
      BY <1>2
    <2>3. /\ Resume(c) \in Seq(Callbacks) /\ IsInjective(Resume(c))
          /\ ToSet(Resume(c)) \subseteq {<<"resume", c>>}
          /\ ToSet(Resume(c)) \cap ToSet(Tail(ready)) = {}
      BY <1>2, <2>2, ResumeFits DEF IInv
    <2> QED
      BY <2>1, <2>3
  <1> HIDE DEF P, after
  <1>14. \A x \in ToSet(after) : \E d \in Connections : x = <<"resume", d>>
    BY <1>13
  <1>15. PICK E, G \in SUBSET Connections :
            Served(P, q, leases, futures, capacity, Tail(ready), after, E, G)
    <2>1. PumpsOn(q, leases, futures, capacity, fitting)
      BY <1>1, <1>5, <1>6, <1>11 DEF PumpsOn
    <2>2. CallsFit(Tail(ready), after)
      BY <1>2, <1>13, <1>14 DEF CallsFit
    <2> QED
      BY <1>12, <2>1, <2>2, PumpedDoes DEF IInv
  <1>a. BrokerFits(q, leases, futures)
    BY <1>1, <1>5, <1>6, <1>7, <1>8, <1>9 DEF BrokerFits
  <1>16. /\ \A d \in Connections :
              \/ promise'[d] = futures[d] /\ (futures[d] = "pending" => d \notin E \cup G)
              \/ /\ futures[d] = "pending" /\ d \in E \cup G
                 /\ promise'[d] = IF d \in E THEN "refused" ELSE "granted"
         /\ \A d \in Connections : promise'[d] = "pending" => d \in ToSet(queue')
         /\ \A d \in Connections : d \in ToSet(queue') => d \in ToSet(q) /\ d \notin E \cup G
    <2>2. \A d \in Connections :
              \/ promise'[d] = futures[d] /\ (futures[d] = "pending" => d \notin E \cup G)
              \/ /\ futures[d] = "pending" /\ d \in E \cup G
                 /\ promise'[d] = IF d \in E THEN "refused" ELSE "granted"
      BY <1>15 DEF Served, PumpFits
    <2>3. \A d \in Connections : promise'[d] = "pending" => d \in ToSet(queue')
      BY <1>15, <1>a, ServedFits
    <2>4. \A d \in Connections : d \in ToSet(queue') => d \in ToSet(q) /\ d \notin E \cup G
      BY <1>15 DEF Served, PumpFits
    <2> QED
      BY <2>2, <2>3, <2>4
  <1>17. /\ P.raised \in BOOLEAN /\ P.braked \in BOOLEAN
         /\ P.raised => \E x \in E \cup G : futures[x] = "cancelled"
         /\ promise'[c] = P.promise[c] /\ queue' \in Seq(Connections)
    BY <1>15 DEF Served, PumpFits
  <1>18. /\ decision' \in [Connections -> {"none", "waiting", "granted", "refused", "cancelled",
                                           "failed"}]
         /\ decision'[c] = IF P.raised THEN "failed"
                           ELSE IF promise'[c] = "granted" THEN "granted" ELSE "waiting"
         /\ \A d \in Connections : d # c => decision'[d] = decision[d]
    BY <1>12, <1>17 DEF Decided, IInv, TypeOK
  <1>19. \A d \in Connections :
           /\ Called("decide", d)' => Called("decide", d) /\ d # c
           /\ Called("wake", d)' => \/ Called("wake", d)
                                    \/ d \in E \cup G /\ promise[d] = "pending"
                                       /\ decision[d] = "waiting"
           /\ Called("resume", d)' => Called("resume", d) \/ (d = c /\ decision'[c] # "waiting")
    <2> SUFFICES ASSUME NEW d \in Connections
        PROVE /\ Called("decide", d)' => Called("decide", d) /\ d # c
              /\ Called("wake", d)' => \/ Called("wake", d)
                                       \/ d \in E \cup G /\ promise[d] = "pending"
                                          /\ decision[d] = "waiting"
              /\ Called("resume", d)' => Called("resume", d) \/ (d = c /\ decision'[c] # "waiting")
      OBVIOUS
    <2>1. /\ Called("decide", d)' => <<"decide", d>> \in ToSet(Tail(ready))
          /\ Called("wake", d)' => \/ <<"wake", d>> \in ToSet(Tail(ready))
                                   \/ d \in E \cup G /\ promise[d] = "pending"
                                      /\ decision[d] = "waiting"
          /\ Called("resume", d)' => <<"resume", d>> \in ToSet(Tail(ready)) \cup ToSet(after)
      BY <1>15 DEF Served
    <2> QED
      BY <1>2, <1>13, <2>1 DEF Called
  <1>20. TypeOK' /\ WaitersFit' /\ LeasesFit'
    <2>1. ASSUME NEW d \in Connections, d \in ToSet(queue')
          PROVE decision'[d] \in {"waiting", "failed"}
      <3>1. CASE d = c
        <4>1. promise'[c] # "granted"
          BY <1>6, <1>16, <2>1, <3>1
        <4> QED
          BY <1>18, <3>1, <4>1
      <3>2. CASE d # c
        BY <1>5, <1>16, <1>18, <2>1, <3>2 DEF IInv, WaitersFit, Waits
      <3> QED
        BY <3>1, <3>2
    <2>2. \A d \in Connections : handler'[d] = "serving" => decision'[d] = "granted"
      BY <1>0, <1>4, <1>18 DEF IInv, LeasesFit
    <2>3. /\ handler' \in [Connections -> {"new", "waiting", "cancelling", "serving", "closed"}]
          /\ capacity' \in 1..MaxCapacity /\ ticker' \in BOOLEAN
      BY <1>0, <1>12 DEF IInv, TypeOK
    <2>4. TasksStand
      BY <1>0, <1>18, <2>1, <2>2, <2>3 DEF TasksStand
    <2> QED
      BY <1>15, <1>a, <2>4, ServedKeeps
  <1>21. DecisionsFit'
    <2> SUFFICES ASSUME NEW d \in Connections PROVE DecisionFits(d)'
      BY DEF DecisionsFit
    <2>1. CASE d = c
      <3>1. promise'[c] \in {"pending", "refused", "granted"}
        BY <1>6, <1>16
      <3>2. ~Called("decide", c)' /\ ~Called("wake", c)'
        BY <1>4, <1>19
      <3>3. /\ promise'[c] = "pending" => Waits(c)'
            /\ c \notin doomed' /\ handler'[c] # "new"
        BY <1>0, <1>4, <1>16 DEF Waits
      <3> QED
        BY <1>18, <2>1, <3>1, <3>2, <3>3 DEF DecisionFits
    <2>2. CASE d # c
      <3>1. DecisionFits(d) /\ UNCHANGED <<decision[d], handler[d], doomed>>
        BY <1>0, <1>18, <2>2 DEF IInv, DecisionsFit
      <3>2. /\ promise'[d] = promise[d]
                  \/ (promise[d] = "pending" /\ promise'[d] \in {"refused", "granted"})
            /\ promise'[d] = "pending" => d \in ToSet(queue')
            /\ promise[d] = "pending" /\ d \in E \cup G => promise'[d] # "pending"
        BY <1>6, <1>16, <2>2
      <3> QED
        BY <1>19, <2>2, <3>1, <3>2, ServedLeavesFit
    <2> QED
      BY <2>1, <2>2
  <1>22. ASSUME ~hasty PROVE NothingIsCancelled' /\ Connected' /\ (queue' # <<>> => ticker')
    <2>1. Connected /\ (queue # <<>> => ticker) /\ NothingIsCancelled
      BY <1>22 DEF IInv, PatientPeersLeakNothing, PatienceFits
    <2>2. \A d \in Connections : futures[d] # "cancelled"
      BY <1>6, <2>1 DEF NothingIsCancelled
    <2>3. ~P.raised
      BY <1>17, <2>2
    <2>4. handler[c] = "waiting"
      <3>1. handler[c] \notin {"cancelling", "closed", "serving"}
        BY <1>4, <2>1 DEF NothingIsCancelled, IInv, LeasesFit
      <3> QED
        BY <1>4, <3>1 DEF IInv, TypeOK
    <2>5. ~Called("resume", c)
      BY <1>4, <2>1, <2>4 DEF NothingIsCancelled
    <2>6. \A d \in Connections : promise'[d] # "cancelled"
      BY <1>16, <2>2
    <2>7. decision'[c] \in {"granted", "waiting"}
      BY <1>18, <2>3
    <2>8. NothingIsCancelled'
      <3>1. UNCHANGED <<doomed, hungUp, gone, handler>>
        BY <1>0 DEF peers
      <3> SUFFICES ASSUME NEW d \in Connections
          PROVE /\ handler'[d] # "cancelling" /\ decision'[d] \notin {"failed", "cancelled"}
                /\ handler'[d] = "closed" => decision'[d] \in {"granted", "refused"}
                /\ d \in gone' => handler'[d] \in {"serving", "closed"}
                /\ Called("resume", d)' /\ handler'[d] = "waiting"
                     => decision'[d] \notin {"none", "waiting"}
        BY <2>1, <2>6, <3>1 DEF NothingIsCancelled
      <3>2. CASE d = c
        BY <1>19, <2>1, <2>4, <2>5, <2>7, <3>1, <3>2 DEF NothingIsCancelled
      <3>3. CASE d # c
        BY <1>18, <1>19, <2>1, <3>1, <3>3 DEF NothingIsCancelled
      <3> QED
        BY <3>2, <3>3
    <2>9. Connected'
      <3> SUFFICES ASSUME NEW k \in Clients, leases'[k] # None
                   PROVE handler[leases'[k]] \in {"waiting", "serving"}
        BY <1>0 DEF Connected
      <3>1. leases'[k] \in G \/ leases'[k] = leases[k]
        BY <1>15 DEF Served, PumpFits
      <3>2. CASE leases'[k] \in G
        <4>1. leases'[k] \in ToSet(queue) \cup {c}
          BY <1>5, <1>15, <3>2 DEF Served, PumpFits
        <4> QED
          BY <1>22, <2>4, <3>2, <4>1, PatientWaitersAreHandled DEF Waits
      <3>3. CASE leases'[k] = leases[k]
        BY <2>1, <3>3 DEF Connected
      <3> QED
        BY <3>1, <3>2, <3>3
    <2>10. ASSUME queue' # <<>> PROVE ticker'
      <3>1. CASE decision'[c] = "waiting"
        BY <1>12, <3>1
      <3>2. CASE decision'[c] # "waiting"
        <4>1. promise'[c] = "granted"
          BY <1>18, <2>3, <3>2
        <4>2. c \notin ToSet(queue')
          BY <1>6, <1>16, <4>1
        <4>3. PICK d \in ToSet(queue') : d \in Connections
          BY <1>17, <2>10, SomebodyWaits, ToSetIsPart
        <4>4. queue # <<>>
          BY <1>1, <1>5, <1>16, <4>2, <4>3, SomebodyWaits
        <4> QED
          BY <1>12, <2>1, <4>4
      <3> QED
        BY <3>1, <3>2
    <2> QED
      BY <2>8, <2>9, <2>10
  <1>23. PatienceFits' /\ PatientPeersLeakNothing'
    BY <1>0, <1>22 DEF PatienceFits, PatientPeersLeakNothing, peers
  <1>24. GrantsInTurn
    <2>1. KeepsOrder(q)
      <3>1. \A i \in DOMAIN queue : i \in DOMAIN q /\ q[i] = queue[i]
        BY <1>1, AppendFits DEF q
      <3> QED
        BY <3>1 DEF KeepsOrder
    <2>2. \A d \in Connections : promise[d] = "pending" => futures[d] = "pending"
      BY <1>6
    <2>3. Served(P, q, leases, futures, capacity', Tail(ready), after, E, G)
      BY <1>0, <1>15
    <2> QED
      BY <1>1, <2>1, <2>2, <2>3, ServedInTurn
  <1> QED
    BY <1>20, <1>21, <1>23, <1>24 DEF IInv

\* A withdrawal from the queue: its connection has left early.
LEMMA WithdrawKeeps ==
  ASSUME IInv, NEW c \in Connections, Withdraw(c)
  PROVE  IInv' /\ GrantsInTurn
  <1>0. /\ Runs("wake", c) /\ promise[c] = "cancelled"
        /\ UNCHANGED <<capacity, overdue, doomed, handler, peers, hungUp>>
    BY DEF Withdraw
  <1>1. CASE c \notin ToSet(queue)
    <2>1. /\ Decided(c, "cancelled") /\ ready' = Tail(ready) \o Resume(c)
          /\ UNCHANGED <<broker, ticker>> /\ ~Waits(c)
      BY <1>1 DEF Withdraw, Waits
    <2>2. IInv'
      BY <1>0, <2>1, DecisionEnds
    <2>3. GrantsInTurn
      BY <2>1 DEF broker, GrantsInTurn, LeasesWithin, ServesInOrder, GrantsInTime
    <2> QED
      BY <2>2, <2>3
  <1>2. CASE c \in ToSet(queue)
    <2> DEFINE q == Without(queue, {c})
    <2>1. /\ queue \in Seq(Connections) /\ IsInjective(queue)
          /\ leases \in [Clients -> Connections \cup {None}] /\ IsFiniteSet(Leased(leases))
          /\ promise \in [Connections -> Futures] /\ capacity \in Nat
          /\ ready \in Seq(Callbacks) /\ IsInjective(ready)
          /\ QueueFits(queue, leases, promise) /\ HeldFits(leases, promise)
          /\ \A d \in Connections : promise[d] = "pending" => d \in ToSet(queue)
          /\ \A d \in Connections :
                promise[d] = "granted" /\ handler[d] \in {"waiting", "serving"}
                  => leases[ClientOf[d]] = d
      BY PumpFinds
    <2>2. /\ Tail(ready) \in Seq(Callbacks) /\ IsInjective(Tail(ready))
          /\ ToSet(Tail(ready)) = ToSet(ready) \ {<<"wake", c>>}
          /\ Called("wake", c)
      BY <1>0, HeadRuns DEF IInv
    <2>3. decision[c] = "waiting" /\ ~Called("decide", c) /\ hasty
      <3>1. DecisionFits(c)
        BY DEF IInv, DecisionsFit
      <3> QED
        BY <1>0, <2>2, <3>1 DEF IInv, DecisionFits, PatienceFits, NothingIsCancelled
    <2>4. q \in Seq(Connections) /\ IsInjective(q) /\ ToSet(q) = ToSet(queue) \ {c}
      <3>1. q = Kept(queue, ToSet(queue) \ {c})
        BY DEF Without
      <3>2. ToSet(queue) \cap (ToSet(queue) \ {c}) = ToSet(queue) \ {c}
        OBVIOUS
      <3> HIDE DEF q
      <3> QED
        BY <2>1, <3>1, <3>2, KeptFits
    <2>5. PICK fitting \in 0..Len(queue) :
              LET P == Pump(q, leases, promise, capacity, fitting)
              IN  /\ Decided(c, IF P.raised THEN "failed" ELSE "cancelled")
                  /\ Pumped(P, Tail(ready), Resume(c))
                  /\ ticker' = (ticker \/ P.braked)
      BY <1>2 DEF Withdraw
    <2> DEFINE P == Pump(q, leases, promise, capacity, fitting)
    <2>6. /\ Decided(c, IF P.raised THEN "failed" ELSE "cancelled")
          /\ Pumped(P, Tail(ready), Resume(c))
          /\ ticker' = (ticker \/ P.braked)
          /\ P = Pump(q, leases, promise, capacity, fitting)
      BY <2>5
    <2> HIDE DEF q, P
    <2>7. fitting \in Nat
      BY <2>1, LenProperties
    <2>8. QueueFits(q, leases, promise) /\ \A d \in Connections : promise[d] = "pending" => d \in ToSet(q)
      BY <1>0, <2>1, <2>4 DEF QueueFits
    <2>9. /\ Resume(c) \in Seq(Callbacks) /\ IsInjective(Resume(c))
          /\ ToSet(Resume(c)) \subseteq {<<"resume", c>>}
          /\ ToSet(Resume(c)) \cap ToSet(Tail(ready)) = {}
      <3>1. <<"resume", c>> \in ToSet(Tail(ready)) <=> <<"resume", c>> \in ToSet(ready)
        BY <2>2
      <3> QED
        BY <2>2, <3>1, ResumeFits DEF IInv
    <2>10. \A x \in ToSet(Resume(c)) : \E d \in Connections : x = <<"resume", d>>
      BY <2>9
    <2>11. PICK E, G \in SUBSET Connections :
              Served(P, q, leases, promise, capacity, Tail(ready), Resume(c), E, G)
      <3>1. PumpsOn(q, leases, promise, capacity, fitting)
        BY <2>1, <2>4, <2>7 DEF PumpsOn
      <3>2. CallsFit(Tail(ready), Resume(c))
        BY <2>2, <2>9, <2>10 DEF CallsFit
      <3> QED
        BY <2>6, <3>1, <3>2, PumpedDoes DEF IInv
    <2>12. /\ P.raised \in BOOLEAN /\ P.braked \in BOOLEAN
           /\ \A d \in Connections :
                /\ promise'[d] = promise[d]
                      \/ (promise[d] = "pending" /\ promise'[d] \in {"refused", "granted"})
                /\ promise[d] = "pending" /\ d \in E \cup G => promise'[d] # "pending"
                /\ d \in ToSet(queue') => d \in ToSet(q)
      BY <2>11 DEF Served, PumpFits
    <2>13. /\ decision' \in [Connections -> {"none", "waiting", "granted", "refused", "cancelled",
                                             "failed"}]
           /\ decision'[c] \in {"failed", "cancelled"}
           /\ \A d \in Connections : d # c => decision'[d] = decision[d]
      BY <2>6, <2>12 DEF Decided, IInv, TypeOK
    <2>14. \A d \in Connections :
              /\ Called("decide", d)' => Called("decide", d)
              /\ Called("wake", d)' => \/ Called("wake", d) /\ d # c
                                       \/ d \in E \cup G /\ promise[d] = "pending"
                                          /\ decision[d] = "waiting"
              /\ Called("resume", d)' => Called("resume", d) \/ d = c
      BY <2>2, <2>9, <2>11 DEF Served, Called
    <2>15. \A d \in Connections :
              promise[d] = "granted" /\ handler'[d] \in {"waiting", "serving"}
                => leases[ClientOf[d]] = d
      BY <1>0, <2>1
    <2>16. \A d \in Connections : promise'[d] = "pending" => d \in ToSet(queue')
      <3>1. BrokerFits(q, leases, promise)
        BY <2>1, <2>4, <2>8, <2>15 DEF BrokerFits
      <3> QED
        BY <2>11, <3>1, ServedFits
    <2>17. TypeOK' /\ WaitersFit' /\ LeasesFit'
      <3>1. \A d \in Connections : d \in ToSet(queue') => decision'[d] \in {"waiting", "failed"}
        BY <2>4, <2>12, <2>13 DEF IInv, WaitersFit, Waits
      <3>2. \A d \in Connections : handler'[d] = "serving" => decision'[d] = "granted"
        BY <1>0, <2>3, <2>13 DEF IInv, LeasesFit
      <3>3. /\ handler' \in [Connections -> {"new", "waiting", "cancelling", "serving", "closed"}]
            /\ capacity' \in 1..MaxCapacity /\ ticker' \in BOOLEAN
        BY <1>0, <2>6, <2>12 DEF IInv, TypeOK
      <3>4. BrokerFits(q, leases, promise)
        BY <2>1, <2>4, <2>8, <2>15 DEF BrokerFits
      <3>5. TasksStand
        BY <1>0, <2>13, <3>1, <3>2, <3>3 DEF TasksStand
      <3> QED
        BY <2>11, <3>4, <3>5, ServedKeeps
    <2>18. DecisionsFit'
      <3> SUFFICES ASSUME NEW d \in Connections PROVE DecisionFits(d)'
        BY DEF DecisionsFit
      <3>1. DecisionFits(d) /\ UNCHANGED <<handler[d], doomed>>
        BY <1>0 DEF IInv, DecisionsFit
      <3>2. CASE d = c
        <4>1. promise'[c] = "cancelled" /\ ~Called("decide", c)' /\ ~Called("wake", c)'
          BY <1>0, <2>3, <2>12, <2>14
        <4> QED
          BY <1>0, <2>13, <3>1, <3>2, <4>1 DEF DecisionFits
      <3>3. CASE d # c
        <4>1. decision'[d] = decision[d]
          BY <2>13, <3>3
        <4> QED
          BY <2>12, <2>14, <2>16, <3>1, <3>3, <4>1, ServedLeavesFit
      <3> QED
        BY <3>2, <3>3
    <2>19. PatienceFits' /\ PatientPeersLeakNothing'
      BY <1>0, <2>3 DEF PatienceFits, PatientPeersLeakNothing, peers
    <2>20. GrantsInTurn
      <3>1. KeepsOrder(q)
        <4> DEFINE S == ToSet(queue) \ {c}
        <4>1. q = Kept(queue, S)
          BY DEF q, Without
        <4>2. \A i, j \in DOMAIN queue : i < j /\ queue[i] \in S /\ queue[j] \in S =>
                \E k, l \in DOMAIN q : k < l /\ q[k] = queue[i] /\ q[l] = queue[j]
          <5> HIDE DEF S
          <5> QED
            BY <2>1, <4>1, KeptFits
        <4> QED
          BY <2>4, <4>2 DEF KeepsOrder
      <3>2. Served(P, q, leases, promise, capacity', Tail(ready), Resume(c), E, G)
        BY <1>0, <2>11
      <3> QED
        BY <2>1, <3>1, <3>2, ServedInTurn
    <2> QED
      BY <2>17, <2>18, <2>19, <2>20 DEF IInv
  <1> QED
    BY <1>1, <1>2

LEMMA ReleaseKeeps ==
  ASSUME IInv, NEW c \in Connections, Release(c)
  PROVE  IInv' /\ GrantsInTurn
  <1> DEFINE held == [leases EXCEPT ![ClientOf[c]] = None]
  <1>0. /\ Runs("resume", c) /\ handler[c] = "serving"
        /\ handler' = [handler EXCEPT ![c] = "closed"]
        /\ UNCHANGED <<capacity, overdue, decision, doomed, peers, hungUp>>
    BY DEF Release
  <1>1. /\ queue \in Seq(Connections) /\ IsInjective(queue)
        /\ leases \in [Clients -> Connections \cup {None}] /\ IsFiniteSet(Leased(leases))
        /\ promise \in [Connections -> Futures] /\ capacity \in Nat
        /\ ready \in Seq(Callbacks) /\ IsInjective(ready)
        /\ QueueFits(queue, leases, promise) /\ HeldFits(leases, promise)
        /\ \A d \in Connections : promise[d] = "pending" => d \in ToSet(queue)
        /\ \A d \in Connections :
              promise[d] = "granted" /\ handler[d] \in {"waiting", "serving"}
                => leases[ClientOf[d]] = d
    BY PumpFinds
  <1>2. /\ Tail(ready) \in Seq(Callbacks) /\ IsInjective(Tail(ready))
        /\ ToSet(Tail(ready)) = ToSet(ready) \ {<<"resume", c>>}
        /\ Called("resume", c)
    BY <1>0, HeadRuns DEF IInv
  <1>3. /\ decision[c] = "granted" /\ promise[c] = "granted" /\ leases[ClientOf[c]] = c
        /\ ~Called("decide", c) /\ ~Called("wake", c) /\ c \notin ToSet(queue)
        /\ c \notin doomed \/ hasty
    <2>1. DecisionFits(c) /\ decision[c] = "granted"
      BY <1>0 DEF IInv, DecisionsFit, LeasesFit
    <2> QED
      BY <1>0, <1>1, <2>1 DEF DecisionFits, QueueFits, IInv, PatienceFits, NothingIsCancelled
  <1>4. /\ handler' \in [Connections -> {"new", "waiting", "cancelling", "serving", "closed"}]
        /\ handler'[c] = "closed"
        /\ \A d \in Connections : d # c => handler'[d] = handler[d]
    BY <1>0 DEF IInv, TypeOK
  <1>5. /\ held \in [Clients -> Connections \cup {None}] /\ held[ClientOf[c]] = None
        /\ \A k \in Clients : k # ClientOf[c] => held[k] = leases[k]
    BY <1>1, ClientOfIsTotal
  <1>6. PICK fitting \in 0..Len(queue) :
            LET P == Pump(queue, held, promise, capacity, fitting)
            IN  /\ Pumped(P, Tail(ready), <<>>)
                /\ ticker' = (ticker \/ P.braked)
    BY DEF Release
  <1> DEFINE P == Pump(queue, held, promise, capacity, fitting)
  <1>7. /\ Pumped(P, Tail(ready), <<>>) /\ ticker' = (ticker \/ P.braked)
        /\ P = Pump(queue, held, promise, capacity, fitting)
    BY <1>6
  <1> HIDE DEF held, P
  <1>8. fitting \in Nat
    BY <1>1, LenProperties
  <1>9. IsFiniteSet(Leased(held))
    <2>1. Leased(held) \in SUBSET Leased(leases)
      BY <1>5 DEF Leased
    <2> QED
      BY <1>1, <2>1, FS_Subset
  <1>10. QueueFits(queue, held, promise)
    BY <1>1, <1>5, ClientOfIsTotal DEF QueueFits
  <1>11. HeldFits(held, promise)
    BY <1>1, <1>5 DEF HeldFits
  <1>12. \A d \in Connections :
            promise[d] = "granted" /\ handler'[d] \in {"waiting", "serving"}
              => held[ClientOf[d]] = d
    BY <1>1, <1>3, <1>4, <1>5, ClientOfIsTotal
  <1>13. <<>> \in Seq(Callbacks) /\ IsInjective(<<>>) /\ ToSet(<<>>) = {}
    BY DEF IsInjective, ToSet
  <1>14. PICK E, G \in SUBSET Connections :
            Served(P, queue, held, promise, capacity, Tail(ready), <<>>, E, G)
    <2>1. PumpsOn(queue, held, promise, capacity, fitting)
      BY <1>1, <1>5, <1>8, <1>9 DEF PumpsOn
    <2>2. CallsFit(Tail(ready), <<>>)
      BY <1>2, <1>13 DEF CallsFit
    <2> QED
      BY <1>7, <2>1, <2>2, PumpedDoes DEF IInv
  <1>a. BrokerFits(queue, held, promise)
    BY <1>1, <1>5, <1>10, <1>11, <1>12 DEF BrokerFits
  <1>15. /\ P.raised \in BOOLEAN /\ P.braked \in BOOLEAN
         /\ P.raised => \E x \in E \cup G : promise[x] = "cancelled"
         /\ queue' \in Seq(Connections)
         /\ \A d \in Connections :
              /\ promise'[d] = promise[d]
                    \/ (promise[d] = "pending" /\ promise'[d] \in {"refused", "granted"})
              /\ promise[d] = "pending" /\ d \in E \cup G => promise'[d] # "pending"
              /\ d \in E \cup G => d \in ToSet(queue)
              /\ d \in ToSet(queue') => d \in ToSet(queue)
    BY <1>14 DEF Served, PumpFits
  <1>16. \A d \in Connections :
            /\ Called("decide", d)' => Called("decide", d)
            /\ Called("wake", d)' => \/ Called("wake", d)
                                     \/ d \in E \cup G /\ promise[d] = "pending"
                                        /\ decision[d] = "waiting"
            /\ Called("resume", d)' => Called("resume", d) /\ d # c
    BY <1>2, <1>13, <1>14 DEF Served, Called
  <1>17. \A d \in Connections : promise'[d] = "pending" => d \in ToSet(queue')
    BY <1>14, <1>a, ServedFits
  <1>18. TypeOK' /\ WaitersFit' /\ LeasesFit'
    <2>1. \A d \in Connections : d \in ToSet(queue') => decision'[d] \in {"waiting", "failed"}
      BY <1>0, <1>15 DEF IInv, WaitersFit, Waits
    <2>2. \A d \in Connections : handler'[d] = "serving" => decision'[d] = "granted"
      BY <1>0, <1>4 DEF IInv, LeasesFit
    <2>3. /\ capacity' \in 1..MaxCapacity /\ ticker' \in BOOLEAN
          /\ decision' \in [Connections -> {"none", "waiting", "granted", "refused", "cancelled",
                                            "failed"}]
          /\ UNCHANGED <<overdue, doomed, peers, hungUp>>
      BY <1>0, <1>7, <1>15 DEF IInv, TypeOK
    <2>4. TasksStand
      BY <1>4, <2>1, <2>2, <2>3 DEF TasksStand
    <2> QED
      BY <1>14, <1>a, <2>4, ServedKeeps
  <1>19. DecisionsFit'
    <2> SUFFICES ASSUME NEW d \in Connections PROVE DecisionFits(d)'
      BY DEF DecisionsFit
    <2>1. DecisionFits(d) /\ UNCHANGED <<decision[d], doomed>>
      BY <1>0 DEF IInv, DecisionsFit
    <2>2. CASE d = c
      <3>1. promise'[c] = "granted" /\ ~Called("decide", c)' /\ ~Called("wake", c)'
        BY <1>1, <1>3, <1>15, <1>16
      <3> QED
        BY <1>0, <1>3, <1>4, <2>1, <2>2, <3>1 DEF DecisionFits
    <2>3. CASE d # c
      <3>1. handler'[d] = handler[d]
        BY <1>4, <2>3
      <3> QED
        BY <1>15, <1>16, <1>17, <2>1, <2>3, <3>1, ServedLeavesFit
    <2> QED
      BY <2>2, <2>3
  <1>20. ASSUME ~hasty PROVE NothingIsCancelled' /\ Connected' /\ (queue' # <<>> => ticker')
    <2>1. Connected /\ (queue # <<>> => ticker) /\ NothingIsCancelled
      BY <1>20 DEF IInv, PatientPeersLeakNothing, PatienceFits
    <2>2. NothingIsCancelled'
      <3>1. UNCHANGED <<doomed, hungUp, gone, decision>>
        BY <1>0 DEF peers
      <3>2. \A d \in Connections : promise'[d] # "cancelled"
        BY <1>15, <2>1 DEF NothingIsCancelled
      <3> QED
        BY <1>3, <1>4, <1>16, <2>1, <3>1, <3>2 DEF NothingIsCancelled
    <2>3. Connected'
      <3> SUFFICES ASSUME NEW k \in Clients, leases'[k] # None
                   PROVE handler'[leases'[k]] \in {"waiting", "serving"}
        BY DEF Connected
      <3>1. leases'[k] \in G \/ leases'[k] = held[k]
        BY <1>14 DEF Served, PumpFits
      <3>2. CASE leases'[k] \in G
        <4>1. leases'[k] \in Connections /\ Waits(leases'[k]) /\ leases'[k] # c
          BY <1>3, <1>15, <3>2 DEF Waits
        <4> QED
          BY <1>4, <1>20, <4>1, PatientWaitersAreHandled
      <3>3. CASE leases'[k] = held[k]
        <4>1. k # ClientOf[c] /\ leases'[k] = leases[k]
          BY <1>5, <3>3
        <4>2. leases[k] \in Connections /\ leases[k] # c
          BY <1>1, <4>1 DEF HeldFits
        <4> QED
          BY <1>4, <2>1, <4>1, <4>2 DEF Connected
      <3> QED
        BY <3>1, <3>2, <3>3
    <2>4. ASSUME queue' # <<>> PROVE ticker'
      <3>1. PICK d \in ToSet(queue') : d \in Connections
        BY <1>15, <2>4, SomebodyWaits, ToSetIsPart
      <3>2. queue # <<>>
        BY <1>1, <1>15, <3>1, SomebodyWaits
      <3> QED
        BY <1>7, <2>1, <3>2
    <2> QED
      BY <2>2, <2>3, <2>4
  <1>21. PatienceFits' /\ PatientPeersLeakNothing'
    BY <1>0, <1>20 DEF PatienceFits, PatientPeersLeakNothing, peers
  <1>22. GrantsInTurn
    <2>1. KeepsOrder(queue)
      BY DEF KeepsOrder
    <2>2. Served(P, queue, held, promise, capacity', Tail(ready), <<>>, E, G)
      BY <1>0, <1>14
    <2>3. \A k \in Clients : held[k] = leases[k] \/ held[k] = None
      BY <1>5
    <2> QED
      BY <1>1, <2>1, <2>2, <2>3, ServedInTurn
  <1> QED
    BY <1>18, <1>19, <1>21, <1>22 DEF IInv

-------------------------------------------------------------------------------
(* The theorems *)

LEMMA Initially ==
  ASSUME Init
  PROVE  IInv
  <1>1. TypeOK /\ WaitersFit /\ DecisionsFit
    <2>1. /\ queue \in Seq(Connections) /\ IsInjective(queue)
          /\ ready \in Seq(Callbacks) /\ IsInjective(ready)
          /\ ToSet(queue) = {} /\ ToSet(ready) = {}
      BY DEF Init, IsInjective, ToSet
    <2>2. TypeOK
      BY <2>1 DEF Init, TypeOK, Callbacks
    <2>3. WaitersFit /\ DecisionsFit
      BY <2>1 DEF Init, WaitersFit, DecisionsFit, DecisionFits, Waits, Called
    <2> QED
      BY <2>2, <2>3
  <1>2. LeasesFit
    <2>1. Leased(leases) = {}
      BY DEF Init, Leased
    <2>2. IsFiniteSet(Leased(leases))
      BY <2>1, FS_EmptySet
    <2> QED
      BY <2>2 DEF Init, LeasesFit
  <1>3. PatienceFits /\ PatientPeersLeakNothing
    BY DEF Init, PatienceFits, NothingIsCancelled, PatientPeersLeakNothing, Connected
  <1> QED
    BY <1>1, <1>2, <1>3 DEF IInv

\* The steps without a pump grant nothing.
LEMMA OthersGrantNothing ==
  ASSUME IInv, NEW c \in Connections,
         \/ Accept(c) \/ Refuse(c) \/ DoomedEnds(c) \/ Answer(c) \/ GiveUp(c) \/ Serve(c)
         \/ Close(c) \/ NoticeEof(c) \/ DeadlinePasses(c) \/ HangUp(c)
  PROVE  GrantsInTurn
  <1>1. /\ leases' = leases
        /\ promise' = promise \/ promise' = [promise EXCEPT ![c] = "cancelled"]
    BY DEF broker, Accept, Refuse, DoomedEnds, Answer, GiveUp, Serve, Close, NoticeEof,
           DeadlinePasses, HangUp
  <1>2. \A x \in Connections : ~ (promise[x] = "pending" /\ promise'[x] = "granted")
    BY <1>1 DEF IInv, TypeOK
  <1>3. \A i \in DOMAIN queue : queue[i] \in Connections
    BY PumpFinds, LenProperties, ElementOfSeq
  <1> QED
    BY <1>1, <1>2, <1>3 DEF GrantsInTurn, LeasesWithin, ServesInOrder, GrantsInTime

LEMMA StepKeeps ==
  ASSUME IInv, [Next]_vars
  PROVE  IInv' /\ (GrantsInTurn \/ UNCHANGED vars)
  <1>1. CASE UNCHANGED vars
    <2>1. UNCHANGED <<capacity, leases, queue, overdue, promise, decision, doomed,
                      handler, gone, hungUp, ready, ticker, hasty>>
      BY <1>1 DEF vars
    <2>2. TypeOK' /\ WaitersFit' /\ DecisionsFit' /\ LeasesFit'
      BY <2>1 DEF IInv, TypeOK, WaitersFit, DecisionsFit, DecisionFits, LeasesFit, Leased, Waits,
                  Called
    <2>3. PatienceFits' /\ PatientPeersLeakNothing'
      BY <2>1 DEF IInv, PatienceFits, NothingIsCancelled, Called, PatientPeersLeakNothing, Connected
    <2> QED
      BY <1>1, <2>2, <2>3 DEF IInv
  <1>2. CASE Tick
    BY <1>2, TickKeeps
  <1>3. CASE Hup
    BY <1>3, HupKeeps
  <1>4. ASSUME NEW c \in Connections,
               Accept(c) \/ Step(c) \/ NoticeEof(c) \/ DeadlinePasses(c) \/ HangUp(c)
        PROVE  IInv' /\ GrantsInTurn
    <2>1. CASE Accept(c)
      BY <2>1, AcceptKeeps, OthersGrantNothing
    <2>2. CASE Refuse(c)
      BY <2>2, RefuseKeeps, OthersGrantNothing
    <2>3. CASE Enqueue(c)
      BY <2>3, EnqueueKeeps
    <2>4. CASE DoomedEnds(c)
      BY <2>4, DoomedEndsKeeps, OthersGrantNothing
    <2>5. CASE Withdraw(c)
      BY <2>5, WithdrawKeeps
    <2>6. CASE Answer(c)
      BY <2>6, AnswerKeeps, OthersGrantNothing
    <2>7. CASE GiveUp(c)
      BY <2>7, GiveUpKeeps, OthersGrantNothing
    <2>8. CASE Serve(c)
      BY <2>8, ServeKeeps, OthersGrantNothing
    <2>9. CASE Close(c)
      BY <2>9, CloseKeeps, OthersGrantNothing
    <2>10. CASE Release(c)
      BY <2>10, ReleaseKeeps
    <2>11. CASE NoticeEof(c)
      BY <2>11, NoticeEofKeeps, OthersGrantNothing
    <2>12. CASE DeadlinePasses(c)
      BY <2>12, DeadlinePassesKeeps, OthersGrantNothing
    <2>13. CASE HangUp(c)
      BY <2>13, HangUpKeeps, OthersGrantNothing
    <2> QED
      BY <1>4, <2>1, <2>2, <2>3, <2>4, <2>5, <2>6, <2>7, <2>8, <2>9, <2>10, <2>11, <2>12, <2>13
         DEF Step
  <1> QED
    BY <1>1, <1>2, <1>3, <1>4 DEF Next

\* In every reachable state all of the invariants hold together.
THEOREM Inductive == Spec => []IInv
  <1>1. Init => IInv
    BY Initially
  <1>2. IInv /\ [Next]_vars => IInv'
    BY StepKeeps
  <1> QED
    BY <1>1, <1>2, PTL DEF Spec

\* The state has its types, nobody waits twice, and no callback is queued twice.
THEOREM TypeCorrect == Spec => []TypeOK
  <1>1. IInv => TypeOK
    BY DEF IInv
  <1> QED
    BY <1>1, Inductive, PTL

\* handle, release: a run that was told to go holds its client's lease until it hangs
\* up, whoever is refused, withdraws or is released meanwhile.
THEOREM ServingIsLeased == Spec => []ServingHoldsLease
  <1>1. IInv => ServingHoldsLease
    BY DEF IInv, LeasesFit, DecisionsFit, DecisionFits, ServingHoldsLease
  <1> QED
    BY <1>1, Inductive, PTL

\* As long as every peer stays until it is answered, every lease has its connection
\* and every waiter a ticker.
THEOREM PatienceLeaksNothing == Spec => []PatientPeersLeakNothing
  <1>1. IInv => PatientPeersLeakNothing
    BY DEF IInv
  <1> QED
    BY <1>1, Inductive, PTL

\* pump: what is leased anew is within the capacity of that moment, whatever the
\* memory fits, a SIGHUP has changed and the pump raises.
THEOREM CapacityHolds == Spec => GrantsWithinCapacity
  <1>1. IInv /\ [Next]_vars => LeasesWithin \/ UNCHANGED vars
    BY StepKeeps DEF GrantsInTurn
  <1>2. IInv /\ [Next]_vars =>
          [\A k \in Clients :
             leases[k] = None /\ leases'[k] # None => Cardinality(Leased(leases')) <= capacity']_vars
    BY <1>1 DEF LeasesWithin
  <1> QED
    BY <1>2, Inductive, PTL DEF Spec, GrantsWithinCapacity

\* pump, on_hup: a smaller capacity evicts nobody, so the leases may exceed the one in
\* force; whatever capacities follow each other, they never exceed the largest possible one.
THEOREM LeasesAreBounded == Spec => [](Cardinality(Leased(leases)) <= MaxCapacity)
  <1> DEFINE Bounded == Cardinality(Leased(leases)) <= MaxCapacity
  <1>1. Init => Bounded
    <2>1. Init => Leased(leases) = {}
      BY DEF Init, Leased
    <2> QED
      BY <2>1, FS_EmptySet, CapacityIsPositive
  <1>2. IInv /\ Bounded /\ [Next]_vars => Bounded'
    <2> SUFFICES ASSUME IInv, Bounded, [Next]_vars
                 PROVE  Bounded'
      OBVIOUS
    <2>1. IInv' /\ (LeasesWithin \/ UNCHANGED leases)
      BY StepKeeps DEF GrantsInTurn, vars
    <2>2. /\ IsFiniteSet(Leased(leases)) /\ IsFiniteSet(Leased(leases'))
          /\ capacity' \in 1..MaxCapacity
      BY <2>1 DEF IInv, LeasesFit, TypeOK
    <2>3. Cardinality(Leased(leases)) \in Nat /\ Cardinality(Leased(leases')) \in Nat
      BY <2>2, FS_CardinalityType
    <2>4. CASE \E k \in Clients : leases[k] = None /\ leases'[k] # None
      <3>1. Cardinality(Leased(leases')) <= capacity'
        BY <2>1, <2>4 DEF LeasesWithin
      <3> QED
        BY <3>1, <2>2, <2>3, CapacityIsPositive
    <2>5. CASE \A k \in Clients : leases[k] = None => leases'[k] = None
      <3>1. Leased(leases') \subseteq Leased(leases)
        BY <2>5 DEF Leased
      <3>2. Cardinality(Leased(leases')) <= Cardinality(Leased(leases))
        BY <3>1, <2>2, FS_Subset
      <3> QED
        BY <3>2, <2>3, CapacityIsPositive
    <2> QED
      BY <2>4, <2>5
  <1> QED
    BY <1>1, <1>2, Inductive, PTL DEF Spec

\* pump: whoever is granted leaves nobody in the queue who came before it.
THEOREM QueueIsFair == Spec => FirstComeFirstServed
  <1>1. IInv /\ [Next]_vars => ServesInOrder \/ UNCHANGED vars
    BY StepKeeps DEF GrantsInTurn
  <1>2. IInv /\ [Next]_vars =>
          [\A i, j \in DOMAIN queue :
             /\ i < j
             /\ promise[queue[j]] = "pending"
             /\ promise'[queue[j]] = "granted"
             => queue[i] \notin ToSet(queue')]_vars
    BY <1>1 DEF ServesInOrder
  <1> QED
    BY <1>2, Inductive, PTL DEF Spec, FirstComeFirstServed

\* _expire: a waiter whose ceiling has passed is refused, never granted.
THEOREM GrantsAreInTime == Spec => NobodyIsGrantedLate
  <1>1. IInv /\ [Next]_vars => GrantsInTime \/ UNCHANGED vars
    BY StepKeeps DEF GrantsInTurn
  <1>2. IInv /\ [Next]_vars =>
          [\A c \in Connections :
             promise[c] = "pending" /\ promise'[c] = "granted" => c \notin overdue]_vars
    BY <1>1 DEF GrantsInTime
  <1> QED
    BY <1>2, Inductive, PTL DEF Spec, NobodyIsGrantedLate
===============================================================================
