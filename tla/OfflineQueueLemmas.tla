------------------------- MODULE OfflineQueueLemmas -------------------------
(***************************************************************************)
(* What the helpers of OfflineQueue compute on sequences: the backlog      *)
(* after entries are removed, replaced and queued, the entry that the loop *)
(* takes next, the submits that wait, and the rides that have landed.      *)
(***************************************************************************)
EXTENDS OfflineQueue, SequenceTheorems, FiniteSetTheorems, WellFoundedInduction, TLAPS

\* Where a submit may be; rides each once in a list, and in a backlog; a backlog in the
\* order of submission.
Steps == {"new", "waiting", "live", "done", "failed", "killed"}
Distinct(s) == \A i, j \in DOMAIN s : s[i] = s[j] => i = j
OncePerRide(q) == \A i, j \in DOMAIN q : q[i].ride = q[j].ride => i = j
Sorted(q) == \A i, j \in DOMAIN q : i < j => q[i].ride < q[j].ride

\* The minimum of a non-empty set of numbers is in it.
LEMMA MinIs ==
  ASSUME NEW T \in SUBSET Nat, T # {}
  PROVE  Min(T) \in T /\ \A n \in T : Min(T) <= n
<1>1. \E x \in T : \A y \in T : ~(<<y, x>> \in OpToRel(<, Nat))
  BY NatLessThanWellFounded, WFMin, Zenon
<1>2. OpToRel(<, Nat) = {p \in Nat \X Nat : p[1] < p[2]}
  BY Zenon DEF OpToRel
<1>3. PICK x \in T : \A y \in T : ~(<<y, x>> \in {p \in Nat \X Nat : p[1] < p[2]})
  BY <1>1, <1>2, Zenon
<1>4. \A y \in T : x <= y
  <2> TAKE y \in T
  <2>1. x \in Nat /\ y \in Nat /\ <<y, x>> \in Nat \X Nat
    OBVIOUS
  <2>2. ~(y < x)
    BY <1>3, <2>1
  <2> QED BY <2>1, <2>2
<1> QED
  BY <1>4 DEF Min

\* An entry removed by id: the others stay, in their order, each once.
LEMMA RemoveByIdFacts ==
  ASSUME NEW q \in Seq(Entry), OncePerRide(q), NEW r
  PROVE  /\ RemoveById(q, r) \in Seq(Entry)
         /\ OncePerRide(RemoveById(q, r))
         /\ Sorted(q) => Sorted(RemoveById(q, r))
         /\ Range(RemoveById(q, r)) = {e \in Range(q) : e.ride # r}
<1> DEFINE I == {i \in 1..Len(q) : q[i].ride = r}
           k == Min(I)
<1>0. q \in [1..Len(q) -> Entry] /\ Len(q) \in Nat /\ DOMAIN q = 1..Len(q)
  OBVIOUS
<1>1. CASE I = {}
  <2>1. RemoveById(q, r) = q
    BY <1>1 DEF RemoveById, RemoveFirstMatch
  <2> QED
    BY <2>1, <1>1, <1>0 DEF Range
<1>2. CASE I # {}
  <2>1. k \in I /\ k \in 1..Len(q)
    <3>1. I \in SUBSET Nat
      BY <1>0
    <3>2. k \in I
      BY <1>2, <3>1, MinIs, Zenon
    <3> QED BY <3>2
  <2>2. RemoveById(q, r) = SubSeq(q, 1, k-1) \o SubSeq(q, k+1, Len(q))
    BY <1>2 DEF RemoveById, RemoveFirstMatch, RemoveAt, SelectInSeq
  <2> DEFINE p == RemoveById(q, r)
  <2> HIDE DEF k
  <2>3. /\ p \in Seq(Entry) /\ Len(p) = Len(q) - 1
        /\ \A i \in 1..Len(p) : p[i] = IF i < k THEN q[i] ELSE q[i+1]
    <3>1. /\ SubSeq(q, 1, k-1) \in Seq(Entry) /\ Len(SubSeq(q, 1, k-1)) = k-1
          /\ \A i \in 1..k-1 : SubSeq(q, 1, k-1)[i] = q[i]
      BY <2>1, <1>0, SubSeqProperties
    <3>2. /\ SubSeq(q, k+1, Len(q)) \in Seq(Entry) /\ Len(SubSeq(q, k+1, Len(q))) = Len(q)-k
          /\ \A i \in 1..Len(q)-k : SubSeq(q, k+1, Len(q))[i] = q[k+i]
      <4>1. k+1 \in Int /\ Len(q) \in Int /\ \A i \in k+1..Len(q) : q[i] \in Entry
        BY <2>1, <1>0
      <4> DEFINE c == SubSeq(q, k+1, Len(q))
      <4>2. /\ c \in Seq(Entry)
            /\ Len(c) = IF k+1 <= Len(q) THEN Len(q)-(k+1)+1 ELSE 0
            /\ \A i \in 1..Len(q)-(k+1)+1 : c[i] = q[(k+1)+i-1]
        BY <4>1, SubSeqProperties
      <4> HIDE DEF c
      <4>3. Len(c) = Len(q)-k
        <5>1. Len(c) = IF k+1 <= Len(q) THEN Len(q)-(k+1)+1 ELSE 0
          BY <4>2
        <5>2. k \in Int /\ Len(q) \in Int /\ k <= Len(q)
          BY <2>1, <1>0
        <5> QED BY <5>1, <5>2
      <4>4. ASSUME NEW i \in 1..Len(q)-k PROVE c[i] = q[k+i]
        <5>1. i \in 1..Len(q)-(k+1)+1 /\ (k+1)+i-1 = k+i
          BY <2>1, <1>0
        <5> QED BY <5>1, <4>2
      <4> QED BY <4>2, <4>3, <4>4 DEF c
    <3> DEFINE a == SubSeq(q, 1, k-1)
               b == SubSeq(q, k+1, Len(q))
    <3>3. p = a \o b
      BY <2>2
    <3> HIDE DEF a, b, p
    <3>4. /\ a \in Seq(Entry) /\ Len(a) = k-1 /\ \A i \in 1..k-1 : a[i] = q[i]
          /\ b \in Seq(Entry) /\ Len(b) = Len(q)-k /\ \A i \in 1..Len(q)-k : b[i] = q[k+i]
      BY <3>1, <3>2 DEF a, b
    <3>5. /\ p \in Seq(Entry) /\ Len(p) = Len(a) + Len(b)
          /\ \A i \in 1..Len(a)+Len(b) : p[i] = IF i <= Len(a) THEN a[i] ELSE b[i-Len(a)]
      BY <3>3, <3>4, ConcatProperties
    <3>6. \A i \in 1..Len(p) : p[i] = IF i < k THEN q[i] ELSE q[i+1]
      <4> TAKE i \in 1..Len(p)
      <4>1. CASE i < k
        BY <4>1, <3>4, <3>5, <2>1, <1>0
      <4>2. CASE i >= k
        <5>1. i - (k-1) \in 1..Len(q)-k /\ p[i] = b[i-(k-1)]
          BY <4>2, <3>4, <3>5, <2>1, <1>0
        <5>2. PICK j \in 1..Len(q)-k : j = i - (k-1)
          BY <5>1
        <5>3. p[i] = q[k+j] /\ k + j = i + 1
          BY <5>1, <5>2, <3>4, <2>1, <1>0
        <5> QED BY <5>3, <4>2, <2>1
      <4> QED BY <4>1, <4>2, <2>1
    <3> QED
      BY <3>4, <3>5, <3>6, <2>1, <1>0
  <2> HIDE DEF p
  <2>4. \A i \in 1..Len(p) : p[i] # q[k] /\ p[i].ride # r
    <3> TAKE i \in 1..Len(p)
    <3>1. CASE i < k
      BY <3>1, <2>1, <2>3, <1>0 DEF OncePerRide
    <3>2. CASE i >= k
      <4>1. i + 1 \in 1..Len(q) /\ i + 1 # k /\ p[i] = q[i+1]
        BY <3>2, <2>1, <2>3, <1>0
      <4> QED BY <4>1, <2>1, <1>0 DEF OncePerRide
    <3> QED BY <3>1, <3>2, <2>1
  <2>5. \A i \in 1..Len(q) : i # k => \E j \in 1..Len(p) : p[j] = q[i]
    <3> SUFFICES ASSUME NEW i \in 1..Len(q), i # k PROVE \E j \in 1..Len(p) : p[j] = q[i]
      OBVIOUS
    <3>1. CASE i < k
      BY <3>1, <2>1, <2>3, <1>0
    <3>2. CASE i > k
      <4>1. i-1 \in 1..Len(p) /\ p[i-1] = q[i]
        BY <3>2, <2>1, <2>3, <1>0
      <4> QED BY <4>1
    <3> QED BY <3>1, <3>2, <2>1
  <2>6. DOMAIN p = 1..Len(p) /\ Len(p) \in Nat
    BY <2>3
  <2> DEFINE at(i) == IF i < k THEN i ELSE i + 1
  <2>a. \A i \in 1..Len(p) : at(i) \in 1..Len(q) /\ p[i] = q[at(i)]
    BY <2>1, <2>3, <1>0
  <2>b. \A i, j \in 1..Len(p) : (at(i) = at(j) => i = j) /\ (i < j => at(i) < at(j))
    BY <2>1, <2>3, <1>0
  <2> HIDE DEF at
  <2>7. OncePerRide(p)
    BY <2>a, <2>b, <2>6, <1>0 DEF OncePerRide
  <2>8. Sorted(q) => Sorted(p)
    BY <2>a, <2>b, <2>6, <1>0 DEF Sorted
  <2>9. Range(p) = {e \in Range(q) : e.ride # r}
    <3>1. \A e \in Range(p) : e \in Range(q) /\ e.ride # r
      <4> TAKE e \in Range(p)
      <4>1. PICK i \in 1..Len(p) : e = p[i]
        BY <2>6 DEF Range
      <4> QED BY <4>1, <2>a, <2>4, <1>0 DEF Range
    <3>2. \A e \in Range(q) : e.ride # r => e \in Range(p)
      <4> TAKE e \in Range(q)
      <4>1. PICK i \in 1..Len(q) : e = q[i]
        BY <1>0 DEF Range
      <4> HAVE e.ride # r
      <4>2. i # k
        BY <4>1, <2>1
      <4>3. PICK j \in 1..Len(p) : p[j] = q[i]
        BY <4>2, <2>5
      <4> QED BY <4>1, <4>3, <2>6 DEF Range
    <3> QED BY <3>1, <3>2
  <2> QED
    BY <2>3, <2>7, <2>8, <2>9 DEF p
<1> QED
  BY <1>1, <1>2

\* An entry replaced by id: the others stay, in their order, each once.
LEMMA ReplaceByIdFacts ==
  ASSUME NEW q \in Seq(Entry), OncePerRide(q), NEW new \in Entry
  PROVE  /\ ReplaceById(q, new) \in Seq(Entry)
         /\ OncePerRide(ReplaceById(q, new))
         /\ Sorted(q) => Sorted(ReplaceById(q, new))
         /\ \A e \in Range(ReplaceById(q, new)) :
              \/ e \in Range(q) /\ e.ride # new.ride
              \/ e = new /\ \E d \in Range(q) : d.ride = new.ride
         /\ \A e \in Range(q) : e.ride # new.ride => e \in Range(ReplaceById(q, new))
         /\ \A e \in Range(q) : e.ride = new.ride => new \in Range(ReplaceById(q, new))
<1> DEFINE p == ReplaceById(q, new)
<1>0. q \in [1..Len(q) -> Entry] /\ Len(q) \in Nat /\ DOMAIN q = 1..Len(q)
  OBVIOUS
<1>1. p = [i \in 1..Len(q) |-> IF q[i].ride = new.ride THEN new ELSE q[i]]
  BY <1>0 DEF ReplaceById
<1>2. p \in Seq(Entry) /\ DOMAIN p = 1..Len(q)
  BY <1>0, <1>1
<1>3. \A i \in 1..Len(q) : p[i].ride = q[i].ride /\ p[i] = IF q[i].ride = new.ride THEN new ELSE q[i]
  BY <1>0, <1>1
<1> HIDE DEF p
<1>4. OncePerRide(p) /\ (Sorted(q) => Sorted(p))
  BY <1>0, <1>2, <1>3 DEF OncePerRide, Sorted
<1>5. /\ \A e \in Range(p) : \E i \in 1..Len(q) : e = p[i]
      /\ \A i \in 1..Len(q) : p[i] \in Range(p) /\ q[i] \in Range(q)
      /\ \A e \in Range(q) : \E i \in 1..Len(q) : e = q[i]
  BY <1>0, <1>2 DEF Range
<1>6. \A e \in Range(p) :
        \/ e \in Range(q) /\ e.ride # new.ride
        \/ e = new /\ \E d \in Range(q) : d.ride = new.ride
  <2> TAKE e \in Range(p)
  <2>1. PICK i \in 1..Len(q) : e = p[i]
    BY <1>5
  <2> QED BY <2>1, <1>3, <1>5
<1>7. \A e \in Range(q) :
        /\ e.ride # new.ride => e \in Range(p)
        /\ e.ride = new.ride => new \in Range(p)
  <2> TAKE e \in Range(q)
  <2>1. PICK i \in 1..Len(q) : e = q[i]
    BY <1>5
  <2> QED BY <2>1, <1>3, <1>5
<1> QED
  BY <1>2, <1>4, <1>6, <1>7 DEF p

\* Rides queued at the end: all of them are there, each once, and the order is kept when
\* at most one is added and it is the youngest.
LEMMA EnqueuedFacts ==
  ASSUME NEW q \in Seq(Entry), OncePerRide(q), NEW w \in Seq(Ride), Distinct(w),
         \A e \in Range(q) : e.ride \notin Range(w)
  PROVE  /\ Enqueued(q, w) \in Seq(Entry)
         /\ OncePerRide(Enqueued(q, w))
         /\ Sorted(q) /\ Len(w) <= 1 /\ (\A e \in Range(q), r \in Range(w) : e.ride < r)
              => Sorted(Enqueued(q, w))
         /\ Range(Enqueued(q, w)) = Range(q) \cup {Fresh(r) : r \in Range(w)}
<1> DEFINE t == [i \in DOMAIN w |-> Fresh(w[i])]
           p == Enqueued(q, w)
<1>0. /\ q \in [1..Len(q) -> Entry] /\ Len(q) \in Nat /\ DOMAIN q = 1..Len(q)
      /\ w \in [1..Len(w) -> Ride] /\ Len(w) \in Nat /\ DOMAIN w = 1..Len(w)
  OBVIOUS
<1>a. \A x \in Ride : Fresh(x) \in Entry /\ Fresh(x).ride = x
  BY QueueAssumption DEF Fresh, Entry
<1>b. t = [i \in 1..Len(w) |-> Fresh(w[i])]
  BY <1>0
<1>1. /\ t \in Seq(Entry) /\ Len(t) = Len(w)
      /\ \A i \in 1..Len(w) : t[i] = Fresh(w[i]) /\ t[i].ride = w[i]
  <2> HIDE DEF t
  <2>1. t \in [1..Len(w) -> Entry]
    BY <1>0, <1>a, <1>b
  <2> QED BY <2>1, <1>0, <1>a, <1>b
<1> HIDE DEF t
<1>2. /\ p \in Seq(Entry) /\ Len(p) = Len(q) + Len(w)
      /\ \A i \in 1..Len(q) + Len(w) : p[i] = IF i <= Len(q) THEN q[i] ELSE t[i - Len(q)]
  BY <1>0, <1>1, ConcatProperties DEF Enqueued, t
<1> HIDE DEF p
<1>3. DOMAIN p = 1..Len(q) + Len(w)
  BY <1>2
<1>4. /\ \A e : e \in Range(p) <=> \E i \in 1..Len(p) : e = p[i]
      /\ \A e : e \in Range(q) <=> \E i \in 1..Len(q) : e = q[i]
      /\ \A r : r \in Range(w) <=> \E i \in 1..Len(w) : r = w[i]
  BY <1>0, <1>2, <1>3 DEF Range
<1>5. \A i \in 1..Len(w) : \E j \in 1..Len(p) : p[j] = Fresh(w[i])
  <2> TAKE i \in 1..Len(w)
  <2>1. Len(q) + i \in 1..Len(p) /\ p[Len(q) + i] = t[i]
    BY <1>0, <1>2
  <2> QED BY <2>1, <1>1
<1>6. \A i \in 1..Len(p) :
        \/ i \in 1..Len(q) /\ p[i] = q[i]
        \/ \E j \in 1..Len(w) : i = Len(q) + j /\ p[i] = Fresh(w[j]) /\ p[i].ride = w[j]
  <2> TAKE i \in 1..Len(p)
  <2>1. CASE i <= Len(q)
    BY <2>1, <1>0, <1>2
  <2>2. CASE i > Len(q)
    <3>1. i - Len(q) \in 1..Len(w) /\ p[i] = t[i - Len(q)]
      BY <2>2, <1>0, <1>2
    <3>2. PICK j \in 1..Len(w) : j = i - Len(q)
      BY <3>1
    <3>3. p[i] = Fresh(w[j]) /\ p[i].ride = w[j] /\ i = Len(q) + j
      BY <3>1, <3>2, <1>0, <1>1
    <3> QED BY <3>3
  <2> QED BY <2>1, <2>2, <1>0, <1>2
<1>7. Range(p) = Range(q) \cup {Fresh(r) : r \in Range(w)}
  <2>1. \A e \in Range(p) : e \in Range(q) \cup {Fresh(r) : r \in Range(w)}
    <3> TAKE e \in Range(p)
    <3>1. PICK i \in 1..Len(p) : e = p[i]
      BY <1>4
    <3>2. CASE i \in 1..Len(q) /\ p[i] = q[i]
      BY <3>1, <3>2, <1>4
    <3>3. CASE \E j \in 1..Len(w) : p[i] = Fresh(w[j])
      BY <3>1, <3>3, <1>4
    <3> QED BY <3>2, <3>3, <1>6
  <2>2. \A e \in Range(q) : e \in Range(p)
    <3> TAKE e \in Range(q)
    <3>1. PICK i \in 1..Len(q) : e = q[i]
      BY <1>4
    <3>2. i \in 1..Len(p) /\ p[i] = q[i]
      BY <3>1, <1>0, <1>2
    <3> QED BY <3>1, <3>2, <1>4
  <2>3. \A r \in Range(w) : Fresh(r) \in Range(p)
    BY <1>4, <1>5
  <2> QED BY <2>1, <2>2, <2>3
<1>8. OncePerRide(p)
  <2>1. \A i \in 1..Len(q), j \in 1..Len(w) : q[i].ride # w[j]
    BY <1>4
  <2>2. \A i, j \in 1..Len(q) : q[i].ride = q[j].ride => i = j
    BY <1>0 DEF OncePerRide
  <2>3. \A i, j \in 1..Len(w) : w[i] = w[j] => i = j
    BY <1>0 DEF Distinct
  <2>4. \A i, j \in 1..Len(p) : p[i].ride = p[j].ride => i = j
    <3> SUFFICES ASSUME NEW i \in 1..Len(p), NEW j \in 1..Len(p), p[i].ride = p[j].ride PROVE i = j
      OBVIOUS
    <3>1. CASE i \in 1..Len(q) /\ p[i] = q[i]
      BY <3>1, <2>1, <2>2, <1>6
    <3>2. CASE \E k \in 1..Len(w) : i = Len(q) + k /\ p[i] = Fresh(w[k]) /\ p[i].ride = w[k]
      <4>1. PICK k \in 1..Len(w) : i = Len(q) + k /\ p[i].ride = w[k]
        BY <3>2
      <4>2. CASE j \in 1..Len(q) /\ p[j] = q[j]
        BY <4>1, <4>2, <2>1
      <4>3. CASE \E l \in 1..Len(w) : j = Len(q) + l /\ p[j] = Fresh(w[l]) /\ p[j].ride = w[l]
        BY <4>1, <4>3, <2>3
      <4> QED BY <4>2, <4>3, <1>6
    <3> QED BY <3>1, <3>2, <1>6
  <2> QED BY <2>4, <1>2, <1>3 DEF OncePerRide
<1>9. Sorted(q) /\ Len(w) <= 1 /\ (\A e \in Range(q), r \in Range(w) : e.ride < r) => Sorted(p)
  <2> HAVE Sorted(q) /\ Len(w) <= 1 /\ (\A e \in Range(q), r \in Range(w) : e.ride < r)
  <2>1. \A i, j \in 1..Len(p) : i < j => p[i].ride < p[j].ride
    <3> SUFFICES ASSUME NEW i \in 1..Len(p), NEW j \in 1..Len(p), i < j PROVE p[i].ride < p[j].ride
      OBVIOUS
    <3>1. i \in 1..Len(q) /\ p[i] = q[i]
      BY <1>0, <1>2
    <3>2. CASE j \in 1..Len(q) /\ p[j] = q[j]
      BY <3>1, <3>2, <1>0 DEF Sorted
    <3>3. CASE \E k \in 1..Len(w) : j = Len(q) + k /\ p[j] = Fresh(w[k]) /\ p[j].ride = w[k]
      BY <3>1, <3>3, <1>4
    <3> QED BY <3>2, <3>3, <1>6
  <2> QED BY <2>1, <1>2, <1>3 DEF Sorted
<1> QED
  BY <1>2, <1>7, <1>8, <1>9 DEF p

\* A ride that lands: one copy more of it, and of no other.
LEMMA LandFacts ==
  ASSUME NEW s \in Seq(Ride), NEW r \in Ride, NEW x \in Ride
  PROVE  /\ Append(s, r) \in Seq(Ride)
         /\ Range(Append(s, r)) = Range(s) \cup {r}
         /\ Cardinality({i \in DOMAIN s : s[i] = x}) \in Nat
         /\ Cardinality({i \in DOMAIN Append(s, r) : Append(s, r)[i] = x})
              = IF x = r THEN Cardinality({i \in DOMAIN s : s[i] = x}) + 1
                         ELSE Cardinality({i \in DOMAIN s : s[i] = x})
<1> DEFINE p == Append(s, r)
           S == {i \in DOMAIN s : s[i] = x}
           P == {i \in DOMAIN p : p[i] = x}
<1>1. /\ p \in Seq(Ride) /\ Len(p) = Len(s) + 1 /\ p[Len(s) + 1] = r
      /\ \A i \in 1..Len(s) : p[i] = s[i]
  BY AppendProperties
<1>2. DOMAIN s = 1..Len(s) /\ DOMAIN p = 1..Len(s) + 1 /\ Len(s) \in Nat
  BY <1>1
<1>3. Range(p) = Range(s) \cup {r}
  <2>1. \A y \in Range(p) : y \in Range(s) \cup {r}
    BY <1>1, <1>2 DEF Range
  <2>2. \A y \in Range(s) \cup {r} : y \in Range(p)
    <3>1. Len(s) + 1 \in DOMAIN p /\ DOMAIN s \subseteq DOMAIN p
      BY <1>2
    <3> QED BY <1>1, <1>2, <3>1 DEF Range
  <2> QED BY <2>1, <2>2
<1>4. IsFiniteSet(S) /\ Cardinality(S) \in Nat
  <2>1. IsFiniteSet(1..Len(s))
    BY <1>2, FS_Interval
  <2>2. S \subseteq 1..Len(s)
    BY <1>2
  <2>3. IsFiniteSet(S)
    BY <2>1, <2>2, FS_Subset
  <2> QED BY <2>3, FS_CardinalityType
<1>5. P = IF x = r THEN S \cup {Len(s) + 1} ELSE S
  BY <1>1, <1>2
<1>6. Len(s) + 1 \notin S
  BY <1>2
<1>7. Cardinality(P) = IF x = r THEN Cardinality(S) + 1 ELSE Cardinality(S)
  BY <1>4, <1>5, <1>6, FS_AddElement
<1> QED
  BY <1>1, <1>3, <1>4, <1>7

\* Submits that join the others waiting.
LEMMA JoinFacts ==
  ASSUME NEW v \in Seq(Ride), Distinct(v), NEW w \in Seq(Ride), Distinct(w),
         \A r \in Range(w) : r \notin Range(v)
  PROVE  v \o w \in Seq(Ride) /\ Distinct(v \o w) /\ Range(v \o w) = Range(v) \cup Range(w)
<1> DEFINE p == v \o w
<1>0. /\ Len(v) \in Nat /\ DOMAIN v = 1..Len(v)
      /\ Len(w) \in Nat /\ DOMAIN w = 1..Len(w)
  OBVIOUS
<1>1. /\ p \in Seq(Ride) /\ Len(p) = Len(v) + Len(w)
      /\ \A i \in 1..Len(v) + Len(w) : p[i] = IF i <= Len(v) THEN v[i] ELSE w[i - Len(v)]
  BY ConcatProperties
<1> HIDE DEF p
<1>2. DOMAIN p = 1..Len(p) /\ Len(p) \in Nat
  BY <1>1
<1>3. /\ \A e : e \in Range(p) <=> \E i \in 1..Len(p) : e = p[i]
      /\ \A e : e \in Range(v) <=> \E i \in 1..Len(v) : e = v[i]
      /\ \A e : e \in Range(w) <=> \E i \in 1..Len(w) : e = w[i]
  BY <1>0, <1>2 DEF Range
<1>4. \A i \in 1..Len(p) :
        \/ i \in 1..Len(v) /\ p[i] = v[i]
        \/ \E j \in 1..Len(w) : i = Len(v) + j /\ p[i] = w[j]
  <2> TAKE i \in 1..Len(p)
  <2>1. CASE i <= Len(v)
    BY <2>1, <1>0, <1>1
  <2>2. CASE i > Len(v)
    <3>1. i - Len(v) \in 1..Len(w) /\ p[i] = w[i - Len(v)]
      BY <2>2, <1>0, <1>1
    <3>2. PICK j \in 1..Len(w) : j = i - Len(v)
      BY <3>1
    <3>3. p[i] = w[j] /\ i = Len(v) + j
      BY <3>1, <3>2, <1>0
    <3> QED BY <3>3
  <2> QED BY <2>1, <2>2, <1>0, <1>1
<1>5. Range(p) = Range(v) \cup Range(w)
  <2>1. \A e \in Range(p) : e \in Range(v) \cup Range(w)
    <3> TAKE e \in Range(p)
    <3>1. PICK i \in 1..Len(p) : e = p[i]
      BY <1>3
    <3> QED BY <3>1, <1>3, <1>4
  <2>2. \A e \in Range(v) : e \in Range(p)
    <3> TAKE e \in Range(v)
    <3>1. PICK i \in 1..Len(v) : e = v[i]
      BY <1>3
    <3>2. i \in 1..Len(p) /\ p[i] = v[i]
      BY <3>1, <1>0, <1>1
    <3> QED BY <3>1, <3>2, <1>3
  <2>3. \A e \in Range(w) : e \in Range(p)
    <3> TAKE e \in Range(w)
    <3>1. PICK i \in 1..Len(w) : e = w[i]
      BY <1>3
    <3>2. PICK j \in 1..Len(p) : j = Len(v) + i
      BY <3>1, <1>0, <1>1
    <3>3. j - Len(v) = i /\ ~(j <= Len(v))
      BY <3>1, <3>2, <1>0
    <3>4. p[j] = w[j - Len(v)]
      BY <3>2, <3>3, <1>1
    <3> QED BY <3>1, <3>3, <3>4, <1>3
  <2> QED BY <2>1, <2>2, <2>3
<1>6. Distinct(p)
  <2>1. \A i \in 1..Len(v), j \in 1..Len(w) : v[i] # w[j]
    BY <1>3
  <2>2. \A i, j \in 1..Len(v) : v[i] = v[j] => i = j
    BY <1>0 DEF Distinct
  <2>3. \A i, j \in 1..Len(w) : w[i] = w[j] => i = j
    BY <1>0 DEF Distinct
  <2>4. ASSUME NEW i \in 1..Len(p), NEW j \in 1..Len(p), p[i] = p[j] PROVE i = j
    <3>1. CASE i \in 1..Len(v) /\ p[i] = v[i]
      BY <3>1, <2>1, <2>2, <2>4, <1>4
    <3>2. CASE \E k \in 1..Len(w) : i = Len(v) + k /\ p[i] = w[k]
      <4>1. PICK k \in 1..Len(w) : i = Len(v) + k /\ p[i] = w[k]
        BY <3>2
      <4> QED BY <4>1, <2>1, <2>3, <2>4, <1>4
    <3> QED BY <3>1, <3>2, <1>4
  <2> QED BY <2>4, <1>2 DEF Distinct
<1> QED
  BY <1>1, <1>5, <1>6 DEF p

\* The entry that the loop takes is in the backlog and untried, and in a backlog
\* sorted by ride every earlier one has been tried.
LEMMA NextFacts ==
  ASSUME NEW q \in Seq(Entry), NEW tried
  PROVE  LET todo == Untried(q, tried)
             next == q[Min(todo)]
         IN  /\ todo = {} => \A e \in Range(q) : e.ride \in tried
             /\ todo # {} => /\ next \in Range(q) /\ next.ride \notin tried
                             /\ Sorted(q) => \A e \in Range(q) : e.ride < next.ride => e.ride \in tried
<1> DEFINE todo == Untried(q, tried)
           k == Min(todo)
<1>0. q \in [1..Len(q) -> Entry] /\ Len(q) \in Nat /\ DOMAIN q = 1..Len(q)
  OBVIOUS
<1>1. todo = {i \in 1..Len(q) : q[i].ride \notin tried}
  BY <1>0 DEF Untried
<1>2. \A e \in Range(q) : \E i \in 1..Len(q) : e = q[i]
  BY <1>0 DEF Range
<1>3. todo = {} => \A e \in Range(q) : e.ride \in tried
  BY <1>1, <1>2
<1>4. ASSUME todo # {}
      PROVE  /\ q[k] \in Range(q) /\ q[k].ride \notin tried
             /\ Sorted(q) => \A e \in Range(q) : e.ride < q[k].ride => e.ride \in tried
  <2>1. todo \in SUBSET Nat
    BY <1>0, <1>1
  <2>2. k \in todo /\ \A n \in todo : k <= n
    BY <1>4, <2>1, MinIs, Zenon
  <2> HIDE DEF todo, k
  <2>3. k \in 1..Len(q) /\ q[k].ride \notin tried /\ q[k] \in Range(q)
    BY <2>2, <1>0, <1>1 DEF Range
  <2>4. ASSUME Sorted(q), NEW e \in Range(q), e.ride < q[k].ride PROVE e.ride \in tried
    <3>1. PICK i \in 1..Len(q) : e = q[i]
      BY <1>2
    <3>2. CASE i \in todo
      <4>1. k < i \/ k = i
        BY <3>2, <2>2, <2>3, <1>0
      <4>2. k < i => q[k].ride < q[i].ride
        BY <2>3, <2>4, <1>0 DEF Sorted
      <4>3. q[k].ride \in Nat /\ q[i].ride \in Nat
        BY <2>3, <1>0, QueueAssumption DEF Entry, Ride
      <4> QED BY <4>1, <4>2, <4>3, <3>1, <2>4
    <3>3. CASE i \notin todo
      BY <3>1, <3>3, <1>1
    <3> QED BY <3>2, <3>3
  <2> QED BY <2>3, <2>4
<1> QED
  BY <1>3, <1>4
=============================================================================
