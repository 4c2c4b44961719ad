------------------------ MODULE ObserverExportProofs ------------------------
(***************************************************************************)
(* Exports and their reader, for any subjects, any number of events and any*)
(* number of changes of a file.                                            *)
(***************************************************************************)
EXTENDS ObserverExport, FiniteSetTheorems, TLAPS

-----------------------------------------------------------------------------
(* Places: the k-th member of a finite set of numbers *)

LEMMA UpToFinite ==
  ASSUME NEW P \in SUBSET Nat, IsFiniteSet(P), NEW i \in Nat
  PROVE  /\ IsFiniteSet({j \in P : j <= i}) /\ Rank(P, i) \in Nat
         /\ Rank(P, i) <= Cardinality(P) /\ Cardinality(P) \in Nat
<1> DEFINE below == {j \in P : j <= i}
<1>1. below \in SUBSET P
  OBVIOUS
<1>2. IsFiniteSet(below) /\ Cardinality(below) <= Cardinality(P)
  BY <1>1, FS_Subset
<1> QED
  BY <1>2, FS_CardinalityType DEF Rank

LEMMA RankGrows ==
  ASSUME NEW P \in SUBSET Nat, IsFiniteSet(P), NEW i \in P, NEW j \in P, i < j
  PROVE  Rank(P, i) < Rank(P, j)
<1> DEFINE low == {x \in P : x <= i}
           high == {x \in P : x <= j}
<1>1. i \in Nat /\ j \in Nat
  OBVIOUS
<1>2. low \in SUBSET high /\ low # high
  <2>1. j \in high /\ j \notin low
    BY <1>1
  <2>2. \A x \in P : x <= i => x <= j
    BY <1>1
  <2> QED
    BY <2>1, <2>2
<1>3. IsFiniteSet(high) /\ IsFiniteSet(low)
  BY <1>1, UpToFinite
<1>4. Cardinality(low) <= Cardinality(high) /\ Cardinality(low) # Cardinality(high)
  BY <1>2, <1>3, FS_Subset
<1>5. Cardinality(low) \in Nat /\ Cardinality(high) \in Nat
  BY <1>3, FS_CardinalityType
<1> QED
  BY <1>4, <1>5 DEF Rank

LEMMA RankUnique ==
  ASSUME NEW P \in SUBSET Nat, IsFiniteSet(P), NEW i \in P, NEW j \in P,
         Rank(P, i) = Rank(P, j)
  PROVE  i = j
<1>1. i \in Nat /\ j \in Nat /\ Rank(P, i) \in Nat /\ Rank(P, j) \in Nat
  BY UpToFinite
<1>2. CASE i < j
  BY <1>1, <1>2, RankGrows
<1>3. CASE j < i
  BY <1>1, <1>3, RankGrows
<1> QED
  BY <1>1, <1>2, <1>3

LEMMA RankRange ==
  ASSUME NEW P \in SUBSET Nat, IsFiniteSet(P), NEW i \in P
  PROVE  Rank(P, i) \in 1 .. Cardinality(P)
<1>1. /\ Rank(P, i) \in Nat /\ Rank(P, i) <= Cardinality(P) /\ Cardinality(P) \in Nat
      /\ IsFiniteSet({j \in P : j <= i})
  BY UpToFinite
<1>2. i \in {j \in P : j <= i}
  OBVIOUS
<1>3. Rank(P, i) # 0
  BY <1>1, <1>2, FS_EmptySet DEF Rank
<1> QED
  BY <1>1, <1>3

\* Each rank is taken, by one place.
LEMMA PlaceIs ==
  ASSUME NEW P \in SUBSET Nat, IsFiniteSet(P), NEW k \in 1 .. Cardinality(P)
  PROVE  Place(P, k) \in P /\ Rank(P, Place(P, k)) = k
<1> DEFINE n == Cardinality(P)
           f == [i \in P |-> Rank(P, i)]
<1>1. n \in Nat
  BY FS_CardinalityType
<1>2. \A i \in P : Rank(P, i) \in 1 .. n
  BY RankRange
<1>3. f \in Injection(P, 1 .. n)
  <2>1. f \in [P -> 1 .. n]
    BY <1>2
  <2>2. \A i, j \in P : f[i] = f[j] => i = j
    BY RankUnique
  <2> QED
    BY <2>1, <2>2 DEF Injection, IsInjective
<1>4. IsFiniteSet(1 .. n) /\ Cardinality(1 .. n) = n
  BY <1>1, FS_Interval
<1>5. f \in Surjection(P, 1 .. n)
  BY <1>3, <1>4, FS_Injection
<1>6. \E i \in P : Rank(P, i) = k
  BY <1>5 DEF Surjection
<1> QED
  BY <1>6 DEF Place

\* What comes later does not move a place.
LEMMA PlaceStays ==
  ASSUME NEW P \in SUBSET Nat, IsFiniteSet(P), NEW n \in Nat,
         NEW k \in 1 .. Cardinality({i \in P : i <= n})
  PROVE  /\ k \in 1 .. Cardinality(P)
         /\ Place({i \in P : i <= n}, k) = Place(P, k)
<1> DEFINE Q == {i \in P : i <= n}
           i == Place(Q, k)
<1>1. IsFiniteSet(Q) /\ Q \in SUBSET Nat /\ Cardinality(Q) <= Cardinality(P)
      /\ Cardinality(Q) \in Nat /\ Cardinality(P) \in Nat
  BY UpToFinite, FS_CardinalityType DEF Rank
<1>2. k \in 1 .. Cardinality(P)
  BY <1>1
<1>3. i \in Q /\ Rank(Q, i) = k
  BY <1>1, PlaceIs
<1>4. {j \in Q : j <= i} = {j \in P : j <= i}
  <2>1. i \in Nat /\ i <= n
    BY <1>3
  <2>2. \A j \in P : j <= i => j <= n
    BY <2>1
  <2> QED
    BY <2>2
<1>5. Rank(P, i) = k
  BY <1>3, <1>4 DEF Rank
<1>6. Place(P, k) \in P /\ Rank(P, Place(P, k)) = k
  BY <1>2, PlaceIs
<1>7. i \in P
  BY <1>3
<1>8. i = Place(P, k)
  <2> HIDE DEF i
  <2> QED
    BY <1>5, <1>6, <1>7, RankUnique
<1> QED
  BY <1>2, <1>8

-----------------------------------------------------------------------------
(* Projections: the surfaced events, in order *)

LEMMA SurfacedFinite ==
  ASSUME NEW S, NEW h \in Seq(S), NEW n \in 0 .. Len(h)
  PROVE  /\ Surfaced(h) \in SUBSET Nat /\ IsFiniteSet(Surfaced(h))
         /\ SubSeq(h, 1, n) \in Seq(S) /\ Len(SubSeq(h, 1, n)) = n
         /\ \A i \in 1 .. n : SubSeq(h, 1, n)[i] = h[i]
         /\ Surfaced(SubSeq(h, 1, n)) = {i \in Surfaced(h) : i <= n}
<1>1. DOMAIN h = 1 .. Len(h) /\ Len(h) \in Nat
  OBVIOUS
<1>2. IsFiniteSet(1 .. Len(h))
  BY <1>1, FS_Interval
<1>3. Surfaced(h) \in SUBSET (1 .. Len(h))
  BY <1>1 DEF Surfaced
<1>4. IsFiniteSet(Surfaced(h))
  BY <1>2, <1>3, FS_Subset
<1>5. SubSeq(h, 1, n) \in Seq(S) /\ Len(SubSeq(h, 1, n)) = n
      /\ \A i \in 1 .. n : SubSeq(h, 1, n)[i] = h[i]
  BY <1>1
<1>6. DOMAIN SubSeq(h, 1, n) = 1 .. n
  BY <1>5
<1>7. \A i \in 1 .. Len(h) : i <= n <=> i \in 1 .. n
  BY <1>1
<1>8. 1 .. n \subseteq 1 .. Len(h)
  BY <1>1
<1>9. Surfaced(SubSeq(h, 1, n)) = {i \in Surfaced(h) : i <= n}
  BY <1>1, <1>5, <1>6, <1>7, <1>8 DEF Surfaced
<1> QED
  BY <1>1, <1>3, <1>4, <1>5, <1>9

\* The projection of a beginning is the beginning of the projection.
LEMMA ProjectionGrows ==
  ASSUME NEW S, NEW h \in Seq(S), NEW n \in 0 .. Len(h),
         NEW k \in 1 .. Cardinality(Surfaced(SubSeq(h, 1, n)))
  PROVE  /\ k \in 1 .. Cardinality(Surfaced(h))
         /\ Projection(SubSeq(h, 1, n))[k] = Projection(h)[k]
<1> DEFINE P == Surfaced(h)
           Q == Surfaced(SubSeq(h, 1, n))
<1>1. /\ P \in SUBSET Nat /\ IsFiniteSet(P) /\ Q = {i \in P : i <= n}
      /\ \A i \in 1 .. n : SubSeq(h, 1, n)[i] = h[i]
  BY SurfacedFinite
<1>2. n \in Nat
  OBVIOUS
<1>3. k \in 1 .. Cardinality(P) /\ Place(Q, k) = Place(P, k)
  <2> HIDE DEF P
  <2> QED
    BY <1>1, <1>2, PlaceStays
<1>4. Place(Q, k) \in Q /\ Q \subseteq 1 .. n
  <2>1. Q \in SUBSET Nat /\ IsFiniteSet(Q) /\ \A i \in Q : i <= n
    <3> HIDE DEF P
    <3> QED
      BY <1>1, <1>2, UpToFinite
  <2>2. DOMAIN SubSeq(h, 1, n) = 1 .. n
    BY SurfacedFinite
  <2>3. Place(Q, k) \in Q
    <3>1. k \in 1 .. Cardinality(Q)
      OBVIOUS
    <3> HIDE DEF Q
    <3> QED
      BY <2>1, <3>1, PlaceIs
  <2> QED
    BY <2>2, <2>3 DEF Surfaced
<1>5. SubSeq(h, 1, n)[Place(Q, k)] = h[Place(P, k)]
  BY <1>1, <1>3, <1>4
<1> QED
  BY <1>3, <1>5 DEF Projection

-----------------------------------------------------------------------------
(* Chains: the contents are what the last hash stands for *)

Hashes(R) == Seq(Nat \X R)

Links(R) == [index : Nat, previous : Hashes(R), what : R, hash : Hashes(R)]

LEMMA CoveredType ==
  ASSUME NEW R, NEW c \in Seq(R), NEW n \in 0 .. Len(c)
  PROVE  /\ Covered(c, n) \in Hashes(R) /\ Len(Covered(c, n)) = n
         /\ \A j \in 1 .. n : Covered(c, n)[j] = <<j - 1, c[j]>>
<1>1. \A j \in 1 .. n : c[j] \in R /\ j - 1 \in Nat
  OBVIOUS
<1>2. Covered(c, n) \in [1 .. n -> Nat \X R]
  BY <1>1 DEF Covered
<1>3. n \in Nat
  OBVIOUS
<1> QED
  BY <1>2, <1>3 DEF Covered, Hashes

LEMMA AppendKeeps ==
  ASSUME NEW S, NEW s \in Seq(S), NEW x \in S
  PROVE  /\ Append(s, x) \in Seq(S) /\ Len(Append(s, x)) = Len(s) + 1
         /\ Append(s, x)[Len(s) + 1] = x
         /\ \A j \in 1 .. Len(s) : Append(s, x)[j] = s[j]
OBVIOUS

\* One hash follows from the one before.
LEMMA CoveredNext ==
  ASSUME NEW R, NEW c \in Seq(R), NEW n \in 1 .. Len(c)
  PROVE  HashOf(n - 1, Covered(c, n - 1), c[n]) = Covered(c, n)
<1> DEFINE last == Append(Covered(c, n - 1), <<n - 1, c[n]>>)
<1>1. n - 1 \in 0 .. Len(c) /\ n \in 0 .. Len(c) /\ n \in Nat
  OBVIOUS
<1>2. /\ Covered(c, n - 1) \in Hashes(R) /\ Len(Covered(c, n - 1)) = n - 1
      /\ \A j \in 1 .. n - 1 : Covered(c, n - 1)[j] = <<j - 1, c[j]>>
  BY <1>1, CoveredType
<1>3. /\ Covered(c, n) \in Hashes(R) /\ Len(Covered(c, n)) = n
      /\ \A j \in 1 .. n : Covered(c, n)[j] = <<j - 1, c[j]>>
  BY <1>1, CoveredType
<1>4. <<n - 1, c[n]>> \in Nat \X R
  OBVIOUS
<1>5. last \in Hashes(R) /\ Len(last) = n
  BY <1>1, <1>2, <1>4 DEF Hashes
<1>6. \A j \in 1 .. n : last[j] = Covered(c, n)[j]
  <2> SUFFICES ASSUME NEW j \in 1 .. n PROVE last[j] = Covered(c, n)[j]
    OBVIOUS
  <2>1. Covered(c, n)[j] = <<j - 1, c[j]>>
    BY <1>3
  <2>2. CASE j = n
    BY <1>1, <1>2, <1>4, <2>1, <2>2 DEF Hashes
  <2>3. CASE j # n
    <3>1. j \in 1 .. n - 1
      BY <2>3
    <3>2. last[j] = Covered(c, n - 1)[j]
      BY <1>2, <1>4, <3>1, AppendKeeps DEF Hashes
    <3> QED
      BY <1>2, <2>1, <3>1, <3>2
  <2> QED
    BY <2>2, <2>3
<1>7. last = Covered(c, n)
  BY <1>3, <1>5, <1>6 DEF Hashes
<1> QED
  BY <1>7 DEF HashOf

LEMMA RechainedType ==
  ASSUME NEW R, NEW c \in Seq(R)
  PROVE  /\ Rechained(c) \in Seq(Links(R)) /\ Len(Rechained(c)) = Len(c)
         /\ \A i \in 1 .. Len(c) : Rechained(c)[i] =
              [index |-> i - 1, previous |-> Covered(c, i - 1), what |-> c[i],
               hash |-> Covered(c, i)]
<1>1. DOMAIN c = 1 .. Len(c) /\ Len(c) \in Nat
  OBVIOUS
<1>2. \A i \in 1 .. Len(c) : Link(i - 1, Covered(c, i - 1), c[i]) =
              [index |-> i - 1, previous |-> Covered(c, i - 1), what |-> c[i],
               hash |-> Covered(c, i)]
  BY CoveredNext DEF Link
<1>3. \A i \in 1 .. Len(c) : Link(i - 1, Covered(c, i - 1), c[i]) \in Links(R)
  <2> SUFFICES ASSUME NEW i \in 1 .. Len(c)
               PROVE  Link(i - 1, Covered(c, i - 1), c[i]) \in Links(R)
    OBVIOUS
  <2>1. i - 1 \in 0 .. Len(c) /\ i \in 0 .. Len(c) /\ c[i] \in R /\ i - 1 \in Nat
    OBVIOUS
  <2>2. Covered(c, i - 1) \in Hashes(R) /\ Covered(c, i) \in Hashes(R)
    BY <2>1, CoveredType
  <2>3. [index |-> i - 1, previous |-> Covered(c, i - 1), what |-> c[i],
         hash |-> Covered(c, i)] \in Links(R)
    BY <2>1, <2>2 DEF Links
  <2> QED
    BY <1>2, <2>3
<1>4. Rechained(c) \in [1 .. Len(c) -> Links(R)]
  BY <1>1, <1>3 DEF Rechained
<1> QED
  BY <1>1, <1>2, <1>4 DEF Rechained

LEMMA HashIs ==
  ASSUME NEW R, NEW c \in Seq(R), NEW i \in 1 .. Len(c)
  PROVE  Rechained(c)[i].hash = Covered(c, i) /\ Rechained(c)[i].what = c[i]
<1>1. Rechained(c)[i] = [index |-> i - 1, previous |-> Covered(c, i - 1), what |-> c[i],
                         hash |-> Covered(c, i)]
  BY RechainedType
<1> QED
  BY <1>1

LEMMA RechainedHolds ==
  ASSUME NEW R, NEW c \in Seq(R)
  PROVE  Chained(Rechained(c)) /\ Contents(Rechained(c)) = c
<1> DEFINE l == Rechained(c)
<1>1. /\ l \in Seq(Links(R)) /\ Len(l) = Len(c) /\ DOMAIN l = 1 .. Len(c)
      /\ \A i \in 1 .. Len(c) : l[i] =
              [index |-> i - 1, previous |-> Covered(c, i - 1), what |-> c[i],
               hash |-> Covered(c, i)]
  <2>1. l \in Seq(Links(R)) /\ Len(l) = Len(c)
    BY RechainedType
  <2>2. DOMAIN l = 1 .. Len(c)
    BY <2>1
  <2> QED
    BY <2>1, <2>2, RechainedType
<1>2. Contents(l) = c
  <2>1. c = [i \in 1 .. Len(c) |-> c[i]]
    OBVIOUS
  <2> QED
    BY <1>1, <2>1 DEF Contents
<1>3. ASSUME NEW i \in 1 .. Len(c)
      PROVE  /\ l[i].index = i - 1
             /\ l[i].previous = IF i = 1 THEN Genesis ELSE l[i - 1].hash
             /\ l[i].hash = HashOf(l[i].index, l[i].previous, l[i].what)
  <2>1. Covered(c, i - 1) = IF i = 1 THEN Genesis ELSE l[i - 1].hash
    <3>1. CASE i = 1
      BY <3>1, CoveredType DEF Covered, Genesis, Hashes
    <3>2. CASE i # 1
      <4>1. i - 1 \in 1 .. Len(c)
        BY <3>2
      <4> HIDE DEF l
      <4> QED
        BY <1>1, <3>2, <4>1
    <3> QED
      BY <3>1, <3>2
  <2>2. HashOf(i - 1, Covered(c, i - 1), c[i]) = Covered(c, i)
    BY CoveredNext
  <2> HIDE DEF l
  <2> QED
    BY <1>1, <2>1, <2>2
<1>4. Chained(l)
  BY <1>1, <1>3 DEF Chained
<1> QED
  BY <1>2, <1>4

\* The first place at which a statement about places fails, if it fails.
LEMMA FirstPlace ==
  ASSUME NEW n \in Nat, NEW P \in SUBSET (1 .. n), P # {}
  PROVE  \E i \in P : \A j \in P : i <= j
<1> DEFINE T == {1 .. i : i \in P}
<1>1. IsWellFoundedOn(StrictSubsetOrdering(1 .. n), FiniteSubsetsOf(1 .. n))
  BY FS_StrictSubsetOrderingWellFounded
<1>2. T \subseteq FiniteSubsetsOf(1 .. n) /\ T # {}
  <2> SUFFICES ASSUME NEW i \in P PROVE 1 .. i \in FiniteSubsetsOf(1 .. n)
    OBVIOUS
  <2>1. 1 .. i \subseteq 1 .. n /\ i \in Int
    OBVIOUS
  <2> QED
    BY <2>1, FS_Interval DEF FiniteSubsetsOf
<1>3. PICK I \in T : \A J \in T : <<J, I>> \notin StrictSubsetOrdering(1 .. n)
  BY <1>1, <1>2, WFMin
<1>4. PICK i \in P : I = 1 .. i
  OBVIOUS
<1>5. ASSUME NEW j \in P, j < i PROVE FALSE
  <2>1. 1 .. j \in T
    OBVIOUS
  <2>2. 1 .. j \subseteq 1 .. i /\ i \in 1 .. i /\ i \notin 1 .. j /\ 1 .. i \subseteq 1 .. n
    BY <1>5
  <2>3. <<1 .. j, 1 .. i>> \in StrictSubsetOrdering(1 .. n)
    BY <2>2 DEF StrictSubsetOrdering
  <2> QED
    BY <1>3, <1>4, <2>1, <2>3
<1> QED
  BY <1>5

\* A chain that holds is the chain of its contents.
LEMMA ChainedIs ==
  ASSUME NEW R, NEW l \in Seq(Links(R)), Chained(l)
  PROVE  Contents(l) \in Seq(R) /\ Len(Contents(l)) = Len(l) /\ l = Rechained(Contents(l))
<1> DEFINE c == Contents(l)
           P == {i \in 1 .. Len(l) : l[i].hash # Covered(c, i)}
<1>1. DOMAIN l = 1 .. Len(l) /\ Len(l) \in Nat /\ \A i \in 1 .. Len(l) : l[i] \in Links(R)
  OBVIOUS
<1>2. c \in Seq(R) /\ Len(c) = Len(l) /\ \A i \in 1 .. Len(l) : c[i] = l[i].what
  BY <1>1 DEF Contents, Links
<1>3. ASSUME NEW i \in 1 .. Len(l), i = 1 \/ l[i - 1].hash = Covered(c, i - 1)
      PROVE  l[i].previous = Covered(c, i - 1) /\ l[i].hash = Covered(c, i)
  <2>1. /\ l[i].index = i - 1
        /\ l[i].previous = IF i = 1 THEN Genesis ELSE l[i - 1].hash
        /\ l[i].hash = HashOf(l[i].index, l[i].previous, l[i].what)
    BY <1>1 DEF Chained
  <2>2. l[i].previous = Covered(c, i - 1)
    <3>1. CASE i = 1
      BY <2>1, <3>1 DEF Covered, Genesis
    <3>2. CASE i # 1
      BY <1>3, <2>1, <3>2
    <3> QED
      BY <3>1, <3>2
  <2>3. HashOf(i - 1, Covered(c, i - 1), c[i]) = Covered(c, i)
    BY <1>2, CoveredNext
  <2> QED
    BY <1>2, <2>1, <2>2, <2>3
<1>4. P = {}
  <2> SUFFICES ASSUME P # {} PROVE FALSE
    OBVIOUS
  <2>1. PICK i \in P : \A j \in P : i <= j
    BY <1>1, FirstPlace
  <2>2. i \in 1 .. Len(l) /\ l[i].hash # Covered(c, i)
    OBVIOUS
  <2>3. i = 1 \/ l[i - 1].hash = Covered(c, i - 1)
    <3> SUFFICES ASSUME i # 1 PROVE l[i - 1].hash = Covered(c, i - 1)
      OBVIOUS
    <3>1. i - 1 \in 1 .. Len(l) /\ ~(i <= i - 1)
      BY <2>2
    <3> QED
      BY <2>1, <3>1
  <2> QED
    BY <1>3, <2>2, <2>3
<1>5. ASSUME NEW i \in 1 .. Len(l)
      PROVE  l[i] = Rechained(c)[i]
  <2>1. i = 1 \/ l[i - 1].hash = Covered(c, i - 1)
    <3> SUFFICES ASSUME i # 1 PROVE l[i - 1].hash = Covered(c, i - 1)
      OBVIOUS
    <3>1. i - 1 \in 1 .. Len(l)
      OBVIOUS
    <3> QED
      BY <1>4, <3>1
  <2>2. l[i].previous = Covered(c, i - 1) /\ l[i].hash = Covered(c, i)
    BY <1>3, <2>1
  <2>3. l[i].index = i - 1 /\ l[i].what = c[i]
    BY <1>1, <1>2 DEF Chained
  <2>4. l[i] = [index |-> l[i].index, previous |-> l[i].previous, what |-> l[i].what,
                hash |-> l[i].hash]
    BY <1>1 DEF Links
  <2>5. Rechained(c)[i] = [index |-> i - 1, previous |-> Covered(c, i - 1), what |-> c[i],
                           hash |-> Covered(c, i)]
    BY <1>2, RechainedType
  <2> QED
    BY <2>2, <2>3, <2>4, <2>5
<1>6. Rechained(c) \in Seq(Links(R)) /\ Len(Rechained(c)) = Len(l)
  BY <1>2, RechainedType
<1>7. l = Rechained(c)
  <2> HIDE DEF c
  <2> QED
    BY <1>5, <1>6
<1> QED
  BY <1>2, <1>7

LEMMA HeadIs ==
  ASSUME NEW R, NEW c \in Seq(R)
  PROVE  HeadOf(Rechained(c)) = [count |-> Len(c), hash |-> Covered(c, Len(c))]
<1> DEFINE l == Rechained(c)
<1>1. l \in Seq(Links(R)) /\ Len(l) = Len(c) /\ Len(c) \in Nat
  BY RechainedType
<1>2. CASE Len(c) = 0
  <2>1. l = <<>>
    BY <1>1, <1>2
  <2>2. Covered(c, 0) = Genesis
    BY DEF Covered, Genesis
  <2> HIDE DEF l
  <2>3. HeadOf(l) = [count |-> 0, hash |-> Genesis]
    BY <2>1 DEF HeadOf
  <2> QED
    BY <1>2, <2>2, <2>3 DEF l
<1>3. CASE Len(c) # 0
  <2>1. Len(c) \in 1 .. Len(c)
    BY <1>1, <1>3
  <2>2. l[Len(c)].hash = Covered(c, Len(c))
    BY <2>1, HashIs
  <2>3. l # <<>> /\ Last(l) = l[Len(c)]
    <3> HIDE DEF l
    <3> QED
      BY <1>1, <1>3 DEF Last
  <2> HIDE DEF l
  <2>4. HeadOf(l) = [count |-> Len(c), hash |-> Covered(c, Len(c))]
    BY <1>1, <2>2, <2>3 DEF HeadOf
  <2> QED
    BY <2>4 DEF l
<1> QED
  BY <1>2, <1>3

LEMMA SameCovered ==
  ASSUME NEW R, NEW c \in Seq(R), NEW d \in Seq(R), NEW n \in Nat,
         n <= Len(c), n <= Len(d), \A i \in 1 .. n : Covered(c, i) = Covered(d, i)
  PROVE  \A i \in 1 .. n : c[i] = d[i]
<1> SUFFICES ASSUME NEW i \in 1 .. n PROVE c[i] = d[i]
  OBVIOUS
<1>1. i \in 0 .. Len(c) /\ i \in 0 .. Len(d) /\ i \in 1 .. i
  OBVIOUS
<1>2. Covered(c, i)[i] = <<i - 1, c[i]>> /\ Covered(d, i)[i] = <<i - 1, d[i]>>
  BY <1>1, CoveredType
<1> QED
  BY <1>2

\* The head of a chain determines it.
LEMMA HeadDetermines ==
  ASSUME NEW R, NEW c \in Seq(R), NEW d \in Seq(R),
         HeadOf(Rechained(c)) = HeadOf(Rechained(d))
  PROVE  c = d
<1>1. Len(c) = Len(d) /\ Covered(c, Len(c)) = Covered(d, Len(d)) /\ Len(c) \in Nat
  BY HeadIs
<1>2. ASSUME NEW i \in 1 .. Len(c) PROVE c[i] = d[i]
  <2>1. Len(c) \in 0 .. Len(c) /\ Len(d) \in 0 .. Len(d) /\ i \in 1 .. Len(d)
    BY <1>1
  <2>2. Covered(c, Len(c))[i] = <<i - 1, c[i]>> /\ Covered(d, Len(d))[i] = <<i - 1, d[i]>>
    BY <2>1, CoveredType
  <2> QED
    BY <1>1, <2>2
<1> QED
  BY <1>1, <1>2

-----------------------------------------------------------------------------
(* The chain in memory *)

Events == [link : Links(Says), seal : Hashes(Says)]

\* The signatures are those of what happened, whatever became of the links.
ChainInv ==
  /\ history \in Seq(Says)
  /\ chain \in Seq(Events) /\ Len(chain) = Len(history)
  /\ \A i \in 1 .. Len(chain) : chain[i].seal = Covered(history, i)

LinksOf(c) == [i \in DOMAIN c |-> c[i].link]

LEMMA LinksType ==
  ASSUME NEW c \in Seq(Events)
  PROVE  /\ LinksOf(c) \in Seq(Links(Says)) /\ Len(LinksOf(c)) = Len(c)
         /\ Contents(LinksOf(c)) = Told(c)
<1>1. DOMAIN c = 1 .. Len(c) /\ Len(c) \in Nat
  OBVIOUS
<1>2. \A i \in 1 .. Len(c) : c[i].link \in Links(Says)
  <2>1. \A i \in 1 .. Len(c) : c[i] \in Events
    BY <1>1
  <2> QED
    BY <2>1 DEF Events
<1>3. LinksOf(c) \in [1 .. Len(c) -> Links(Says)]
  BY <1>1, <1>2 DEF LinksOf
<1> QED
  BY <1>1, <1>3 DEF LinksOf, Contents, Told

\* A chain that verifies tells what happened.
LEMMA VerifiedTold ==
  ASSUME ChainInv, Verifies(chain)
  PROVE  Told(chain) = history /\ LinksOf(chain) = Rechained(history)
<1> DEFINE l == LinksOf(chain)
           c == Told(chain)
<1>1. l \in Seq(Links(Says)) /\ Len(l) = Len(chain) /\ Contents(l) = c
  BY LinksType DEF ChainInv
<1>2. Chained(l)
  BY DEF Verifies, LinksOf
<1>3. c \in Seq(Says) /\ Len(c) = Len(chain) /\ l = Rechained(c)
  BY <1>1, <1>2, ChainedIs
<1>4. history \in Seq(Says) /\ Len(chain) = Len(history) /\ Len(chain) \in Nat
  BY DEF ChainInv
<1>5. ASSUME NEW i \in 1 .. Len(chain)
      PROVE  Covered(c, i) = Covered(history, i)
  <2>1. l[i].hash = Covered(c, i)
    BY <1>3, HashIs
  <2>2. l[i] = chain[i].link /\ i \in DOMAIN chain
    BY <1>4 DEF LinksOf, ChainInv
  <2>3. chain[i].seal = chain[i].link.hash
    BY <2>2 DEF Verifies
  <2>4. chain[i].seal = Covered(history, i)
    BY DEF ChainInv
  <2> QED
    BY <2>1, <2>2, <2>3, <2>4
<1>6. \A i \in 1 .. Len(chain) : c[i] = history[i]
  <2> HIDE DEF c
  <2> QED
    BY <1>3, <1>4, <1>5, SameCovered
<1>7. c = history
  <2> HIDE DEF c
  <2> QED
    BY <1>3, <1>4, <1>6
<1> QED
  BY <1>3, <1>7

LEMMA CoveredSame ==
  ASSUME NEW R, NEW c \in Seq(R), NEW x \in R, NEW n \in 0 .. Len(c)
  PROVE  Covered(Append(c, x), n) = Covered(c, n)
<1>1. \A j \in 1 .. n : Append(c, x)[j] = c[j]
  BY AppendKeeps
<1> QED
  BY <1>1 DEF Covered

LEMMA EventChain ==
  ASSUME ChainInv, NEW what \in Says, Event(what)
  PROVE  ChainInv'
<1> DEFINE n == Len(chain)
           e == Signed(Link(n, HeadOf(LinksOf(chain)).hash, what))
<1>1. /\ history \in Seq(Says) /\ chain \in Seq(Events) /\ n = Len(history) /\ n \in Nat
      /\ \A i \in 1 .. n : chain[i].seal = Covered(history, i)
  BY DEF ChainInv
<1>2. /\ history' = Append(history, what) /\ chain' = Append(chain, e)
      /\ LinksOf(chain) = Rechained(history)
  BY VerifiedTold DEF Event, LinksOf
<1>3. HeadOf(LinksOf(chain)).hash = Covered(history, n)
  BY <1>1, <1>2, HeadIs
<1>4. /\ history' \in Seq(Says) /\ Len(history') = n + 1 /\ history'[n + 1] = what
  BY <1>1, <1>2, AppendKeeps
<1>5. Covered(history', n) = Covered(history, n)
  BY <1>1, <1>2, CoveredSame
<1>6. HashOf(n, Covered(history, n), what) = Covered(history', n + 1)
  <2>1. n + 1 \in 1 .. Len(history') /\ (n + 1) - 1 = n
    BY <1>1, <1>4
  <2> QED
    BY <1>4, <1>5, <2>1, CoveredNext
<1>7. e = [link |-> [index |-> n, previous |-> Covered(history, n), what |-> what,
                     hash |-> Covered(history', n + 1)],
           seal |-> Covered(history', n + 1)]
  BY <1>3, <1>6 DEF Signed, Link
<1>8. e \in Events
  <2>1. Covered(history, n) \in Hashes(Says)
    BY <1>1, CoveredType
  <2>2. Covered(history', n + 1) \in Hashes(Says)
    <3>1. n + 1 \in 0 .. Len(history')
      BY <1>1, <1>4
    <3> QED
      BY <1>4, <3>1, CoveredType
  <2>3. [index |-> n, previous |-> Covered(history, n), what |-> what,
         hash |-> Covered(history', n + 1)] \in Links(Says)
    BY <1>1, <2>1, <2>2 DEF Links
  <2> QED
    BY <1>7, <2>2, <2>3 DEF Events
<1>9. /\ chain' \in Seq(Events) /\ Len(chain') = n + 1 /\ chain'[n + 1] = e
      /\ \A i \in 1 .. n : chain'[i] = chain[i]
  <2> HIDE DEF e
  <2> QED
    BY <1>1, <1>2, <1>8, AppendKeeps
<1>10. ASSUME NEW i \in 1 .. n + 1 PROVE chain'[i].seal = Covered(history', i)
  <2>1. CASE i = n + 1
    BY <1>7, <1>9, <2>1
  <2>2. CASE i # n + 1
    <3>1. i \in 1 .. n /\ i \in 0 .. Len(history)
      BY <1>1, <2>2
    <3>2. Covered(history', i) = Covered(history, i)
      BY <1>1, <1>2, <3>1, CoveredSame
    <3> QED
      BY <1>1, <1>9, <3>1, <3>2
  <2> QED
    BY <2>1, <2>2
<1> QED
  BY <1>4, <1>9, <1>10 DEF ChainInv

LEMMA SpoilChain ==
  ASSUME ChainInv, Spoil
  PROVE  ChainInv'
<1>1. /\ history \in Seq(Says) /\ chain \in Seq(Events) /\ Len(chain) = Len(history)
      /\ history' = history /\ DOMAIN chain = 1 .. Len(chain) /\ Len(chain) \in Nat
      /\ \A i \in 1 .. Len(chain) : chain[i] \in Events /\ chain[i].seal = Covered(history, i)
  BY DEF ChainInv, Spoil
<1>2. PICK i \in DOMAIN chain, what \in Says :
        LET forged == [Told(chain) EXCEPT ![i] = what] IN
        \/ chain' = [chain EXCEPT ![i].link.what = what]
        \/ chain' = [n \in DOMAIN chain |-> [chain[n] EXCEPT !.link = Rechained(forged)[n]]]
  BY DEF Spoil
<1>3. CASE chain' = [chain EXCEPT ![i].link.what = what]
  <2>1. chain' = [n \in 1 .. Len(chain) |-> IF n = i
                     THEN [chain[i] EXCEPT !.link = [@ EXCEPT !.what = what]] ELSE chain[n]]
    BY <1>1, <1>3
  <2>2. [chain[i].link EXCEPT !.what = what] \in Links(Says)
    BY <1>1 DEF Events, Links
  <2>3. /\ [chain[i] EXCEPT !.link = [@ EXCEPT !.what = what]] \in Events
        /\ [chain[i] EXCEPT !.link = [@ EXCEPT !.what = what]].seal = chain[i].seal
    BY <1>1, <2>2 DEF Events
  <2>4. chain' \in Seq(Events) /\ Len(chain') = Len(chain)
    BY <1>1, <2>1, <2>3
  <2>5. \A n \in 1 .. Len(chain) : chain'[n].seal = chain[n].seal
    BY <1>1, <2>1, <2>3
  <2> QED
    BY <1>1, <2>4, <2>5 DEF ChainInv
<1>4. CASE chain' = [n \in DOMAIN chain |->
             [chain[n] EXCEPT !.link = Rechained([Told(chain) EXCEPT ![i] = what])[n]]]
  <2> DEFINE forged == [Told(chain) EXCEPT ![i] = what]
             l == Rechained(forged)
  <2>1. forged \in Seq(Says) /\ Len(forged) = Len(chain)
    <3>1. \A n \in 1 .. Len(chain) : chain[n].link.what \in Says
      BY <1>1 DEF Events, Links
    <3>2. Told(chain) \in [1 .. Len(chain) -> Says]
      BY <1>1, <3>1 DEF Told
    <3> QED
      BY <1>1, <3>2
  <2>2. l \in Seq(Links(Says)) /\ Len(l) = Len(chain)
    <3> HIDE DEF forged
    <3> QED
      BY <2>1, RechainedType
  <2>3. \A n \in 1 .. Len(chain) : l[n] \in Links(Says)
    <3> HIDE DEF l
    <3> QED
      BY <2>2
  <2>4. chain' = [n \in 1 .. Len(chain) |-> [chain[n] EXCEPT !.link = l[n]]]
    BY <1>1, <1>4
  <2> HIDE DEF l
  <2>5. \A n \in 1 .. Len(chain) : /\ [chain[n] EXCEPT !.link = l[n]] \in Events
                                   /\ [chain[n] EXCEPT !.link = l[n]].seal = chain[n].seal
    BY <1>1, <2>3 DEF Events
  <2>6. chain' \in Seq(Events) /\ Len(chain') = Len(chain)
    BY <1>1, <2>4, <2>5
  <2>7. \A n \in 1 .. Len(chain) : chain'[n].seal = chain[n].seal
    BY <1>1, <2>4, <2>5
  <2> QED
    BY <1>1, <2>6, <2>7 DEF ChainInv
<1> QED
  BY <1>2, <1>3, <1>4

LEMMA RestoreChain ==
  ASSUME ChainInv, Restore
  PROVE  ChainInv'
<1> DEFINE l == Rechained(history)
<1>1. /\ history \in Seq(Says) /\ history' = history /\ DOMAIN history = 1 .. Len(history)
      /\ Len(history) \in Nat /\ chain' = [n \in DOMAIN history |-> Signed(l[n])]
  BY DEF ChainInv, Restore
<1>2. \A n \in 1 .. Len(history) : l[n] \in Links(Says) /\ l[n].hash = Covered(history, n)
  <2>1. l \in Seq(Links(Says)) /\ Len(l) = Len(history)
    BY <1>1, RechainedType
  <2>2. \A n \in 1 .. Len(history) : l[n].hash = Covered(history, n)
    BY <1>1, HashIs
  <2> HIDE DEF l
  <2> QED
    BY <2>1, <2>2
<1> HIDE DEF l
<1>3. \A n \in 1 .. Len(history) :
        Signed(l[n]) \in Events /\ Signed(l[n]).seal = Covered(history, n)
  BY <1>2 DEF Signed, Events, Links
<1>4. /\ chain' \in Seq(Events) /\ Len(chain') = Len(history)
      /\ \A n \in 1 .. Len(history) : chain'[n] = Signed(l[n])
  BY <1>1, <1>3
<1> QED
  BY <1>1, <1>3, <1>4 DEF ChainInv

-----------------------------------------------------------------------------
(* The exports built, and the file on its way *)

Rows == {PublicRecord(what) : what \in Says}

\* What was verified is what happened: the lock keeps events away until the signature.
ReadInv ==
  /\ export \in [stage : {"IDLE", "VERIFIED", "PROJECTED"},
                 verified : Seq(Says), first : Seq(Says)]
  /\ export.stage # "IDLE" => export.verified = history

\* The rows of some moment.
At(n) == Projection(SubSeq(history, 1, n))

\* An export of which the second read found what was verified is that of some moment, and
\* one of which either read did is so up to what the comparison sees.
MadeInv ==
  /\ \A o \in made : \E rows \in Seq(Rows) : o = Bundle(rows, "operator")
  /\ \A o \in whole : \E n \in 0 .. Len(history) : o = Bundle(At(n), "operator")
  /\ \A o \in told : \E n \in 0 .. Len(history) : \E rows \in Seq(Rows) :
       o = Bundle(rows, "operator") /\ Originals(rows) = Originals(At(n))

Heads == [count : Nat, hash : Hashes(Rows)]

Bundles == [events : Seq(Links(Rows)), head : Heads, key : {"operator", "other"},
            signature : [by : {"operator", "other"}, over : Heads]]

\* Nobody but the operator signs as the operator.
FileInv ==
  /\ file \in Bundles
  /\ file.signature.by = "operator" => \E o \in made : file.signature = o.signature

LEMMA ProjectionType ==
  ASSUME NEW h \in Seq(Says)
  PROVE  /\ Projection(h) \in Seq(Rows) /\ Len(Projection(h)) = Cardinality(Surfaced(h))
         /\ Cardinality(Surfaced(h)) \in Nat
<1> DEFINE P == Surfaced(h)
<1>1. Len(h) \in 0 .. Len(h)
  OBVIOUS
<1>2. P \in SUBSET Nat /\ IsFiniteSet(P)
  BY <1>1, SurfacedFinite
<1>3. Cardinality(P) \in Nat
  BY <1>2, FS_CardinalityType
<1>4. \A k \in 1 .. Cardinality(P) : Place(P, k) \in P
  <2> HIDE DEF P
  <2> QED
    BY <1>2, PlaceIs
<1>5. \A i \in P : PublicRecord(h[i]) \in Rows
  BY DEF Surfaced, Rows
<1>6. Projection(h) \in [1 .. Cardinality(P) -> Rows]
  BY <1>4, <1>5 DEF Projection
<1> QED
  BY <1>3, <1>6 DEF Projection

LEMMA BundleType ==
  ASSUME NEW rows \in Seq(Rows), NEW key \in {"operator", "other"}
  PROVE  /\ Bundle(rows, key) \in Bundles
         /\ Bundle(rows, key).events = Rechained(rows)
         /\ Bundle(rows, key).head = HeadOf(Rechained(rows))
         /\ Bundle(rows, key).key = key
         /\ Bundle(rows, key).signature = Sign(key, HeadOf(Rechained(rows)))
<1>1. Rechained(rows) \in Seq(Links(Rows))
  BY RechainedType
<1>2. HeadOf(Rechained(rows)) \in Heads
  <2>1. Len(rows) \in 0 .. Len(rows) /\ Len(rows) \in Nat
    OBVIOUS
  <2>2. Covered(rows, Len(rows)) \in Hashes(Rows)
    BY <2>1, CoveredType
  <2> QED
    BY <2>1, <2>2, HeadIs DEF Heads
<1> QED
  BY <1>1, <1>2 DEF Bundle, Bundles, Sign

LEMMA MadeIs ==
  ASSUME MadeInv, NEW o \in made
  PROVE  o \in Bundles
BY BundleType DEF MadeInv

LEMMA ToldType ==
  ASSUME ChainInv
  PROVE  Told(chain) \in Seq(Says)
<1>1. chain \in Seq(Events) /\ \A i \in 1 .. Len(chain) : chain[i] \in Events
  BY DEF ChainInv
<1>2. \A i \in 1 .. Len(chain) : chain[i].link.what \in Says
  BY <1>1 DEF Events, Links
<1>3. DOMAIN chain = 1 .. Len(chain) /\ Len(chain) \in Nat
  BY <1>1
<1>4. Told(chain) \in [1 .. Len(chain) -> Says]
  BY <1>2, <1>3 DEF Told
<1> QED
  BY <1>3, <1>4

LEMMA ReadStep ==
  ASSUME ChainInv, ReadInv, [Next]_vars
  PROVE  ReadInv'
<1>1. CASE UNCHANGED <<history, export>>
  BY <1>1 DEF ReadInv
<1>2. ASSUME NEW what \in Says, Event(what) PROVE ReadInv'
  BY <1>2 DEF Event, ReadInv, exports, Idle
<1>3. CASE VerifyExport
  BY <1>3, VerifiedTold DEF VerifyExport, ReadInv, ChainInv, memory, Idle
<1>4. CASE ProjectExport
  BY <1>4, ToldType DEF ProjectExport, ReadInv, memory
<1>5. CASE SignExport \/ RefuseExport
  <2>1. <<>> \in Seq(Says)
    OBVIOUS
  <2>2. export' = Idle
    BY <1>5 DEF SignExport, RefuseExport
  <2> QED
    BY <2>1, <2>2 DEF ReadInv, Idle
<1> QED
  BY <1>1, <1>2, <1>3, <1>4, <1>5
  DEF Next, vars, memory, exports, Spoil, Restore, Receive, Damage, Discard

LEMMA AtNow ==
  ASSUME ChainInv
  PROVE  Len(history) \in 0 .. Len(history) /\ At(Len(history)) = Projection(history)
<1>1. history \in Seq(Says)
  BY DEF ChainInv
<1>2. Len(history) \in 0 .. Len(history) /\ SubSeq(history, 1, Len(history)) = history
  BY <1>1
<1> QED
  BY <1>2 DEF At

LEMMA SignMade ==
  ASSUME ChainInv, ReadInv, MadeInv, SignExport
  PROVE  MadeInv'
<1> DEFINE second == Told(chain)
           b == Bundle(Projection(second), "operator")
<1>1. /\ export.verified = history /\ history' = history
      /\ Originals(Projection(export.first)) = Originals(Projection(second))
      /\ made' = made \cup {b}
      /\ told' = told \cup {o \in {b} : second = history \/ export.first = history}
      /\ whole' = whole \cup {o \in {b} : second = history}
  BY DEF SignExport, ReadInv, Agree, memory
<1>2. Projection(second) \in Seq(Rows)
  BY ToldType, ProjectionType
<1>3. Len(history) \in 0 .. Len(history) /\ At(Len(history)) = Projection(history)
  BY AtNow
<1>4. \A n : At(n)' = At(n)
  BY <1>1 DEF At
<1> HIDE DEF second
<1>5. ASSUME NEW o \in made' PROVE \E rows \in Seq(Rows) : o = Bundle(rows, "operator")
  BY <1>1, <1>2, <1>5 DEF MadeInv
<1>6. ASSUME NEW o \in whole'
      PROVE  \E n \in 0 .. Len(history) : o = Bundle(At(n), "operator")
  BY <1>1, <1>3, <1>6 DEF MadeInv
<1>7. ASSUME NEW o \in told'
      PROVE  \E n \in 0 .. Len(history) : \E rows \in Seq(Rows) :
               o = Bundle(rows, "operator") /\ Originals(rows) = Originals(At(n))
  <2>1. CASE o \in told
    BY <2>1 DEF MadeInv
  <2>2. CASE o \notin told
    <3>1. o = b /\ (second = history \/ export.first = history)
      BY <1>1, <1>7, <2>2
    <3>2. Originals(Projection(second)) = Originals(At(Len(history)))
      BY <1>1, <1>3, <3>1
    <3> QED
      BY <1>2, <1>3, <3>1, <3>2
  <2> QED
    BY <2>1, <2>2
<1> QED
  BY <1>1, <1>4, <1>5, <1>6, <1>7 DEF MadeInv

LEMMA MadeStep ==
  ASSUME ChainInv, ReadInv, MadeInv, [Next]_vars
  PROVE  MadeInv'
<1>1. CASE UNCHANGED <<history, made, told, whole>>
  BY <1>1 DEF MadeInv, At
<1>2. ASSUME NEW what \in Says, Event(what) PROVE MadeInv'
  <2>1. /\ history' = Append(history, what) /\ history \in Seq(Says)
        /\ made' = made /\ told' = told /\ whole' = whole
    BY <1>2 DEF Event, ChainInv, exports
  <2>2. \A n \in 0 .. Len(history) :
          n \in 0 .. Len(history') /\ SubSeq(history', 1, n) = SubSeq(history, 1, n)
    BY <2>1
  <2>3. \A n \in 0 .. Len(history) : At(n)' = At(n)
    BY <2>2 DEF At
  <2> QED
    BY <2>1, <2>2, <2>3 DEF MadeInv
<1> QED
  BY <1>1, <1>2, SignMade
  DEF Next, vars, memory, exports, VerifyExport, ProjectExport, RefuseExport, Spoil, Restore,
      Receive, Damage, Discard

LEMMA ChainStep ==
  ASSUME ChainInv, [Next]_vars
  PROVE  ChainInv'
<1>1. CASE UNCHANGED <<history, chain>>
  BY <1>1 DEF ChainInv
<1> QED
  BY <1>1, EventChain, SpoilChain, RestoreChain
  DEF Next, vars, memory, VerifyExport, ProjectExport, SignExport, RefuseExport,
      Receive, Damage, Discard

\* Whatever is done to the events of a file, events they are.
LEMMA DamagedType ==
  ASSUME ChainInv, MadeInv, NEW events \in Seq(Links(Rows)), NEW e \in DamagedEvents(events)
  PROVE  e \in Seq(Links(Rows))
<1> DEFINE n == Len(events)
<1>1. n \in Nat /\ DOMAIN events = 1 .. n /\ \A i \in 1 .. n : events[i] \in Links(Rows)
  OBVIOUS
<1>2. CASE \E i \in 1 .. n : e = RemoveAt(events, i)
  BY <1>1, <1>2 DEF RemoveAt
<1>3. CASE \E i, j \in 1 .. n : e = [events EXCEPT ![i] = events[j], ![j] = events[i]]
  BY <1>1, <1>3
<1>4. CASE \E i \in 1 .. n, what \in Says :
             e = [events EXCEPT ![i] = [@ EXCEPT !.what = PublicRecord(what)]]
  <2>1. PICK i \in 1 .. n, what \in Says :
          e = [events EXCEPT ![i] = [@ EXCEPT !.what = PublicRecord(what)]]
    BY <1>4
  <2>2. [events[i] EXCEPT !.what = PublicRecord(what)] \in Links(Rows)
    BY <1>1 DEF Links, Rows
  <2> QED
    BY <1>1, <2>1, <2>2
<1>5. CASE e = Rechained(Contents(events))
  <2>1. Contents(events) \in [1 .. n -> Rows]
    BY <1>1 DEF Contents, Links
  <2>2. Contents(events) \in Seq(Rows)
    BY <1>1, <2>1
  <2> QED
    BY <1>5, <2>2, RechainedType
<1>6. CASE \E o \in made : e = o.events
  BY <1>6, MadeIs DEF Bundles
<1> QED
  BY <1>2, <1>3, <1>4, <1>5, <1>6 DEF DamagedEvents

LEMMA FileStep ==
  ASSUME ChainInv, MadeInv, MadeInv', ChainInv', FileInv, [Next]_vars
  PROVE  FileInv'
<1>1. made \subseteq made'
  BY DEF Next, vars, exports, Event, VerifyExport, ProjectExport, SignExport, RefuseExport,
     Spoil, Restore, Receive, Damage, Discard
<1>2. CASE file' = file
  BY <1>1, <1>2 DEF FileInv
<1>3. CASE \E b \in made : Receive(b)
  BY <1>1, <1>3, MadeIs DEF FileInv, Receive
<1>4. CASE Discard
  <2>1. <<>> \in Seq(Rows) /\ file' = Bundle(<<>>, "other")
    BY <1>4 DEF Discard, NoFile
  <2>2. /\ Bundle(<<>>, "other") \in Bundles
        /\ Bundle(<<>>, "other").signature = Sign("other", HeadOf(Rechained(<<>>)))
    BY <2>1, BundleType
  <2>3. file' \in Bundles /\ file'.signature.by = "other"
    BY <2>1, <2>2 DEF Sign
  <2> QED
    BY <2>3 DEF FileInv
<1>5. CASE Damage
  <2>1. file \in Bundles /\ file' \in Damaged(file)
    BY <1>5 DEF Damage, FileInv
  <2>2. CASE \E e \in DamagedEvents(file.events) : file' = [file EXCEPT !.events = e]
    <3>1. PICK e \in DamagedEvents(file.events) : file' = [file EXCEPT !.events = e]
      BY <2>2
    <3>2. e \in Seq(Links(Rows))
      BY <2>1, <3>1, DamagedType DEF Bundles
    <3>3. file' \in Bundles /\ file'.signature = file.signature
      BY <2>1, <3>1, <3>2 DEF Bundles
    <3> QED
      BY <1>1, <3>3 DEF FileInv
  <2>3. CASE \E h \in {HeadOf(file.events)} \cup {o.head : o \in made} :
               file' = [file EXCEPT !.head = h]
    <3>1. PICK h \in {HeadOf(file.events)} \cup {o.head : o \in made} :
            file' = [file EXCEPT !.head = h]
      BY <2>3
    <3>2. HeadOf(file.events) \in Heads
      <4> DEFINE l == file.events
      <4>1. l \in Seq(Links(Rows))
        BY <2>1 DEF Bundles
      <4>2. CASE l = <<>>
        BY <4>2 DEF HeadOf, Heads, Genesis, Hashes
      <4>3. CASE l # <<>>
        <5>1. Last(l) \in Links(Rows) /\ Len(l) \in Nat
          <6> HIDE DEF l
          <6> QED
            BY <4>1, <4>3 DEF Last
        <5> QED
          BY <4>3, <5>1 DEF HeadOf, Heads, Links
      <4> QED
        BY <4>2, <4>3
    <3>3. \A o \in made : o.head \in Heads
      BY MadeIs DEF Bundles
    <3>4. h \in Heads
      BY <3>1, <3>2, <3>3
    <3>5. file' \in Bundles /\ file'.signature = file.signature
      BY <2>1, <3>1, <3>4 DEF Bundles
    <3> QED
      BY <1>1, <3>5 DEF FileInv
  <2>4. CASE \E o \in made : file' = [file EXCEPT !.signature = o.signature]
    <3>1. PICK o \in made : file' = [file EXCEPT !.signature = o.signature]
      BY <2>4
    <3>2. file' \in Bundles /\ file'.signature = o.signature
      BY <2>1, <3>1, MadeIs DEF Bundles
    <3> QED
      BY <1>1, <3>2 DEF FileInv
  <2>5. CASE file' = [file EXCEPT !.key = "other", !.signature = Sign("other", file.head)]
    <3>1. file' \in Bundles /\ file'.signature.by = "other"
      BY <2>1, <2>5 DEF Bundles, Sign
    <3> QED
      BY <3>1 DEF FileInv
  <2> QED
    BY <2>1, <2>2, <2>3, <2>4, <2>5 DEF Damaged
<1> QED
  BY <1>2, <1>3, <1>4, <1>5
  DEF Next, vars, Event, VerifyExport, ProjectExport, SignExport, RefuseExport, Spoil, Restore

ExportInv == ChainInv /\ ReadInv /\ MadeInv /\ FileInv

LEMMA ExportInductive == Spec => []ExportInv
<1>1. Init => ExportInv
  <2> SUFFICES ASSUME Init PROVE ExportInv
    OBVIOUS
  <2>1. ChainInv /\ ReadInv /\ MadeInv
    <3>1. <<>> \in Seq(Says) /\ <<>> \in Seq(Events)
      OBVIOUS
    <3> QED
      BY <3>1 DEF Init, ChainInv, ReadInv, MadeInv, Idle
  <2>2. <<>> \in Seq(Rows) /\ file = Bundle(<<>>, "other")
    BY DEF Init, NoFile
  <2>3. /\ Bundle(<<>>, "other") \in Bundles
        /\ Bundle(<<>>, "other").signature = Sign("other", HeadOf(Rechained(<<>>)))
    BY <2>2, BundleType
  <2>4. FileInv
    BY <2>2, <2>3 DEF FileInv, Sign
  <2> QED
    BY <2>1, <2>4 DEF ExportInv
<1>2. ExportInv /\ [Next]_vars => ExportInv'
  BY ChainStep, ReadStep, MadeStep, FileStep DEF ExportInv
<1> QED
  BY <1>1, <1>2, PTL DEF Spec

-----------------------------------------------------------------------------
(* What a reader accepts *)

LEMMA GenuineNow ==
  ASSUME ExportInv, Accepts(file, {"operator"})
  PROVE  file \in made
<1>1. /\ file.key = "operator" /\ Chained(file.events) /\ file.head = HeadOf(file.events)
      /\ file.signature = Sign("operator", file.head)
  BY DEF Accepts, HeadFits
<1>2. file \in Bundles
  BY DEF ExportInv, FileInv
<1>3. PICK o \in made : file.signature = o.signature
  BY <1>1 DEF ExportInv, FileInv, Sign
<1>4. PICK rows \in Seq(Rows) : o = Bundle(rows, "operator")
  BY DEF ExportInv, MadeInv
<1>5. /\ o.events = Rechained(rows) /\ o.head = HeadOf(Rechained(rows)) /\ o.key = "operator"
      /\ o.signature = Sign("operator", HeadOf(Rechained(rows))) /\ o \in Bundles
  BY <1>4, BundleType
<1>6. file.head = o.head
  BY <1>1, <1>3, <1>5 DEF Sign
<1>7. file.events \in Seq(Links(Rows))
  BY <1>2 DEF Bundles
<1>8. /\ Contents(file.events) \in Seq(Rows)
      /\ file.events = Rechained(Contents(file.events))
  BY <1>1, <1>7, ChainedIs
<1>9. Contents(file.events) = rows
  BY <1>1, <1>5, <1>6, <1>8, HeadDetermines
<1>10. file.events = o.events
  BY <1>5, <1>8, <1>9
<1>11. file = o
  BY <1>1, <1>2, <1>3, <1>5, <1>6, <1>10 DEF Bundles
<1> QED
  BY <1>11

\* A reader that knows the operator's key accepts no file but an export that the
\* operator built, whole and in order, however files are damaged or mixed.
THEOREM Genuine == Spec => []AcceptedIsGenuine
<1>1. ExportInv => AcceptedIsGenuine
  BY GenuineNow DEF AcceptedIsGenuine
<1> QED
  BY <1>1, ExportInductive, PTL

\* The rows of an earlier moment begin those of a later one.
LEMMA RowsGrow ==
  ASSUME ChainInv, NEW m \in 0 .. Len(history), NEW n \in 0 .. Len(history), m <= n
  PROVE  /\ At(m) \in Seq(Rows) /\ At(n) \in Seq(Rows) /\ Len(At(m)) <= Len(At(n))
         /\ \A k \in 1 .. Len(At(m)) : At(m)[k] = At(n)[k]
<1> DEFINE h == SubSeq(history, 1, n)
           p == At(m)
           q == At(n)
<1>1. history \in Seq(Says)
  BY DEF ChainInv
<1>2. h \in Seq(Says) /\ Len(h) = n /\ m \in 0 .. Len(h)
  BY <1>1
<1>3. SubSeq(history, 1, m) = SubSeq(h, 1, m) /\ SubSeq(h, 1, m) \in Seq(Says)
  BY <1>1
<1>4. p = Projection(SubSeq(h, 1, m)) /\ q = Projection(h)
  BY <1>3 DEF At
<1> HIDE DEF h, p, q
<1>5. p \in Seq(Rows) /\ Len(p) = Cardinality(Surfaced(SubSeq(h, 1, m)))
  BY <1>3, <1>4, ProjectionType
<1>6. q \in Seq(Rows) /\ Len(q) = Cardinality(Surfaced(h))
  BY <1>2, <1>4, ProjectionType
<1>7. \A k \in 1 .. Len(p) : k \in 1 .. Len(q) /\ p[k] = q[k]
  BY <1>2, <1>4, <1>5, <1>6, ProjectionGrows
<1>8. Len(p) <= Len(q)
  <2>1. Len(p) \in Nat /\ Len(q) \in Nat
    BY <1>5, <1>6
  <2>2. Len(p) # 0 => Len(p) \in 1 .. Len(p)
    BY <2>1
  <2> QED
    BY <1>7, <2>1, <2>2
<1> QED
  BY <1>5, <1>6, <1>7, <1>8 DEF p, q

LEMMA PrefixIs ==
  ASSUME NEW S, NEW s \in Seq(S), NEW t \in Seq(S), Len(s) <= Len(t),
         \A k \in 1 .. Len(s) : s[k] = t[k]
  PROVE  IsPrefix(s, t)
<1>1. SubSeq(s, 1, Len(s)) = SubSeq(t, 1, Len(s))
  OBVIOUS
<1> QED
  BY <1>1 DEF IsPrefix

LEMMA StoryGrows ==
  ASSUME ChainInv, NEW m \in 0 .. Len(history), NEW n \in 0 .. Len(history), m <= n
  PROVE  IsPrefix(Rechained(At(m)), Rechained(At(n)))
<1> DEFINE p == At(m)
           q == At(n)
<1>1. /\ p \in Seq(Rows) /\ q \in Seq(Rows) /\ Len(p) <= Len(q)
      /\ \A k \in 1 .. Len(p) : p[k] = q[k]
  BY RowsGrow
<1> HIDE DEF p, q
<1>2. ASSUME NEW k \in 1 .. Len(p) PROVE Rechained(p)[k] = Rechained(q)[k]
  <2>1. /\ k \in 1 .. Len(q) /\ p[k] = q[k] /\ \A j \in 1 .. k - 1 : p[j] = q[j]
        /\ k \in DOMAIN p /\ k \in DOMAIN q
    BY <1>1
  <2>2. Covered(p, k - 1) = Covered(q, k - 1)
    BY <2>1 DEF Covered
  <2> QED
    BY <2>1, <2>2 DEF Rechained
<1> DEFINE r == Rechained(p)
           s == Rechained(q)
<1>3. /\ r \in Seq(Links(Rows)) /\ Len(r) = Len(p)
      /\ s \in Seq(Links(Rows)) /\ Len(s) = Len(q)
  BY <1>1, RechainedType
<1>4. Len(r) <= Len(s) /\ \A k \in 1 .. Len(r) : r[k] = s[k]
  BY <1>1, <1>2, <1>3
<1> HIDE DEF r, s
<1>5. IsPrefix(r, s)
  BY <1>3, <1>4, PrefixIs
<1> QED
  BY <1>5 DEF r, s, p, q

LEMMA OriginalsType ==
  ASSUME NEW rows \in Seq(Rows)
  PROVE  /\ Originals(rows) \in Seq({Original(r) : r \in Rows})
         /\ Len(Originals(rows)) = Len(rows)
         /\ \A k \in 1 .. Len(rows) : Originals(rows)[k] = Original(rows[k])
<1>1. DOMAIN rows = 1 .. Len(rows) /\ Len(rows) \in Nat /\ \A k \in 1 .. Len(rows) : rows[k] \in Rows
  OBVIOUS
<1>2. Originals(rows) = [k \in 1 .. Len(rows) |-> Original(rows[k])]
  BY <1>1 DEF Originals
<1>3. Originals(rows) \in [1 .. Len(rows) -> {Original(r) : r \in Rows}]
  BY <1>1, <1>2
<1> QED
  BY <1>1, <1>2, <1>3

LEMMA OriginalsGrow ==
  ASSUME ChainInv, NEW m \in 0 .. Len(history), NEW n \in 0 .. Len(history), m <= n
  PROVE  IsPrefix(Originals(At(m)), Originals(At(n)))
<1> DEFINE p == At(m)
           q == At(n)
           r == Originals(p)
           s == Originals(q)
           S == {Original(row) : row \in Rows}
<1>1. /\ p \in Seq(Rows) /\ q \in Seq(Rows) /\ Len(p) <= Len(q)
      /\ \A k \in 1 .. Len(p) : p[k] = q[k]
  BY RowsGrow
<1> HIDE DEF p, q
<1>2. /\ r \in Seq(S) /\ Len(r) = Len(p) /\ \A k \in 1 .. Len(p) : r[k] = Original(p[k])
      /\ s \in Seq(S) /\ Len(s) = Len(q) /\ \A k \in 1 .. Len(q) : s[k] = Original(q[k])
  BY <1>1, OriginalsType
<1> HIDE DEF r, s, S
<1>3. Len(r) <= Len(s) /\ \A k \in 1 .. Len(r) : r[k] = s[k]
  <2>1. Len(p) \in Nat /\ Len(q) \in Nat
    BY <1>1
  <2>2. \A k \in 1 .. Len(p) : k \in 1 .. Len(q)
    BY <1>1, <2>1
  <2> QED
    BY <1>1, <1>2, <2>2
<1>4. IsPrefix(r, s)
  BY <1>2, <1>3, PrefixIs
<1> QED
  BY <1>4 DEF p, q, r, s

\* Exports tell one story, the earlier the beginning of the later: word for word if what
\* was signed is what was verified, and but for the difference between authorized and
\* executed if the first read was.
THEOREM Story == Spec => []OneStory
<1>1. ASSUME ExportInv, NEW b \in whole, NEW c \in whole PROVE Begins(b.events, c.events)
  <2>1. \A o \in whole : \E n \in 0 .. Len(history) : o.events = Rechained(At(n))
    BY <1>1 DEF ExportInv, MadeInv, Bundle
  <2>2. PICK m \in 0 .. Len(history) : b.events = Rechained(At(m))
    BY <2>1
  <2>3. PICK n \in 0 .. Len(history) : c.events = Rechained(At(n))
    BY <2>1
  <2>4. m <= n => IsPrefix(Rechained(At(m)), Rechained(At(n)))
    BY <1>1, StoryGrows DEF ExportInv
  <2>5. n <= m => IsPrefix(Rechained(At(n)), Rechained(At(m)))
    BY <1>1, StoryGrows DEF ExportInv
  <2>6. m <= n \/ n <= m
    OBVIOUS
  <2> QED
    BY <2>2, <2>3, <2>4, <2>5, <2>6 DEF Begins
<1>2. ASSUME ExportInv, NEW b \in told, NEW c \in told
      PROVE  Begins(Originals(Contents(b.events)), Originals(Contents(c.events)))
  <2>1. ASSUME NEW o \in told
        PROVE  \E n \in 0 .. Len(history) :
                 Originals(Contents(o.events)) = Originals(At(n))
    <3>1. PICK n \in 0 .. Len(history), rows \in Seq(Rows) :
            o = Bundle(rows, "operator") /\ Originals(rows) = Originals(At(n))
      BY <1>2, <2>1 DEF ExportInv, MadeInv
    <3>2. Contents(o.events) = rows
      BY <3>1, BundleType, RechainedHolds
    <3> QED
      BY <3>1, <3>2
  <2>2. PICK m \in 0 .. Len(history) : Originals(Contents(b.events)) = Originals(At(m))
    BY <2>1
  <2>3. PICK n \in 0 .. Len(history) : Originals(Contents(c.events)) = Originals(At(n))
    BY <2>1
  <2>4. m <= n => IsPrefix(Originals(At(m)), Originals(At(n)))
    BY <1>2, OriginalsGrow DEF ExportInv
  <2>5. n <= m => IsPrefix(Originals(At(n)), Originals(At(m)))
    BY <1>2, OriginalsGrow DEF ExportInv
  <2>6. m <= n \/ n <= m
    OBVIOUS
  <2> QED
    BY <2>2, <2>3, <2>4, <2>5, <2>6 DEF Begins
<1>3. ExportInv => OneStory
  BY <1>1, <1>2 DEF OneStory
<1> QED
  BY <1>3, ExportInductive, PTL

-----------------------------------------------------------------------------
(* What a reader counts *)

Coded(h, code) == {i \in Surfaced(h) : MessageCode(h[i]) = code}

RowsOf(rows, code) == {k \in 1 .. Len(rows) : rows[k].message_code = code}

LEMMA CountRows ==
  ASSUME NEW rows \in Seq(Rows), NEW code, NEW key \in {"operator", "other"}
  PROVE  /\ Count(Bundle(rows, key), code) = Cardinality(RowsOf(rows, code))
         /\ IsFiniteSet(RowsOf(rows, code))
<1> DEFINE l == Bundle(rows, key).events
<1>1. l = Rechained(rows)
  BY BundleType
<1>2. l \in Seq(Links(Rows)) /\ Len(l) = Len(rows) /\ Len(rows) \in Nat
  BY <1>1, RechainedType
<1>3. \A k \in 1 .. Len(rows) : l[k].what = rows[k]
  BY <1>1, HashIs
<1>4. {k \in DOMAIN l : l[k].what.message_code = code} = RowsOf(rows, code)
  <2> HIDE DEF l
  <2>1. DOMAIN l = 1 .. Len(rows)
    BY <1>2
  <2> QED
    BY <1>3, <2>1 DEF RowsOf
<1>5. RowsOf(rows, code) \in SUBSET (1 .. Len(rows)) /\ IsFiniteSet(1 .. Len(rows))
  BY <1>2, FS_Interval DEF RowsOf
<1> QED
  BY <1>4, <1>5, FS_Subset DEF Count

\* A row is counted for each event of its code, and the other way round.
LEMMA CountIs ==
  ASSUME NEW h \in Seq(Says), NEW code, NEW key \in {"operator", "other"}
  PROVE  /\ Count(Bundle(Projection(h), key), code) = Cardinality(Coded(h, code))
         /\ IsFiniteSet(Coded(h, code))
<1> DEFINE P == Surfaced(h)
           rows == Projection(h)
           K == {k \in 1 .. Cardinality(P) : MessageCode(h[Place(P, k)]) = code}
           f == [k \in K |-> Place(P, k)]
<1>1. P \in SUBSET Nat /\ IsFiniteSet(P)
  <2>1. Len(h) \in 0 .. Len(h)
    OBVIOUS
  <2> QED
    BY <2>1, SurfacedFinite
<1>2. rows \in Seq(Rows) /\ Len(rows) = Cardinality(P) /\ Cardinality(P) \in Nat
  BY ProjectionType
<1>3. \A k \in 1 .. Cardinality(P) : rows[k].message_code = MessageCode(h[Place(P, k)])
  BY DEF Projection, PublicRecord
<1>4. Count(Bundle(rows, key), code) = Cardinality(K)
  <2> HIDE DEF rows
  <2>1. RowsOf(rows, code) = K
    BY <1>2, <1>3 DEF RowsOf
  <2> QED
    BY <1>2, <2>1, CountRows
<1> HIDE DEF P
<1>5. \A k \in 1 .. Cardinality(P) : Place(P, k) \in P /\ Rank(P, Place(P, k)) = k
  BY <1>1, PlaceIs
<1>6. f \in [K -> Coded(h, code)]
  <2>1. \A k \in K : Place(P, k) \in Coded(h, code)
    BY <1>5 DEF Coded, P
  <2> QED
    BY <2>1
<1>7. \A j, k \in K : f[j] = f[k] => j = k
  <2> SUFFICES ASSUME NEW j \in K, NEW k \in K, f[j] = f[k] PROVE j = k
    OBVIOUS
  <2>1. Rank(P, Place(P, j)) = j /\ Rank(P, Place(P, k)) = k
    BY <1>5
  <2>2. Place(P, j) = Place(P, k)
    OBVIOUS
  <2> QED
    BY <2>1, <2>2
<1>8. ASSUME NEW i \in Coded(h, code) PROVE \E k \in K : f[k] = i
  <2>1. i \in P /\ MessageCode(h[i]) = code
    BY DEF Coded, P
  <2>2. Rank(P, i) \in 1 .. Cardinality(P)
    BY <1>1, <2>1, RankRange
  <2>3. Place(P, Rank(P, i)) = i
    <3>1. /\ Place(P, Rank(P, i)) \in P
          /\ Rank(P, Place(P, Rank(P, i))) = Rank(P, i)
      BY <1>5, <2>2
    <3>2. \A j \in P : Rank(P, j) = Rank(P, i) => j = i
      BY <1>1, <2>1, RankUnique
    <3> QED
      BY <3>1, <3>2
  <2>4. Rank(P, i) \in K
    BY <2>1, <2>2, <2>3
  <2> QED
    BY <2>3, <2>4
<1>9. IsFiniteSet(K)
  <2>1. IsFiniteSet(1 .. Cardinality(P))
    BY <1>2, FS_Interval
  <2>2. K \in SUBSET (1 .. Cardinality(P))
    OBVIOUS
  <2> QED
    BY <2>1, <2>2, FS_Subset
<1>10. ExistsBijection(K, Coded(h, code))
  <2> HIDE DEF K
  <2>1. f \in Injection(K, Coded(h, code))
    BY <1>6, <1>7 DEF Injection, IsInjective
  <2>2. f \in Surjection(K, Coded(h, code))
    BY <1>6, <1>8 DEF Surjection
  <2> QED
    BY <2>1, <2>2 DEF ExistsBijection, Bijection
<1>11. IsFiniteSet(Coded(h, code)) /\ Cardinality(Coded(h, code)) = Cardinality(K)
  BY <1>9, <1>10, FS_Bijection
<1> QED
  BY <1>4, <1>11

\* The events of one type and disposition, up to a moment.
Sort(n, what) == {i \in 1 .. n : history[i][1] = what[1] /\ history[i][3] = what[2]}

LEMMA SortsAreCoded ==
  ASSUME ChainInv, NEW n \in 0 .. Len(history)
  PROVE  LET h == SubSeq(history, 1, n) IN
         /\ Coded(h, "EXECUTION_AUTHORIZED") = Sort(n, <<"PERMIT_ISSUED", "ALLOW">>)
         /\ Coded(h, "EXECUTION_COMMITTED") = Sort(n, <<"EXECUTION_RECORDED", "COMMITTED">>)
         /\ Coded(h, "EXECUTION_DENIED") = Sort(n, <<"INTENT_NON_EXECUTABLE", "REFUSAL">>)
         /\ Coded(h, "HUMAN_REVIEW_REQUIRED") =
              Sort(n, <<"INTENT_NON_EXECUTABLE", "MANUAL_REVIEW">>)
<1> DEFINE h == SubSeq(history, 1, n)
<1>1. history \in Seq(Says)
  BY DEF ChainInv
<1>2. DOMAIN h = 1 .. n /\ \A i \in 1 .. n : h[i] = history[i] /\ history[i] \in Says
  BY <1>1
<1> HIDE DEF h
<1>3. \A code : Coded(h, code) =
        {i \in 1 .. n : history[i][3] # "FAILED" /\ MessageCode(history[i]) = code}
  BY <1>2 DEF Coded, Surfaced, Surfaces
<1>4. ASSUME NEW i \in 1 .. n
      PROVE  LET says == history[i]
                 code == MessageCode(says)
             IN /\ says[3] # "FAILED" /\ code = "EXECUTION_AUTHORIZED"
                     <=> says[1] = "PERMIT_ISSUED" /\ says[3] = "ALLOW"
                /\ says[3] # "FAILED" /\ code = "EXECUTION_COMMITTED"
                     <=> says[1] = "EXECUTION_RECORDED" /\ says[3] = "COMMITTED"
                /\ says[3] # "FAILED" /\ code = "EXECUTION_DENIED"
                     <=> says[1] = "INTENT_NON_EXECUTABLE" /\ says[3] = "REFUSAL"
                /\ says[3] # "FAILED" /\ code = "HUMAN_REVIEW_REQUIRED"
                     <=> says[1] = "INTENT_NON_EXECUTABLE" /\ says[3] = "MANUAL_REVIEW"
  <2>1. history[i] \in Says
    BY <1>2
  <2> QED
    BY <2>1 DEF Says, MessageCode
<1> QED
  BY <1>3, <1>4 DEF Sort, h

\* An execution has its permit before it, and no other has the same.
PermitsFirst ==
  \A i \in 1 .. Len(history) : history[i][1] = "EXECUTION_RECORDED" =>
    /\ \E j \in 1 .. i - 1 : history[j] = <<"PERMIT_ISSUED", history[i][2], "ALLOW">>
    /\ \A j \in 1 .. i - 1 :
         history[j][1] = "EXECUTION_RECORDED" => history[j][2] # history[i][2]

LEMMA PermitsFirstStep ==
  ASSUME ChainInv, PermitsFirst, [Next]_vars
  PROVE  PermitsFirst'
<1>1. CASE UNCHANGED history
  BY <1>1 DEF PermitsFirst
<1>2. ASSUME NEW what \in Says, Event(what) PROVE PermitsFirst'
  <2> DEFINE n == Len(history)
  <2>1. history' = Append(history, what) /\ history \in Seq(Says) /\ (what[1] = "EXECUTION_RECORDED" => MayExecute(what[2]))
    BY <1>2 DEF Event, ChainInv
  <2>2. /\ Len(history') = n + 1 /\ n \in Nat /\ history'[n + 1] = what
        /\ \A j \in 1 .. n : history'[j] = history[j] /\ history[j] \in Says
    BY <2>1, AppendKeeps
  <2>3. Range(history) = {history[j] : j \in 1 .. n}
    BY <2>1 DEF Range
  <2> SUFFICES ASSUME NEW i \in 1 .. n + 1, history'[i][1] = "EXECUTION_RECORDED"
               PROVE  /\ \E j \in 1 .. i - 1 :
                           history'[j] = <<"PERMIT_ISSUED", history'[i][2], "ALLOW">>
                      /\ \A j \in 1 .. i - 1 : history'[j][1] = "EXECUTION_RECORDED" =>
                           history'[j][2] # history'[i][2]
    BY <2>2 DEF PermitsFirst
  <2>4. CASE i = n + 1
    <3>1. /\ <<"PERMIT_ISSUED", what[2], "ALLOW">> \in Range(history)
          /\ \A o \in {"COMMITTED", "FAILED"} :
               <<"EXECUTION_RECORDED", what[2], o>> \notin Range(history)
      BY <2>1, <2>2, <2>4 DEF MayExecute
    <3>2. \A j \in 1 .. n :
            history[j][1] = "EXECUTION_RECORDED" /\ history[j][2] = what[2] =>
              \E o \in {"COMMITTED", "FAILED"} :
                history[j] = <<"EXECUTION_RECORDED", what[2], o>>
      BY <2>2 DEF Says
    <3>3. i - 1 = n
      BY <2>2, <2>4
    <3> QED
      BY <2>2, <2>3, <2>4, <3>1, <3>2, <3>3
  <2>5. CASE i # n + 1
    <3>1. i \in 1 .. n /\ \A j \in 1 .. i - 1 : j \in 1 .. n
      BY <2>2, <2>5
    <3> QED
      BY <2>2, <3>1 DEF PermitsFirst
  <2> QED
    BY <2>4, <2>5
<1> QED
  BY <1>1, <1>2
  DEF Next, vars, memory, VerifyExport, ProjectExport, SignExport, RefuseExport, Spoil, Restore,
      Receive, Damage, Discard

LEMMA ExecutedHasPermit ==
  ASSUME ChainInv, PermitsFirst, NEW n \in 0 .. Len(history)
  PROVE  LET E == Sort(n, <<"EXECUTION_RECORDED", "COMMITTED">>)
             A == Sort(n, <<"PERMIT_ISSUED", "ALLOW">>)
         IN Cardinality(E) <= Cardinality(A)
<1> DEFINE E == Sort(n, <<"EXECUTION_RECORDED", "COMMITTED">>)
           A == Sort(n, <<"PERMIT_ISSUED", "ALLOW">>)
           f == [i \in E |-> CHOOSE j \in A : history[j][2] = history[i][2]]
<1>1. n \in Nat /\ \A i \in 1 .. n : i \in 1 .. Len(history) /\ \A j \in 1 .. i - 1 : j \in 1 .. n
  BY DEF ChainInv
<1>2. \A i \in E : i \in 1 .. n /\ history[i][1] = "EXECUTION_RECORDED"
  BY DEF Sort
<1>3. ASSUME NEW i \in E PROVE \E j \in A : history[j][2] = history[i][2]
  <2>1. i \in 1 .. n /\ i \in 1 .. Len(history) /\ history[i][1] = "EXECUTION_RECORDED"
    BY <1>1, <1>2
  <2>2. PICK j \in 1 .. i - 1 : history[j] = <<"PERMIT_ISSUED", history[i][2], "ALLOW">>
    BY <2>1 DEF PermitsFirst
  <2>3. j \in 1 .. n
    BY <1>1, <2>1
  <2>4. history[j][1] = "PERMIT_ISSUED" /\ history[j][2] = history[i][2] /\ history[j][3] = "ALLOW"
    BY <2>2
  <2>5. j \in A
    BY <2>3, <2>4 DEF Sort
  <2> QED
    BY <2>4, <2>5
<1> HIDE DEF E, A
<1>4. \A i \in E : f[i] \in A /\ history[f[i]][2] = history[i][2]
  BY <1>3
<1>5. ASSUME NEW i \in E, NEW j \in E, f[i] = f[j] PROVE i = j
  <2>1. history[i][2] = history[j][2]
    BY <1>4, <1>5
  <2>2. i \in 1 .. n /\ j \in 1 .. n /\ i \in 1 .. Len(history) /\ j \in 1 .. Len(history)
        /\ history[i][1] = "EXECUTION_RECORDED" /\ history[j][1] = "EXECUTION_RECORDED"
    BY <1>1, <1>2
  <2>3. ~(i < j) /\ ~(j < i)
    BY <2>1, <2>2 DEF PermitsFirst
  <2> QED
    BY <2>2, <2>3
<1>6. f \in Injection(E, A)
  BY <1>4, <1>5 DEF Injection, IsInjective
<1>7. IsFiniteSet(A)
  <2>1. IsFiniteSet(1 .. n) /\ A \in SUBSET (1 .. n)
    BY <1>1, FS_Interval DEF A, Sort
  <2> QED
    BY <2>1, FS_Subset
<1>8. Cardinality(E) <= Cardinality(A)
  BY <1>6, <1>7, FS_Injection
<1> QED
  BY <1>8 DEF E, A

\* What the export of some moment counts.
LEMMA CountsAt ==
  ASSUME ChainInv, NEW n \in 0 .. Len(history)
  PROVE  LET b == Bundle(At(n), "operator") IN
         /\ At(n) \in Seq(Rows)
         /\ Count(b, "EXECUTION_AUTHORIZED") = CountOf(n, <<"PERMIT_ISSUED", "ALLOW">>)
         /\ Count(b, "EXECUTION_COMMITTED") = CountOf(n, <<"EXECUTION_RECORDED", "COMMITTED">>)
         /\ Count(b, "EXECUTION_DENIED") = CountOf(n, <<"INTENT_NON_EXECUTABLE", "REFUSAL">>)
         /\ Count(b, "HUMAN_REVIEW_REQUIRED") =
              CountOf(n, <<"INTENT_NON_EXECUTABLE", "MANUAL_REVIEW">>)
<1> DEFINE h == SubSeq(history, 1, n)
           b == Bundle(Projection(h), "operator")
<1>1. h \in Seq(Says)
  BY SurfacedFinite DEF ChainInv
<1>2. \A code : Count(b, code) = Cardinality(Coded(h, code))
  BY <1>1, CountIs
<1>3. /\ Coded(h, "EXECUTION_AUTHORIZED") = Sort(n, <<"PERMIT_ISSUED", "ALLOW">>)
      /\ Coded(h, "EXECUTION_COMMITTED") = Sort(n, <<"EXECUTION_RECORDED", "COMMITTED">>)
      /\ Coded(h, "EXECUTION_DENIED") = Sort(n, <<"INTENT_NON_EXECUTABLE", "REFUSAL">>)
      /\ Coded(h, "HUMAN_REVIEW_REQUIRED") =
           Sort(n, <<"INTENT_NON_EXECUTABLE", "MANUAL_REVIEW">>)
  BY SortsAreCoded
<1>4. \A what : CountOf(n, what) = Cardinality(Sort(n, what))
  BY DEF CountOf, Sort
<1>5. At(n) = Projection(h) /\ At(n) \in Seq(Rows)
  BY <1>1, ProjectionType DEF At
<1> HIDE DEF h
<1> QED
  BY <1>2, <1>3, <1>4, <1>5

LEMMA CodesDiffer ==
  ASSUME NEW r \in Rows
  PROVE  Original(r).message_code =
              IF r.message_code = "EXECUTION_COMMITTED" THEN "EXECUTION_AUTHORIZED"
              ELSE r.message_code
BY DEF Rows, PublicRecord, Original

LEMMA SummaryNow ==
  ASSUME ExportInv, PermitsFirst, file \in whole
  PROVE  \E n \in 0 .. Len(history) :
           /\ Summary(file) = [authorized |-> CountOf(n, <<"PERMIT_ISSUED", "ALLOW">>),
                               executed |-> CountOf(n, <<"EXECUTION_RECORDED", "COMMITTED">>),
                               denied |-> CountOf(n, <<"INTENT_NON_EXECUTABLE", "REFUSAL">>),
                               review |-> CountOf(n, <<"INTENT_NON_EXECUTABLE", "MANUAL_REVIEW">>)]
           /\ Summary(file).executed <= Summary(file).authorized
<1>1. ChainInv
  BY DEF ExportInv
<1>2. PICK n \in 0 .. Len(history) : file = Bundle(At(n), "operator")
  BY DEF ExportInv, MadeInv
<1>3. /\ Count(file, "EXECUTION_AUTHORIZED") = CountOf(n, <<"PERMIT_ISSUED", "ALLOW">>)
      /\ Count(file, "EXECUTION_COMMITTED") = CountOf(n, <<"EXECUTION_RECORDED", "COMMITTED">>)
      /\ Count(file, "EXECUTION_DENIED") = CountOf(n, <<"INTENT_NON_EXECUTABLE", "REFUSAL">>)
      /\ Count(file, "HUMAN_REVIEW_REQUIRED") =
           CountOf(n, <<"INTENT_NON_EXECUTABLE", "MANUAL_REVIEW">>)
  BY <1>1, <1>2, CountsAt
<1>4. CountOf(n, <<"EXECUTION_RECORDED", "COMMITTED">>) <= CountOf(n, <<"PERMIT_ISSUED", "ALLOW">>)
  BY <1>1, ExecutedHasPermit DEF CountOf, Sort
<1> QED
  BY <1>3, <1>4 DEF Summary

\* Rows that the comparison takes for the same are counted the same, what was authorized
\* and what was executed together.
LEMMA SameTotals ==
  ASSUME NEW p \in Seq(Rows), NEW q \in Seq(Rows), Originals(p) = Originals(q)
  PROVE  LET b == Bundle(p, "operator")
             c == Bundle(q, "operator")
         IN /\ Count(b, "EXECUTION_DENIED") = Count(c, "EXECUTION_DENIED")
            /\ Count(b, "HUMAN_REVIEW_REQUIRED") = Count(c, "HUMAN_REVIEW_REQUIRED")
            /\ Count(b, "EXECUTION_AUTHORIZED") + Count(b, "EXECUTION_COMMITTED") =
                 Count(c, "EXECUTION_AUTHORIZED") + Count(c, "EXECUTION_COMMITTED")
<1>1. /\ Len(p) = Len(q)
      /\ \A k \in 1 .. Len(p) : p[k] \in Rows /\ q[k] \in Rows /\ Original(p[k]) = Original(q[k])
  <2> DEFINE r == Originals(p)
             s == Originals(q)
  <2>1. Len(r) = Len(p) /\ \A k \in 1 .. Len(p) : r[k] = Original(p[k])
    BY OriginalsType
  <2>2. Len(s) = Len(q) /\ \A k \in 1 .. Len(q) : s[k] = Original(q[k])
    BY OriginalsType
  <2>3. r = s
    OBVIOUS
  <2>4. \A k \in 1 .. Len(p) : p[k] \in Rows
    OBVIOUS
  <2>5. \A k \in 1 .. Len(q) : q[k] \in Rows
    OBVIOUS
  <2> HIDE DEF r, s
  <2> QED
    BY <2>1, <2>2, <2>3, <2>4, <2>5
<1>2. \A k \in 1 .. Len(p) :
        /\ p[k].message_code = "EXECUTION_DENIED" <=> q[k].message_code = "EXECUTION_DENIED"
        /\ p[k].message_code = "HUMAN_REVIEW_REQUIRED"
             <=> q[k].message_code = "HUMAN_REVIEW_REQUIRED"
        /\ p[k].message_code \in {"EXECUTION_AUTHORIZED", "EXECUTION_COMMITTED"}
             <=> q[k].message_code \in {"EXECUTION_AUTHORIZED", "EXECUTION_COMMITTED"}
  BY <1>1, CodesDiffer
<1>3. \A code \in {"EXECUTION_DENIED", "HUMAN_REVIEW_REQUIRED"} : RowsOf(p, code) = RowsOf(q, code)
  BY <1>1, <1>2 DEF RowsOf
<1>4. RowsOf(p, "EXECUTION_AUTHORIZED") \cup RowsOf(p, "EXECUTION_COMMITTED") =
        RowsOf(q, "EXECUTION_AUTHORIZED") \cup RowsOf(q, "EXECUTION_COMMITTED")
  BY <1>1, <1>2 DEF RowsOf
<1>5. ASSUME NEW rows \in Seq(Rows)
      PROVE  LET A == RowsOf(rows, "EXECUTION_AUTHORIZED")
                 C == RowsOf(rows, "EXECUTION_COMMITTED")
             IN Cardinality(A \cup C) = Cardinality(A) + Cardinality(C)
  <2> DEFINE A == RowsOf(rows, "EXECUTION_AUTHORIZED")
             C == RowsOf(rows, "EXECUTION_COMMITTED")
  <2>1. IsFiniteSet(A) /\ IsFiniteSet(C)
    BY CountRows
  <2>2. A \cap C = {}
    BY DEF RowsOf
  <2> HIDE DEF A, C
  <2>3. Cardinality(A \cup C) = Cardinality(A) + Cardinality(C) - Cardinality(A \cap C)
    BY <2>1, FS_Union
  <2>4. Cardinality(A) \in Nat /\ Cardinality(C) \in Nat /\ Cardinality(A \cap C) = 0
    BY <2>1, <2>2, FS_CardinalityType, FS_EmptySet
  <2>5. Cardinality(A \cup C) = Cardinality(A) + Cardinality(C)
    BY <2>3, <2>4
  <2> QED
    BY <2>5 DEF A, C
<1>6. ASSUME NEW rows \in Seq(Rows), NEW code
      PROVE  Count(Bundle(rows, "operator"), code) = Cardinality(RowsOf(rows, code))
  BY CountRows
<1> QED
  BY <1>3, <1>4, <1>5, <1>6

LEMMA TotalsNow ==
  ASSUME ExportInv, file \in told
  PROVE  \E n \in 0 .. Len(history) :
           /\ Summary(file).denied = CountOf(n, <<"INTENT_NON_EXECUTABLE", "REFUSAL">>)
           /\ Summary(file).review = CountOf(n, <<"INTENT_NON_EXECUTABLE", "MANUAL_REVIEW">>)
           /\ Summary(file).authorized + Summary(file).executed =
                CountOf(n, <<"PERMIT_ISSUED", "ALLOW">>)
                  + CountOf(n, <<"EXECUTION_RECORDED", "COMMITTED">>)
<1>1. PICK n \in 0 .. Len(history), rows \in Seq(Rows) :
        file = Bundle(rows, "operator") /\ Originals(rows) = Originals(At(n))
  BY DEF ExportInv, MadeInv
<1> DEFINE b == Bundle(At(n), "operator")
<1>2. /\ At(n) \in Seq(Rows)
      /\ Count(b, "EXECUTION_AUTHORIZED") = CountOf(n, <<"PERMIT_ISSUED", "ALLOW">>)
      /\ Count(b, "EXECUTION_COMMITTED") = CountOf(n, <<"EXECUTION_RECORDED", "COMMITTED">>)
      /\ Count(b, "EXECUTION_DENIED") = CountOf(n, <<"INTENT_NON_EXECUTABLE", "REFUSAL">>)
      /\ Count(b, "HUMAN_REVIEW_REQUIRED") =
           CountOf(n, <<"INTENT_NON_EXECUTABLE", "MANUAL_REVIEW">>)
  BY CountsAt DEF ExportInv
<1>3. /\ Count(file, "EXECUTION_DENIED") = Count(b, "EXECUTION_DENIED")
      /\ Count(file, "HUMAN_REVIEW_REQUIRED") = Count(b, "HUMAN_REVIEW_REQUIRED")
      /\ Count(file, "EXECUTION_AUTHORIZED") + Count(file, "EXECUTION_COMMITTED") =
           Count(b, "EXECUTION_AUTHORIZED") + Count(b, "EXECUTION_COMMITTED")
  BY <1>1, <1>2, SameTotals
<1> HIDE DEF b
<1> QED
  BY <1>2, <1>3 DEF Summary

\* What the reader counts is what the engine had done at some moment, and no execution
\* without its permit, if what was signed is what was verified; if only the first read
\* was, all but which of two is authorized and which executed.
THEOREM Tally == Spec => []SummaryTells
<1>1. Init => PermitsFirst
  BY DEF Init, PermitsFirst
<1>2. ExportInv /\ PermitsFirst /\ [Next]_vars => PermitsFirst'
  BY PermitsFirstStep DEF ExportInv
<1>3. ExportInv /\ PermitsFirst => SummaryTells
  BY SummaryNow, TotalsNow DEF SummaryTells
<1> QED
  BY <1>1, <1>2, <1>3, ExportInductive, PTL DEF Spec
=============================================================================
