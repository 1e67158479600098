---------------------------- MODULE SequenceLemmas ----------------------------
(***************************************************************************)
(* Facts about sequences that the proofs of several modules share.         *)
(*                                                                         *)
(* Prefixes: what the growth of a role history and the delivery of a       *)
(* stream rest on. Selections (Picked): their length, the place of every   *)
(* selected edge, and that the selection of a concatenation is the         *)
(* concatenation of two selections. Sorting (Sorted): it is the ascending  *)
(* rearrangement.                                                          *)
(*                                                                         *)
(* Places are counted with Cardinality, and what needs induction over a    *)
(* number is proved by the least counterexample (NatMinimum).              *)
(***************************************************************************)
EXTENDS Integers, EdgeOrder, SequenceTheorems, FiniteSetTheorems,
        WellFoundedInduction, TLAPS

\* A nonempty set of naturals has a least element.
LEMMA NatMinimum ==
  ASSUME NEW T \in SUBSET Nat, T # {}
  PROVE  \E x \in T : \A y \in T : x <= y
<1>1. PICK x \in T : \A y \in T : ~(<<y, x>> \in OpToRel(<, Nat))
  BY NatLessThanWellFounded, WFMin
<1>2. \A y \in T : ~(y < x)
  BY <1>1, Zenon DEF OpToRel
<1> QED
  BY <1>2

-----------------------------------------------------------------------------
(* Prefixes                                                                *)

\* A sequence is a prefix of another iff it agrees with it as far as it goes.
LEMMA PrefixPointwise ==
  ASSUME NEW S, NEW s \in Seq(S), NEW t \in Seq(S)
  PROVE  IsPrefix(s, t) <=> Len(s) <= Len(t) /\ \A i \in 1..Len(s) : s[i] = t[i]
<1>1. SubSeq(s, 1, Len(s)) = s
  OBVIOUS
<1>2. ASSUME Len(s) <= Len(t)
      PROVE  (SubSeq(t, 1, Len(s)) = s) <=> \A i \in 1..Len(s) : s[i] = t[i]
  <2> DEFINE u == SubSeq(t, 1, Len(s))
  <2>1. u \in Seq(S) /\ Len(u) = Len(s) /\ \A i \in 1..Len(s) : u[i] = t[i]
    BY <1>2
  <2>2. u = s <=> \A i \in 1..Len(s) : u[i] = s[i]
    BY <2>1
  <2> QED
    BY <2>1, <2>2
<1> QED
  BY <1>1, <1>2 DEF IsPrefix

\* Every sequence is a prefix of itself, the empty one of all.
LEMMA PrefixSelf ==
  ASSUME NEW S, NEW s \in Seq(S)
  PROVE  IsPrefix(s, s) /\ IsPrefix(<<>>, s)
<1>1. <<>> \in Seq(S) /\ Len(<<>>) = 0 /\ Len(s) \in Nat
  OBVIOUS
<1>2. IsPrefix(s, s) <=> Len(s) <= Len(s) /\ \A i \in 1..Len(s) : s[i] = s[i]
  BY PrefixPointwise
<1>3. SubSeq(<<>>, 1, 0) = <<>> /\ SubSeq(s, 1, 0) = <<>>
  BY SubSeqEmpty
<1> QED
  BY <1>1, <1>2, <1>3 DEF IsPrefix

\* One more element at the end of a sequence keeps its prefixes.
LEMMA PrefixAppend ==
  ASSUME NEW S, NEW s \in Seq(S), NEW t \in Seq(S), NEW x \in S, IsPrefix(s, t)
  PROVE  Append(t, x) \in Seq(S) /\ IsPrefix(s, Append(t, x))
<1> DEFINE u == Append(t, x)
<1>1. u \in Seq(S) /\ Len(u) = Len(t) + 1 /\ \A i \in 1..Len(t) : u[i] = t[i]
  OBVIOUS
<1>2. Len(s) <= Len(t) /\ \A i \in 1..Len(s) : s[i] = t[i]
  BY PrefixPointwise
<1>3. Len(s) \in Nat /\ Len(t) \in Nat
  OBVIOUS
<1>4. Len(s) <= Len(u) /\ \A i \in 1..Len(s) : s[i] = u[i]
  BY <1>1, <1>2, <1>3
<1> HIDE DEF u
<1>5. IsPrefix(s, u) <=> Len(s) <= Len(u) /\ \A i \in 1..Len(s) : s[i] = u[i]
  BY <1>1, PrefixPointwise
<1> QED
  BY <1>1, <1>4, <1>5 DEF u

\* Prefixes of prefixes, and when they are proper.
LEMMA PrefixTransitive ==
  ASSUME NEW S, NEW s \in Seq(S), NEW t \in Seq(S), NEW u \in Seq(S),
         IsPrefix(s, t), IsPrefix(t, u)
  PROVE  IsPrefix(s, u) /\ (Len(t) < Len(u) => IsStrictPrefix(s, u))
<1>1. Len(s) \in Nat /\ Len(t) \in Nat /\ Len(u) \in Nat
  OBVIOUS
<1>2. Len(s) <= Len(t) /\ \A i \in 1..Len(s) : s[i] = t[i]
  BY PrefixPointwise
<1>3. Len(t) <= Len(u) /\ \A i \in 1..Len(t) : t[i] = u[i]
  BY PrefixPointwise
<1>4. Len(s) <= Len(u) /\ \A i \in 1..Len(s) : s[i] = u[i]
  BY <1>1, <1>2, <1>3
<1>5. IsPrefix(s, u)
  BY <1>4, PrefixPointwise
<1>6. Len(t) < Len(u) => s # u
  BY <1>1, <1>2
<1> QED
  BY <1>5, <1>6 DEF IsStrictPrefix

-----------------------------------------------------------------------------
(* The edges at some places                                                *)

\* Places of a sequence are finitely many.
LEMMA PlacesFinite ==
  ASSUME NEW n \in Nat, NEW C \in SUBSET (1..n)
  PROVE  /\ IsFiniteSet(C) /\ Cardinality(C) \in Nat /\ Cardinality(1..n) = n
         /\ \A D \in SUBSET C : /\ IsFiniteSet(D) /\ Cardinality(D) \in Nat
                                /\ Cardinality(D) <= Cardinality(C)
<1>1. IsFiniteSet(1..n) /\ Cardinality(1..n) = n
  BY FS_Interval
<1>2. IsFiniteSet(C) /\ Cardinality(C) \in Nat
  BY <1>1, FS_Subset, FS_CardinalityType
<1>3. ASSUME NEW D \in SUBSET C
      PROVE  IsFiniteSet(D) /\ Cardinality(D) \in Nat /\ Cardinality(D) <= Cardinality(C)
  BY <1>2, FS_Subset, FS_CardinalityType
<1> QED
  BY <1>1, <1>2, <1>3

\* The later of two places comes after more of them.
LEMMA RankGrows ==
  ASSUME NEW n \in Nat, NEW C \in SUBSET (1..n), NEW i \in C, NEW j \in C, i < j
  PROVE  Cardinality({ x \in C : x <= i }) < Cardinality({ x \in C : x <= j })
<1> DEFINE I == { x \in C : x <= i }
           J == { x \in C : x <= j }
<1>0. \A x \in C : x \in Nat
  OBVIOUS
<1>1. I \in SUBSET J /\ j \in J /\ j \notin I /\ J \in SUBSET C /\ I \in SUBSET C
  <2>1. \A x \in C : x <= i => x <= j
    BY <1>0
  <2>2. j <= j /\ ~(j <= i)
    BY <1>0
  <2>3. I \in SUBSET J
    BY <2>1, Zenon
  <2>4. j \in J /\ j \notin I
    BY <2>2, Zenon
  <2> QED
    BY <2>3, <2>4
<1>2. IsFiniteSet(J) /\ Cardinality(I) \in Nat /\ Cardinality(J) \in Nat
  BY <1>1, PlacesFinite
<1>3. I # J
  BY <1>1
<1> HIDE DEF I, J
<1>4. Cardinality(I) <= Cardinality(J) /\ Cardinality(I) # Cardinality(J)
  BY <1>1, <1>2, <1>3, FS_Subset
<1>5. Cardinality(I) < Cardinality(J)
  BY <1>2, <1>4
<1> QED
  BY <1>5 DEF I, J

\* A place is found by the number of places up to it.
LEMMA NthOfRank ==
  ASSUME NEW n \in Nat, NEW C \in SUBSET (1..n), NEW i \in C
  PROVE  /\ Nth(C, Cardinality({ x \in C : x <= i })) = i
         /\ Cardinality({ x \in C : x <= i }) \in 1..Cardinality(C)
<1> DEFINE R(y) == Cardinality({ x \in C : x <= y })
<1>1. \A j \in C : R(j) = R(i) => j = i
  <2> SUFFICES ASSUME NEW j \in C, R(j) = R(i), j # i PROVE FALSE
    OBVIOUS
  <2>1. i < j \/ j < i
    OBVIOUS
  <2>2. R(i) \in Nat /\ R(j) \in Nat
    BY PlacesFinite
  <2>3. R(i) < R(j) \/ R(j) < R(i)
    BY <2>1, RankGrows
  <2> QED
    BY <2>2, <2>3
<1>2. R(i) \in Nat /\ R(i) <= Cardinality(C) /\ Cardinality(C) \in Nat
  BY PlacesFinite
<1>3. R(i) # 0
  <2> DEFINE D == { x \in C : x <= i }
  <2>1. D \in SUBSET C /\ i \in D
    OBVIOUS
  <2>2. IsFiniteSet(D)
    BY <2>1, PlacesFinite
  <2> HIDE DEF D
  <2>3. Cardinality(D) # 0
    BY <2>1, <2>2, FS_EmptySet
  <2> QED
    BY <2>3 DEF D
<1>4. Nth(C, R(i)) = CHOOSE j \in C : R(j) = R(i)
  BY DEF Nth
<1> HIDE DEF R
<1>5. Nth(C, R(i)) = i
  BY <1>1, <1>4
<1>6. R(i) \in 1..Cardinality(C)
  BY <1>2, <1>3
<1> QED
  BY <1>5, <1>6 DEF R

\* Every number up to their count is the rank of a place.
LEMMA NthExists ==
  ASSUME NEW n \in Nat, NEW C \in SUBSET (1..n), NEW k \in 1..Cardinality(C)
  PROVE  Nth(C, k) \in C /\ Cardinality({ x \in C : x <= Nth(C, k) }) = k
<1> DEFINE R(y) == Cardinality({ x \in C : x <= y })
           f == [y \in C |-> R(y)]
<1>1. IsFiniteSet(C) /\ Cardinality(C) \in Nat
  BY PlacesFinite
<1>2. \A y \in C : R(y) \in 1..Cardinality(C)
  BY NthOfRank
<1>3. \A x, y \in C : R(x) = R(y) => x = y
  <2> SUFFICES ASSUME NEW x \in C, NEW y \in C, R(x) = R(y), x # y PROVE FALSE
    OBVIOUS
  <2>1. x < y \/ y < x
    OBVIOUS
  <2>2. R(x) \in Nat /\ R(y) \in Nat
    BY PlacesFinite
  <2>3. R(x) < R(y) \/ R(y) < R(x)
    BY <2>1, RankGrows
  <2> QED
    BY <2>2, <2>3
<1>4. Nth(C, k) = CHOOSE i \in C : R(i) = k
  BY DEF Nth
<1> HIDE DEF R
<1>5. f \in Injection(C, 1..Cardinality(C))
  BY <1>2, <1>3 DEF Injection, IsInjective
<1>6. IsFiniteSet(1..Cardinality(C)) /\ Cardinality(1..Cardinality(C)) = Cardinality(C)
  BY <1>1, FS_Interval
<1>7. f \in Surjection(C, 1..Cardinality(C))
  BY <1>5, <1>6, FS_Injection
<1>8. \E i \in C : R(i) = k
  BY <1>7 DEF Surjection
<1>9. Nth(C, k) \in C /\ R(Nth(C, k)) = k
  BY <1>4, <1>8
<1> QED
  BY <1>9 DEF R

\* A sequence that agrees with two others, one behind the other, is their concatenation.
LEMMA ConcatPointwise ==
  ASSUME NEW S, NEW u \in Seq(S), NEW v \in Seq(S), NEW w \in Seq(S),
         Len(u) = Len(v) + Len(w),
         \A k \in 1..Len(v) : u[k] = v[k],
         \A k \in 1..Len(w) : u[Len(v) + k] = w[k]
  PROVE  u = v \o w
<1>1. Len(u) \in Nat /\ Len(v) \in Nat /\ Len(w) \in Nat
  OBVIOUS
<1>2. v \o w \in Seq(S) /\ Len(v \o w) = Len(u)
  OBVIOUS
<1>3. ASSUME NEW k \in 1..Len(u) PROVE u[k] = (v \o w)[k]
  <2>1. CASE k <= Len(v)
    BY <1>1, <2>1
  <2>2. CASE k > Len(v)
    <3>1. k - Len(v) \in 1..Len(w) /\ Len(v) + (k - Len(v)) = k
      BY <1>1, <2>2
    <3>2. u[Len(v) + (k - Len(v))] = w[k - Len(v)]
      BY <3>1
    <3>3. (v \o w)[k] = w[k - Len(v)]
      BY <1>1, <2>2
    <3> QED
      BY <3>1, <3>2, <3>3
  <2> QED
    BY <1>1, <2>1, <2>2
<1> QED
  BY <1>2, <1>3

\* A sequence over a set is one over a larger set.
LEMMA SeqWider ==
  ASSUME NEW S, NEW T, S \subseteq T, NEW s \in Seq(S)
  PROVE  s \in Seq(T)
<1>1. Len(s) \in Nat /\ s = [i \in 1..Len(s) |-> s[i]] /\ \A i \in 1..Len(s) : s[i] \in T
  OBVIOUS
<1> QED
  BY <1>1

\* The selection is a sequence, as long as there are places.
LEMMA PickedSeq ==
  ASSUME NEW S, NEW s \in Seq(S), NEW C \in SUBSET (1..Len(s))
  PROVE  /\ Picked(s, C) \in Seq(S) /\ Len(Picked(s, C)) = Cardinality(C)
         /\ \A k \in 1..Cardinality(C) : Picked(s, C)[k] = s[Nth(C, k)] /\ Nth(C, k) \in C
<1>1. Len(s) \in Nat /\ Cardinality(C) \in Nat
  BY PlacesFinite
<1>2. \A k \in 1..Cardinality(C) : Nth(C, k) \in C
  BY <1>1, NthExists
<1>3. \A i \in 1..Len(s) : s[i] \in S
  OBVIOUS
<1>4. \A k \in 1..Cardinality(C) : s[Nth(C, k)] \in S
  BY <1>2, <1>3
<1> QED
  BY <1>1, <1>2, <1>4 DEF Picked

\* Selecting every place selects the sequence.
LEMMA PickedAll ==
  ASSUME NEW S, NEW s \in Seq(S)
  PROVE  Picked(s, 1..Len(s)) = s
<1> DEFINE n == Len(s)
<1>0. n \in Nat
  OBVIOUS
<1>1. Cardinality(1..n) = n
  <2> HIDE DEF n
  <2> QED
    BY <1>0, FS_Interval
<1>2. ASSUME NEW k \in 1..n PROVE Nth(1..n, k) = k
  <2>1. { x \in 1..n : x <= k } = 1..k /\ k \in Nat
    BY <1>0
  <2>2. Cardinality(1..k) = k
    BY <2>1, FS_Interval
  <2>3. 1..n \in SUBSET (1..n)
    OBVIOUS
  <2> HIDE DEF n
  <2>4. Nth(1..n, Cardinality({ x \in 1..n : x <= k })) = k
    BY <1>0, <2>3, NthOfRank
  <2> QED
    BY <2>1, <2>2, <2>4
<1>3. Picked(s, 1..n) = [k \in 1..n |-> s[k]]
  BY <1>0, <1>1, <1>2 DEF Picked
<1> QED
  BY <1>3

\* Places moved n to the right.
Moved(n, places) == { n + i : i \in places }

\* Places up to n and places behind it, together.
JoinedPlaces(C, n, D) == C \cup Moved(n, D)

\* One sequence is two others behind one another (named, for the lemmas that state it).
IsConcat(u, v, w) == u = v \o w

\* Behind its first n elements, s goes on with t.
GoesOn(s, n, t) == n + Len(t) <= Len(s) /\ \A i \in 1..Len(t) : s[n + i] = t[i]

\* Moving places along does not change how many there are.
LEMMA ShiftCounts ==
  ASSUME NEW n \in Nat, NEW m \in Nat, NEW D \in SUBSET (1..m)
  PROVE  IsFiniteSet(Moved(n, D)) /\ Cardinality(Moved(n, D)) = Cardinality(D)
<1> DEFINE T == { n + i : i \in D }
           f == [i \in D |-> n + i]
<1>1. IsFiniteSet(D)
  BY PlacesFinite
<1>2. \A i, j \in D : n + i = n + j => i = j
  OBVIOUS
<1>3. f \in Bijection(D, T)
  BY <1>2 DEF Bijection, Injection, Surjection, IsInjective
<1> HIDE DEF T, f
<1>4. ExistsBijection(D, T)
  BY <1>3 DEF ExistsBijection
<1> QED
  BY <1>1, <1>4, FS_Bijection DEF T, Moved

\* How many places there are up to n and behind it.
LEMMA JoinedCounts ==
  ASSUME NEW n \in Nat, NEW C \in SUBSET (1..n), NEW m \in Nat, NEW D \in SUBSET (1..m)
  PROVE  /\ IsFiniteSet(JoinedPlaces(C, n, D))
         /\ Cardinality(JoinedPlaces(C, n, D)) = Cardinality(C) + Cardinality(D)
<1> DEFINE T == Moved(n, D)
<1>1. IsFiniteSet(T) /\ Cardinality(T) = Cardinality(D)
  BY ShiftCounts
<1>2. C \cap T = {}
  <2>1. \A i \in D : i \in Nat /\ i > 0
    OBVIOUS
  <2>2. \A x \in C : x \in Nat /\ x <= n
    OBVIOUS
  <2> QED
    BY <2>1, <2>2 DEF JoinedPlaces, Moved
<1>3. IsFiniteSet(C) /\ Cardinality(C) \in Nat /\ Cardinality(D) \in Nat
  BY PlacesFinite
<1> HIDE DEF T
<1>4. IsFiniteSet(C \cup T)
      /\ Cardinality(C \cup T) = Cardinality(C) + Cardinality(T) - Cardinality(C \cap T)
  BY <1>1, <1>3, FS_Union
<1>5. Cardinality(C \cap T) = 0
  BY <1>2, FS_EmptySet
<1>6. Cardinality(C \cup T) = Cardinality(C) + Cardinality(D)
  BY <1>1, <1>3, <1>4, <1>5
<1> QED
  BY <1>4, <1>6 DEF T, JoinedPlaces

\* The selection of a sequence and that of a batch behind it make the selection
\* of both.
LEMMA PickedConcat ==
  ASSUME NEW S, NEW s \in Seq(S), NEW t \in Seq(S), NEW n \in Nat, GoesOn(s, n, t),
         NEW C \in SUBSET (1..n), NEW D \in SUBSET (1..Len(t))
  PROVE  IsConcat(Picked(s, JoinedPlaces(C, n, D)), Picked(s, C), Picked(t, D))
<1> DEFINE E == JoinedPlaces(C, n, D)
           c == Cardinality(C)
           d == Cardinality(D)
<1>0. n + Len(t) <= Len(s) /\ \A i \in D : s[n + i] = t[i]
  BY DEF GoesOn
<1>1. Len(s) \in Nat /\ Len(t) \in Nat /\ \A i \in D : i \in Nat /\ i > 0 /\ i <= Len(t)
  OBVIOUS
<1>2. C \in SUBSET (1..Len(s)) /\ E \in SUBSET (1..Len(s))
  <2>1. \A x \in C : x \in 1..Len(s)
    BY <1>0, <1>1
  <2>2. \A i \in D : n + i \in 1..Len(s)
    BY <1>0, <1>1
  <2> QED
    BY <2>1, <2>2 DEF JoinedPlaces, Moved
<1>3. Cardinality(E) = c + d /\ c \in Nat /\ d \in Nat
  <2>1. Cardinality(E) = Cardinality(C) + Cardinality(D)
    BY <1>1, JoinedCounts
  <2>2. Cardinality(C) \in Nat /\ Cardinality(D) \in Nat
    BY <1>1, PlacesFinite
  <2> QED
    BY <2>1, <2>2
<1>4. ASSUME NEW k \in 1..c PROVE Nth(E, k) = Nth(C, k)
  <2> DEFINE i == Nth(C, k)
  <2>1. i \in C /\ Cardinality({ x \in C : x <= i }) = k
    BY NthExists
  <2> HIDE DEF i
  <2>2. { x \in E : x <= i } = { x \in C : x <= i }
    <3>1. i \in Nat /\ i <= n
      BY <2>1
    <3>2. \A x \in D : ~(n + x <= i)
      BY <1>1, <3>1
    <3> QED
      BY <3>2 DEF JoinedPlaces, Moved
  <2>3. i \in E /\ E \in SUBSET (1..Len(s))
    BY <1>2, <2>1 DEF JoinedPlaces
  <2> HIDE DEF E
  <2>4. Nth(E, Cardinality({ x \in E : x <= i })) = i
    BY <1>1, <2>3, NthOfRank
  <2> QED
    BY <2>1, <2>2, <2>4 DEF i
<1>5. ASSUME NEW k \in 1..d PROVE Nth(E, c + k) = n + Nth(D, k)
  <2> DEFINE i == Nth(D, k)
             U == { x \in D : x <= i }
  <2>1. i \in D /\ Cardinality(U) = k
    BY <1>1, NthExists
  <2> HIDE DEF i
  <2>2. { x \in E : x <= n + i } = JoinedPlaces(C, n, U)
    <3>1. \A x \in C : x <= n + i /\ x \in Nat
      BY <1>1, <2>1
    <3>2. \A x \in D : n + x <= n + i <=> x <= i
      BY <1>1, <2>1
    <3> QED
      BY <3>1, <3>2 DEF JoinedPlaces, Moved
  <2>3. Cardinality(JoinedPlaces(C, n, U)) = c + k
    <3>1. U \in SUBSET (1..Len(t))
      OBVIOUS
    <3> HIDE DEF U, c, E
    <3>2. Cardinality(JoinedPlaces(C, n, U)) = Cardinality(C) + Cardinality(U)
      BY <1>1, <3>1, JoinedCounts
    <3> QED
      BY <2>1, <3>2 DEF c
  <2>4. n + i \in E
    BY <2>1 DEF JoinedPlaces, Moved
  <2> HIDE DEF E
  <2>5. Nth(E, Cardinality({ x \in E : x <= n + i })) = n + i
    BY <1>1, <1>2, <2>4, NthOfRank
  <2> QED
    BY <2>2, <2>3, <2>5 DEF i
<1>6. /\ Picked(s, C) \in Seq(S) /\ Len(Picked(s, C)) = c
      /\ \A k \in 1..c : Picked(s, C)[k] = s[Nth(C, k)]
  BY <1>2, PickedSeq
<1>7. /\ Picked(t, D) \in Seq(S) /\ Len(Picked(t, D)) = d
      /\ \A k \in 1..d : Picked(t, D)[k] = t[Nth(D, k)] /\ Nth(D, k) \in D
  BY PickedSeq
<1>8. /\ Picked(s, E) \in Seq(S) /\ Len(Picked(s, E)) = c + d
      /\ \A k \in 1..(c + d) : Picked(s, E)[k] = s[Nth(E, k)]
  <2> HIDE DEF E, c, d
  <2> QED
    BY <1>2, <1>3, PickedSeq
<1> DEFINE u == Picked(s, E)
           v == Picked(s, C)
           w == Picked(t, D)
<1>9. \A k \in 1..c : u[k] = v[k]
  <2> SUFFICES ASSUME NEW k \in 1..c PROVE u[k] = v[k]
    OBVIOUS
  <2> HIDE DEF c, d, E
  <2>1. k \in 1..(c + d)
    BY <1>3
  <2> QED
    BY <1>4, <1>6, <1>8, <2>1
<1>10. \A k \in 1..d : u[c + k] = w[k]
  <2> SUFFICES ASSUME NEW k \in 1..d PROVE u[c + k] = w[k]
    OBVIOUS
  <2> HIDE DEF c, d, E
  <2>1. u[c + k] = s[Nth(E, c + k)]
    BY <1>3, <1>8
  <2>2. Nth(E, c + k) = n + Nth(D, k) /\ Nth(D, k) \in D
    BY <1>5, <1>7
  <2> QED
    BY <1>0, <1>7, <2>1, <2>2
<1> HIDE DEF c, d, E, u, v, w
<1>11. u = v \o w
  <2>1. u \in Seq(S) /\ v \in Seq(S) /\ w \in Seq(S)
    BY <1>6, <1>7, <1>8 DEF u, v, w
  <2>2. Len(v) = c /\ Len(w) = d /\ Len(u) = Len(v) + Len(w)
    BY <1>6, <1>7, <1>8 DEF u, v, w
  <2> QED
    BY <1>9, <1>10, <2>1, <2>2, ConcatPointwise
<1> QED
  BY <1>11 DEF E, u, v, w, IsConcat

-----------------------------------------------------------------------------
(* Sorting                                                                 *)

\* Among some places there is one with a largest edge.
LEMMA LargestPlace ==
  ASSUME NEW n \in Nat, NEW f \in [1..n -> Nat], NEW T \in SUBSET (1..n), T # {}
  PROVE  \E i \in T : \A j \in T : f[j] <= f[i]
<1> DEFINE Above(i) == { j \in T : f[i] < f[j] }
           N == { Cardinality(Above(i)) : i \in T }
<1>1. \A i \in T : f[i] \in Nat /\ Above(i) \in SUBSET T
  OBVIOUS
<1>2. \A i \in T : IsFiniteSet(Above(i)) /\ Cardinality(Above(i)) \in Nat
  BY <1>1, PlacesFinite
<1>3. PICK k \in N : \A y \in N : k <= y
  <2>1. N \in SUBSET Nat /\ N # {}
    BY <1>2
  <2> HIDE DEF N
  <2> QED
    BY <2>1, NatMinimum
<1>4. PICK i \in T : Cardinality(Above(i)) = k
  BY <1>3
<1>5. ASSUME NEW j \in T, ~(f[j] <= f[i])
      PROVE  FALSE
  <2>1. f[i] < f[j] /\ ~(f[j] < f[j])
    BY <1>1, <1>5
  <2>2. \A x \in T : f[j] < f[x] => f[i] < f[x]
    BY <1>1, <2>1
  <2>3. Above(j) \in SUBSET Above(i) /\ j \in Above(i) /\ j \notin Above(j)
    BY <2>1, <2>2, Zenon
  <2>4. k <= Cardinality(Above(j))
    BY <1>3
  <2>5. /\ IsFiniteSet(Above(i)) /\ Cardinality(Above(i)) \in Nat
        /\ Cardinality(Above(j)) \in Nat
    BY <1>2
  <2> HIDE DEF Above
  <2>6. /\ Cardinality(Above(j)) <= Cardinality(Above(i))
        /\ Cardinality(Above(j)) # Cardinality(Above(i))
    BY <2>3, <2>5, FS_Subset
  <2> QED
    BY <1>4, <2>4, <2>5, <2>6
<1> QED
  BY <1>5

\* The counts behind Sorted: how they grow, and what lies between them.
LEMMA CountsBetween ==
  ASSUME NEW s \in Seq(Nat), NEW a \in Nat
  PROVE  /\ Below(s, a) \in Nat /\ UpTo(s, a) \in Nat /\ UpTo(s, a) <= Len(s)
         /\ UpTo(s, a) = Below(s, a) + Cardinality({ i \in DOMAIN s : s[i] = a })
         /\ Cardinality({ i \in DOMAIN s : s[i] = a }) \in Nat
         /\ \A b \in Nat : a < b => UpTo(s, a) <= Below(s, b)
<1> DEFINE n  == Len(s)
           L  == { i \in 1..n : s[i] < a }
           Q  == { i \in 1..n : s[i] = a }
           U  == { i \in 1..n : s[i] <= a }
<1>1. n \in Nat /\ DOMAIN s = 1..n /\ \A i \in 1..n : s[i] \in Nat
  OBVIOUS
<1>2. L \in SUBSET (1..n) /\ Q \in SUBSET (1..n) /\ U \in SUBSET (1..n) /\ 1..n \in SUBSET (1..n)
  OBVIOUS
<1>3. U = L \cup Q
  <2>1. \A i \in 1..n : s[i] <= a <=> s[i] < a \/ s[i] = a
    BY <1>1
  <2> QED
    BY <2>1, Zenon
<1>4. L \cap Q = {}
  <2>1. \A i \in 1..n : ~(s[i] < a /\ s[i] = a)
    BY <1>1
  <2> QED
    BY <2>1, Zenon
<1>5. \A b \in Nat : a < b => U \in SUBSET { i \in 1..n : s[i] < b }
  <2>1. \A b \in Nat : a < b => \A i \in 1..n : s[i] <= a => s[i] < b
    BY <1>1
  <2> QED
    BY <2>1, Zenon
<1>6. Below(s, a) = Cardinality(L) /\ UpTo(s, a) = Cardinality(U)
      /\ \A b : Below(s, b) = Cardinality({ i \in 1..n : s[i] < b })
  BY <1>1 DEF Below, UpTo
<1>7. \A b \in Nat : a < b => Cardinality(U) <= Cardinality({ i \in 1..n : s[i] < b })
  <2> SUFFICES ASSUME NEW b \in Nat, a < b
               PROVE  Cardinality(U) <= Cardinality({ i \in 1..n : s[i] < b })
    OBVIOUS
  <2> DEFINE V == { i \in 1..n : s[i] < b }
  <2>1. V \in SUBSET (1..n) /\ U \in SUBSET V
    BY <1>5
  <2> HIDE DEF V, U, n
  <2>2. Cardinality(U) <= Cardinality(V)
    BY <1>1, <2>1, PlacesFinite
  <2> QED
    BY <2>2 DEF V
<1>8. Cardinality({ i \in DOMAIN s : s[i] = a }) = Cardinality(Q)
  BY <1>1
<1> HIDE DEF L, Q, U, n
<1>9. /\ IsFiniteSet(L) /\ IsFiniteSet(Q) /\ Cardinality(L) \in Nat /\ Cardinality(Q) \in Nat
      /\ Cardinality(U) \in Nat /\ Cardinality(U) <= n
  BY <1>1, <1>2, PlacesFinite
<1>10. Cardinality(U) = Cardinality(L) + Cardinality(Q)
  <2>1. Cardinality(U) = Cardinality(L) + Cardinality(Q) - Cardinality(L \cap Q)
    BY <1>3, <1>9, FS_Union
  <2>2. Cardinality(L \cap Q) = 0
    BY <1>4, FS_EmptySet
  <2> QED
    BY <1>9, <2>1, <2>2
<1> QED
  BY <1>6, <1>7, <1>8, <1>9, <1>10 DEF n

\* Every place of the sorted sequence has an edge: the least one whose count
\* reaches the place.
LEMMA SortedPlace ==
  ASSUME NEW s \in Seq(Nat), NEW k \in 1..Len(s)
  PROVE  \E e \in ToSet(s) : Below(s, e) < k /\ k <= UpTo(s, e)
<1> DEFINE n == Len(s)
           G == { e \in ToSet(s) : k <= UpTo(s, e) }
<1>1. n \in Nat /\ DOMAIN s = 1..n /\ s \in [1..n -> Nat] /\ k \in Nat /\ k >= 1 /\ n >= 1
  OBVIOUS
<1>2. \A i \in 1..n : s[i] \in ToSet(s) /\ s[i] \in Nat
  BY <1>1 DEF ToSet
<1>3. ToSet(s) \in SUBSET Nat /\ \A e \in ToSet(s) : \E i \in 1..n : e = s[i]
  BY <1>1 DEF ToSet
<1>4. G # {}
  <2>1. 1..n \in SUBSET (1..n) /\ 1..n # {}
    BY <1>1
  <2>2. PICK i \in 1..n : \A j \in 1..n : s[j] <= s[i]
    <3> HIDE DEF n
    <3> QED
      BY <1>1, <2>1, LargestPlace
  <2>3. { j \in DOMAIN s : s[j] <= s[i] } = 1..n
    BY <1>1, <2>2
  <2>4. UpTo(s, s[i]) = n
    <3>1. Cardinality(1..n) = n
      BY <1>1, <2>1, PlacesFinite
    <3> QED
      BY <2>3, <3>1 DEF UpTo
  <2>5. s[i] \in G
    BY <1>1, <1>2, <2>4
  <2> QED
    BY <2>5
<1>5. PICK e \in G : \A y \in G : e <= y
  <2>1. G \in SUBSET Nat
    BY <1>3
  <2> HIDE DEF G
  <2> QED
    BY <1>4, <2>1, NatMinimum
<1>6. e \in ToSet(s) /\ e \in Nat /\ k <= UpTo(s, e) /\ Below(s, e) \in Nat
  BY <1>3, CountsBetween
<1>7. Below(s, e) < k
  <2> SUFFICES ASSUME k <= Below(s, e) PROVE FALSE
    BY <1>1, <1>6
  <2> DEFINE T == { j \in 1..n : s[j] < e }
  <2>1. Below(s, e) = Cardinality(T)
    BY <1>1 DEF Below
  <2>2. T \in SUBSET (1..n) /\ T # {}
    <3>1. Cardinality(T) # 0
      BY <1>1, <1>6, <2>1
    <3>2. T # {}
      BY <3>1, FS_EmptySet
    <3> QED
      BY <3>2
  <2>3. PICK i \in T : \A j \in T : s[j] <= s[i]
    <3> HIDE DEF T, n
    <3> QED
      BY <1>1, <2>2, LargestPlace
  <2>4. i \in 1..n /\ s[i] < e /\ s[i] \in Nat
    BY <1>2
  <2>5. \A j \in 1..n : s[j] <= s[i] <=> s[j] < e
    BY <1>2, <1>6, <2>3, <2>4
  <2>6. { j \in DOMAIN s : s[j] <= s[i] } = T
    BY <1>1, <2>5
  <2>7. UpTo(s, s[i]) = Below(s, e)
    BY <2>1, <2>6 DEF UpTo
  <2>8. s[i] \in G
    BY <1>2, <2>4, <2>7
  <2>9. e <= s[i]
    BY <1>5, <2>8
  <2> QED
    BY <1>6, <2>4, <2>9
<1> QED
  BY <1>6, <1>7

\* Sorting a sequence gives a sequence of its edges.
LEMMA SortedSeq ==
  ASSUME NEW s \in Seq(Nat)
  PROVE  /\ Sorted(s) \in Seq(Nat) /\ Len(Sorted(s)) = Len(s)
         /\ \A k \in 1..Len(s) : /\ Sorted(s)[k] \in ToSet(s) /\ Sorted(s)[k] \in Nat
                                 /\ Below(s, Sorted(s)[k]) < k /\ k <= UpTo(s, Sorted(s)[k])
<1>1. Len(s) \in Nat /\ DOMAIN s = 1..Len(s)
  OBVIOUS
<1>2. ToSet(s) \in SUBSET Nat
  BY DEF ToSet
<1>3. ASSUME NEW k \in 1..Len(s)
      PROVE  /\ Sorted(s)[k] \in ToSet(s)
             /\ Below(s, Sorted(s)[k]) < k /\ k <= UpTo(s, Sorted(s)[k])
  <2>1. Sorted(s)[k] = CHOOSE e \in ToSet(s) : Below(s, e) < k /\ k <= UpTo(s, e)
    BY <1>1 DEF Sorted
  <2>2. \E e \in ToSet(s) : Below(s, e) < k /\ k <= UpTo(s, e)
    BY SortedPlace
  <2> QED
    BY <2>1, <2>2
<1>4. Sorted(s) = [k \in 1..Len(s) |-> Sorted(s)[k]]
  BY <1>1 DEF Sorted
<1> QED
  BY <1>1, <1>2, <1>3, <1>4

\* Sorted(s) is the sorted rearrangement of s: its edges ascend, and every edge is
\* there as often as in s.  It is what list.sort in compiler.py and sort_unstable in
\* lib.rs return, and the canonical order that EdgeStream promises.
THEOREM SortedExact ==
  ASSUME NEW s \in Seq(Nat)
  PROVE  /\ \A k, l \in 1..Len(s) : k <= l => Sorted(s)[k] <= Sorted(s)[l]
         /\ \A e \in Nat : Cardinality({ k \in 1..Len(Sorted(s)) : Sorted(s)[k] = e })
                             = Cardinality({ i \in 1..Len(s) : s[i] = e })
<1> DEFINE t == Sorted(s)
           n == Len(s)
<1>1. /\ n \in Nat /\ DOMAIN s = 1..n /\ Len(t) = n
      /\ \A k \in 1..n : t[k] \in Nat /\ Below(s, t[k]) < k /\ k <= UpTo(s, t[k])
  BY SortedSeq
<1>2. \A e \in Nat : Below(s, e) \in Nat /\ UpTo(s, e) \in Nat /\ UpTo(s, e) <= n
  BY CountsBetween
<1>3. \A a, b \in Nat : a < b => UpTo(s, a) <= Below(s, b)
  BY CountsBetween
<1> HIDE DEF t
<1>4. ASSUME NEW k \in 1..n, NEW l \in 1..n, k <= l PROVE t[k] <= t[l]
  <2> SUFFICES ASSUME t[l] < t[k] PROVE FALSE
    BY <1>1
  <2>1. UpTo(s, t[l]) <= Below(s, t[k])
    BY <1>1, <1>3
  <2>2. l <= UpTo(s, t[l]) /\ Below(s, t[k]) < k
    BY <1>1
  <2>3. Below(s, t[k]) \in Nat /\ UpTo(s, t[l]) \in Nat
    BY <1>1, <1>2
  <2> QED
    BY <1>4, <2>1, <2>2, <2>3
<1>5. ASSUME NEW e \in Nat
      PROVE  Cardinality({ k \in 1..n : t[k] = e }) = Cardinality({ i \in 1..n : s[i] = e })
  <2> DEFINE lo == Below(s, e)
             hi == UpTo(s, e)
  <2>1. lo \in Nat /\ hi \in Nat /\ hi <= n
    BY <1>2
  <2>2. ASSUME NEW k \in 1..n PROVE t[k] = e <=> lo < k /\ k <= hi
    <3>1. t[k] = e => lo < k /\ k <= hi
      BY <1>1
    <3>2. ASSUME lo < k, k <= hi, t[k] # e PROVE FALSE
      <4>0. t[k] \in Nat /\ Below(s, t[k]) < k /\ k <= UpTo(s, t[k])
        BY <1>1
      <4>1. Below(s, t[k]) \in Nat /\ UpTo(s, t[k]) \in Nat
        BY <1>2, <4>0
      <4>2. CASE t[k] < e
        <5>1. UpTo(s, t[k]) <= lo
          BY <1>3, <4>0, <4>2
        <5> QED
          BY <2>1, <3>2, <4>0, <4>1, <5>1
      <4>3. CASE e < t[k]
        <5>1. hi <= Below(s, t[k])
          BY <1>3, <4>0, <4>3
        <5> QED
          BY <2>1, <3>2, <4>0, <4>1, <5>1
      <4> QED
        BY <3>2, <4>0, <4>2, <4>3
    <3> QED
      BY <3>1, <3>2
  <2> HIDE DEF lo, hi, n
  <2>3. { k \in 1..n : t[k] = e } = (lo + 1)..hi
    <3>1. \A k : k \in 1..n /\ lo < k /\ k <= hi <=> k \in (lo + 1)..hi
      BY <1>1, <2>1
    <3> QED
      BY <2>2, <3>1
  <2>4. lo <= hi /\ Cardinality({ i \in 1..n : s[i] = e }) = hi - lo
    <3>1. /\ UpTo(s, e) = Below(s, e) + Cardinality({ i \in DOMAIN s : s[i] = e })
          /\ Cardinality({ i \in DOMAIN s : s[i] = e }) \in Nat
      BY CountsBetween
    <3>2. hi = lo + Cardinality({ i \in 1..n : s[i] = e })
          /\ Cardinality({ i \in 1..n : s[i] = e }) \in Nat
      BY <1>1, <3>1 DEF lo, hi
    <3> QED
      BY <2>1, <3>2
  <2>5. Cardinality((lo + 1)..hi) = hi - lo
    <3>1. Cardinality((lo + 1)..hi) = IF lo + 1 > hi THEN 0 ELSE hi - (lo + 1) + 1
      BY <2>1, FS_Interval
    <3> QED
      BY <2>1, <2>4, <3>1
  <2> QED
    BY <2>3, <2>4, <2>5
<1> QED
  BY <1>1, <1>4, <1>5 DEF t

=============================================================================
