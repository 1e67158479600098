--------------------------- MODULE SpillOrderProofs ----------------------------
(***************************************************************************)
(* A sort that completes has delivered the reference result and its        *)
(* statistics, for every buffer size, fan-in, limit and input, and         *)
(* although the disk may have damaged runs that were already being read.   *)
(*                                                                         *)
(* The argument counts.  Every edge read is in the buffer, in the sorted   *)
(* buffer still to be written, in the run being written from it, or in a   *)
(* run that is still to be merged, as its header vouches for it (Content). *)
(* In a merge, what came out is what the readers have seen and passed on   *)
(* (MergeContent).  Both are said up to duplicates where duplicates are    *)
(* coalesced (Alike).  What came out ascends if what the readers saw does  *)
(* (MergeOrder); whether it does is known only when every reader has       *)
(* compared what it saw with its header, which is why a damaged run may    *)
(* disturb the order of what was delivered, but never of what completes.   *)
(*                                                                         *)
(* While no run is damaged, the order of what was delivered is known at    *)
(* every moment, and then the counts make it the start of the reference    *)
(* (StartsByCounts, InStep): the sort refines EdgeStream (SpillRefines).   *)
(***************************************************************************)
EXTENDS MCSpillSort, SpillSortProofs, FunctionTheorems

\* Equal numbers of copies, or, where duplicates are coalesced, none in both or some in
\* both.
Alike(m, n) == IF duplicates = "preserve" THEN m = n ELSE (m = 0 <=> n = 0)

Ascends(s) == \A i, j \in 1..Len(s) : i < j => s[i] <= s[j]

\* No two places of a sequence have the same element.
Apart(s) == \A i, j \in 1..Len(s) : s[i] = s[j] => i = j

\* The places of an edge in a family of sequences, and their number.
Spots(f, e) == UNION { {r} \X { i \in 1..Len(f[r]) : f[r][i] = e } : r \in DOMAIN f }

Tally(f, e) == Cardinality(Spots(f, e))

\* The iterator has not come to its end.
Going == pc \notin {"finally", "end", "exit"}

\* The runs that are still to be merged: those of a group until their merge is done.
Live == ToSet(current) \cup ToSet(following) \cup (IF pc = "delete" THEN {} ELSE ToSet(group))

Heads == [ f \in Live |-> files[f].head ]

\* The final merge reads what is left in current, a pass a slice of it.
Final == pc \in {"drain", "yield"} \/ (pc = "open" /\ writing = 0)

\* A merge of runs, and what came out of it.
Merging == pc \in {"open", "drain", "yield"} \/ (pc = "write" /\ group # <<>>)

Out == IF pc \in {"drain", "yield"} THEN delivered ELSE digest

Waiting(j) == \E x \in heap : x[2] = j

Latest(j) == readers[j].seen[Len(readers[j].seen)]

\* What each reader has seen without the record that waits in the heap.
Passed(j) == IF Waiting(j) THEN Len(readers[j].seen) - 1 ELSE Len(readers[j].seen)

Taken == [ j \in 1..Len(readers) |-> SubSeq(readers[j].seen, 1, Passed(j)) ]

\* The sequences of runs: every run is in one of them, once.
RunsFrame ==
  Going =>
    /\ Live \subseteq 1..runs_created /\ Live \subseteq DOMAIN files
    /\ pc = "write" => writing # 0
    /\ writing # 0 => writing = runs_created + 1 /\ writing \in DOMAIN files
    /\ Apart(current) /\ Apart(following) /\ Apart(group)
    /\ ToSet(current) \cap ToSet(following) = {}
    /\ Final => group = current /\ following = <<>>
    /\ ~Final => ToSet(group) \cap (ToSet(current) \cup ToSet(following)) = {}
    /\ pc \in {"new", "fill", "reduce"} => following = <<>> /\ group = <<>>
    /\ pc = "pass" => group = <<>>
    /\ pc \in {"create", "write"} /\ group = <<>> => following = <<>>

\* Where the buffer, the sorted buffer and the digest are empty, and what was read.
FillFrame ==
  Going =>
    /\ outcome = "none"
    /\ pc # "fill" => buffer = <<>>
    /\ pc \notin {"create", "write"} \/ group # <<>> => todo = <<>>
    /\ pc # "write" => digest = <<>>
    /\ pc \notin {"new", "fill", "create", "write"} \/ group # <<>> => raw_count = Len(input)
    /\ pc \notin {"drain", "yield"} => delivered = <<>> /\ distinct_count = 0

\* Every edge read is in the buffer, in the sorted buffer or the run being written from
\* it, or in a live run.
Held(e) ==
  Occurrences(e, buffer) + Occurrences(e, todo)
    + (IF group = <<>> THEN Occurrences(e, digest) ELSE 0)

Content ==
  Going => \A e \in Edges :
    Alike(Occurrences(e, SubSeq(input, 1, raw_count)), Held(e) + Tally(Heads, e))

\* Runs, the sorted buffer and what was written of it ascend.
RunsOrder ==
  Going =>
    /\ \A f \in Live : Ascends(files[f].head)
    /\ Ascends(todo)
    /\ group = <<>> =>
         /\ Ascends(digest)
         /\ \A i \in 1..Len(digest), j \in 1..Len(todo) : digest[i] <= todo[j]

\* The heap holds the last record of every reader that is neither due nor at its end.
HeapFrame ==
  Merging =>
    /\ \A j \in 1..Len(readers) :
         /\ readers[j].run = group[j] /\ Len(readers[j].seen) > 0
         /\ ~Waiting(j) /\ owed # j => readers[j].seen = files[group[j]].head
         /\ pc = "open" => Waiting(j)
    /\ pc = "open" => owed = 0
    /\ pc # "open" => Len(readers) = Len(group)
    /\ \A x \in heap : x[2] # owed /\ x[1] = Latest(x[2])

\* What came out of a merge is what its readers passed on.
MergeContent ==
  Merging => \A e \in Edges : Alike(Tally(Taken, e), Occurrences(e, Out))

\* It ascends if what they saw does; delivered edges are counted on the way.
Trusted == \A j \in 1..Len(readers) : Ascends(readers[j].seen)

MergeOrder ==
  Merging /\ Trusted =>
    /\ Ascends(Out)
    /\ \A i \in 1..Len(Out) :
         /\ \A x \in heap : Out[i] <= x[1]
         /\ owed # 0 => Out[i] <= Latest(owed)
    /\ pc \in {"drain", "yield"} =>
         /\ distinct_count = Cardinality(ToSet(delivered))
         /\ duplicates = "unique" => Apart(delivered)

OrderInv == RunsFrame /\ FillFrame /\ Content /\ RunsOrder /\ HeapFrame
            /\ MergeContent /\ MergeOrder /\ CompleteIsExact

-----------------------------------------------------------------------------
(* Counting edges                                                          *)

\* How often an element is in a sequence; it is not iff no place has it.
LEMMA OccursNat ==
  ASSUME NEW S, NEW s \in Seq(S), NEW e
  PROVE  /\ Occurrences(e, s) \in Nat
         /\ Occurrences(e, s) = 0 <=> \A i \in 1..Len(s) : s[i] # e
<1> DEFINE D == { i \in DOMAIN s : s[i] = e }
<1>1. DOMAIN s = 1..Len(s) /\ Len(s) \in Nat /\ D \in SUBSET (1..Len(s))
  OBVIOUS
<1>2. D = {} <=> \A i \in 1..Len(s) : s[i] # e
  BY <1>1
<1>3. Occurrences(e, s) = Cardinality(D)
  BY DEF Occurrences
<1> HIDE DEF D
<1>4. IsFiniteSet(D) /\ Cardinality(D) \in Nat
  BY <1>1, PlacesFinite
<1> QED
  BY <1>2, <1>3, <1>4, FS_EmptySet

\* The empty sequence has nothing.
LEMMA OccursEmpty == \A e : Occurrences(e, <<>>) = 0
<1> SUFFICES ASSUME NEW e PROVE Occurrences(e, <<>>) = 0
  OBVIOUS
<1>1. { i \in DOMAIN <<>> : <<>>[i] = e } = {}
  OBVIOUS
<1> QED
  BY <1>1, FS_EmptySet DEF Occurrences

\* An element more at the end.
LEMMA OccursAppend ==
  ASSUME NEW S, NEW s \in Seq(S), NEW x \in S, NEW e
  PROVE  Occurrences(e, Append(s, x)) = Occurrences(e, s) + (IF x = e THEN 1 ELSE 0)
<1> DEFINE n == Len(s)
           t == Append(s, x)
           D == { i \in 1..n : s[i] = e }
           T == { i \in 1..(n + 1) : t[i] = e }
<1>1. n \in Nat /\ DOMAIN s = 1..n /\ DOMAIN t = 1..(n + 1)
  OBVIOUS
<1>2. (\A i \in 1..n : t[i] = s[i]) /\ t[n + 1] = x
  OBVIOUS
<1>3. Occurrences(e, s) = Cardinality(D) /\ Occurrences(e, t) = Cardinality(T)
  BY <1>1 DEF Occurrences
<1> HIDE DEF t
<1>4. \A i : i \in 1..(n + 1) <=> i \in 1..n \/ i = n + 1
  BY <1>1
<1>5. n + 1 \notin D /\ D \in SUBSET (1..n)
  BY <1>1
<1>6. T = IF x = e THEN D \cup {n + 1} ELSE D
  <2>1. \A i \in 1..(n + 1) : t[i] = e <=> (i \in 1..n /\ s[i] = e) \/ (i = n + 1 /\ x = e)
    BY <1>1, <1>2, <1>4
  <2>2. \A i : i \in T <=> i \in D \/ (i = n + 1 /\ x = e)
    BY <1>4, <2>1
  <2> HIDE DEF T, D
  <2> QED
    BY <2>2, Zenon
<1> HIDE DEF D, T, n
<1>7. IsFiniteSet(D) /\ Cardinality(D) \in Nat
  BY <1>1, <1>5, PlacesFinite
<1>8. Cardinality(D \cup {n + 1}) = Cardinality(D) + 1
  BY <1>5, <1>7, FS_AddElement
<1> QED
  BY <1>3, <1>6, <1>7, <1>8 DEF t

\* An element less at the front.
LEMMA OccursTail ==
  ASSUME NEW S, NEW s \in Seq(S), s # <<>>, NEW e
  PROVE  Occurrences(e, s) = Occurrences(e, Tail(s)) + (IF Head(s) = e THEN 1 ELSE 0)
<1> DEFINE n == Len(s) - 1
           t == Tail(s)
           D == { i \in 1..n : t[i] = e }
           T == { i \in 1..(n + 1) : s[i] = e }
           C == IF s[1] = e THEN {1} ELSE {}
<1>1. n \in Nat /\ DOMAIN t = 1..n /\ DOMAIN s = 1..(n + 1) /\ Head(s) = s[1]
  BY EmptySeq
<1>2. \A i \in 1..n : t[i] = s[i + 1]
  BY <1>1
<1>3. Occurrences(e, t) = Cardinality(D) /\ Occurrences(e, s) = Cardinality(T)
  BY <1>1 DEF Occurrences
<1> HIDE DEF t
<1>4. \A i : i \in 1..(n + 1) <=> i = 1 \/ (i - 1 \in 1..n /\ 1 + (i - 1) = i)
  BY <1>1
<1>5. D \in SUBSET (1..n) /\ C \in SUBSET (1..1)
  OBVIOUS
<1>6. T = JoinedPlaces(C, 1, D)
  <2>1. ASSUME NEW i \in T PROVE i \in C \cup { 1 + x : x \in D }
    <3>1. CASE i = 1
      BY <3>1
    <3>2. CASE i - 1 \in 1..n /\ 1 + (i - 1) = i
      <4>1. t[i - 1] = s[i]
        BY <1>2, <3>2
      <4>2. i - 1 \in D
        BY <3>2, <4>1
      <4> QED
        BY <3>2, <4>2
    <3> QED
      BY <1>4, <3>1, <3>2
  <2>2. ASSUME NEW i \in D PROVE 1 + i \in T
    <3>1. 1 + i \in 1..(n + 1) /\ 1 + i = i + 1
      BY <1>1
    <3> QED
      BY <1>2, <3>1
  <2>3. \A i \in C : i \in T
    BY <1>1
  <2> QED
    BY <2>1, <2>2, <2>3 DEF JoinedPlaces, Moved
<1> HIDE DEF D, T, n
<1>7. Cardinality(T) = Cardinality(C) + Cardinality(D)
  <2> HIDE DEF C
  <2> QED
    BY <1>1, <1>5, <1>6, JoinedCounts
<1>8. Cardinality(C) = IF s[1] = e THEN 1 ELSE 0
  BY FS_EmptySet, FS_Singleton
<1>9. Cardinality(D) \in Nat
  BY <1>1, <1>5, PlacesFinite
<1> QED
  BY <1>1, <1>3, <1>7, <1>8, <1>9 DEF t

-----------------------------------------------------------------------------
(* Counting edges in a family of sequences                                 *)

\* A finite family of sequences over S.
Family(f, S) == IsFiniteSet(DOMAIN f) /\ \A r \in DOMAIN f : f[r] \in Seq(S)

\* The same family, a family in two parts, of one sequence, with other names.
Equals(f, g) == DOMAIN f = DOMAIN g /\ \A r \in DOMAIN f : f[r] = g[r]

Parts(h, f, g) ==
  /\ DOMAIN h = DOMAIN f \cup DOMAIN g /\ DOMAIN f \cap DOMAIN g = {}
  /\ \A r \in DOMAIN f : h[r] = f[r]
  /\ \A r \in DOMAIN g : h[r] = g[r]

Single(f, r, s) == DOMAIN f = {r} /\ f[r] = s

Renames(m, f, g) ==
  /\ \A r \in DOMAIN f : m[r] \in DOMAIN g /\ g[m[r]] = f[r]
  /\ \A r, q \in DOMAIN f : m[r] = m[q] => r = q
  /\ \A x \in DOMAIN g : \E r \in DOMAIN f : m[r] = x

Grows(g, f, r, x) ==
  /\ r \in DOMAIN f /\ DOMAIN g = DOMAIN f /\ g[r] = Append(f[r], x)
  /\ \A q \in DOMAIN f \ {r} : g[q] = f[q]

\* The places of an edge in a family.
LEMMA SpotsMember ==
  ASSUME NEW f, NEW e
  PROVE  /\ \A r, i : <<r, i>> \in Spots(f, e) <=>
                        r \in DOMAIN f /\ i \in 1..Len(f[r]) /\ f[r][i] = e
         /\ \A p \in Spots(f, e) :
              p = <<p[1], p[2]>> /\ p[1] \in DOMAIN f /\ p[2] \in 1..Len(f[p[1]])
BY DEF Spots

\* Two families with the same places.
LEMMA SpotsEqual ==
  ASSUME NEW f, NEW g, Equals(f, g), NEW e
  PROVE  Tally(f, e) = Tally(g, e)
<1> USE DEF Equals
<1>1. \A r \in DOMAIN f : { i \in 1..Len(f[r]) : f[r][i] = e } = { i \in 1..Len(g[r]) : g[r][i] = e }
  OBVIOUS
<1>2. Spots(f, e) = Spots(g, e)
  BY <1>1 DEF Spots
<1> QED
  BY <1>2 DEF Tally

\* There are finitely many.
LEMMA TallyNat ==
  ASSUME NEW S, NEW f, Family(f, S), NEW e
  PROVE  IsFiniteSet(Spots(f, e)) /\ Tally(f, e) \in Nat
<1> DEFINE g == [ r \in DOMAIN f |-> {r} \X { i \in 1..Len(f[r]) : f[r][i] = e } ]
           T == { g[r] : r \in DOMAIN f }
<1>1. IsFiniteSet(DOMAIN f)
  BY DEF Family
<1>2. ASSUME NEW r \in DOMAIN f PROVE IsFiniteSet(g[r])
  <2> DEFINE D == { i \in 1..Len(f[r]) : f[r][i] = e }
  <2>1. Len(f[r]) \in Nat /\ D \in SUBSET (1..Len(f[r]))
    BY DEF Family
  <2>2. g[r] = {r} \X D
    OBVIOUS
  <2> HIDE DEF D, g
  <2>3. IsFiniteSet(D) /\ IsFiniteSet({r})
    BY <2>1, PlacesFinite, FS_Singleton
  <2> QED
    BY <2>2, <2>3, FS_Product
<1>3. Spots(f, e) = UNION T
  BY DEF Spots
<1>4. g \in [DOMAIN f -> T] /\ \A t \in T : \E r \in DOMAIN f : g[r] = t
  OBVIOUS
<1>5. \A t \in T : IsFiniteSet(t)
  BY <1>2
<1> HIDE DEF g, T
<1>6. g \in Surjection(DOMAIN f, T)
  BY <1>4, Fun_IsSurj
<1>7. IsFiniteSet(T)
  BY <1>1, <1>6, FS_Surjection
<1> QED
  BY <1>3, <1>5, <1>7, FS_UNION, FS_CardinalityType DEF Tally

\* The empty family has none.
LEMMA TallyNone ==
  ASSUME NEW f, DOMAIN f = {}, NEW e
  PROVE  Tally(f, e) = 0
<1>1. Spots(f, e) = {}
  BY DEF Spots
<1> QED
  BY <1>1, FS_EmptySet DEF Tally

\* A family in two parts.
LEMMA TallySplit ==
  ASSUME NEW S, NEW f, NEW g, NEW h, Family(f, S), Family(g, S), Parts(h, f, g), NEW e
  PROVE  Tally(h, e) = Tally(f, e) + Tally(g, e)
<1> DEFINE F == Spots(f, e)
           G == Spots(g, e)
           H == Spots(h, e)
<1> USE DEF Parts
<1>1. \A r \in DOMAIN h : r \in DOMAIN f \/ r \in DOMAIN g
  OBVIOUS
<1>2. H = F \cup G
  <2>1. \A p \in H : p \in F \/ p \in G
    <3> SUFFICES ASSUME NEW p \in H PROVE p \in F \/ p \in G
      OBVIOUS
    <3>1. /\ p = <<p[1], p[2]>> /\ p[1] \in DOMAIN h
          /\ <<p[1], p[2]>> \in H
      BY SpotsMember
    <3>2. p[2] \in 1..Len(h[p[1]]) /\ h[p[1]][p[2]] = e
      BY <3>1, SpotsMember
    <3>3. CASE p[1] \in DOMAIN f
      <4>1. <<p[1], p[2]>> \in F
        BY <3>2, <3>3, SpotsMember
      <4> QED
        BY <3>1, <4>1
    <3>4. CASE p[1] \in DOMAIN g
      <4>1. <<p[1], p[2]>> \in G
        BY <3>2, <3>4, SpotsMember
      <4> QED
        BY <3>1, <4>1
    <3> QED
      BY <1>1, <3>1, <3>3, <3>4
  <2>2. \A p \in F : p \in H
    <3> SUFFICES ASSUME NEW p \in F PROVE p \in H
      OBVIOUS
    <3>1. p = <<p[1], p[2]>> /\ p[1] \in DOMAIN f /\ <<p[1], p[2]>> \in F
      BY SpotsMember
    <3>2. p[2] \in 1..Len(f[p[1]]) /\ f[p[1]][p[2]] = e /\ h[p[1]] = f[p[1]] /\ p[1] \in DOMAIN h
      BY <3>1, SpotsMember
    <3>3. <<p[1], p[2]>> \in H
      BY <3>2, SpotsMember
    <3> QED
      BY <3>1, <3>3
  <2>3. \A p \in G : p \in H
    <3> SUFFICES ASSUME NEW p \in G PROVE p \in H
      OBVIOUS
    <3>1. p = <<p[1], p[2]>> /\ p[1] \in DOMAIN g /\ <<p[1], p[2]>> \in G
      BY SpotsMember
    <3>2. p[2] \in 1..Len(g[p[1]]) /\ g[p[1]][p[2]] = e /\ h[p[1]] = g[p[1]] /\ p[1] \in DOMAIN h
      BY <3>1, SpotsMember
    <3>3. <<p[1], p[2]>> \in H
      BY <3>2, SpotsMember
    <3> QED
      BY <3>1, <3>3
  <2> HIDE DEF F, G, H
  <2> QED
    BY <2>1, <2>2, <2>3
<1>3. F \cap G = {}
  <2>1. \A p \in F : p[1] \in DOMAIN f
    BY SpotsMember
  <2>2. \A p \in G : p[1] \in DOMAIN g
    BY SpotsMember
  <2> HIDE DEF F, G
  <2> QED
    BY <2>1, <2>2
<1>4. IsFiniteSet(F) /\ IsFiniteSet(G) /\ Tally(f, e) \in Nat /\ Tally(g, e) \in Nat
  BY TallyNat
<1>5. Tally(f, e) = Cardinality(F) /\ Tally(g, e) = Cardinality(G) /\ Tally(h, e) = Cardinality(H)
  BY DEF Tally
<1> HIDE DEF F, G, H
<1>6. /\ Cardinality(F \cup G) = Cardinality(F) + Cardinality(G) - Cardinality(F \cap G)
      /\ Cardinality(F \cap G) = 0
  BY <1>3, <1>4, FS_Union, FS_EmptySet
<1> QED
  BY <1>2, <1>4, <1>5, <1>6

\* Renaming the members of a family does not change how often an edge is in it.
LEMMA TallyRenamed ==
  ASSUME NEW S, NEW f, Family(f, S), NEW m, NEW g, Renames(m, f, g), NEW e
  PROVE  Tally(g, e) = Tally(f, e)
<1> USE DEF Renames
<1> DEFINE F == Spots(f, e)
           G == Spots(g, e)
           b == [ p \in F |-> <<m[p[1]], p[2]>> ]
<1>1. \A p \in F : /\ p = <<p[1], p[2]>> /\ p[1] \in DOMAIN f /\ p[2] \in 1..Len(f[p[1]])
                   /\ f[p[1]][p[2]] = e
  <2> SUFFICES ASSUME NEW p \in F
               PROVE  /\ p = <<p[1], p[2]>> /\ p[1] \in DOMAIN f /\ p[2] \in 1..Len(f[p[1]])
                      /\ f[p[1]][p[2]] = e
    OBVIOUS
  <2>1. /\ p = <<p[1], p[2]>> /\ p[1] \in DOMAIN f /\ p[2] \in 1..Len(f[p[1]])
        /\ <<p[1], p[2]>> \in F
    BY SpotsMember
  <2>2. f[p[1]][p[2]] = e
    BY <2>1, SpotsMember
  <2> QED
    BY <2>1, <2>2
<1>2. \A p \in F : b[p] \in G
  <2> SUFFICES ASSUME NEW p \in F PROVE <<m[p[1]], p[2]>> \in G
    OBVIOUS
  <2>1. m[p[1]] \in DOMAIN g /\ g[m[p[1]]] = f[p[1]] /\ p[2] \in 1..Len(f[p[1]]) /\ f[p[1]][p[2]] = e
    BY <1>1
  <2> QED
    BY <2>1, SpotsMember
<1>3. \A p, q \in F : b[p] = b[q] => p = q
  <2> SUFFICES ASSUME NEW p \in F, NEW q \in F, b[p] = b[q] PROVE p = q
    OBVIOUS
  <2>1. m[p[1]] = m[q[1]] /\ p[2] = q[2]
    OBVIOUS
  <2>2. p[1] = q[1]
    BY <1>1, <2>1
  <2> QED
    BY <1>1, <2>1, <2>2
<1>4. \A q \in G : \E p \in F : b[p] = q
  <2> SUFFICES ASSUME NEW q \in G PROVE \E p \in F : b[p] = q
    OBVIOUS
  <2>1. /\ q = <<q[1], q[2]>> /\ q[1] \in DOMAIN g /\ q[2] \in 1..Len(g[q[1]])
        /\ <<q[1], q[2]>> \in G
    BY SpotsMember
  <2>2. g[q[1]][q[2]] = e
    BY <2>1, SpotsMember
  <2>3. PICK r \in DOMAIN f : m[r] = q[1]
    BY <2>1
  <2>4. f[r] = g[q[1]]
    BY <2>3
  <2>5. <<r, q[2]>> \in F
    BY <2>1, <2>2, <2>4, SpotsMember
  <2>6. b[<<r, q[2]>>] = q
    BY <2>1, <2>3, <2>5
  <2> QED
    BY <2>5, <2>6
<1>5. b \in [F -> G]
  <2>1. b = [p \in F |-> b[p]]
    OBVIOUS
  <2> QED
    BY <1>2, <2>1
<1>6. IsFiniteSet(F)
  BY TallyNat
<1>7. Tally(f, e) = Cardinality(F) /\ Tally(g, e) = Cardinality(G)
  BY DEF Tally
<1> HIDE DEF F, G, b
<1>8. b \in Bijection(F, G)
  <2>1. b \in Injection(F, G)
    BY <1>3, <1>5, Fun_IsInj
  <2>2. b \in Surjection(F, G)
    BY <1>4, <1>5, Fun_IsSurj
  <2> QED
    BY <2>1, <2>2 DEF Bijection
<1>9. ExistsBijection(F, G)
  BY <1>8 DEF ExistsBijection
<1> QED
  BY <1>6, <1>7, <1>9, FS_Bijection

\* A family of one sequence.
LEMMA TallyOne ==
  ASSUME NEW S, NEW s \in Seq(S), NEW f, NEW r, Single(f, r, s), NEW e
  PROVE  Tally(f, e) = Occurrences(e, s)
<1> USE DEF Single
<1> DEFINE D == { i \in DOMAIN s : s[i] = e }
           F == Spots(f, e)
           b == [ i \in D |-> <<r, i>> ]
<1>1. DOMAIN s = 1..Len(s) /\ Len(s) \in Nat /\ D \in SUBSET (1..Len(s))
  OBVIOUS
<1>2. F = { <<r, i>> : i \in D }
  BY <1>1 DEF Spots
<1>3. b \in [D -> F] /\ (\A i, j \in D : b[i] = b[j] => i = j) /\ \A p \in F : \E i \in D : b[i] = p
  BY <1>2
<1>4. Tally(f, e) = Cardinality(F) /\ Occurrences(e, s) = Cardinality(D)
  BY DEF Tally, Occurrences
<1> HIDE DEF D, F, b
<1>5. b \in Injection(D, F) /\ b \in Surjection(D, F)
  BY <1>3, Fun_IsInj, Fun_IsSurj
<1>6. ExistsBijection(D, F)
  BY <1>5 DEF ExistsBijection, Bijection
<1>7. IsFiniteSet(D)
  BY <1>1, PlacesFinite
<1> QED
  BY <1>4, <1>6, <1>7, FS_Bijection

\* An edge more at the end of one sequence.
LEMMA TallyGrows ==
  ASSUME NEW S, NEW f, Family(f, S), NEW g, NEW r, NEW x \in S, Grows(g, f, r, x), NEW e
  PROVE  Tally(g, e) = Tally(f, e) + (IF x = e THEN 1 ELSE 0)
<1> USE DEF Grows
<1> DEFINE R == DOMAIN f \ {r}
           f1 == [ q \in R |-> f[q] ]
           f2 == [ q \in {r} |-> f[q] ]
           g2 == [ q \in {r} |-> g[q] ]
           s == f[r]
           t == Append(s, x)
<1>1. IsFiniteSet(R) /\ IsFiniteSet({r}) /\ s \in Seq(S) /\ t \in Seq(S)
  <2>1. s \in Seq(S) /\ IsFiniteSet(DOMAIN f)
    BY DEF Family
  <2>2. t \in Seq(S)
    BY <2>1
  <2>3. IsFiniteSet(R)
    BY <2>1, FS_RemoveElement
  <2> QED
    BY <2>1, <2>2, <2>3, FS_Singleton
<1>2. Family(f1, S) /\ Family(f2, S) /\ Family(g2, S)
  BY <1>1 DEF Family
<1>3. Parts(f, f1, f2) /\ Parts(g, f1, g2)
  <2>1. DOMAIN f1 = R /\ DOMAIN f2 = {r} /\ DOMAIN g2 = {r} /\ R \cup {r} = DOMAIN f
    OBVIOUS
  <2>2. /\ \A q \in R : f[q] = f1[q] /\ g[q] = f1[q]
        /\ f[r] = f2[r] /\ g[r] = g2[r]
    OBVIOUS
  <2> HIDE DEF f1, f2, g2
  <2> QED
    BY <2>1, <2>2 DEF Parts
<1>4. Single(f2, r, s) /\ Single(g2, r, t)
  BY DEF Single
<1>5. Occurrences(e, t) = Occurrences(e, s) + (IF x = e THEN 1 ELSE 0)
  BY <1>1, OccursAppend
<1> HIDE DEF R, f1, f2, g2, s, t
<1>6. Tally(f, e) = Tally(f1, e) + Tally(f2, e) /\ Tally(g, e) = Tally(f1, e) + Tally(g2, e)
  BY <1>2, <1>3, TallySplit
<1>7. Tally(f2, e) = Occurrences(e, s) /\ Tally(g2, e) = Occurrences(e, t)
  BY <1>1, <1>4, TallyOne
<1>8. Tally(f1, e) \in Nat /\ Occurrences(e, s) \in Nat
  BY <1>1, <1>2, TallyNat, OccursNat
<1> QED
  BY <1>5, <1>6, <1>7, <1>8

-----------------------------------------------------------------------------
(* Ascending sequences                                                     *)

\* What list.sort returns ascends, not only from one place to the next.
LEMMA StepsAscend ==
  ASSUME NEW t \in Seq(Nat), \A i \in 1..(Len(t) - 1) : t[i] <= t[i + 1]
  PROVE  Ascends(t)
<1> SUFFICES ASSUME NEW i \in 1..Len(t), NEW j \in 1..Len(t), i < j, ~(t[i] <= t[j])
             PROVE  FALSE
  BY DEF Ascends
<1> DEFINE T == { k \in 1..Len(t) : i < k /\ ~(t[i] <= t[k]) }
<1>1. T \in SUBSET Nat /\ j \in T
  OBVIOUS
<1> HIDE DEF T
<1>2. PICK k \in T : \A l \in T : k <= l
  BY <1>1, NatMinimum
<1>3. k \in 1..Len(t) /\ i < k /\ ~(t[i] <= t[k]) /\ k - 1 \in 1..(Len(t) - 1) /\ k - 1 \notin T
  BY <1>1, <1>2 DEF T
<1>4. t[k - 1] <= t[k] /\ t[k - 1] \in Nat /\ t[k] \in Nat /\ t[i] \in Nat
  <2>1. t[k - 1] <= t[(k - 1) + 1]
    BY <1>3
  <2>2. (k - 1) + 1 = k /\ k - 1 \in 1..Len(t)
    BY <1>3
  <2>3. t[k - 1] <= t[k]
    BY <2>1, <2>2
  <2>4. \A l \in 1..Len(t) : t[l] \in Nat
    OBVIOUS
  <2> QED
    BY <1>3, <2>2, <2>3, <2>4
<1>5. CASE k - 1 = i
  BY <1>3, <1>4, <1>5
<1>6. CASE k - 1 # i
  <2>1. k - 1 \in 1..Len(t) /\ i < k - 1
    BY <1>3, <1>6
  <2>2. t[i] <= t[k - 1]
    BY <1>3, <2>1 DEF T
  <2> QED
    BY <1>3, <1>4, <2>2
<1> QED
  BY <1>5, <1>6

\* An element more at the end, an element less at the front.
LEMMA AscendsMore ==
  ASSUME NEW t \in Seq(Nat), Ascends(t), NEW x \in Nat
  PROVE  /\ (\A i \in 1..Len(t) : t[i] <= x) <=> Ascends(Append(t, x))
         /\ Len(t) > 0 => (Ascends(Append(t, x)) <=> t[Len(t)] <= x)
         /\ t # <<>> => Ascends(Tail(t)) /\ \A i \in 1..Len(Tail(t)) : Head(t) <= Tail(t)[i]
<1>1. /\ Len(Append(t, x)) = Len(t) + 1 /\ Append(t, x)[Len(t) + 1] = x
      /\ \A i \in 1..Len(t) : Append(t, x)[i] = t[i] /\ t[i] \in Nat
      /\ Len(t) \in Nat
  OBVIOUS
<1>2. (\A i \in 1..Len(t) : t[i] <= x) => Ascends(Append(t, x))
  <2> SUFFICES ASSUME \A i \in 1..Len(t) : t[i] <= x,
                      NEW i \in 1..(Len(t) + 1), NEW j \in 1..(Len(t) + 1), i < j
               PROVE  Append(t, x)[i] <= Append(t, x)[j]
    BY <1>1 DEF Ascends
  <2>1. i \in 1..Len(t) /\ (j \in 1..Len(t) \/ j = Len(t) + 1)
    BY <1>1
  <2> QED
    BY <1>1, <2>1 DEF Ascends
<1>3. ASSUME Ascends(Append(t, x)), NEW i \in 1..Len(t) PROVE t[i] <= x
  <2>1. i \in 1..(Len(t) + 1) /\ Len(t) + 1 \in 1..(Len(t) + 1) /\ i < Len(t) + 1
    BY <1>1
  <2>2. Append(t, x)[i] <= Append(t, x)[Len(t) + 1]
    BY <1>1, <1>3, <2>1 DEF Ascends
  <2> QED
    BY <1>1, <2>2
<1>4. Len(t) > 0 /\ t[Len(t)] <= x => \A i \in 1..Len(t) : t[i] <= x
  <2> SUFFICES ASSUME Len(t) > 0, t[Len(t)] <= x, NEW i \in 1..Len(t)
               PROVE  t[i] <= x
    OBVIOUS
  <2>1. Len(t) \in 1..Len(t) /\ t[Len(t)] \in Nat /\ t[i] \in Nat /\ (i < Len(t) \/ i = Len(t))
    BY <1>1
  <2> QED
    BY <2>1 DEF Ascends
<1>5. t # <<>> => Ascends(Tail(t)) /\ \A i \in 1..Len(Tail(t)) : Head(t) <= Tail(t)[i]
  <2> SUFFICES ASSUME t # <<>>
               PROVE  Ascends(Tail(t)) /\ \A i \in 1..Len(Tail(t)) : Head(t) <= Tail(t)[i]
    OBVIOUS
  <2>1. /\ Len(Tail(t)) = Len(t) - 1 /\ Head(t) = t[1] /\ Len(t) >= 1
        /\ \A i \in 1..(Len(t) - 1) : Tail(t)[i] = t[i + 1]
    BY EmptySeq
  <2> QED
    BY <1>1, <2>1 DEF Ascends
<1> QED
  BY <1>1, <1>2, <1>3, <1>4, <1>5

\* Where an element of an ascending sequence is.
LEMMA AscendsPlace ==
  ASSUME NEW t \in Seq(Nat), Ascends(t), NEW k \in 1..Len(t)
  PROVE  Below(t, t[k]) < k /\ k <= UpTo(t, t[k])
<1> DEFINE n == Len(t)
           L == { i \in 1..n : t[i] < t[k] }
           U == { i \in 1..n : t[i] <= t[k] }
           P == 1..(k - 1)
           Q == 1..k
<1>1. n \in Nat /\ DOMAIN t = 1..n /\ k \in Nat /\ k >= 1 /\ k <= n /\ \A i \in 1..n : t[i] \in Nat
  OBVIOUS
<1>2. L \in SUBSET P
  <2> SUFFICES ASSUME NEW i \in L PROVE i \in P
    OBVIOUS
  <2>1. i \in 1..n /\ t[i] < t[k] /\ t[i] \in Nat /\ t[k] \in Nat
    BY <1>1
  <2>2. ~(k < i)
    BY <2>1 DEF Ascends
  <2>3. k # i
    BY <2>1
  <2> QED
    BY <1>1, <2>1, <2>2, <2>3
<1>3. Q \in SUBSET U
  <2> SUFFICES ASSUME NEW i \in Q PROVE t[i] <= t[k] /\ i \in 1..n
    OBVIOUS
  <2>1. i \in 1..n /\ (i = k \/ i < k) /\ t[i] \in Nat /\ t[k] \in Nat
    BY <1>1
  <2> QED
    BY <2>1 DEF Ascends
<1>4. Below(t, t[k]) = Cardinality(L) /\ UpTo(t, t[k]) = Cardinality(U) /\ U \in SUBSET (1..n)
  BY <1>1 DEF Below, UpTo
<1>5. k - 1 \in Nat /\ P \in SUBSET P
  BY <1>1
<1>6. Cardinality(P) = k - 1 /\ Cardinality(Q) = k
  BY <1>1, <1>5, PlacesFinite
<1> HIDE DEF L, U, n, P, Q
<1>7. Cardinality(Q) <= Cardinality(U)
  BY <1>1, <1>3, <1>4, PlacesFinite
<1>8. Cardinality(L) <= Cardinality(P) /\ Cardinality(L) \in Nat
  BY <1>2, <1>5, PlacesFinite DEF P
<1> QED
  BY <1>1, <1>4, <1>6, <1>7, <1>8

\* Sequences with the same elements, equally often.
SameBag(s, t) == \A e \in Nat : Occurrences(e, s) = Occurrences(e, t)

\* They have equally many elements below another and up to it ...
LEMMA SameCounts ==
  ASSUME NEW s \in Seq(Nat), NEW t \in Seq(Nat), SameBag(s, t), NEW a \in Nat
  PROVE  Below(s, a) = Below(t, a) /\ UpTo(s, a) = UpTo(t, a)
<1> DEFINE B(b) == Below(s, b) = Below(t, b)
           T == { b \in Nat : Below(s, b) # Below(t, b) }
<1>1. ASSUME NEW b \in Nat
      PROVE  /\ UpTo(s, b) = Below(s, b) + Occurrences(b, s)
             /\ UpTo(t, b) = Below(t, b) + Occurrences(b, t)
             /\ Occurrences(b, s) = Occurrences(b, t)
             /\ Below(s, b) \in Nat /\ Below(t, b) \in Nat
  BY CountsBetween DEF Occurrences, SameBag
<1>2. ASSUME NEW u \in Seq(Nat) PROVE Below(u, 0) = 0
  <2>1. { i \in DOMAIN u : u[i] < 0 } = {}
    OBVIOUS
  <2> QED
    BY <2>1, FS_EmptySet DEF Below
<1>3. ASSUME NEW u \in Seq(Nat), NEW b \in Nat PROVE Below(u, b + 1) = UpTo(u, b)
  <2>1. \A i \in DOMAIN u : u[i] < b + 1 <=> u[i] <= b
    OBVIOUS
  <2>2. { i \in DOMAIN u : u[i] < b + 1 } = { i \in DOMAIN u : u[i] <= b }
    BY <2>1
  <2> QED
    BY <2>2 DEF Below, UpTo
<1>4. ASSUME T # {} PROVE FALSE
  <2>1. T \in SUBSET Nat
    OBVIOUS
  <2> HIDE DEF T
  <2>2. PICK b \in T : \A c \in T : b <= c
    BY <1>4, <2>1, NatMinimum
  <2>3. b \in Nat /\ Below(s, b) # Below(t, b) /\ b # 0
    BY <1>2, <2>2 DEF T
  <2>4. b - 1 \in Nat /\ (b - 1) + 1 = b /\ b - 1 \notin T
    BY <2>2, <2>3
  <2>5. Below(s, b - 1) = Below(t, b - 1)
    BY <2>4 DEF T
  <2>6. UpTo(s, b - 1) = UpTo(t, b - 1)
    BY <1>1, <2>4, <2>5
  <2>7. Below(s, b) = UpTo(s, b - 1) /\ Below(t, b) = UpTo(t, b - 1)
    BY <1>3, <2>4
  <2> QED
    BY <2>3, <2>6, <2>7
<1>5. Below(s, a) = Below(t, a)
  BY <1>4
<1> QED
  BY <1>1, <1>5

\* ... and if both ascend they are equal.
LEMMA AscendsUnique ==
  ASSUME NEW s \in Seq(Nat), NEW t \in Seq(Nat), SameBag(s, t), Ascends(s), Ascends(t)
  PROVE  s = t
<1>1. \A a \in Nat : /\ Below(s, a) = Below(t, a) /\ UpTo(s, a) = UpTo(t, a)
                     /\ Below(s, a) \in Nat /\ UpTo(s, a) \in Nat
                     /\ UpTo(s, a) <= Len(s) /\ UpTo(t, a) <= Len(t)
                     /\ \A b \in Nat : a < b => UpTo(s, a) <= Below(s, b)
  BY SameCounts, CountsBetween
<1>2. \A k \in 1..Len(s) : s[k] \in Nat /\ Below(s, s[k]) < k /\ k <= UpTo(s, s[k])
  BY AscendsPlace
<1>3. \A k \in 1..Len(t) : t[k] \in Nat /\ Below(t, t[k]) < k /\ k <= UpTo(t, t[k])
  BY AscendsPlace
<1>4. Len(s) \in Nat /\ Len(t) \in Nat
  OBVIOUS
<1>5. Len(s) <= Len(t)
  <2> SUFFICES ASSUME Len(t) < Len(s) PROVE FALSE
    BY <1>4
  <2> DEFINE k == Len(s)
  <2>1. k \in 1..Len(s)
    BY <1>4
  <2>2. s[k] \in Nat /\ k <= UpTo(s, s[k])
    BY <1>2, <2>1
  <2>3. UpTo(s, s[k]) <= Len(t) /\ UpTo(s, s[k]) \in Nat
    BY <1>1, <2>2
  <2> QED
    BY <1>4, <2>2, <2>3
<1>6. Len(t) <= Len(s)
  <2> SUFFICES ASSUME Len(s) < Len(t) PROVE FALSE
    BY <1>4
  <2> DEFINE k == Len(t)
  <2>1. k \in 1..Len(t)
    BY <1>4
  <2>2. t[k] \in Nat /\ k <= UpTo(t, t[k])
    BY <1>3, <2>1
  <2>3. UpTo(t, t[k]) <= Len(s) /\ UpTo(t, t[k]) \in Nat
    BY <1>1, <2>2
  <2> QED
    BY <1>4, <2>2, <2>3
<1>7. ASSUME NEW k \in 1..Len(s) PROVE s[k] = t[k]
  <2>1. k \in 1..Len(t) /\ k \in Nat
    BY <1>4, <1>5
  <2>2. s[k] \in Nat /\ Below(s, s[k]) < k /\ k <= UpTo(s, s[k])
    BY <1>2
  <2>3. t[k] \in Nat /\ Below(s, t[k]) < k /\ k <= UpTo(s, t[k])
    BY <1>1, <1>3, <2>1
  <2>4. ~(s[k] < t[k])
    <3> SUFFICES ASSUME s[k] < t[k] PROVE FALSE
      OBVIOUS
    <3>1. UpTo(s, s[k]) <= Below(s, t[k]) /\ UpTo(s, s[k]) \in Nat /\ Below(s, t[k]) \in Nat
      BY <1>1, <2>2, <2>3
    <3> QED
      BY <2>1, <2>2, <2>3, <3>1
  <2>5. ~(t[k] < s[k])
    <3> SUFFICES ASSUME t[k] < s[k] PROVE FALSE
      OBVIOUS
    <3>1. UpTo(s, t[k]) <= Below(s, s[k]) /\ UpTo(s, t[k]) \in Nat /\ Below(s, s[k]) \in Nat
      BY <1>1, <2>2, <2>3
    <3> QED
      BY <2>1, <2>2, <2>3, <3>1
  <2> QED
    BY <2>2, <2>3, <2>4, <2>5
<1>8. Len(s) = Len(t)
  BY <1>4, <1>5, <1>6
<1> QED
  BY <1>7, <1>8, SeqEqual

\* Sorting keeps the elements and makes them ascend ...
LEMMA SortedBag ==
  ASSUME NEW s \in Seq(Nat)
  PROVE  Sorted(s) \in Seq(Nat) /\ Ascends(Sorted(s)) /\ SameBag(Sorted(s), s)
<1>1. Sorted(s) \in Seq(Nat) /\ Len(Sorted(s)) = Len(s)
  BY SortedSeq
<1>2. Ascends(Sorted(s))
  BY <1>1, SortedExact DEF Ascends
<1>3. ASSUME NEW e \in Nat PROVE Occurrences(e, Sorted(s)) = Occurrences(e, s)
  <2>1. DOMAIN s = 1..Len(s) /\ DOMAIN Sorted(s) = 1..Len(Sorted(s))
    BY <1>1
  <2> QED
    BY <2>1, SortedExact DEF Occurrences
<1> QED
  BY <1>1, <1>2, <1>3 DEF SameBag

\* ... and no other sequence is like that.
LEMMA SortUnique ==
  ASSUME NEW s \in Seq(Nat), NEW t \in Seq(Nat), SameBag(t, s), Ascends(t)
  PROVE  t = Sorted(s)
<1>1. Sorted(s) \in Seq(Nat) /\ Ascends(Sorted(s)) /\ SameBag(Sorted(s), s)
  BY SortedBag
<1>2. SameBag(t, Sorted(s))
  BY <1>1 DEF SameBag
<1> QED
  BY <1>1, <1>2, AscendsUnique

\* The places of a sequence have different elements iff none is there twice.
LEMMA ApartCounts ==
  ASSUME NEW s \in Seq(Nat)
  PROVE  Apart(s) <=> \A e \in Nat : Occurrences(e, s) <= 1
<1>1. ASSUME Apart(s), NEW e \in Nat PROVE Occurrences(e, s) <= 1
  <2>1. CASE Occurrences(e, s) = 0
    BY <2>1
  <2>2. CASE Occurrences(e, s) # 0
    <3>1. PICK i \in 1..Len(s) : s[i] = e
      BY <2>2, OccursNat
    <3>2. { j \in DOMAIN s : s[j] = e } = {i}
      <4>1. \A j \in 1..Len(s) : s[j] = e <=> j = i
        BY <1>1, <3>1 DEF Apart
      <4>2. DOMAIN s = 1..Len(s)
        OBVIOUS
      <4> QED
        BY <3>1, <4>1, <4>2
    <3>3. Occurrences(e, s) = 1
      BY <3>2, FS_Singleton DEF Occurrences
    <3> QED
      BY <3>3
  <2> QED
    BY <2>1, <2>2
<1>2. ASSUME \A e \in Nat : Occurrences(e, s) <= 1, NEW i \in 1..Len(s), NEW j \in 1..Len(s),
             s[i] = s[j]
      PROVE  i = j
  <2> DEFINE A == { k \in DOMAIN s : s[k] = s[i] }
  <2>1. i \in A /\ j \in A /\ A \in SUBSET (1..Len(s)) /\ Len(s) \in Nat /\ s[i] \in Nat
    BY <1>2
  <2>2. Occurrences(s[i], s) = Cardinality(A)
    BY DEF Occurrences
  <2> HIDE DEF A
  <2>3. IsFiniteSet(A) /\ Cardinality(A) \in Nat /\ Cardinality(A) <= 1
    BY <1>2, <2>1, <2>2, PlacesFinite
  <2>4. Cardinality(A) # 0
    BY <2>1, <2>3, FS_EmptySet
  <2>5. Cardinality(A) = 1
    BY <2>3, <2>4
  <2>6. PICK x : A = {x}
    BY <2>3, <2>5, FS_Singleton
  <2> QED
    BY <2>1, <2>6
<1> QED
  BY <1>1, <1>2 DEF Apart

\* Coalesced sequences with the same elements have them equally often.
LEMMA ApartSame ==
  ASSUME NEW s \in Seq(Nat), NEW t \in Seq(Nat), Apart(s), Apart(t),
         \A e \in Nat : Occurrences(e, s) = 0 <=> Occurrences(e, t) = 0
  PROVE  SameBag(s, t)
<1>1. ASSUME NEW u \in Seq(Nat), Apart(u), NEW e \in Nat, Occurrences(e, u) # 0
      PROVE  Occurrences(e, u) = 1
  <2>1. Occurrences(e, u) <= 1
    BY <1>1, ApartCounts
  <2>2. Occurrences(e, u) \in Nat
    BY <1>1, OccursNat
  <2> QED
    BY <1>1, <2>1, <2>2
<1> QED
  BY <1>1 DEF SameBag

\* Coalescing keeps the first encounter of every edge.
LEMMA FirstsSame ==
  ASSUME NEW s \in Seq(Nat)
  PROVE  LET f == Promise!FirstEncounters(s)
         IN  /\ f \in Seq(Nat) /\ Apart(f)
             /\ \A e \in Nat : Occurrences(e, f) = 0 <=> Occurrences(e, s) = 0
<1> DEFINE C == { i \in DOMAIN s : \A j \in 1..(i - 1) : s[j] # s[i] }
           f == Promise!FirstEncounters(s)
           c == Cardinality(C)
<1>1. f = Picked(s, C)
  BY DEF Promise!FirstEncounters, Promise!Picked, Picked, Promise!Nth, Nth,
         Promise!Cardinality, Cardinality
<1>2. DOMAIN s = 1..Len(s) /\ Len(s) \in Nat /\ C \in SUBSET (1..Len(s))
  OBVIOUS
<1>3. \A i, j \in C : s[i] = s[j] => i = j
  <2> SUFFICES ASSUME NEW i \in C, NEW j \in C, s[i] = s[j], i < j PROVE FALSE
    <3>1. \A i, j \in C : i \in Int /\ j \in Int
      BY <1>2
    <3> QED
      BY <3>1
  <2>1. i \in 1..(j - 1)
    BY <1>2
  <2> QED
    BY <2>1
<1>4. ASSUME NEW i \in 1..Len(s) PROVE \E j \in C : s[j] = s[i]
  <2> DEFINE T == { j \in 1..Len(s) : s[j] = s[i] }
  <2>1. T \in SUBSET Nat /\ i \in T
    OBVIOUS
  <2> HIDE DEF T
  <2>2. PICK j \in T : \A k \in T : j <= k
    BY <2>1, NatMinimum
  <2>3. j \in 1..Len(s) /\ s[j] = s[i]
    BY <2>2 DEF T
  <2>4. \A k \in 1..(j - 1) : s[k] # s[j]
    <3> SUFFICES ASSUME NEW k \in 1..(j - 1), s[k] = s[j] PROVE FALSE
      OBVIOUS
    <3>1. k \in 1..Len(s) /\ ~(j <= k)
      BY <1>2, <2>3
    <3> QED
      BY <2>2, <2>3, <3>1 DEF T
  <2> QED
    BY <1>2, <2>3, <2>4
<1> HIDE DEF C, f
<1>5. /\ f \in Seq(Nat) /\ Len(f) = c /\ c \in Nat
      /\ \A k \in 1..c : f[k] = s[Nth(C, k)] /\ Nth(C, k) \in C
  BY <1>1, <1>2, PickedSeq, PlacesFinite
<1>6. \A k \in 1..c : Cardinality({ x \in C : x <= Nth(C, k) }) = k
  BY <1>2, NthExists
<1>7. \A i \in C : LET r == Cardinality({ x \in C : x <= i })
                   IN  r \in 1..c /\ Nth(C, r) = i
  BY <1>2, NthOfRank
<1>8. Apart(f)
  <2> SUFFICES ASSUME NEW k \in 1..c, NEW l \in 1..c, f[k] = f[l] PROVE k = l
    BY <1>5 DEF Apart
  <2>1. Nth(C, k) = Nth(C, l)
    BY <1>3, <1>5
  <2> QED
    BY <1>6, <2>1
<1>9. ASSUME NEW e \in Nat
      PROVE  (\E k \in 1..Len(f) : f[k] = e) <=> \E i \in 1..Len(s) : s[i] = e
  <2>1. ASSUME NEW k \in 1..Len(f) PROVE \E i \in 1..Len(s) : s[i] = f[k]
    BY <1>2, <1>5
  <2>2. ASSUME NEW i \in 1..Len(s) PROVE \E k \in 1..Len(f) : f[k] = s[i]
    <3>1. PICK j \in C : s[j] = s[i]
      BY <1>4
    <3> DEFINE r == Cardinality({ x \in C : x <= j })
    <3>2. r \in 1..c /\ Nth(C, r) = j
      BY <1>7
    <3> QED
      BY <1>5, <3>1, <3>2
  <2> QED
    BY <2>1, <2>2
<1>10. ASSUME NEW e \in Nat PROVE Occurrences(e, f) = 0 <=> Occurrences(e, s) = 0
  <2>1. Occurrences(e, f) = 0 <=> \A k \in 1..Len(f) : f[k] # e
    BY <1>5, OccursNat
  <2>2. Occurrences(e, s) = 0 <=> \A i \in 1..Len(s) : s[i] # e
    BY OccursNat
  <2> QED
    BY <1>9, <2>1, <2>2
<1> QED
  BY <1>5, <1>8, <1>10 DEF f

-----------------------------------------------------------------------------
(* Sequences of runs                                                       *)

\* The runs in a sequence.
LEMMA RunsOf ==
  ASSUME NEW s \in Seq(Nat), NEW x \in Nat
  PROVE  /\ ToSet(<<>>) = {}
         /\ ToSet(s) \subseteq Nat
         /\ ToSet(Append(s, x)) = ToSet(s) \cup {x}
         /\ s # <<>> => Head(s) \in Nat /\ ToSet(s) = ToSet(Tail(s)) \cup {Head(s)}
         /\ \A i \in 1..Len(s) : s[i] \in ToSet(s)
<1>1. ToSet(<<>>) = {} /\ ToSet(s) \subseteq Nat /\ \A i \in 1..Len(s) : s[i] \in ToSet(s)
  BY DEF ToSet
<1>2. ToSet(Append(s, x)) = ToSet(s) \cup {x}
  <2>1. /\ DOMAIN Append(s, x) = 1..(Len(s) + 1) /\ Append(s, x)[Len(s) + 1] = x
        /\ DOMAIN s = 1..Len(s) /\ Len(s) \in Nat /\ \A i \in 1..Len(s) : Append(s, x)[i] = s[i]
    OBVIOUS
  <2>2. \A y : y \in ToSet(Append(s, x)) => y \in ToSet(s) \/ y = x
    BY <2>1 DEF ToSet
  <2>3. \A y \in ToSet(s) : y \in ToSet(Append(s, x))
    <3> SUFFICES ASSUME NEW i \in 1..Len(s) PROVE s[i] \in ToSet(Append(s, x))
      BY <2>1 DEF ToSet
    <3>1. i \in DOMAIN Append(s, x) /\ Append(s, x)[i] = s[i]
      BY <2>1
    <3> QED
      BY <3>1, Zenon DEF ToSet
  <2>4. x \in ToSet(Append(s, x))
    <3>1. Len(s) + 1 \in DOMAIN Append(s, x) /\ Append(s, x)[Len(s) + 1] = x
      BY <2>1
    <3> QED
      BY <3>1, Zenon DEF ToSet
  <2> QED
    BY <2>2, <2>3, <2>4
<1>3. ASSUME s # <<>> PROVE Head(s) \in Nat /\ ToSet(s) = ToSet(Tail(s)) \cup {Head(s)}
  <2>1. /\ DOMAIN Tail(s) = 1..(Len(s) - 1) /\ Head(s) = s[1] /\ s[1] \in Nat
        /\ DOMAIN s = 1..Len(s) /\ Len(s) \in Nat /\ Len(s) >= 1
        /\ \A i \in 1..(Len(s) - 1) : Tail(s)[i] = s[i + 1]
    BY <1>3, EmptySeq
  <2>2. \A y \in ToSet(Tail(s)) : y \in ToSet(s)
    <3> SUFFICES ASSUME NEW i \in 1..(Len(s) - 1) PROVE s[i + 1] \in ToSet(s)
      BY <2>1 DEF ToSet
    <3>1. i + 1 \in DOMAIN s
      BY <2>1
    <3> QED
      BY <3>1, Zenon DEF ToSet
  <2>3. \A y \in ToSet(s) : y \in ToSet(Tail(s)) \/ y = Head(s)
    <3> SUFFICES ASSUME NEW i \in 1..Len(s), i # 1 PROVE s[i] \in ToSet(Tail(s))
      BY <2>1 DEF ToSet
    <3>1. i - 1 \in DOMAIN Tail(s) /\ Tail(s)[i - 1] = s[(i - 1) + 1] /\ (i - 1) + 1 = i
      BY <2>1
    <3>2. Tail(s)[i - 1] = s[i]
      BY <3>1
    <3> QED
      BY <3>1, <3>2, Zenon DEF ToSet
  <2>4. Head(s) \in ToSet(s)
    <3>1. 1 \in DOMAIN s
      BY <2>1
    <3> QED
      BY <2>1, <3>1, Zenon DEF ToSet
  <2> QED
    BY <2>1, <2>2, <2>3, <2>4
<1> QED
  BY <1>1, <1>2, <1>3

\* They are finitely many.
LEMMA RunsFinite ==
  ASSUME NEW s \in Seq(Nat)
  PROVE  IsFiniteSet(ToSet(s))
<1>1. Len(s) \in Nat /\ 1..Len(s) \in SUBSET (1..Len(s)) /\ DOMAIN s = 1..Len(s)
  OBVIOUS
<1>2. s \in [1..Len(s) -> ToSet(s)] /\ \A x \in ToSet(s) : \E i \in 1..Len(s) : s[i] = x
  BY <1>1 DEF ToSet
<1>3. s \in Surjection(1..Len(s), ToSet(s))
  BY <1>2, Fun_IsSurj
<1>4. IsFiniteSet(1..Len(s))
  BY <1>1, PlacesFinite
<1> QED
  BY <1>3, <1>4, FS_Surjection

\* The runs in a sequence cut in two: the first n and the others.
LEMMA RunsCut ==
  ASSUME NEW s \in Seq(Nat), NEW n \in 0..Len(s)
  PROVE  LET a == SubSeq(s, 1, n)
             b == SubSeq(s, n + 1, Len(s))
         IN  /\ a \in Seq(Nat) /\ b \in Seq(Nat) /\ Len(a) = n
             /\ \A x : x \in ToSet(s) <=> x \in ToSet(a) \/ x \in ToSet(b)
             /\ Apart(s) => Apart(a) /\ Apart(b) /\ ToSet(a) \cap ToSet(b) = {}
<1> DEFINE m == Len(s)
           a == SubSeq(s, 1, n)
           b == SubSeq(s, n + 1, m)
<1>1. m \in Nat /\ n \in Nat /\ n <= m /\ DOMAIN s = 1..m
  OBVIOUS
<1>2. a \in Seq(Nat) /\ Len(a) = n /\ DOMAIN a = 1..n /\ \A i \in 1..n : a[i] = s[i]
  OBVIOUS
<1>3. /\ b \in Seq(Nat) /\ Len(b) = m - n /\ DOMAIN b = 1..(m - n)
      /\ \A i \in 1..(m - n) : b[i] = s[n + i]
  OBVIOUS
<1> HIDE DEF a, b, m
<1>4. ASSUME NEW x, x \in ToSet(s) PROVE x \in ToSet(a) \/ x \in ToSet(b)
  <2>1. PICK i \in 1..m : x = s[i]
    BY <1>1, <1>4 DEF ToSet
  <2>2. CASE i <= n
    <3>1. i \in DOMAIN a /\ a[i] = x
      BY <1>1, <1>2, <2>1, <2>2
    <3> QED
      BY <3>1, Zenon DEF ToSet
  <2>3. CASE ~(i <= n)
    <3>1. i - n \in 1..(m - n) /\ n + (i - n) = i
      BY <1>1, <2>3
    <3>2. i - n \in DOMAIN b /\ b[i - n] = x
      BY <1>3, <2>1, <3>1
    <3> QED
      BY <3>2, Zenon DEF ToSet
  <2> QED
    BY <2>2, <2>3
<1>5. ASSUME NEW x, x \in ToSet(a) PROVE \E i \in 1..n : s[i] = x
  BY <1>2, <1>5 DEF ToSet
<1>6. ASSUME NEW x, x \in ToSet(b) PROVE \E i \in 1..m : s[i] = x /\ ~(i <= n)
  <2>1. PICK i \in 1..(m - n) : x = b[i]
    BY <1>3, <1>6 DEF ToSet
  <2>2. n + i \in 1..m /\ s[n + i] = x /\ ~(n + i <= n)
    BY <1>1, <1>3, <2>1
  <2> QED
    BY <2>2
<1>7. \A i \in 1..n : i \in 1..m /\ i <= n
  BY <1>1
<1>8. \A x : x \in ToSet(s) <=> x \in ToSet(a) \/ x \in ToSet(b)
  <2>1. \A x : x \in ToSet(a) => x \in ToSet(s)
    BY <1>1, <1>5, <1>7, Zenon DEF ToSet
  <2>2. \A x : x \in ToSet(b) => x \in ToSet(s)
    BY <1>1, <1>6, Zenon DEF ToSet
  <2> QED
    BY <1>4, <2>1, <2>2
<1>9. Apart(s) => Apart(a)
  BY <1>2, <1>7 DEF Apart, m
<1>10. Apart(s) => Apart(b)
  <2> SUFFICES ASSUME Apart(s), NEW i \in 1..(m - n), NEW j \in 1..(m - n), b[i] = b[j] PROVE i = j
    BY <1>3 DEF Apart
  <2>1. n + i \in 1..m /\ n + j \in 1..m /\ s[n + i] = s[n + j]
    BY <1>1, <1>3
  <2>2. n + i = n + j
    BY <2>1 DEF Apart, m
  <2> QED
    BY <1>1, <2>2
<1>11. Apart(s) => ToSet(a) \cap ToSet(b) = {}
  <2> SUFFICES ASSUME Apart(s), NEW x, x \in ToSet(a), x \in ToSet(b) PROVE FALSE
    OBVIOUS
  <2>1. PICK i \in 1..n : s[i] = x
    BY <1>5
  <2>2. PICK j \in 1..m : s[j] = x /\ ~(j <= n)
    BY <1>6
  <2>3. i = j
    BY <1>7, <2>1, <2>2 DEF Apart, m
  <2> QED
    BY <1>1, <2>1, <2>2, <2>3
<1> QED
  BY <1>2, <1>3, <1>8, <1>9, <1>10, <1>11 DEF a, b, m

\* A sequence without repetition, one element longer or shorter.
LEMMA ApartMore ==
  ASSUME NEW s \in Seq(Nat), NEW x \in Nat, Apart(s)
  PROVE  /\ x \notin ToSet(s) => Apart(Append(s, x))
         /\ s # <<>> => Apart(Tail(s)) /\ Head(s) \notin ToSet(Tail(s))
<1>1. x \notin ToSet(s) => Apart(Append(s, x))
  <2> SUFFICES ASSUME x \notin ToSet(s), NEW i \in 1..(Len(s) + 1), NEW j \in 1..(Len(s) + 1),
                      Append(s, x)[i] = Append(s, x)[j]
               PROVE  i = j
    BY DEF Apart
  <2>1. \A k \in 1..Len(s) : s[k] # x /\ Append(s, x)[k] = s[k]
    BY RunsOf
  <2>2. Append(s, x)[Len(s) + 1] = x /\ (i \in 1..Len(s) \/ i = Len(s) + 1)
        /\ (j \in 1..Len(s) \/ j = Len(s) + 1)
    OBVIOUS
  <2> QED
    BY <2>1, <2>2 DEF Apart
<1>2. ASSUME s # <<>> PROVE Apart(Tail(s)) /\ Head(s) \notin ToSet(Tail(s))
  <2>1. /\ DOMAIN Tail(s) = 1..(Len(s) - 1) /\ Head(s) = s[1] /\ Len(Tail(s)) = Len(s) - 1
        /\ Len(s) \in Nat /\ Len(s) >= 1
        /\ \A i \in 1..(Len(s) - 1) : Tail(s)[i] = s[i + 1] /\ i + 1 \in 1..Len(s) /\ i + 1 # 1
    BY <1>2, EmptySeq
  <2>2. \A i \in 1..(Len(s) - 1) : Tail(s)[i] # s[1]
    BY <2>1 DEF Apart
  <2>3. Head(s) \notin ToSet(Tail(s))
    BY <2>1, <2>2 DEF ToSet
  <2>4. ASSUME NEW i \in 1..(Len(s) - 1), NEW j \in 1..(Len(s) - 1), Tail(s)[i] = Tail(s)[j]
        PROVE  i = j
    <3>1. i + 1 = j + 1
      BY <2>1, <2>4 DEF Apart
    <3> QED
      BY <3>1
  <2> QED
    BY <2>1, <2>3, <2>4 DEF Apart
<1> QED
  BY <1>1, <1>2

-----------------------------------------------------------------------------
(* The steps after which the iterator still goes on                        *)

Continues ==
  \/ Start \/ ReadEdge \/ SourceExhausted \/ CreateRun \/ WriteRecord \/ SkipRecord
  \/ FinishRun \/ OpenReader \/ Successor \/ StartPass \/ NextGroup \/ EndPass
  \/ DeleteInput \/ StartDrain \/ Deliver \/ Resume \/ CancelToken \/ Damage
  \/ UNCHANGED vars

\* The other steps end it.
LEMMA GoingSteps ==
  ASSUME [Next]_vars, Going'
  PROVE  Going /\ Continues
<1> USE DEF Going, Continues
<1>1. CASE Generator
  <2>1. CASE ReadFails \/ ReadCancelled \/ CreateFails \/ WriteFails \/ WriteCancelled
             \/ OpenFails \/ SuccessorFails \/ DrainCancelled
    BY <2>1 DEF ReadFails, ReadCancelled, CreateFails, WriteFails, WriteCancelled, OpenFails,
         SuccessorFails, DrainCancelled, RaiseResource, RaiseCancelled, Raise
  <2>2. CASE Complete \/ Close \/ Cleanup
    BY <2>2 DEF Complete, Close, Cleanup, Raise
  <2>3. CASE Start \/ ReadEdge \/ SourceExhausted \/ CreateRun \/ WriteRecord \/ SkipRecord
    BY <2>3 DEF Start, ReadEdge, SourceExhausted, CreateRun, WriteRecord, SkipRecord
  <2>4. CASE FinishRun \/ OpenReader \/ Successor \/ StartPass \/ NextGroup \/ EndPass
             \/ DeleteInput \/ StartDrain \/ Deliver \/ Resume
    BY <2>4 DEF FinishRun, OpenReader, Successor, StartPass, NextGroup, EndPass,
         DeleteInput, StartDrain, Deliver, Resume
  <2> QED
    BY <1>1, <2>1, <2>2, <2>3, <2>4 DEF Generator
<1>2. CASE Environment
  BY <1>2 DEF Environment, CancelToken, Damage, Collect, AtExit
<1>3. CASE Exited \/ UNCHANGED vars
  BY <1>3 DEF Exited, vars
<1> QED
  BY <1>1, <1>2, <1>3 DEF Next

\* What the type invariant says of the sequences.
LEMMA Sequences ==
  ASSUME Inv
  PROVE  /\ Edges \subseteq Nat
         /\ current \in Seq(Nat) /\ following \in Seq(Nat) /\ group \in Seq(Nat)
         /\ writing \in Nat /\ runs_created \in Nat /\ raw_count \in Nat /\ distinct_count \in Nat
         /\ input \in Seq(Edges) /\ buffer \in Seq(Edges) /\ todo \in Seq(Edges)
         /\ digest \in Seq(Edges) /\ delivered \in Seq(Edges)
         /\ input \in Seq(Nat) /\ buffer \in Seq(Nat) /\ todo \in Seq(Nat)
         /\ digest \in Seq(Nat) /\ delivered \in Seq(Nat)
<1>1. Edges \subseteq Nat
  BY SpillAssumption
<1>2. /\ current \in Seq(Nat) /\ following \in Seq(Nat) /\ group \in Seq(Nat)
      /\ writing \in Nat /\ runs_created \in Nat /\ raw_count \in Nat /\ distinct_count \in Nat
      /\ input \in Seq(Edges) /\ buffer \in Seq(Edges) /\ todo \in Seq(Edges)
      /\ digest \in Seq(Edges) /\ delivered \in Seq(Edges)
  BY DEF Inv, TypeOK, CallType, RunsType, WriteType
<1> QED
  BY <1>1, <1>2, SeqWider

\* The live runs, and what their headers vouch for, are the same.
LiveKept == Live' = Live /\ \A f \in Live : f \in DOMAIN files' /\ files'[f].head = files[f].head

\* Only a run that is finished changes them.
LEMMA LiveStep ==
  ASSUME Inv, RunsFrame, Going, Going', Continues, ~FinishRun
  PROVE  LiveKept
<1>1. /\ current \in Seq(Nat) /\ following \in Seq(Nat) /\ group \in Seq(Nat)
      /\ runs_created \in Nat /\ ToSet(<<>>) = {}
  BY Sequences, RunsOf
<1>2. \A f \in Live : f \in DOMAIN files /\ f \in 1..runs_created
  BY DEF RunsFrame
<1>3. ASSUME UNCHANGED <<current, following, group>>, pc # "delete", pc' # "delete"
      PROVE  Live' = Live
  BY <1>3 DEF Live
<1> USE DEF quiet, result, fill, write, merge, bytes, disk, counters
<1>4. CASE Start \/ ReadEdge \/ SourceExhausted \/ SkipRecord \/ OpenReader \/ Successor
           \/ StartPass \/ Deliver \/ Resume
  <2>1. UNCHANGED <<current, following, group, files>> /\ pc # "delete" /\ pc' # "delete"
    BY <1>4 DEF Start, ReadEdge, WriteSortedRun, SourceExhausted, SkipRecord, OpenReader,
         Successor, StartPass, Deliver, Resume, Pop, Advance
  <2> QED
    BY <1>2, <1>3, <2>1 DEF LiveKept
<1>5. CASE CancelToken \/ UNCHANGED vars
  <2>1. UNCHANGED <<current, following, group, files, pc>>
    BY <1>5 DEF CancelToken, vars
  <2>2. Live' = Live
    BY <2>1 DEF Live
  <2> QED
    BY <1>2, <2>1, <2>2 DEF LiveKept
<1>6. CASE Damage
  <2>1. UNCHANGED <<current, following, group, pc>>
    BY <1>6 DEF Damage
  <2>2. Live' = Live
    BY <2>1 DEF Live
  <2>3. PICK run \in DOMAIN run_sizes, e \in Edges :
          LET data == files[run].data
          IN  \/ \E i \in DOMAIN data :
                   files' = [files EXCEPT ![run] = File([data EXCEPT ![i] = e], @.head, @.bytes)]
              \/ files' = [files EXCEPT ![run] =
                             File(SubSeq(data, 1, Len(data) - 1), @.head,
                                  @.bytes - RecordBytes[data[Len(data)]])]
    BY <1>6 DEF Damage
  <2>4. \A f \in DOMAIN files : f \in DOMAIN files' /\ files'[f].head = files[f].head
    BY <2>3 DEF File
  <2> QED
    BY <1>2, <2>2, <2>4 DEF LiveKept
<1>7. CASE CreateRun
  <2>1. /\ UNCHANGED <<current, following, group>> /\ pc # "delete" /\ pc' # "delete"
        /\ files' = With(files, runs_created + 1, File(<<>>, <<>>, HeaderBytes))
    BY <1>7 DEF CreateRun
  <2>2. \A f \in DOMAIN files : f # runs_created + 1 => f \in DOMAIN files' /\ files'[f] = files[f]
    BY <2>1 DEF With
  <2>3. \A f \in Live : f # runs_created + 1
    BY <1>1, <1>2
  <2> QED
    BY <1>2, <1>3, <2>1, <2>2, <2>3 DEF LiveKept
<1>8. CASE WriteRecord
  <2>1. UNCHANGED <<current, following, group>> /\ pc # "delete" /\ pc' # "delete"
    BY <1>8 DEF WriteRecord, Advance, Pop
  <2>2. PICK data, size : files' = [files EXCEPT ![writing] = File(data, @.head, size)]
    BY <1>8 DEF WriteRecord
  <2>3. \A f \in DOMAIN files : f \in DOMAIN files' /\ files'[f].head = files[f].head
    BY <2>2 DEF File
  <2> QED
    BY <1>2, <1>3, <2>1, <2>3 DEF LiveKept
<1>9. CASE NextGroup
  <2> DEFINE n == GroupSize
             a == SubSeq(current, 1, n)
             b == SubSeq(current, n + 1, Len(current))
  <2>0. n \in 1..Len(current) /\ n \in 0..Len(current)
    BY <1>1, <1>9, SpillAssumption, EmptySeq DEF GroupSize, NextGroup
  <2>1. /\ pc = "pass" /\ pc' \in {"pass", "create"} /\ group = <<>> /\ current' = b
        /\ UNCHANGED files
    BY <1>9 DEF NextGroup, RunsFrame
  <2>2. \A x : x \in ToSet(current) <=> x \in ToSet(a) \/ x \in ToSet(b)
    BY <1>1, <2>0, RunsCut
  <2>3. CASE n = 1
    <3>1. following' = Append(following, current[1]) /\ group' = group
      BY <1>9, <2>3 DEF NextGroup
    <3>2. DOMAIN a = 1..1 /\ a[1] = current[1] /\ current[1] \in Nat
      BY <1>1, <2>0, <2>3
    <3> HIDE DEF a, b, n
    <3>3. ToSet(a) = {current[1]} /\ ToSet(following') = ToSet(following) \cup {current[1]}
      <4>1. ToSet(a) = {current[1]}
        BY <3>2 DEF ToSet
      <4> QED
        BY <1>1, <3>1, <3>2, <4>1, RunsOf
    <3>4. \A x : x \in Live' <=> x \in Live
      BY <1>1, <2>1, <2>2, <3>1, <3>3 DEF Live
    <3>5. Live' = Live
      BY <3>4
    <3> QED
      BY <1>2, <2>1, <3>5 DEF LiveKept
  <2>4. CASE n # 1
    <3>1. group' = a /\ following' = following
      BY <1>9, <2>4 DEF NextGroup
    <3> HIDE DEF a, b, n
    <3>4. \A x : x \in Live' <=> x \in Live
      BY <1>1, <2>1, <2>2, <3>1 DEF Live
    <3>5. Live' = Live
      BY <3>4
    <3> QED
      BY <1>2, <2>1, <3>5 DEF LiveKept
  <2> QED
    BY <2>3, <2>4
<1>10. CASE EndPass
  <2>1. /\ pc = "pass" /\ pc' = "reduce" /\ current = <<>> /\ current' = following
        /\ following' = <<>> /\ UNCHANGED <<group, files>>
    BY <1>10 DEF EndPass
  <2>2. Live' = Live
    BY <1>1, <2>1 DEF Live
  <2> QED
    BY <1>2, <2>1, <2>2 DEF LiveKept
<1>11. CASE DeleteInput
  <2>1. /\ pc = "delete" /\ group # <<>> /\ group' = Tail(group)
        /\ pc' = (IF Len(group) = 1 THEN "pass" ELSE "delete")
        /\ UNCHANGED <<current, following>>
        /\ files' = files \/ files' = Without(files, group[1])
    BY <1>11 DEF DeleteInput, KeepRun
  <2>2. Len(group) = 1 => Tail(group) = <<>>
    <3>1. Len(group) = 1 => Tail(group) \in Seq(Nat) /\ Len(Tail(group)) = 0
      BY <1>1, <2>1
    <3> QED
      BY <3>1, EmptySeq
  <2>3. group[1] \in ToSet(group)
    BY <1>1, <2>1, RunsOf, EmptySeq
  <2>4. group[1] \notin ToSet(current) /\ group[1] \notin ToSet(following)
    BY <2>1, <2>3 DEF RunsFrame, Final
  <2>5. Live' = Live
    BY <1>1, <2>1, <2>2 DEF Live
  <2>6. group[1] \notin Live
    BY <2>1, <2>4 DEF Live
  <2>7. \A f \in DOMAIN files : f # group[1] => f \in DOMAIN files' /\ files'[f] = files[f]
    BY <2>1 DEF Without
  <2> QED
    BY <1>2, <2>5, <2>6, <2>7 DEF LiveKept
<1>12. CASE StartDrain
  <2>1. /\ pc = "reduce" /\ pc' = "open" /\ group' = current
        /\ UNCHANGED <<current, following, files>> /\ group = <<>>
    BY <1>12 DEF StartDrain, RunsFrame
  <2>2. Live' = Live
    BY <1>1, <2>1 DEF Live
  <2> QED
    BY <1>2, <2>1, <2>2 DEF LiveKept
<1> QED
  BY <1>4, <1>5, <1>6, <1>7, <1>8, <1>9, <1>10, <1>11, <1>12 DEF Continues

\* A finished run takes the place of the group it was merged from.
LEMMA FinishLive ==
  ASSUME Inv, RunsFrame, Going, FinishRun
  PROVE  /\ writing = runs_created + 1 /\ runs_created' = writing
         /\ \A x \in Live : x # writing
         /\ \A x : x \in Live' <=> x = writing \/ x \in ToSet(current) \/ x \in ToSet(following)
         /\ writing \in DOMAIN files' /\ files'[writing].head = digest
         /\ DOMAIN files' = DOMAIN files
         /\ \A f \in DOMAIN files : f # writing => files'[f] = files[f]
<1>1. /\ current \in Seq(Nat) /\ following \in Seq(Nat) /\ group \in Seq(Nat)
      /\ runs_created \in Nat /\ writing \in Nat /\ ToSet(<<>>) = {}
  BY Sequences, RunsOf
<1>2. /\ pc = "write" /\ writing = runs_created + 1 /\ writing \in DOMAIN files
      /\ runs_created' = runs_created + 1
  BY DEF FinishRun, RunsFrame
<1>3. \A x \in Live : x # writing
  <2>1. \A x \in Live : x \in 1..runs_created
    BY DEF RunsFrame
  <2> QED
    BY <1>1, <1>2, <2>1
<1>4. \A x : x \in Live' <=> x = writing \/ x \in ToSet(current) \/ x \in ToSet(following)
  <2>1. CASE group = <<>>
    <3>1. /\ current' = Append(current, writing) /\ pc' = "fill"
          /\ UNCHANGED <<following, group>>
      BY <2>1 DEF FinishRun
    <3>2. ToSet(current') = ToSet(current) \cup {writing}
      BY <1>1, <3>1, RunsOf
    <3> QED
      BY <1>1, <2>1, <3>1, <3>2 DEF Live
  <2>2. CASE group # <<>>
    <3>1. /\ following' = Append(following, writing) /\ pc' = "delete"
          /\ UNCHANGED current
      BY <2>2 DEF FinishRun
    <3>2. ToSet(following') = ToSet(following) \cup {writing}
      BY <1>1, <3>1, RunsOf
    <3> QED
      BY <1>1, <2>2, <3>1, <3>2 DEF Live
  <2> QED
    BY <2>1, <2>2
<1>5. PICK data, size : files' = [files EXCEPT ![writing] = File(data, digest, size)]
  BY DEF FinishRun
<1>6. /\ DOMAIN files' = DOMAIN files /\ files'[writing].head = digest
      /\ \A f \in DOMAIN files : f # writing => files'[f] = files[f]
  BY <1>2, <1>5 DEF File
<1> QED
  BY <1>2, <1>3, <1>4, <1>6

\* The sequences of runs stay apart.
LEMMA RunsFrameStep ==
  ASSUME Inv, RunsFrame, Going, Going', Continues
  PROVE  RunsFrame'
<1>1. /\ current \in Seq(Nat) /\ following \in Seq(Nat) /\ group \in Seq(Nat)
      /\ runs_created \in Nat /\ writing \in Nat /\ ToSet(<<>>) = {} /\ Apart(<<>>)
  <2>1. Apart(<<>>)
    BY DEF Apart
  <2> QED
    BY <2>1, Sequences, RunsOf
<1> USE DEF quiet, result, fill, write, merge, bytes, disk, counters
<1>2. ASSUME UNCHANGED <<current, following, group, writing, runs_created>>, LiveKept,
             Final' <=> Final, writing \in DOMAIN files => writing \in DOMAIN files',
             pc' = "write" => writing # 0,
             pc' \in {"new", "fill", "reduce"} => following = <<>> /\ group = <<>>,
             pc' = "pass" => group = <<>>,
             pc' \in {"create", "write"} /\ group = <<>> => following = <<>>
      PROVE  RunsFrame'
  <2>1. Live' \subseteq 1..runs_created' /\ Live' \subseteq DOMAIN files'
    BY <1>2 DEF RunsFrame, LiveKept
  <2>2. (Final => group = current /\ following = <<>>)
        /\ (~Final => ToSet(group) \cap (ToSet(current) \cup ToSet(following)) = {})
    BY DEF RunsFrame
  <2> QED
    BY <1>2, <2>1, <2>2 DEF RunsFrame
<1>3. CASE Start \/ ReadEdge \/ SourceExhausted \/ StartPass
  <2>1. /\ UNCHANGED <<current, following, group, writing, runs_created, files>>
        /\ pc \in {"new", "fill", "reduce"} /\ pc' \notin {"drain", "yield", "open", "write"}
    BY <1>3 DEF Start, ReadEdge, WriteSortedRun, SourceExhausted, StartPass, Going
  <2>2. ~Final /\ ~Final' /\ following = <<>> /\ group = <<>>
    BY <2>1 DEF Final, RunsFrame
  <2>3. LiveKept
    BY <1>3, <2>1, LiveStep DEF FinishRun, Start, ReadEdge, SourceExhausted, StartPass
  <2> QED
    BY <1>2, <2>1, <2>2, <2>3
<1>4. CASE CreateRun
  <2>1. /\ UNCHANGED <<current, following, group, runs_created>> /\ writing' = runs_created + 1
        /\ pc = "create" /\ pc' = (IF group = <<>> THEN "write" ELSE "open")
        /\ files' = With(files, runs_created + 1, File(<<>>, <<>>, HeaderBytes))
    BY <1>4 DEF CreateRun
  <2>2. ~Final /\ ~Final' /\ writing' # 0 /\ writing' \in DOMAIN files'
    BY <1>1, <2>1 DEF Final, With
  <2>3. LiveKept
    BY <1>4, <2>1, LiveStep DEF FinishRun
  <2>4. Live' \subseteq 1..runs_created' /\ Live' \subseteq DOMAIN files'
    BY <2>1, <2>3 DEF RunsFrame, LiveKept
  <2> QED
    BY <2>1, <2>2, <2>4 DEF RunsFrame
<1>5. CASE WriteRecord \/ SkipRecord
  <2>1. /\ UNCHANGED <<current, following, group, writing, runs_created, pc>> /\ pc = "write"
        /\ DOMAIN files' = DOMAIN files
    BY <1>5 DEF WriteRecord, SkipRecord, Advance, Pop
  <2>2. LiveKept /\ (Final' <=> Final)
    BY <1>5, <2>1, LiveStep DEF Final, FinishRun, WriteRecord, SkipRecord, Exhausted
  <2> QED
    BY <1>2, <2>1, <2>2 DEF RunsFrame
<1>6. CASE FinishRun
  <2>1. /\ pc = "write" /\ writing' = 0 /\ pc' \in {"fill", "delete"} /\ UNCHANGED group
    BY <1>6 DEF FinishRun
  <2>2. ~Final /\ ~Final'
    BY <2>1 DEF Final
  <2>3. /\ writing = runs_created + 1 /\ runs_created' = writing
        /\ \A x \in Live : x # writing
        /\ \A x : x \in Live' <=> x = writing \/ x \in ToSet(current) \/ x \in ToSet(following)
        /\ DOMAIN files' = DOMAIN files /\ writing \in DOMAIN files
    BY <1>6, FinishLive
  <2>4. \A x : x \in ToSet(current) \/ x \in ToSet(following) \/ x \in ToSet(group) => x \in Live
    BY <2>1 DEF Live
  <2>5. Live' \subseteq 1..runs_created' /\ Live' \subseteq DOMAIN files'
    <3>1. \A x \in Live : x \in 1..runs_created /\ x \in DOMAIN files
      BY DEF RunsFrame
    <3>2. \A x \in Live' : x = writing \/ x \in Live
      BY <2>3, <2>4
    <3>3. \A x \in 1..runs_created : x \in 1..runs_created'
      BY <1>1, <2>3
    <3>4. writing \in 1..runs_created'
      BY <1>1, <2>3
    <3> QED
      BY <2>3, <3>1, <3>2, <3>3, <3>4
  <2>6. CASE group = <<>>
    <3>1. current' = Append(current, writing) /\ pc' = "fill" /\ UNCHANGED following
          /\ following = <<>>
      BY <1>6, <2>1, <2>6 DEF FinishRun, RunsFrame
    <3>2. Apart(current') /\ Apart(current)
      BY <1>1, <2>3, <2>4, <3>1, ApartMore DEF RunsFrame
    <3> QED
      BY <1>1, <2>1, <2>2, <2>5, <2>6, <3>1, <3>2 DEF RunsFrame
  <2>7. CASE group # <<>>
    <3>1. following' = Append(following, writing) /\ pc' = "delete" /\ UNCHANGED current
      BY <1>6, <2>7 DEF FinishRun
    <3>2. Apart(following') /\ ToSet(following') = ToSet(following) \cup {writing}
      BY <1>1, <2>3, <2>4, <3>1, ApartMore, RunsOf DEF RunsFrame
    <3>3. /\ Apart(current) /\ Apart(group) /\ ToSet(current) \cap ToSet(following) = {}
          /\ ToSet(group) \cap (ToSet(current) \cup ToSet(following)) = {}
      BY <2>2 DEF RunsFrame
    <3>4. /\ ToSet(current) \cap ToSet(following') = {}
          /\ ToSet(group) \cap (ToSet(current) \cup ToSet(following')) = {}
      BY <2>3, <2>4, <3>2, <3>3
    <3> QED
      BY <2>1, <2>2, <2>5, <3>1, <3>2, <3>3, <3>4 DEF RunsFrame
  <2> QED
    BY <2>6, <2>7
<1>7. CASE OpenReader
  <2>1. /\ UNCHANGED <<current, following, group, writing, runs_created, files>>
        /\ pc = "open"
        /\ pc' = "open" \/ (pc' = "drain" /\ writing = 0) \/ (pc' = "write" /\ writing # 0)
    BY <1>7 DEF OpenReader
  <2>2. LiveKept /\ (Final' <=> Final) /\ group # <<>>
    <3>1. group # <<>>
      BY <1>1, <2>1 DEF Inv, ReaderFrame, TypeOK, MergeType
    <3> QED
      BY <1>7, <2>1, <3>1, LiveStep DEF Final, FinishRun
  <2> QED
    BY <1>2, <2>1, <2>2
<1>8. CASE Successor \/ Deliver \/ Resume
  <2>1. /\ UNCHANGED <<current, following, group, writing, runs_created, files>>
        /\ \/ pc = "write" /\ pc' = "write"
           \/ pc \in {"drain", "yield"} /\ pc' \in {"drain", "yield"}
    BY <1>8 DEF Successor, Deliver, Resume
  <2>2. ~FinishRun
    BY <1>8 DEF FinishRun, Successor, Deliver, Resume
  <2>3. LiveKept /\ (Final' <=> Final)
    BY <1>8, <2>1, <2>2, LiveStep DEF Final
  <2> QED
    BY <1>2, <2>1, <2>3 DEF RunsFrame
<1>9. CASE NextGroup
  <2> DEFINE n == GroupSize
             a == SubSeq(current, 1, n)
             b == SubSeq(current, n + 1, Len(current))
  <2>0. n \in 1..Len(current) /\ n \in 0..Len(current)
    BY <1>1, <1>9, SpillAssumption, EmptySeq DEF GroupSize, NextGroup
  <2>1. /\ pc = "pass" /\ pc' \in {"pass", "create"} /\ group = <<>> /\ current' = b
        /\ UNCHANGED <<files, writing, runs_created>>
    BY <1>9 DEF NextGroup, RunsFrame
  <2>2. /\ \A x : x \in ToSet(current) <=> x \in ToSet(a) \/ x \in ToSet(b)
        /\ Apart(current) => Apart(a) /\ Apart(b) /\ ToSet(a) \cap ToSet(b) = {}
    BY <1>1, <2>0, RunsCut
  <2>3. ~Final /\ ~Final' /\ Apart(current) /\ Apart(following)
        /\ ToSet(current) \cap ToSet(following) = {}
    BY <2>1 DEF Final, RunsFrame
  <2>4. LiveKept
    BY <1>9, <2>1, LiveStep DEF FinishRun
  <2>5. Live' \subseteq 1..runs_created' /\ Live' \subseteq DOMAIN files'
    BY <2>1, <2>4 DEF RunsFrame, LiveKept
  <2>6. CASE n = 1
    <3>1. following' = Append(following, current[1]) /\ group' = group /\ pc' = "pass"
      BY <1>9, <2>1, <2>6 DEF NextGroup
    <3>2. DOMAIN a = 1..1 /\ a[1] = current[1] /\ current[1] \in Nat
      BY <1>1, <2>0, <2>6
    <3> HIDE DEF a, b, n
    <3>3. ToSet(a) = {current[1]}
      BY <3>2 DEF ToSet
    <3>4. ToSet(following') = ToSet(following) \cup {current[1]}
      BY <1>1, <3>1, <3>2, RunsOf
    <3>5. ToSet(current') \cap ToSet(following') = {}
      BY <2>1, <2>2, <2>3, <3>3, <3>4
    <3>6. Apart(following') /\ Apart(current')
      BY <1>1, <2>1, <2>2, <2>3, <3>1, <3>2, <3>3, ApartMore
    <3> QED
      BY <1>1, <2>1, <2>3, <2>5, <3>1, <3>5, <3>6 DEF RunsFrame
  <2>7. CASE n # 1
    <3>1. group' = a /\ following' = following /\ pc' = "create"
      BY <1>9, <2>7 DEF NextGroup
    <3>2. a # <<>>
      <4>1. Len(a) = n /\ n >= 1
        BY <1>1, <2>0
      <4> HIDE DEF a, n
      <4> QED
        BY <4>1, EmptySeq
    <3> HIDE DEF a, b, n
    <3>3. ToSet(current') \cap ToSet(following') = {}
      BY <2>1, <2>2, <2>3, <3>1
    <3>4. ToSet(group') \cap (ToSet(current') \cup ToSet(following')) = {}
      BY <2>1, <2>2, <2>3, <3>1
    <3>5. Apart(group') /\ Apart(current') /\ Apart(following')
      BY <2>1, <2>2, <2>3, <3>1
    <3> QED
      BY <2>1, <2>3, <2>5, <3>1, <3>2, <3>3, <3>4, <3>5 DEF RunsFrame
  <2> QED
    BY <2>6, <2>7
<1>10. CASE EndPass
  <2>1. /\ pc = "pass" /\ pc' = "reduce" /\ current' = following
        /\ following' = <<>> /\ UNCHANGED <<group, files, writing, runs_created>>
    BY <1>10 DEF EndPass
  <2>2. LiveKept /\ ~Final /\ ~Final' /\ group = <<>> /\ Apart(following)
    BY <1>10, <2>1, LiveStep DEF FinishRun, Final, RunsFrame
  <2>3. Live' \subseteq 1..runs_created' /\ Live' \subseteq DOMAIN files'
    BY <2>1, <2>2 DEF RunsFrame, LiveKept
  <2> QED
    BY <1>1, <2>1, <2>2, <2>3 DEF RunsFrame
<1>11. CASE DeleteInput
  <2>1. /\ pc = "delete" /\ group # <<>> /\ group' = Tail(group)
        /\ pc' = (IF Len(group) = 1 THEN "pass" ELSE "delete")
        /\ UNCHANGED <<current, following, writing, runs_created>>
        /\ files' = files \/ files' = Without(files, group[1])
    BY <1>11 DEF DeleteInput, KeepRun
  <2>2. Len(group) = 1 => Tail(group) = <<>>
    <3>1. Len(group) = 1 => Tail(group) \in Seq(Nat) /\ Len(Tail(group)) = 0
      BY <1>1, <2>1
    <3> QED
      BY <3>1, EmptySeq
  <2>3. LiveKept /\ ~Final /\ ~Final' /\ writing = 0
    BY <1>11, <2>1, LiveStep DEF FinishRun, Final, Inv, PlaceFrame
  <2>4. Live' \subseteq 1..runs_created' /\ Live' \subseteq DOMAIN files'
    BY <2>1, <2>3 DEF RunsFrame, LiveKept
  <2>5. Apart(Tail(group)) /\ ToSet(group) = ToSet(Tail(group)) \cup {Head(group)}
    BY <1>1, <2>1, ApartMore, RunsOf DEF RunsFrame
  <2>6. ToSet(group) \cap (ToSet(current) \cup ToSet(following)) = {}
    BY <2>3 DEF RunsFrame
  <2>7. ToSet(group') \cap (ToSet(current') \cup ToSet(following')) = {}
    BY <2>1, <2>5, <2>6
  <2> QED
    BY <2>1, <2>2, <2>3, <2>4, <2>5, <2>7 DEF RunsFrame
<1>12. CASE StartDrain
  <2>1. /\ pc = "reduce" /\ pc' = "open" /\ group' = current
        /\ UNCHANGED <<current, following, files, writing, runs_created>>
        /\ following = <<>>
    BY <1>12 DEF StartDrain, RunsFrame
  <2>2. LiveKept /\ Final' /\ writing = 0
    BY <1>12, <2>1, LiveStep DEF FinishRun, Final, Inv, PlaceFrame
  <2>3. Live' \subseteq 1..runs_created' /\ Live' \subseteq DOMAIN files'
    BY <2>1, <2>2 DEF RunsFrame, LiveKept
  <2> QED
    BY <1>1, <2>1, <2>2, <2>3 DEF RunsFrame
<1>13. CASE CancelToken \/ UNCHANGED vars
  <2>1. UNCHANGED <<current, following, group, writing, runs_created, files, pc>>
    BY <1>13 DEF CancelToken, vars
  <2>2. Live' = Live /\ (Final' <=> Final)
    BY <2>1 DEF Live, Final
  <2>3. LiveKept
    BY <2>1, <2>2 DEF RunsFrame, LiveKept
  <2> QED
    BY <1>2, <2>1, <2>2, <2>3 DEF RunsFrame
<1>14. CASE Damage
  <2>1. UNCHANGED <<current, following, group, writing, runs_created, pc>>
    BY <1>14 DEF Damage
  <2>2. DOMAIN files' = DOMAIN files
    BY <1>14 DEF Damage
  <2>3. ~FinishRun
    BY <1>1, <1>14, <2>1 DEF FinishRun
  <2>4. LiveKept /\ (Final' <=> Final)
    BY <2>1, <2>3, <1>14, LiveStep DEF Final
  <2> QED
    BY <1>2, <2>1, <2>2, <2>4 DEF RunsFrame
<1> QED
  BY <1>3, <1>4, <1>5, <1>6, <1>7, <1>8, <1>9, <1>10, <1>11, <1>12, <1>13, <1>14
     DEF Continues

\* The buffer, the sorted buffer, the digest and the result are empty where they should be.
LEMMA FillFrameStep ==
  ASSUME Inv, RunsFrame, FillFrame, Going, Going', Continues
  PROVE  FillFrame'
<1> USE DEF quiet, result, fill, write, merge, bytes, disk, counters, FillFrame, Going
<1>1. CASE Start
  BY <1>1 DEF Start
<1>2. CASE ReadEdge
  <2>1. /\ pc = "fill" /\ pc' \in {"fill", "create"} /\ group = <<>> /\ group' = <<>>
        /\ UNCHANGED <<outcome, digest, input, delivered, distinct_count>>
        /\ pc' = "create" => buffer' = <<>>
        /\ pc' = "fill" => todo' = todo
    BY <1>2 DEF ReadEdge, WriteSortedRun, RunsFrame
  <2> QED
    BY <2>1
<1>3. CASE SourceExhausted
  <2>1. /\ pc = "fill" /\ pc' \in {"create", "reduce"} /\ group = <<>> /\ group' = <<>>
        /\ UNCHANGED <<outcome, digest, input, delivered, distinct_count, raw_count>>
        /\ buffer' = <<>> /\ raw_count = Len(input)
        /\ pc' = "reduce" => todo' = todo
    BY <1>3 DEF SourceExhausted, WriteSortedRun, RunsFrame
  <2> QED
    BY <2>1
<1>4. CASE CreateRun
  <2>1. /\ pc = "create" /\ pc' = (IF group = <<>> THEN "write" ELSE "open")
        /\ UNCHANGED <<group, outcome, digest, input, delivered, distinct_count, raw_count,
                       buffer, todo>>
    BY <1>4 DEF CreateRun
  <2> QED
    BY <2>1
<1>5. CASE WriteRecord \/ SkipRecord
  <2>1. /\ pc = "write" /\ pc' = "write" /\ (group # <<>> => todo' = todo)
        /\ UNCHANGED <<group, outcome, input, delivered, distinct_count, raw_count, buffer>>
    BY <1>5 DEF WriteRecord, SkipRecord, Advance
  <2> QED
    BY <2>1
<1>6. CASE FinishRun
  <2>1. /\ pc = "write" /\ pc' = (IF group = <<>> THEN "fill" ELSE "delete")
        /\ group = <<>> => todo = <<>>
        /\ digest' = <<>>
        /\ UNCHANGED <<group, outcome, input, delivered, distinct_count, raw_count, buffer, todo>>
    BY <1>6 DEF FinishRun, Exhausted
  <2> QED
    BY <2>1
<1>7. CASE OpenReader
  <2>1. /\ pc = "open" /\ pc' \in {"open", "drain", "write"}
        /\ UNCHANGED <<group, outcome, digest, input, delivered, distinct_count, raw_count,
                       buffer, todo>>
    BY <1>7 DEF OpenReader
  <2> QED
    BY <2>1
<1>8. CASE Successor
  BY <1>8 DEF Successor
<1>9. CASE StartPass \/ EndPass \/ StartDrain
  <2>1. /\ pc \in {"reduce", "pass"} /\ pc' \in {"reduce", "pass", "open"}
        /\ UNCHANGED <<outcome, digest, input, delivered, distinct_count, raw_count,
                       buffer, todo>>
    BY <1>9 DEF StartPass, EndPass, StartDrain
  <2> QED
    BY <2>1
<1>10. CASE NextGroup
  <2>1. /\ pc = "pass" /\ pc' \in {"pass", "create"}
        /\ UNCHANGED <<outcome, digest, input, delivered, distinct_count, raw_count,
                       buffer, todo>>
    BY <1>10 DEF NextGroup
  <2> QED
    BY <2>1
<1>11. CASE DeleteInput
  <2>1. /\ pc = "delete" /\ pc' \in {"pass", "delete"}
        /\ UNCHANGED <<outcome, digest, input, delivered, distinct_count, raw_count,
                       buffer, todo>>
    BY <1>11 DEF DeleteInput
  <2> QED
    BY <2>1
<1>12. CASE Deliver \/ Resume
  <2>1. /\ pc \in {"drain", "yield"} /\ pc' \in {"drain", "yield"}
        /\ UNCHANGED <<group, outcome, digest, input, raw_count, buffer, todo>>
    BY <1>12 DEF Deliver, Resume, Pop
  <2> QED
    BY <2>1
<1>13. CASE CancelToken \/ Damage \/ UNCHANGED vars
  <2>1. UNCHANGED <<pc, group, outcome, digest, input, delivered, distinct_count, raw_count,
                    buffer, todo>>
    BY <1>13 DEF CancelToken, Damage, vars
  <2> QED
    BY <2>1
<1> QED
  BY <1>1, <1>2, <1>3, <1>4, <1>5, <1>6, <1>7, <1>8, <1>9, <1>10, <1>11, <1>12, <1>13
     DEF Continues

\* The call does not change while the iterator goes on.
LEMMA CallKept ==
  ASSUME Continues
  PROVE  UNCHANGED <<input, duplicates>>
BY DEF Continues, Start, ReadEdge, SourceExhausted, CreateRun, WriteRecord, SkipRecord,
       FinishRun, OpenReader, Successor, StartPass, NextGroup, EndPass, DeleteInput,
       StartDrain, Deliver, Resume, CancelToken, Damage, vars, quiet

\* What the headers of the live runs vouch for is a finite family.
LEMMA HeadsFamily ==
  ASSUME Inv, RunsFrame, Going
  PROVE  /\ IsFiniteSet(Live) /\ \A f \in Live : f \in DOMAIN files /\ files[f].head \in Seq(Edges)
         /\ Family(Heads, Edges)
         /\ \A e : Tally(Heads, e) \in Nat
<1>1. Live \in SUBSET (1..runs_created) /\ Live \subseteq DOMAIN files /\ runs_created \in Nat
  BY Sequences DEF RunsFrame
<1>2. IsFiniteSet(Live)
  BY <1>1, PlacesFinite
<1>3. \A f \in Live : f \in DOMAIN files /\ files[f].head \in Seq(Edges)
  BY <1>1 DEF Inv, TypeOK, FilesType, FileRecord
<1>4. Family(Heads, Edges)
  BY <1>2, <1>3 DEF Family, Heads
<1> QED
  BY <1>2, <1>3, <1>4, TallyNat

\* How often an edge is where.
LEMMA Counts ==
  ASSUME Inv, NEW e
  PROVE  /\ Occurrences(e, buffer) \in Nat /\ Occurrences(e, todo) \in Nat
         /\ Occurrences(e, digest) \in Nat /\ Occurrences(e, delivered) \in Nat
         /\ Occurrences(e, SubSeq(input, 1, raw_count)) \in Nat
         /\ duplicates \in {"preserve", "unique"}
<1>1. raw_count \in Nat /\ raw_count <= Len(input)
      /\ duplicates \in {"preserve", "unique"}
  BY DEF Inv, TypeOK, CallType
<1>2. SubSeq(input, 1, raw_count) \in Seq(Edges)
  BY <1>1, Sequences
<1> QED
  BY <1>1, <1>2, Sequences, OccursNat

\* A step that moves no edge.
LEMMA ContentKept ==
  ASSUME Content, Going, LiveKept,
         UNCHANGED <<input, duplicates, raw_count, buffer, todo, digest>>,
         UNCHANGED group \/ digest = <<>>
  PROVE  Content'
<1> SUFFICES ASSUME NEW e \in Edges
             PROVE  Alike(Occurrences(e, SubSeq(input, 1, raw_count)), Held(e) + Tally(Heads, e))'
  BY DEF Content
<1>1. Equals(Heads', Heads)
  BY DEF Equals, Heads, LiveKept
<1> HIDE DEF Heads
<1>2. Tally(Heads', e) = Tally(Heads, e)
  BY <1>1, SpotsEqual
<1>3. Held(e)' = Held(e)
  BY OccursEmpty DEF Held
<1>4. Alike(Occurrences(e, SubSeq(input, 1, raw_count)), Held(e) + Tally(Heads, e))
  BY DEF Content
<1> QED
  BY <1>2, <1>3, <1>4 DEF Alike

\* What the headers of a group vouch for.
GroupHeads == [ f \in ToSet(group) |-> files[f].head ]

\* When the heap is empty, the readers have passed on all of it.
LEMMA MergeDone ==
  ASSUME Inv, RunsFrame, HeapFrame, Going, Merging, pc # "open", heap = {}, owed = 0, RunsOrder
  PROVE  /\ Trusted /\ Family(GroupHeads, Edges)
         /\ \A e : Tally(GroupHeads, e) = Tally(Taken, e) /\ Tally(Taken, e) \in Nat
<1>1. group \in Seq(Nat) /\ Len(readers) = Len(group)
      /\ DOMAIN group = 1..Len(group) /\ Len(group) \in Nat
  BY Sequences DEF HeapFrame
<1>2. \A j : ~Waiting(j)
  BY DEF Waiting
<1>3. \A j \in 1..Len(group) : readers[j].seen = files[group[j]].head
  <2> SUFFICES ASSUME NEW j \in 1..Len(group) PROVE readers[j].seen = files[group[j]].head
    OBVIOUS
  <2>1. j \in 1..Len(readers) /\ owed # j /\ ~Waiting(j)
    BY <1>1, <1>2
  <2> QED
    BY <2>1 DEF HeapFrame
<1>4. \A f \in ToSet(group) : f \in Live
  BY DEF Live, Merging
<1>5. \A j \in 1..Len(group) : group[j] \in ToSet(group)
  BY <1>1, RunsOf
<1>6. \A f \in ToSet(group) : files[f].head \in Seq(Edges) /\ Ascends(files[f].head)
  BY <1>4, HeadsFamily DEF RunsOrder
<1>7. Trusted
  BY <1>1, <1>3, <1>5, <1>6 DEF Trusted
<1>8. ASSUME NEW j \in 1..Len(group)
      PROVE  Taken[j] = files[group[j]].head
  <2>1. j \in 1..Len(readers) /\ Passed(j) = Len(readers[j].seen)
    BY <1>1, <1>2 DEF Passed
  <2>2. readers[j].seen \in Seq(Edges)
    BY <1>3, <1>5, <1>6
  <2>3. SubSeq(readers[j].seen, 1, Len(readers[j].seen)) = readers[j].seen
    BY <2>2
  <2> QED
    BY <1>3, <2>1, <2>3 DEF Taken
<1>9. DOMAIN Taken = 1..Len(group) /\ DOMAIN GroupHeads = ToSet(group)
  BY <1>1 DEF Taken, GroupHeads
<1>10. Family(Taken, Edges)
  <2>1. IsFiniteSet(1..Len(group))
    BY <1>1, PlacesFinite
  <2> QED
    BY <1>5, <1>6, <1>8, <1>9, <2>1 DEF Family
<1>11. Family(GroupHeads, Edges)
  <2>1. IsFiniteSet(ToSet(group))
    BY <1>4, HeadsFamily, FS_Subset
  <2> QED
    BY <1>6, <2>1 DEF Family, GroupHeads
<1>12. Renames(group, Taken, GroupHeads)
  <2>1. \A j \in 1..Len(group) : group[j] \in DOMAIN GroupHeads /\ GroupHeads[group[j]] = Taken[j]
    BY <1>5, <1>8 DEF GroupHeads
  <2>2. \A i, j \in 1..Len(group) : group[i] = group[j] => i = j
    BY DEF RunsFrame, Apart
  <2>3. \A x \in ToSet(group) : \E j \in 1..Len(group) : group[j] = x
    BY <1>1 DEF ToSet
  <2> QED
    BY <1>9, <2>1, <2>2, <2>3 DEF Renames
<1> HIDE DEF GroupHeads, Taken
<1> QED
  BY <1>7, <1>10, <1>11, <1>12, TallyRenamed, TallyNat

\* What a finished run's header vouches for is what was written of it.
LEMMA FinishHeads ==
  ASSUME Inv, RunsFrame, Going, FinishRun, NEW e
  PROVE  LET A == [ f \in ToSet(current) \cup ToSet(following) |-> files[f].head ]
         IN  /\ Tally(A, e) \in Nat
             /\ Tally(Heads', e) = Tally(A, e) + Occurrences(e, digest)
             /\ group = <<>> => Tally(Heads, e) = Tally(A, e)
             /\ Family(GroupHeads, Edges) =>
                  Tally(Heads, e) = Tally(A, e) + Tally(GroupHeads, e)
<1> DEFINE S == ToSet(current) \cup ToSet(following)
           A == [ f \in S |-> files[f].head ]
           D == [ f \in {writing} |-> digest ]
<1>1. /\ pc = "write" /\ digest \in Seq(Edges) /\ ToSet(<<>>) = {}
  BY Sequences, RunsOf DEF FinishRun
<1>2. /\ \A x \in Live : x # writing
      /\ \A x : x \in Live' <=> x = writing \/ x \in S
      /\ files'[writing].head = digest
      /\ \A f \in DOMAIN files : f # writing => files'[f] = files[f]
  BY FinishLive
<1>3. IsFiniteSet(Live) /\ \A f \in Live : f \in DOMAIN files /\ files[f].head \in Seq(Edges)
  BY HeadsFamily
<1>4. S \in SUBSET Live /\ \A x : x \in Live <=> x \in S \/ x \in ToSet(group)
  BY <1>1 DEF Live
<1>5. S \cap ToSet(group) = {}
  BY <1>1 DEF RunsFrame, Final
<1> HIDE DEF S
<1>6. Family(A, Edges)
  <2>1. IsFiniteSet(S)
    BY <1>3, <1>4, FS_Subset
  <2> QED
    BY <1>3, <1>4, <2>1 DEF Family
<1>7. Family(D, Edges)
  BY <1>1, FS_Singleton DEF Family
<1>8. Single(D, writing, digest)
  BY DEF Single
<1>9. Parts(Heads', A, D)
  <2>1. DOMAIN Heads' = Live' /\ DOMAIN A = S /\ DOMAIN D = {writing}
    BY DEF Heads
  <2>2. \A f \in S : f # writing /\ Heads'[f] = A[f]
    <3>1. \A f \in S : f \in Live' /\ f \in DOMAIN files /\ f # writing
      BY <1>2, <1>3, <1>4
    <3> QED
      BY <1>2, <3>1 DEF Heads
  <2>3. Heads'[writing] = digest
    BY <1>2 DEF Heads
  <2> HIDE DEF A
  <2>4. Live' = S \cup {writing} /\ S \cap {writing} = {}
    BY <1>2, <2>2
  <2>5. \A f \in DOMAIN A : Heads'[f] = A[f]
    BY <2>1, <2>2
  <2>6. \A f \in DOMAIN D : Heads'[f] = D[f]
    BY <2>3
  <2> QED
    BY <2>1, <2>4, <2>5, <2>6, Zenon DEF Parts
<1>10. Parts(Heads, A, GroupHeads)
  <2>1. DOMAIN Heads = Live /\ DOMAIN A = S /\ DOMAIN GroupHeads = ToSet(group)
    BY DEF Heads, GroupHeads
  <2>2. (\A f \in S : Heads[f] = A[f]) /\ \A f \in ToSet(group) : Heads[f] = GroupHeads[f]
    BY <1>4 DEF Heads, GroupHeads
  <2> HIDE DEF A
  <2>3. Live = S \cup ToSet(group)
    BY <1>4
  <2> QED
    BY <1>5, <2>1, <2>2, <2>3 DEF Parts
<1>11. group = <<>> => Equals(Heads, A)
  <2>1. group = <<>> => Live = S
    BY <1>1, <1>4
  <2> QED
    BY <1>4, <2>1 DEF Equals, Heads
<1> HIDE DEF A, D, Heads, GroupHeads
<1>12. Tally(Heads', e) = Tally(A, e) + Tally(D, e) /\ Tally(D, e) = Occurrences(e, digest)
  BY <1>1, <1>6, <1>7, <1>8, <1>9, TallySplit, TallyOne
<1>13. Family(GroupHeads, Edges) => Tally(Heads, e) = Tally(A, e) + Tally(GroupHeads, e)
  BY <1>6, <1>10, TallySplit
<1>14. group = <<>> => Tally(Heads, e) = Tally(A, e)
  BY <1>11, SpotsEqual
<1>15. Tally(A, e) \in Nat
  BY <1>6, TallyNat
<1> QED
  BY <1>12, <1>13, <1>14, <1>15 DEF A, S

\* Every step keeps every edge somewhere.
LEMMA ContentStep ==
  ASSUME Inv, OrderInv, Going, Going', Continues
  PROVE  Content'
<1>1. /\ UNCHANGED <<input, duplicates>> /\ duplicates \in {"preserve", "unique"}
      /\ Edges \subseteq Nat /\ group \in Seq(Nat)
      /\ RunsFrame /\ FillFrame /\ Content /\ RunsOrder /\ HeapFrame /\ MergeContent /\ MergeOrder
  BY CallKept, Counts, Sequences DEF OrderInv
<1>2. \A e : /\ Occurrences(e, buffer) \in Nat /\ Occurrences(e, todo) \in Nat
             /\ Occurrences(e, digest) \in Nat
             /\ Occurrences(e, SubSeq(input, 1, raw_count)) \in Nat
             /\ Tally(Heads, e) \in Nat
  BY <1>1, Counts, HeadsFamily
<1>3. ASSUME LiveKept PROVE \A e : Tally(Heads', e) = Tally(Heads, e)
  <2>1. Equals(Heads', Heads)
    BY <1>3 DEF Equals, Heads, LiveKept
  <2> HIDE DEF Heads
  <2> QED
    BY <2>1, SpotsEqual
<1> USE DEF quiet, result, fill, write, merge, bytes, disk, counters
<1>4. ASSUME LiveKept, UNCHANGED <<raw_count, buffer, todo, digest>>,
             UNCHANGED group \/ digest = <<>>
      PROVE  Content'
  BY <1>1, <1>4, ContentKept
<1>5. CASE Start \/ CreateRun \/ OpenReader \/ Successor \/ StartPass \/ Deliver \/ Resume
           \/ CancelToken \/ Damage \/ UNCHANGED vars
  <2>1. UNCHANGED <<raw_count, buffer, todo, digest, group>>
    BY <1>5 DEF Start, CreateRun, OpenReader, Successor, StartPass, Deliver, Resume, Pop,
         CancelToken, Damage, vars
  <2>2. CASE ~FinishRun
    BY <1>1, <1>4, <2>1, <2>2, LiveStep
  <2>3. CASE FinishRun
    BY <1>5, <2>3, Sequences DEF FinishRun, Start, CreateRun, OpenReader, Successor, StartPass,
       Deliver, Resume, CancelToken, Damage, vars
  <2> QED
    BY <2>2, <2>3
<1>6. CASE NextGroup \/ EndPass \/ DeleteInput \/ StartDrain
  <2>1. UNCHANGED <<raw_count, buffer, todo, digest>> /\ pc # "write"
    BY <1>6 DEF NextGroup, EndPass, DeleteInput, StartDrain
  <2>2. digest = <<>> /\ ~FinishRun
    BY <1>1, <2>1 DEF FillFrame, FinishRun
  <2> QED
    BY <1>1, <1>4, <2>1, <2>2, LiveStep
<1>7. CASE ReadEdge
  <2> DEFINE x == input[raw_count + 1]
             t == Append(buffer, x)
             u == SubSeq(input, 1, raw_count)
  <2>1. /\ pc = "fill" /\ raw_count' = raw_count + 1 /\ UNCHANGED <<group, digest>>
        /\ raw_count < Len(input) /\ raw_count \in Nat /\ input \in Seq(Edges)
        /\ buffer \in Seq(Edges)
    BY <1>7, Sequences DEF ReadEdge
  <2>2. x \in Edges /\ u \in Seq(Edges)
    BY <2>1
  <2>3. SubSeq(input, 1, raw_count') = Append(u, x)
    BY <2>1
  <2>4. group = <<>> /\ todo = <<>> /\ digest = <<>>
    BY <1>1, <2>1 DEF RunsFrame, FillFrame
  <2>5. LiveKept
    BY <1>1, <1>7, <2>1, LiveStep DEF FinishRun
  <2>6. \/ buffer' = t /\ todo' = todo
        \/ buffer' = <<>> /\ \A e \in Edges : Occurrences(e, todo') = Occurrences(e, t)
    BY <1>7 DEF ReadEdge, WriteSortedRun, IsSortOf
  <2> SUFFICES ASSUME NEW e \in Edges
               PROVE  Alike(Occurrences(e, SubSeq(input, 1, raw_count)), Held(e) + Tally(Heads, e))'
    BY DEF Content
  <2> DEFINE d == IF x = e THEN 1 ELSE 0
  <2>7. Occurrences(e, t) = Occurrences(e, buffer) + d /\ Occurrences(e, Append(u, x)) = Occurrences(e, u) + d
    BY <2>1, <2>2, OccursAppend
  <2>8. Held(e) = Occurrences(e, buffer) /\ Held(e)' = Occurrences(e, buffer) + d
    <3> HIDE DEF t, d
    <3>1. Occurrences(e, <<>>) = 0
      BY OccursEmpty
    <3>2. Occurrences(e, buffer) \in Nat /\ d \in Nat
      BY <1>2 DEF d
    <3>3. Occurrences(e, buffer') + Occurrences(e, todo') = Occurrences(e, t)
      <4>1. Occurrences(e, t) \in Nat
        BY <2>7, <3>2
      <4> QED
        BY <2>4, <2>6, <3>1, <4>1
    <3>4. Held(e)' = Occurrences(e, buffer') + Occurrences(e, todo') + 0
      BY <2>1, <2>4, <3>1 DEF Held
    <3> QED
      BY <2>4, <2>7, <3>1, <3>2, <3>3, <3>4 DEF Held
  <2>9. Alike(Occurrences(e, u), Held(e) + Tally(Heads, e)) /\ Tally(Heads', e) = Tally(Heads, e)
    BY <1>1, <1>3, <2>5 DEF Content
  <2>10. d \in Nat /\ Occurrences(e, u) \in Nat /\ Occurrences(e, buffer) \in Nat /\ Tally(Heads, e) \in Nat
    BY <1>2
  <2>11. Occurrences(e, SubSeq(input, 1, raw_count))' = Occurrences(e, u) + d
    BY <1>1, <2>3, <2>7
  <2> HIDE DEF d, u
  <2> QED
    BY <1>1, <2>8, <2>9, <2>10, <2>11 DEF Alike
<1>8. CASE SourceExhausted
  <2>1. /\ pc = "fill" /\ pc' \in {"create", "reduce"}
        /\ UNCHANGED <<raw_count, group, digest>>
    BY <1>8 DEF SourceExhausted, WriteSortedRun, Going
  <2>2. group = <<>> /\ todo = <<>> /\ digest = <<>>
    BY <1>1, <2>1 DEF RunsFrame, FillFrame
  <2>3. LiveKept
    BY <1>1, <1>8, <2>1, LiveStep DEF FinishRun
  <2>4. CASE UNCHANGED <<buffer, todo>>
    BY <1>4, <2>1, <2>3, <2>4
  <2>5. CASE buffer' = <<>> /\ \A e \in Edges : Occurrences(e, todo') = Occurrences(e, buffer)
    <3> SUFFICES ASSUME NEW e \in Edges
                 PROVE  Alike(Occurrences(e, SubSeq(input, 1, raw_count)), Held(e) + Tally(Heads, e))'
      BY DEF Content
    <3>1. Occurrences(e, <<>>) = 0 /\ Occurrences(e, buffer) \in Nat /\ Tally(Heads', e) = Tally(Heads, e)
      BY <1>2, <1>3, <2>3, OccursEmpty
    <3>2. Held(e)' = Held(e)
      BY <2>1, <2>2, <2>5, <3>1 DEF Held
    <3>3. Alike(Occurrences(e, SubSeq(input, 1, raw_count)), Held(e) + Tally(Heads, e))
      BY <1>1 DEF Content
    <3> QED
      BY <1>1, <2>1, <3>1, <3>2, <3>3 DEF Alike
  <2> QED
    BY <1>8, <2>1, <2>4, <2>5 DEF SourceExhausted, WriteSortedRun, IsSortOf, Going
<1>9. CASE WriteRecord \/ SkipRecord
  <2>1. /\ pc = "write" /\ ~Exhausted /\ UNCHANGED <<raw_count, buffer, group>>
    BY <1>9 DEF WriteRecord, SkipRecord, Advance, Pop
  <2>2. LiveKept
    BY <1>1, <1>9, <2>1, LiveStep DEF FinishRun
  <2> SUFFICES ASSUME NEW e \in Edges
               PROVE  Alike(Occurrences(e, SubSeq(input, 1, raw_count)), Held(e) + Tally(Heads, e))'
    BY DEF Content
  <2>3. Alike(Occurrences(e, SubSeq(input, 1, raw_count)), Held(e) + Tally(Heads, e))
        /\ Tally(Heads', e) = Tally(Heads, e)
    BY <1>1, <1>3, <2>2 DEF Content
  <2>4. CASE group # <<>>
    <3>1. todo' = todo
      BY <1>9, <2>4 DEF WriteRecord, SkipRecord, Advance
    <3>2. Held(e)' = Held(e)
      BY <2>1, <2>4, <3>1 DEF Held
    <3> QED
      BY <1>1, <2>1, <2>3, <3>2 DEF Alike
  <2>5. CASE group = <<>>
    <3> DEFINE x == Head(todo)
               d == IF x = e THEN 1 ELSE 0
    <3>1. todo \in Seq(Edges) /\ todo # <<>> /\ todo' = Tail(todo) /\ digest \in Seq(Edges)
          /\ x \in Edges
      <4>1. todo # <<>> /\ todo' = Tail(todo)
        BY <1>9, <2>1, <2>5 DEF WriteRecord, SkipRecord, Advance, Exhausted
      <4>2. todo \in Seq(Edges) /\ digest \in Seq(Edges)
        BY Sequences
      <4> QED
        BY <4>1, <4>2, SeqClosed
    <3>2. Occurrences(e, todo) = Occurrences(e, todo') + d /\ Occurrences(e, todo') \in Nat
      <4>1. Tail(todo) \in Seq(Edges)
        BY <3>1
      <4> QED
        BY <3>1, <4>1, OccursTail, OccursNat
    <3>3. d \in Nat /\ Occurrences(e, buffer) \in Nat /\ Occurrences(e, digest) \in Nat
          /\ Tally(Heads, e) \in Nat /\ Occurrences(e, SubSeq(input, 1, raw_count)) \in Nat
      BY <1>2
    <3>4. CASE WriteRecord
      <4>1. digest' = Append(digest, x)
        BY <2>5, <3>4 DEF WriteRecord, Upcoming
      <4>2. Occurrences(e, digest') = Occurrences(e, digest) + d
        BY <3>1, <4>1, OccursAppend
      <4> HIDE DEF d
      <4>3. Held(e)' = Held(e)
        BY <2>1, <2>5, <3>2, <3>3, <4>2 DEF Held
      <4> QED
        BY <1>1, <2>1, <2>3, <4>3 DEF Alike
    <3>5. CASE SkipRecord
      <4>1. duplicates = "unique" /\ digest # <<>> /\ x = digest[Len(digest)] /\ UNCHANGED digest
        BY <2>5, <3>5 DEF SkipRecord, Coalesced, Upcoming
      <4>2. d = 1 => Occurrences(e, digest) # 0
        <5>1. Len(digest) \in 1..Len(digest)
          BY <3>1, <4>1, EmptySeq
        <5> QED
          BY <3>1, <4>1, <5>1, OccursNat
      <4>3. d \in {0, 1}
        OBVIOUS
      <4> HIDE DEF d, x
      <4>4. /\ Held(e) = Occurrences(e, buffer) + (Occurrences(e, todo') + d) + Occurrences(e, digest)
            /\ Held(e)' = Occurrences(e, buffer) + Occurrences(e, todo') + Occurrences(e, digest)
        BY <2>1, <2>5, <3>2, <4>1 DEF Held
      <4>5. Held(e) + Tally(Heads, e) = 0 <=> Held(e)' + Tally(Heads', e) = 0
        BY <2>3, <3>2, <3>3, <4>2, <4>3, <4>4
      <4>6. duplicates # "preserve"
        BY <4>1
      <4> QED
        BY <1>1, <2>1, <2>3, <4>5, <4>6 DEF Alike
    <3> QED
      BY <1>9, <3>4, <3>5
  <2> QED
    BY <2>4, <2>5
<1>10. CASE FinishRun
  <2> DEFINE A == [ f \in ToSet(current) \cup ToSet(following) |-> files[f].head ]
  <2>1. /\ pc = "write" /\ Exhausted /\ owed = 0 /\ digest' = <<>>
        /\ UNCHANGED <<raw_count, buffer, todo, group>>
    BY <1>10 DEF FinishRun
  <2> SUFFICES ASSUME NEW e \in Edges
               PROVE  Alike(Occurrences(e, SubSeq(input, 1, raw_count)), Held(e) + Tally(Heads, e))'
    BY DEF Content
  <2>2. Alike(Occurrences(e, SubSeq(input, 1, raw_count)), Held(e) + Tally(Heads, e))
    BY <1>1 DEF Content
  <2>3. /\ Tally(A, e) \in Nat
        /\ Tally(Heads', e) = Tally(A, e) + Occurrences(e, digest)
        /\ group = <<>> => Tally(Heads, e) = Tally(A, e)
        /\ Family(GroupHeads, Edges) => Tally(Heads, e) = Tally(A, e) + Tally(GroupHeads, e)
    BY <1>1, <1>10, FinishHeads
  <2> HIDE DEF A
  <2>4. /\ Occurrences(e, <<>>) = 0 /\ Occurrences(e, buffer) \in Nat /\ Occurrences(e, digest) \in Nat
        /\ Occurrences(e, todo) \in Nat
        /\ Occurrences(e, SubSeq(input, 1, raw_count)) \in Nat
    BY <1>2, OccursEmpty
  <2>5. CASE group = <<>>
    <3>1. /\ Held(e) = Occurrences(e, buffer) + Occurrences(e, todo) + Occurrences(e, digest)
          /\ Held(e)' = Occurrences(e, buffer) + Occurrences(e, todo) + 0
      BY <2>1, <2>4, <2>5 DEF Held
    <3>2. Held(e)' + Tally(Heads', e) = Held(e) + Tally(Heads, e)
      BY <2>3, <2>4, <2>5, <3>1
    <3> QED
      BY <1>1, <2>1, <2>2, <3>2 DEF Alike
  <2>6. CASE group # <<>>
    <3>1. Merging /\ pc # "open" /\ heap = {} /\ Out = digest
      BY <2>1, <2>6 DEF Merging, Exhausted, Out
    <3>2. Family(GroupHeads, Edges) /\ Tally(GroupHeads, e) = Tally(Taken, e) /\ Tally(Taken, e) \in Nat
      BY <1>1, <2>1, <3>1, MergeDone
    <3>3. Alike(Tally(Taken, e), Occurrences(e, digest))
      BY <1>1, <3>1 DEF MergeContent
    <3>4. Held(e)' = Held(e) /\ Held(e) = Occurrences(e, buffer) + Occurrences(e, todo) + 0
      BY <2>1, <2>6 DEF Held
    <3>5. Held(e) \in Nat
      BY <2>4, <3>4
    <3>6. /\ Held(e)' + Tally(Heads', e) = Held(e) + (Tally(A, e) + Occurrences(e, digest))
          /\ Held(e) + Tally(Heads, e) = Held(e) + (Tally(A, e) + Tally(Taken, e))
      BY <2>3, <3>2, <3>4
    <3>7. Alike(Held(e) + Tally(Heads, e), Held(e)' + Tally(Heads', e))
      <4>1. CASE duplicates = "preserve"
        BY <3>3, <3>6, <4>1 DEF Alike
      <4>2. CASE duplicates # "preserve"
        <5>1. Tally(Taken, e) = 0 <=> Occurrences(e, digest) = 0
          BY <3>3, <4>2 DEF Alike
        <5>2. Held(e) + Tally(Heads, e) = 0 <=> Held(e)' + Tally(Heads', e) = 0
          BY <2>3, <2>4, <3>2, <3>5, <3>6, <5>1
        <5> QED
          BY <4>2, <5>2 DEF Alike
      <4> QED
        BY <4>1, <4>2
    <3>8. UNCHANGED <<duplicates, Occurrences(e, SubSeq(input, 1, raw_count))>>
      BY <1>1, <2>1
    <3> QED
      BY <2>2, <3>7, <3>8 DEF Alike
  <2> QED
    BY <2>5, <2>6
<1> QED
  BY <1>5, <1>6, <1>7, <1>8, <1>9, <1>10 DEF Continues

\* What list.sort returns ascends.
LEMMA SortAscends ==
  ASSUME NEW s, NEW t \in [1..Len(s) -> Edges], Len(s) \in Nat, IsSortOf(t, s)
  PROVE  t \in Seq(Nat) /\ Ascends(t)
<1> DEFINE n == Len(s)
<1>1. t \in [1..n -> Nat] /\ n \in Nat
  BY SpillAssumption
<1>2. \A i \in 1..(Len(t) - 1) : t[i] <= t[i + 1]
  BY DEF IsSortOf
<1> HIDE DEF n
<1>3. t \in Seq(Nat)
  BY <1>1
<1> QED
  BY <1>2, <1>3, StepsAscend

\* Every run ascends, and so does what is still to be written.
LEMMA RunsOrderStep ==
  ASSUME Inv, OrderInv, Going, Going', Continues
  PROVE  RunsOrder'
<1>1. /\ Edges \subseteq Nat /\ group \in Seq(Nat)
      /\ todo \in Seq(Nat) /\ digest \in Seq(Nat) /\ buffer \in Seq(Nat)
      /\ RunsFrame /\ FillFrame /\ Content /\ RunsOrder /\ HeapFrame /\ MergeContent /\ MergeOrder
      /\ \A f \in Live : Ascends(files[f].head)
      /\ Ascends(todo) /\ Ascends(<<>>)
      /\ group = <<>> =>
         /\ Ascends(digest)
         /\ \A i \in 1..Len(digest), j \in 1..Len(todo) : digest[i] <= todo[j]
  BY Sequences DEF OrderInv, RunsOrder, Ascends
<1>2. ASSUME LiveKept, Ascends(todo'),
             group' # <<>> \/ digest' = <<>>
      PROVE  RunsOrder'
  BY <1>1, <1>2 DEF RunsOrder, LiveKept
<1> USE DEF quiet, result, fill, write, merge, bytes, disk, counters
<1>3. CASE Start \/ CreateRun \/ StartPass \/ OpenReader \/ Deliver \/ Resume
           \/ NextGroup \/ EndPass \/ DeleteInput \/ StartDrain
  <2>1. UNCHANGED <<todo, digest>> /\ pc # "write"
    BY <1>3 DEF Start, CreateRun, StartPass, OpenReader, Deliver, Resume, Pop, NextGroup, EndPass,
         DeleteInput, StartDrain
  <2>2. digest = <<>> /\ ~FinishRun
    BY <1>1, <2>1 DEF FillFrame, FinishRun
  <2> QED
    BY <1>1, <1>2, <2>1, <2>2, LiveStep
<1>4. CASE Successor \/ CancelToken \/ Damage \/ UNCHANGED vars
  <2>1. UNCHANGED <<todo, digest, group, writing>>
    BY <1>4 DEF Successor, CancelToken, Damage, vars
  <2>2. ~FinishRun
    BY <2>1, <1>1 DEF FinishRun, RunsFrame
  <2>3. LiveKept
    BY <1>1, <2>2, LiveStep
  <2> QED
    BY <1>1, <2>1, <2>3 DEF RunsOrder, LiveKept
<1>5. CASE ReadEdge \/ SourceExhausted
  <2> DEFINE t == Append(buffer, input[raw_count + 1])
  <2>1. /\ pc = "fill" /\ UNCHANGED <<digest, group>>
        /\ todo' = todo \/ WriteSortedRun(t) \/ WriteSortedRun(buffer)
    BY <1>5 DEF ReadEdge, SourceExhausted
  <2>2. digest' = <<>> /\ ~FinishRun
    BY <1>1, <2>1 DEF FillFrame, FinishRun
  <2>3. Len(t) \in Nat /\ Len(buffer) \in Nat
    BY <1>1
  <2> HIDE DEF t
  <2>4. Ascends(todo')
    BY <1>1, <2>1, <2>3, SortAscends DEF WriteSortedRun
  <2> QED
    BY <1>1, <1>2, <2>2, <2>4, LiveStep
<1>6. CASE WriteRecord \/ SkipRecord
  <2>1. /\ pc = "write" /\ ~Exhausted /\ UNCHANGED <<group>>
    BY <1>6 DEF WriteRecord, SkipRecord, Advance, Pop
  <2>2. LiveKept
    BY <1>1, <1>6, <2>1, LiveStep DEF FinishRun
  <2>3. CASE group # <<>>
    <3>1. todo' = todo
      BY <1>6, <2>3 DEF WriteRecord, SkipRecord, Advance
    <3> QED
      BY <1>1, <1>2, <2>1, <2>2, <2>3, <3>1
  <2>4. CASE group = <<>>
    <3>1. /\ todo # <<>> /\ todo' = Tail(todo) /\ Upcoming = Head(todo)
          /\ digest' = digest \/ digest' = Append(digest, Head(todo))
      BY <1>6, <2>1, <2>4 DEF WriteRecord, SkipRecord, Advance, Exhausted, Upcoming
    <3>2. /\ Tail(todo) \in Seq(Nat) /\ Head(todo) \in Nat
          /\ Ascends(Tail(todo)) /\ \A j \in 1..Len(Tail(todo)) : Head(todo) <= Tail(todo)[j]
      BY <1>1, <3>1, AscendsMore, SeqClosed
    <3>3. /\ Len(todo) \in Nat /\ Len(todo) >= 1 /\ Len(Tail(todo)) = Len(todo) - 1
          /\ Head(todo) = todo[1]
          /\ \A j \in 1..(Len(todo) - 1) : Tail(todo)[j] = todo[j + 1] /\ j + 1 \in 1..Len(todo)
      BY <1>1, <3>1, EmptySeq
    <3>4. /\ \A i \in 1..Len(digest), j \in 1..Len(Tail(todo)) : digest[i] <= Tail(todo)[j]
          /\ \A i \in 1..Len(digest) : digest[i] <= Head(todo)
      <4>1. \A i \in 1..Len(digest), j \in 1..Len(todo) : digest[i] <= todo[j]
        BY <1>1, <2>4
      <4>2. 1 \in 1..Len(todo)
            /\ \A j \in 1..Len(Tail(todo)) : Tail(todo)[j] = todo[j + 1] /\ j + 1 \in 1..Len(todo)
        BY <3>3
      <4> QED
        BY <3>3, <4>1, <4>2
    <3>5. Ascends(Append(digest, Head(todo)))
      BY <1>1, <2>4, <3>2, <3>4, AscendsMore
    <3>6. \A i \in 1..Len(digest'), j \in 1..Len(Tail(todo)) : digest'[i] <= Tail(todo)[j]
      <4>1. CASE digest' = digest
        BY <3>4, <4>1
      <4>2. CASE digest' = Append(digest, Head(todo))
        <5>1. \A i \in 1..Len(digest') :
                (i \in 1..Len(digest) /\ digest'[i] = digest[i]) \/ digest'[i] = Head(todo)
          BY <1>1, <4>2
        <5> QED
          BY <3>2, <3>4, <5>1
      <4> QED
        BY <3>1, <4>1, <4>2
    <3>7. \A f \in Live' : Ascends(files'[f].head)
      BY <1>1, <2>2 DEF LiveKept
    <3>8. Ascends(todo') /\ Ascends(digest')
      BY <1>1, <2>4, <3>1, <3>2, <3>5
    <3> QED
      BY <3>1, <3>6, <3>7, <3>8 DEF RunsOrder
  <2> QED
    BY <2>3, <2>4
<1>7. CASE FinishRun
  <2>1. /\ pc = "write" /\ Exhausted /\ owed = 0 /\ digest' = <<>>
        /\ UNCHANGED <<todo, group>>
    BY <1>7 DEF FinishRun
  <2>2. Ascends(digest)
    <3>1. CASE group = <<>>
      BY <1>1, <3>1
    <3>2. CASE group # <<>>
      <4>1. Merging /\ pc # "open" /\ heap = {} /\ Out = digest
        BY <2>1, <3>2 DEF Merging, Exhausted, Out
      <4>2. Trusted
        BY <1>1, <2>1, <4>1, MergeDone
      <4> QED
        BY <1>1, <4>1, <4>2 DEF MergeOrder
    <3> QED
      BY <3>1, <3>2
  <2>3. /\ \A x \in Live' : x = writing \/ x \in Live
        /\ \A x \in Live : x # writing /\ x \in DOMAIN files
        /\ files'[writing].head = digest
        /\ \A f \in DOMAIN files : f # writing => files'[f] = files[f]
    <3>1. \A x \in ToSet(current) \cup ToSet(following) : x \in Live
      BY DEF Live
    <3> QED
      BY <1>1, <1>7, <3>1, FinishLive, HeadsFamily
  <2>4. \A f \in Live' : Ascends(files'[f].head)
    BY <1>1, <2>2, <2>3
  <2> QED
    BY <1>1, <2>1, <2>4 DEF RunsOrder
<1> QED
  BY <1>3, <1>4, <1>5, <1>6, <1>7 DEF Continues

-----------------------------------------------------------------------------
(* The steps of a merge                                                    *)

\* The readers and the records of the heap.
LEMMA ReadersType ==
  ASSUME Inv
  PROVE  /\ readers \in Seq([run : Nat, seen : Seq(Edges)]) /\ Len(readers) \in Nat
         /\ Len(readers) <= Len(group) /\ Len(group) \in Nat /\ owed \in Nat
         /\ \A j \in 1..Len(readers) :
              /\ readers[j].seen \in Seq(Edges) /\ readers[j].seen \in Seq(Nat)
              /\ Len(readers[j].seen) \in Nat
         /\ \A x \in heap : x = <<x[1], x[2]>> /\ x[1] \in Edges /\ x[1] \in Nat
                            /\ x[2] \in 1..Len(readers)
         /\ owed # 0 => owed \in 1..Len(readers)
<1>1. readers \in Seq([run : Nat, seen : Seq(Edges)]) /\ owed \in Nat /\ group \in Seq(Nat)
  BY Sequences DEF Inv, TypeOK, MergeType
<1>0. heap \subseteq Edges \X Nat /\ Edges \subseteq Nat
  BY Sequences DEF Inv, TypeOK, MergeType
<1>2. Len(readers) <= Len(group) /\ (\A x \in heap : x[2] \in 1..Len(readers))
      /\ (owed # 0 => owed \in 1..Len(readers))
  BY DEF Inv, ReaderFrame
<1>3. ASSUME NEW j \in 1..Len(readers)
      PROVE  /\ readers[j].seen \in Seq(Edges) /\ readers[j].seen \in Seq(Nat)
             /\ Len(readers[j].seen) \in Nat
  <2> DEFINE R == [run : Nat, seen : Seq(Edges)]
  <2>1. readers \in Seq(R)
    BY <1>1
  <2> HIDE DEF R
  <2>2. readers[j] \in R
    BY <2>1, SeqClosed
  <2>3. readers[j].seen \in Seq(Edges)
    BY <2>2 DEF R
  <2>4. \A s \in Seq(Edges) : s \in Seq(Nat)
    BY <1>0, SeqWider
  <2>5. Len(readers[j].seen) \in Nat
    BY <2>3
  <2> QED
    BY <2>3, <2>4, <2>5
<1>4. ASSUME NEW x \in heap PROVE x = <<x[1], x[2]>> /\ x[1] \in Edges /\ x[1] \in Nat
  <2>1. x \in Edges \X Nat
    BY <1>0
  <2>2. x = <<x[1], x[2]>> /\ x[1] \in Edges
    BY <2>1
  <2> QED
    BY <1>0, <2>2
<1>5. Len(readers) \in Nat /\ Len(group) \in Nat
  BY <1>1
<1> QED
  BY <1>1, <1>2, <1>3, <1>4, <1>5

\* Between merges there are no readers.
LEMMA Idle ==
  ASSUME Inv, ~Merging
  PROVE  readers = <<>> /\ heap = {} /\ owed = 0
<1>1. CASE pc \notin {"open", "write", "drain", "yield"}
  <2>1. readers = <<>> /\ heap = {}
    BY <1>1 DEF Inv, ReaderFrame
  <2>2. Len(readers) = 0
    BY <2>1
  <2> QED
    BY <2>1, <2>2, ReadersType
<1>2. CASE pc = "write" /\ group = <<>>
  <2>1. Len(group) = 0
    BY <1>2
  <2>2. Len(readers) = 0
    BY <2>1, ReadersType
  <2>3. readers = <<>>
    BY <2>2, ReadersType, EmptySeq
  <2> QED
    BY <2>2, <2>3, ReadersType
<1> QED
  BY <1>1, <1>2 DEF Merging

\* A merge begins, ...
Enters ==
  /\ ~Merging /\ Merging' /\ pc # "write" /\ pc' = "open"
  /\ UNCHANGED <<readers, heap, owed, digest, delivered>>

\* ... it waits, ...
Stays ==
  /\ Merging
  /\ pc' = pc \/ (pc = "yield" /\ pc' = "drain")
  /\ UNCHANGED <<readers, heap, owed, group, digest, delivered, distinct_count>>

\* ... or takes the least record and puts it out, unless it is one more of the last.
Emits ==
  \/ /\ Out' = Append(Out, Top[1])
     /\ duplicates = "preserve" \/ Out = <<>> \/ Top[1] # Out[Len(Out)]
  \/ duplicates = "unique" /\ Out # <<>> /\ Top[1] = Out[Len(Out)] /\ Out' = Out

Takes ==
  /\ Merging /\ Merging' /\ owed = 0 /\ heap # {} /\ Pop /\ Emits /\ UNCHANGED group
  /\ pc # "open" /\ pc' # "open"
  /\ pc' \in {"drain", "yield"} =>
       /\ pc = "drain" /\ Out = delivered /\ Out' = delivered'
       /\ LET is_distinct == delivered = <<>> \/ Top[1] # delivered[Len(delivered)]
          IN  distinct_count' = IF is_distinct THEN distinct_count + 1 ELSE distinct_count

LEMMA MergingSteps ==
  ASSUME Inv, RunsFrame, Going, Going', Continues, Merging'
  PROVE  Enters \/ Stays \/ Takes \/ (Merging /\ OpenReader) \/ (Merging /\ Successor)
<1> USE DEF quiet, result, fill, write, merge, bytes, disk, counters, Going, Merging
<1>1. duplicates \in {"preserve", "unique"}
  BY Counts
<1>2. CASE Start \/ ReadEdge \/ SourceExhausted \/ StartPass \/ NextGroup \/ EndPass \/ DeleteInput
  BY <1>2 DEF Start, ReadEdge, WriteSortedRun, SourceExhausted, StartPass, NextGroup, EndPass,
     DeleteInput
<1>3. CASE FinishRun
  BY <1>3 DEF FinishRun
<1>4. CASE CreateRun \/ StartDrain
  BY <1>4 DEF CreateRun, StartDrain, Enters
<1>5. CASE OpenReader
  BY <1>5 DEF OpenReader
<1>6. CASE Successor
  <2>1. pc \in {"write", "drain"} /\ owed # 0
    BY <1>6 DEF Successor
  <2> QED
    BY <1>6, <2>1, Idle
<1>7. CASE Resume \/ CancelToken \/ Damage \/ UNCHANGED vars
  BY <1>7 DEF Resume, CancelToken, Damage, vars, Stays
<1>8. CASE WriteRecord
  <2>1. /\ pc = "write" /\ pc' = "write" /\ UNCHANGED group /\ owed = 0 /\ ~Exhausted
        /\ digest' = Append(digest, Upcoming) /\ (group # <<>> => Pop)
    BY <1>8 DEF WriteRecord, Advance
  <2>2. group # <<>> /\ heap # {} /\ Upcoming = Top[1] /\ Out = digest /\ Out' = digest'
    BY <2>1 DEF Exhausted, Upcoming, Out
  <2>3. ~Coalesced
    BY <1>8 DEF WriteRecord
  <2>4. Emits
    BY <1>1, <2>1, <2>2, <2>3 DEF Emits, Coalesced
  <2> QED
    BY <2>1, <2>2, <2>4 DEF Takes
<1>9. CASE SkipRecord
  <2>1. /\ pc = "write" /\ pc' = "write" /\ UNCHANGED <<group, digest>> /\ owed = 0 /\ ~Exhausted
        /\ Coalesced /\ (group # <<>> => Pop)
    BY <1>9 DEF SkipRecord, Advance
  <2>2. group # <<>> /\ heap # {} /\ Upcoming = Top[1] /\ Out = digest /\ Out' = digest'
    BY <2>1 DEF Exhausted, Upcoming, Out
  <2> QED
    BY <2>1, <2>2 DEF Takes, Emits, Coalesced
<1>10. CASE Deliver
  <2>1. /\ pc = "drain" /\ pc' \in {"drain", "yield"} /\ UNCHANGED group /\ owed = 0 /\ heap # {}
        /\ Pop
    BY <1>10 DEF Deliver
  <2>2. Out = delivered /\ Out' = delivered'
    BY <2>1 DEF Out
  <2>3. LET is_distinct == delivered = <<>> \/ Top[1] # delivered[Len(delivered)]
        IN  /\ distinct_count' = IF is_distinct THEN distinct_count + 1 ELSE distinct_count
            /\ IF duplicates = "preserve" \/ is_distinct
                 THEN delivered' = Append(delivered, Top[1])
                 ELSE UNCHANGED delivered
    BY <1>10 DEF Deliver
  <2>4. Emits
    BY <1>1, <2>2, <2>3 DEF Emits
  <2> QED
    BY <2>1, <2>2, <2>3, <2>4 DEF Takes
<1> QED
  BY <1>2, <1>3, <1>4, <1>5, <1>6, <1>7, <1>8, <1>9, <1>10 DEF Continues

\* The headers of the group being merged stay.
LEMMA GroupKept ==
  ASSUME Inv, RunsFrame, Merging, LiveKept
  PROVE  \A j \in 1..Len(group) : files'[group[j]].head = files[group[j]].head
<1>1. group \in Seq(Nat)
  BY Sequences
<1>2. \A j \in 1..Len(group) : group[j] \in ToSet(group)
  BY <1>1, RunsOf
<1>3. \A f \in ToSet(group) : f \in Live
  BY DEF Live, Merging
<1> QED
  BY <1>2, <1>3 DEF LiveKept

\* What the readers passed on is a finite family.
LEMMA TakenFamily ==
  ASSUME Inv, HeapFrame, Merging
  PROVE  /\ Family(Taken, Edges) /\ DOMAIN Taken = 1..Len(readers)
         /\ \A j \in 1..Len(readers) :
              /\ Taken[j] = SubSeq(readers[j].seen, 1, Passed(j)) /\ Taken[j] \in Seq(Edges)
              /\ Passed(j) \in 0..Len(readers[j].seen)
<1>1. DOMAIN Taken = 1..Len(readers)
      /\ \A j \in 1..Len(readers) : Taken[j] = SubSeq(readers[j].seen, 1, Passed(j))
  BY DEF Taken
<1>2. ASSUME NEW j \in 1..Len(readers)
      PROVE  Passed(j) \in 0..Len(readers[j].seen) /\ SubSeq(readers[j].seen, 1, Passed(j)) \in Seq(Edges)
  <2>1. readers[j].seen \in Seq(Edges) /\ Len(readers[j].seen) \in Nat /\ Len(readers[j].seen) > 0
    BY ReadersType DEF HeapFrame
  <2>2. Passed(j) \in 0..Len(readers[j].seen)
    BY <2>1 DEF Passed
  <2> QED
    BY <2>1, <2>2
<1>3. IsFiniteSet(1..Len(readers))
  BY ReadersType, PlacesFinite
<1> HIDE DEF Taken
<1> QED
  BY <1>1, <1>2, <1>3 DEF Family

\* Nothing came out of a merge that begins.
LEMMA EnterStep ==
  ASSUME Inv, OrderInv, Going, Enters
  PROVE  HeapFrame' /\ MergeContent' /\ MergeOrder'
<1>1. readers' = <<>> /\ heap' = {} /\ owed' = 0 /\ Out' = <<>> /\ pc' = "open"
  <2>1. digest = <<>>
    BY DEF OrderInv, FillFrame, Enters
  <2> QED
    BY <2>1, Idle DEF Enters, Out
<1>2. Len(readers') = 0
  BY <1>1
<1>3. HeapFrame'
  BY <1>1, <1>2 DEF HeapFrame
<1>4. MergeContent'
  <2>1. DOMAIN Taken' = {}
    BY <1>2 DEF Taken
  <2> HIDE DEF Taken
  <2>2. \A e : Tally(Taken', e) = 0 /\ Occurrences(e, <<>>) = 0
    BY <2>1, TallyNone, OccursEmpty
  <2> QED
    BY <1>1, <2>2 DEF MergeContent, Alike
<1>5. MergeOrder'
  BY <1>1 DEF MergeOrder, Ascends
<1> QED
  BY <1>3, <1>4, <1>5

\* A merge that waits.
LEMMA StayStep ==
  ASSUME Inv, OrderInv, Going, Stays, LiveKept, Continues
  PROVE  HeapFrame' /\ MergeContent' /\ MergeOrder'
<1>1. /\ UNCHANGED <<readers, heap, owed, group, digest, delivered, distinct_count, duplicates>>
      /\ pc' = pc \/ (pc = "yield" /\ pc' = "drain")
      /\ Merging /\ HeapFrame /\ MergeContent /\ MergeOrder
  BY CallKept DEF Stays, OrderInv
<1>2. Merging' /\ Out' = Out /\ (Trusted' <=> Trusted) /\ Taken' = Taken
      /\ (\A j : Waiting(j)' <=> Waiting(j)) /\ \A j : Latest(j)' = Latest(j)
  BY <1>1 DEF Merging, Out, Trusted, Taken, Passed, Waiting, Latest
<1>3. \A j \in 1..Len(readers) : files'[group[j]].head = files[group[j]].head
  BY <1>1, ReadersType, GroupKept DEF OrderInv
<1>4. HeapFrame'
  BY <1>1, <1>2, <1>3 DEF HeapFrame
<1>5. MergeContent'
  <2> SUFFICES ASSUME NEW e \in Edges PROVE Alike(Tally(Taken, e), Occurrences(e, Out))'
    BY DEF MergeContent
  <2>1. Alike(Tally(Taken, e), Occurrences(e, Out))
    BY <1>1 DEF MergeContent
  <2> QED
    BY <1>1, <1>2, <2>1 DEF Alike
<1>6. MergeOrder'
  BY <1>1, <1>2 DEF MergeOrder
<1> QED
  BY <1>4, <1>5, <1>6

\* The least record is the last that its reader saw.
LEMMA TopLatest ==
  ASSUME Inv, HeapFrame, Merging, heap # {}
  PROVE  /\ Top \in heap /\ Top[2] \in 1..Len(readers) /\ Top[1] = Latest(Top[2])
         /\ Top[1] \in Edges /\ Top[1] \in Nat /\ Top[2] \in Nat /\ Top[2] # 0 /\ Waiting(Top[2])
         /\ \A x \in heap : Top[1] <= x[1]
         /\ \A x \in heap : x[2] = Top[2] => x = Top
<1>1. Top \in heap /\ heap \subseteq Nat \X Nat
  BY TopType, SpillAssumption DEF Inv, TypeOK, MergeType
<1>2. \A x \in heap : Top[1] < x[1] \/ (Top[1] = x[1] /\ Top[2] <= x[2])
  <2>1. Top = CHOOSE t \in heap : \A y \in heap : t[1] < y[1] \/ (t[1] = y[1] /\ t[2] <= y[2])
    BY DEF Top
  <2>2. \E t \in heap : \A y \in heap : t[1] < y[1] \/ (t[1] = y[1] /\ t[2] <= y[2])
    BY <1>1, TopExists
  <2> QED
    BY <2>1, <2>2
<1>3. \A x \in heap : x = <<x[1], x[2]>> /\ x[1] \in Edges /\ x[1] \in Nat /\ x[2] \in 1..Len(readers)
                      /\ x[1] = Latest(x[2])
  BY ReadersType DEF HeapFrame
<1>4. \A x \in heap : Top[1] <= x[1]
  BY <1>1, <1>2, <1>3
<1>5. \A x \in heap : x[2] = Top[2] => x = Top
  BY <1>1, <1>3
<1> QED
  BY <1>1, <1>3, <1>4, <1>5 DEF Waiting

\* The last element of a sequence.
LEMMA LastApart ==
  ASSUME NEW S, NEW s \in Seq(S)
  PROVE  /\ SubSeq(s, 1, Len(s)) = s
         /\ Len(s) > 0 => s = Append(SubSeq(s, 1, Len(s) - 1), s[Len(s)])
         /\ \A x \in S : SubSeq(Append(s, x), 1, Len(s)) = s
<1> DEFINE n == Len(s)
<1>1. SubSeq(s, 1, n) = s /\ n \in Nat
  BY SubSeqFull
<1>2. ASSUME n > 0 PROVE s = Append(SubSeq(s, 1, n - 1), s[n])
  <2> DEFINE a == SubSeq(s, 1, n - 1)
             t == Append(a, s[n])
  <2>1. /\ a \in Seq(S) /\ Len(a) = n - 1 /\ s[n] \in S
        /\ \A i \in 1..(n - 1) : a[i] = s[i]
    BY <1>1, <1>2
  <2> HIDE DEF a
  <2>2. t \in Seq(S) /\ Len(t) = n /\ \A i \in 1..n : t[i] = s[i]
    <3> DEFINE l == s[n]
    <3>1. l \in S /\ Len(a) + 1 = n
      BY <1>1, <2>1
    <3>2. \A i \in 1..n : i = n \/ i \in 1..(n - 1)
      <4>1. n \in Nat
        BY <1>1
      <4> HIDE DEF n
      <4> QED
        BY <4>1
    <3> HIDE DEF l, n
    <3>3. /\ t \in Seq(S) /\ Len(t) = Len(a) + 1 /\ t[Len(a) + 1] = l
          /\ \A i \in 1..Len(a) : t[i] = a[i]
      BY <2>1, <3>1, AppendProperties DEF l
    <3> QED
      BY <2>1, <3>1, <3>2, <3>3 DEF l
  <2> HIDE DEF t
  <2>3. s = t
    BY <2>2, SeqEqual
  <2> QED
    BY <2>3 DEF a, t
<1>3. ASSUME NEW x \in S PROVE SubSeq(Append(s, x), 1, n) = s
  <2> DEFINE t == SubSeq(Append(s, x), 1, n)
  <2>1. t \in Seq(S) /\ Len(t) = n /\ \A i \in 1..n : t[i] = s[i]
    BY <1>1
  <2> HIDE DEF t
  <2>2. s = t
    BY <2>1, SeqEqual
  <2> QED
    BY <2>2 DEF t
<1> QED
  BY <1>1, <1>2, <1>3

\* A record more that its reader passed on, and that came out or was coalesced.
LEMMA TakeStep ==
  ASSUME Inv, OrderInv, Going, Takes, LiveKept, Continues
  PROVE  HeapFrame' /\ MergeContent' /\ MergeOrder'
<1>0. PICK k, x : k = Top[2] /\ x = Top[1]
  OBVIOUS
<1>1. /\ Merging /\ Merging' /\ owed = 0 /\ heap # {} /\ pc # "open" /\ pc' # "open"
      /\ heap' = heap \ {Top} /\ owed' = k
      /\ UNCHANGED <<readers, group, duplicates>>
      /\ RunsFrame /\ HeapFrame /\ MergeContent /\ MergeOrder
  BY <1>0, CallKept DEF Takes, Pop, OrderInv
<1>2. /\ Top \in heap /\ k \in 1..Len(readers) /\ x = Latest(k) /\ x \in Edges /\ x \in Nat
      /\ k \in Nat /\ k # 0 /\ Waiting(k)
      /\ \A y \in heap : x <= y[1]
      /\ \A y \in heap : y[2] = k => y = Top
  BY <1>0, <1>1, TopLatest
<1>3. Emits
  BY DEF Takes
<1>4. \A j : Waiting(j)' <=> Waiting(j) /\ j # k
  <2>1. ASSUME NEW y PROVE y \in heap' <=> y \in heap /\ y # Top
    BY <1>1
  <2>2. ASSUME NEW y \in heap PROVE y # Top <=> y[2] # k
    BY <1>0, <1>2
  <2> QED
    BY <2>1, <2>2 DEF Waiting
<1>5. \A j : Latest(j)' = Latest(j)
  BY <1>1 DEF Latest
<1>6. Out \in Seq(Edges) /\ Out \in Seq(Nat) /\ Edges \subseteq Nat
  BY Sequences DEF Out
<1>7. /\ Len(readers) \in Nat /\ Len(readers) <= Len(group) /\ Len(group) \in Nat
      /\ \A j \in 1..Len(readers) :
           /\ readers[j].seen \in Seq(Edges) /\ Len(readers[j].seen) \in Nat
           /\ Len(readers[j].seen) > 0
      /\ \A y \in heap : y[1] \in Nat
  BY <1>1, ReadersType DEF HeapFrame
<1>8. HeapFrame'
  <2>1. \A j \in 1..Len(readers) : files'[group[j]].head = files[group[j]].head
    BY <1>1, <1>7, GroupKept
  <2>2. ASSUME NEW j \in 1..Len(readers)
        PROVE  /\ readers[j].run = group[j] /\ Len(readers[j].seen) > 0
               /\ ~Waiting(j)' /\ k # j => readers[j].seen = files'[group[j]].head
    BY <1>1, <1>4, <2>1 DEF HeapFrame
  <2>3. \A y \in heap' : y[2] # k /\ y[1] = Latest(y[2])
    BY <1>1, <1>2 DEF HeapFrame
  <2>4. Len(readers) = Len(group)
    BY <1>1 DEF HeapFrame
  <2> QED
    BY <1>1, <1>5, <2>2, <2>3, <2>4 DEF HeapFrame
<1>9. Grows(Taken', Taken, k, x)
  <2> DEFINE s == readers[k].seen
             n == Len(s)
  <2>1. /\ DOMAIN Taken = 1..Len(readers) /\ DOMAIN Taken' = 1..Len(readers)
        /\ \A j \in 1..Len(readers) : Taken[j] = SubSeq(readers[j].seen, 1, Passed(j))
        /\ \A j \in 1..Len(readers) : Taken'[j] = SubSeq(readers[j].seen, 1, Passed(j)')
    BY <1>1 DEF Taken
  <2>2. Passed(k) = n - 1 /\ Passed(k)' = n
    BY <1>1, <1>2, <1>4 DEF Passed
  <2>3. \A j : j # k => Passed(j)' = Passed(j)
    BY <1>1, <1>4 DEF Passed
  <2>4. s \in Seq(Edges) /\ n \in Nat /\ n > 0 /\ x = s[n]
    BY <1>2, <1>7 DEF Latest
  <2> HIDE DEF Taken
  <2>5. SubSeq(s, 1, n) = Append(SubSeq(s, 1, n - 1), x)
    BY <2>4, LastApart
  <2>6. Taken'[k] = Append(Taken[k], x)
    BY <1>2, <2>1, <2>2, <2>5
  <2> QED
    BY <1>2, <2>1, <2>3, <2>6 DEF Grows
<1>10. Family(Taken, Edges)
  BY <1>1, TakenFamily
<1>11. ASSUME NEW e
       PROVE  /\ Tally(Taken', e) = Tally(Taken, e) + (IF x = e THEN 1 ELSE 0)
              /\ Tally(Taken, e) \in Nat /\ Occurrences(e, Out) \in Nat
              /\ Occurrences(e, Append(Out, x)) = Occurrences(e, Out) + (IF x = e THEN 1 ELSE 0)
  <2> HIDE DEF Taken, Out
  <2>1. Tally(Taken', e) = Tally(Taken, e) + (IF x = e THEN 1 ELSE 0)
    BY <1>2, <1>9, <1>10, TallyGrows
  <2>2. Tally(Taken, e) \in Nat
    BY <1>10, TallyNat
  <2> QED
    BY <1>2, <1>6, <2>1, <2>2, OccursNat, OccursAppend
<1>12. MergeContent'
  <2> SUFFICES ASSUME NEW e \in Edges PROVE Alike(Tally(Taken, e), Occurrences(e, Out))'
    BY DEF MergeContent
  <2>1. Alike(Tally(Taken, e), Occurrences(e, Out))
    BY <1>1 DEF MergeContent
  <2> HIDE DEF Taken, Out
  <2>2. CASE Out' = Append(Out, x)
    <3>1. Alike(Tally(Taken, e) + (IF x = e THEN 1 ELSE 0), Occurrences(e, Out) + (IF x = e THEN 1 ELSE 0))
      BY <1>11, <2>1 DEF Alike
    <3> QED
      BY <1>1, <1>11, <2>2, <3>1 DEF Alike
  <2>3. CASE duplicates = "unique" /\ Out # <<>> /\ x = Out[Len(Out)] /\ Out' = Out
    <3>1. Len(Out) \in 1..Len(Out)
      BY <1>6, <2>3, EmptySeq
    <3>2. x = e => Occurrences(e, Out) # 0
      BY <1>6, <2>3, <3>1, OccursNat
    <3>3. Tally(Taken, e) = 0 <=> Occurrences(e, Out) = 0
      BY <2>1, <2>3 DEF Alike
    <3>4. Tally(Taken', e) = 0 <=> Occurrences(e, Out) = 0
      BY <1>11, <3>2, <3>3
    <3> QED
      BY <1>1, <2>3, <3>4 DEF Alike
  <2> QED
    BY <1>0, <1>3, <2>2, <2>3 DEF Emits
<1>13. MergeOrder'
  <2> SUFFICES ASSUME Trusted'
               PROVE  /\ Ascends(Out')
                      /\ \A i \in 1..Len(Out') : Out'[i] <= x
                      /\ pc' \in {"drain", "yield"} =>
                           /\ distinct_count' = Cardinality(ToSet(delivered'))
                           /\ duplicates' = "unique" => Apart(delivered')
    <3>1. ASSUME \A i \in 1..Len(Out') : Out'[i] <= x, Ascends(Out')
          PROVE  \A i \in 1..Len(Out') :
                    /\ \A y \in heap' : Out'[i] <= y[1]
                    /\ Out'[i] <= readers'[owed'].seen[Len(readers'[owed'].seen)]
      <4>1. \A y \in heap' : x <= y[1] /\ y[1] \in Nat
        BY <1>1, <1>2, <1>7
      <4>2. readers'[owed'].seen[Len(readers'[owed'].seen)] = x
        BY <1>1, <1>2 DEF Latest
      <4>3. \A i \in 1..Len(Out') : Out'[i] \in Nat
        <5>1. Out' = Out \/ Out' = Append(Out, x)
          BY <1>0, <1>3 DEF Emits
        <5>2. Out' \in Seq(Nat)
          <6> HIDE DEF Out
          <6>1. Append(Out, x) \in Seq(Nat)
            BY <1>2, <1>6, AppendProperties
          <6> QED
            BY <1>6, <5>1, <6>1
        <5> HIDE DEF Out
        <5> QED
          BY <5>2
      <4> QED
        BY <1>2, <3>1, <4>1, <4>2, <4>3
    <3> QED
      BY <3>1 DEF MergeOrder, Latest
  <2>1. Trusted
    BY <1>1 DEF Trusted
  <2>2. Ascends(Out) /\ \A i \in 1..Len(Out) : Out[i] <= x /\ Out[i] \in Nat
    <3>1. Ascends(Out) /\ \A i \in 1..Len(Out) : \A y \in heap : Out[i] <= y[1]
      BY <1>1, <2>1 DEF MergeOrder
    <3> HIDE DEF Out
    <3>2. \A i \in 1..Len(Out) : Out[i] <= x
      BY <1>0, <1>2, <3>1
    <3>3. \A i \in 1..Len(Out) : Out[i] \in Nat
      BY <1>6
    <3> QED
      BY <3>1, <3>2, <3>3
  <2>3. Ascends(Out') /\ \A i \in 1..Len(Out') : Out'[i] <= x
    <3> HIDE DEF Out
    <3>1. CASE Out' = Append(Out, x)
      <4>1. Ascends(Append(Out, x))
        BY <1>2, <1>6, <2>2, AscendsMore
      <4>2. \A i \in 1..Len(Append(Out, x)) :
              (i \in 1..Len(Out) /\ Append(Out, x)[i] = Out[i]) \/ Append(Out, x)[i] = x
        BY <1>2, <1>6
      <4> QED
        BY <1>2, <2>2, <3>1, <4>1, <4>2
    <3>2. CASE Out' = Out
      BY <2>2, <3>2
    <3> QED
      BY <1>0, <1>3, <3>1, <3>2 DEF Emits
  <2>4. ASSUME pc' \in {"drain", "yield"}
        PROVE  /\ distinct_count' = Cardinality(ToSet(delivered'))
               /\ duplicates' = "unique" => Apart(delivered')
    <3>1. /\ pc = "drain" /\ Out = delivered /\ Out' = delivered'
          /\ distinct_count' = (IF delivered = <<>> \/ x # delivered[Len(delivered)]
                                  THEN distinct_count + 1 ELSE distinct_count)
      BY <1>0, <2>4 DEF Takes
    <3>2. /\ distinct_count = Cardinality(ToSet(delivered))
          /\ duplicates = "unique" => Apart(delivered)
      BY <1>1, <2>1, <3>1 DEF MergeOrder
    <3>3. /\ delivered \in Seq(Nat) /\ Ascends(delivered)
          /\ \A i \in 1..Len(delivered) : delivered[i] <= x /\ delivered[i] \in Nat
          /\ \/ /\ delivered' = Append(delivered, x)
                /\ duplicates = "preserve" \/ delivered = <<>> \/ x # delivered[Len(delivered)]
             \/ delivered # <<>> /\ x = delivered[Len(delivered)] /\ delivered' = delivered
      BY <1>0, <1>3, <1>6, <2>2, <3>1 DEF Emits
    <3>4. ToSet(Append(delivered, x)) = ToSet(delivered) \cup {x}
      BY <1>2, <3>3, RunsOf
    <3>5. CASE delivered = <<>> \/ x # delivered[Len(delivered)]
      <4>1. \A i \in 1..Len(delivered) : delivered[i] # x
        <5> SUFFICES ASSUME NEW i \in 1..Len(delivered), delivered[i] = x PROVE FALSE
          OBVIOUS
        <5>1. Len(delivered) \in 1..Len(delivered) /\ delivered # <<>>
          BY <3>3
        <5>2. delivered[Len(delivered)] = x
          <6>1. delivered[i] <= delivered[Len(delivered)]
            BY <3>3, <5>1 DEF Ascends
          <6> QED
            BY <1>2, <3>3, <5>1, <6>1
        <5> QED
          BY <3>5, <5>1, <5>2
      <4>2. x \notin ToSet(delivered)
        BY <3>3, <4>1 DEF ToSet
      <4>3. delivered' = Append(delivered, x)
        BY <3>3, <3>5
      <4>4. IsFiniteSet(ToSet(delivered))
        BY <3>3, RunsFinite
      <4>5. Cardinality(ToSet(delivered) \cup {x}) = Cardinality(ToSet(delivered)) + 1
        BY <4>2, <4>4, FS_AddElement
      <4>6. distinct_count' = Cardinality(ToSet(delivered'))
        BY <3>1, <3>2, <3>4, <3>5, <4>3, <4>5
      <4>7. duplicates' = "unique" => Apart(delivered')
        BY <1>1, <1>2, <3>2, <3>3, <4>2, <4>3, ApartMore
      <4> QED
        BY <4>6, <4>7
    <3>6. CASE ~(delivered = <<>> \/ x # delivered[Len(delivered)])
      <4>1. distinct_count' = distinct_count
        BY <3>1, <3>6
      <4>2. ToSet(delivered') = ToSet(delivered)
        <5>1. Len(delivered) \in 1..Len(delivered)
          BY <3>3, <3>6, EmptySeq
        <5>2. x \in ToSet(delivered)
          BY <3>3, <3>6, <5>1, RunsOf
        <5> QED
          BY <3>3, <3>4, <5>2
      <4>3. duplicates = "unique" => delivered' = delivered
        BY <3>3, <3>6
      <4> QED
        BY <1>1, <3>2, <4>1, <4>2, <4>3
    <3> QED
      BY <3>5, <3>6
  <2> QED
    BY <2>3, <2>4
<1> QED
  BY <1>8, <1>12, <1>13

\* A reader more, whose first record waits in the heap.
LEMMA OpenStep ==
  ASSUME Inv, OrderInv, Going, Merging, OpenReader, LiveKept, Continues
  PROVE  HeapFrame' /\ MergeContent' /\ MergeOrder'
<1>0. PICK n, run, d : n = Len(readers) + 1 /\ run = group[n] /\ d = files[run].data[1]
  OBVIOUS
<1>1. /\ pc = "open" /\ Openable(run) /\ Readable(run, 1)
      /\ readers' = Append(readers, [run |-> run, seen |-> <<d>>])
      /\ heap' = heap \cup {<<d, n>>}
      /\ pc' \in {"open", "drain", "write"} /\ (pc' # "open" => ~(n < Len(group)))
      /\ UNCHANGED <<group, files, owed, digest, delivered, duplicates, distinct_count>>
  BY <1>0 DEF OpenReader, quiet, result, fill, write, disk, counters
<1>2. /\ Len(readers) \in Nat /\ Len(readers) < Len(group) /\ Len(group) \in Nat
      /\ n \in Nat /\ n # 0 /\ n \in 1..n
      /\ \A j \in 1..Len(readers) : j \in 1..n
      /\ \A j \in 1..n : j = n \/ j \in 1..Len(readers)
      /\ n \notin 1..Len(readers)
  BY <1>0, <1>1, ReadersType DEF Inv, ReaderFrame
<1>3. d \in Edges
  <2>1. run \in DOMAIN files /\ files[run] \in FileRecord
    BY <1>1 DEF Openable, Inv, TypeOK, FilesType
  <2>2. files[run].data \in Seq(Edges) /\ 1 <= Len(files[run].data)
    BY <1>1, <2>1 DEF FileRecord, Readable
  <2> QED
    BY <1>0, <2>2
<1>4. /\ Len(readers') = n
      /\ \A j \in 1..Len(readers) : readers'[j] = readers[j]
      /\ readers'[n].run = run /\ readers'[n].seen = <<d>>
  <2> DEFINE r == [run |-> run, seen |-> <<d>>]
  <2>1. r.run = run /\ r.seen = <<d>>
    OBVIOUS
  <2> HIDE DEF r
  <2>2. readers' = Append(readers, r) /\ readers \in Seq([run : Nat, seen : Seq(Edges)])
    BY <1>1, ReadersType DEF r
  <2> QED
    BY <1>0, <1>2, <2>1, <2>2
<1>5. /\ Len(<<d>>) = 1 /\ <<d>>[1] = d /\ SubSeq(<<d>>, 1, 0) = <<>>
  OBVIOUS
<1>6. /\ HeapFrame /\ MergeContent /\ FillFrame /\ owed = 0
      /\ \A j \in 1..Len(readers) :
           readers[j].run = group[j] /\ Len(readers[j].seen) > 0 /\ Waiting(j)
  <2>1. HeapFrame /\ MergeContent /\ FillFrame
    BY DEF OrderInv
  <2> QED
    BY <1>1, <2>1 DEF HeapFrame
<1>8. \A j : Waiting(j)' <=> Waiting(j) \/ j = n
  <2>1. (\A y : y \in heap' <=> y \in heap \/ y = <<d, n>>) /\ <<d, n>>[2] = n
    BY <1>1
  <2> QED
    BY <2>1 DEF Waiting
<1>9. HeapFrame'
  <2>1. ASSUME NEW j \in 1..n
        PROVE  readers'[j].run = group[j] /\ Len(readers'[j].seen) > 0 /\ Waiting(j)'
    <3>1. CASE j = n
      <4>1. readers'[n].run = group[n] /\ Waiting(n)'
        BY <1>0, <1>4, <1>8
      <4>2. Len(readers'[n].seen) > 0
        BY <1>4, <1>5
      <4> QED
        BY <3>1, <4>1, <4>2
    <3>2. CASE j \in 1..Len(readers)
      BY <1>4, <1>6, <1>8, <3>2
    <3> QED
      BY <1>2, <3>1, <3>2
  <2>2. ASSUME NEW y \in heap' PROVE y[2] # 0 /\ y[1] = Latest(y[2])'
    <3>1. CASE y \in heap
      <4>1. y[2] \in 1..Len(readers) /\ y[1] = Latest(y[2])
        BY <1>6, <3>1, ReadersType DEF HeapFrame
      <4> QED
        BY <1>2, <1>4, <4>1 DEF Latest
    <3>2. CASE y = <<d, n>>
      <4>1. y[1] = d /\ y[2] = n /\ n # 0
        BY <1>2, <3>2
      <4>2. readers'[y[2]].seen[Len(readers'[y[2]].seen)] = d
        BY <1>4, <1>5, <4>1
      <4> QED
        BY <4>1, <4>2 DEF Latest
    <3> QED
      BY <1>1, <3>1, <3>2
  <2>3. pc' # "open" => Len(readers') = Len(group)
    BY <1>1, <1>2, <1>4
  <2> QED
    BY <1>1, <1>4, <1>6, <2>1, <2>2, <2>3 DEF HeapFrame
<1>10. Out = <<>> /\ Out' = <<>> /\ distinct_count' = 0
  BY <1>1, <1>6 DEF Out, FillFrame
<1>11. ASSUME NEW e PROVE Tally(Taken', e) = Tally(Taken, e)
  <2> DEFINE h == [ j \in {n} |-> <<>> ]
  <2>1. Family(Taken, Edges) /\ DOMAIN Taken = 1..Len(readers)
        /\ \A j \in 1..Len(readers) : Taken[j] = SubSeq(readers[j].seen, 1, Passed(j))
    BY <1>6, TakenFamily
  <2>2. DOMAIN Taken' = 1..n
        /\ \A j \in 1..n : Taken'[j] = SubSeq(readers'[j].seen, 1, Passed(j)')
    BY <1>4 DEF Taken
  <2> HIDE DEF Taken
  <2>3. \A j \in 1..Len(readers) : Passed(j)' = Passed(j)
    BY <1>4, <1>6, <1>8 DEF Passed
  <2>4. Passed(n)' = 0
    <3>1. Passed(n)' = Len(readers'[n].seen) - 1
      BY <1>8 DEF Passed
    <3> QED
      BY <1>4, <1>5, <3>1
  <2>5. Taken'[n] = <<>> /\ \A j \in 1..Len(readers) : Taken'[j] = Taken[j]
    <3>1. Taken'[n] = SubSeq(<<d>>, 1, 0)
      BY <1>2, <1>4, <2>2, <2>4
    <3>2. ASSUME NEW j \in 1..Len(readers) PROVE Taken'[j] = Taken[j]
      BY <1>2, <1>4, <2>1, <2>2, <2>3
    <3> QED
      BY <1>5, <3>1, <3>2
  <2>6. DOMAIN h = {n} /\ h[n] = <<>> /\ <<>> \in Seq(Edges)
    OBVIOUS
  <2>7. Single(h, n, <<>>)
    BY <2>6 DEF Single
  <2>8. Family(h, Edges)
    BY <2>6, FS_Singleton DEF Family
  <2> HIDE DEF h
  <2>9. Parts(Taken', Taken, h)
    <3>1. 1..n = 1..Len(readers) \cup {n} /\ 1..Len(readers) \cap {n} = {}
      BY <1>2
    <3> QED
      BY <2>1, <2>2, <2>5, <2>6, <3>1 DEF Parts
  <2>10. Tally(Taken', e) = Tally(Taken, e) + Tally(h, e)
    BY <2>1, <2>8, <2>9, TallySplit
  <2>11. Tally(h, e) = 0 /\ Tally(Taken, e) \in Nat
    BY <2>1, <2>6, <2>7, TallyOne, TallyNat, OccursEmpty
  <2> QED
    BY <2>10, <2>11
<1>12. MergeContent'
  <2> SUFFICES ASSUME NEW e \in Edges PROVE Alike(Tally(Taken, e), Occurrences(e, Out))'
    BY DEF MergeContent
  <2>1. Alike(Tally(Taken, e), Occurrences(e, Out))
    BY <1>6 DEF MergeContent
  <2> HIDE DEF Taken, Out
  <2> QED
    BY <1>1, <1>10, <1>11, <2>1 DEF Alike
<1>13. MergeOrder'
  <2>1. delivered' = <<>>
    BY <1>1, <1>6 DEF FillFrame
  <2>2. Cardinality(ToSet(<<>>)) = 0
    <3>1. ToSet(<<>>) = {}
      BY DEF ToSet
    <3> QED
      BY <3>1, FS_EmptySet
  <2>3. Ascends(<<>>) /\ Apart(<<>>) /\ Len(<<>>) = 0 /\ \A i \in 1..0 : FALSE
    BY DEF Ascends, Apart
  <2> HIDE DEF Out
  <2> QED
    BY <1>10, <2>1, <2>2, <2>3 DEF MergeOrder
<1> QED
  BY <1>9, <1>12, <1>13

\* The reader whose record was taken sees its next, or is at its end.
LEMMA SuccessorStep ==
  ASSUME Inv, OrderInv, Going, Merging, Successor, LiveKept, Continues
  PROVE  HeapFrame' /\ MergeContent' /\ MergeOrder'
<1>0. PICK k : k = owed
  OBVIOUS
<1>1. /\ pc \in {"write", "drain"} /\ k # 0 /\ owed' = 0
      /\ UNCHANGED <<pc, group, files, digest, delivered, duplicates, distinct_count>>
      /\ RunsFrame /\ HeapFrame /\ MergeContent /\ MergeOrder
  BY <1>0 DEF Successor, OrderInv, quiet, result, fill, write, disk, counters
<1>2. /\ Len(readers) \in Nat /\ k \in 1..Len(readers)
      /\ \A j \in 1..Len(readers) :
           /\ readers[j].seen \in Seq(Edges) /\ readers[j].seen \in Seq(Nat)
           /\ Len(readers[j].seen) \in Nat /\ Len(readers[j].seen) > 0
           /\ readers[j].run = group[j]
      /\ \A y \in heap : y[2] \in 1..Len(readers) /\ y[2] # 0 /\ y[2] # k
      /\ Len(readers) = Len(group)
      /\ Edges \subseteq Nat
  <2>1. /\ Len(readers) \in Nat /\ k \in 1..Len(readers)
        /\ \A j \in 1..Len(readers) :
             /\ readers[j].seen \in Seq(Edges) /\ readers[j].seen \in Seq(Nat)
             /\ Len(readers[j].seen) \in Nat
    BY <1>0, <1>1, ReadersType
  <2>2. \A j \in 1..Len(readers) : Len(readers[j].seen) > 0 /\ readers[j].run = group[j]
    BY <1>1 DEF HeapFrame
  <2>3. \A y \in heap : y[2] \in 1..Len(readers)
    BY ReadersType
  <2>4. \A y \in heap : y[2] # k
    BY <1>0, <1>1 DEF HeapFrame
  <2>5. Len(readers) = Len(group) /\ Edges \subseteq Nat
    BY <1>1, Sequences DEF HeapFrame
  <2>6. \A y \in heap : y[2] # 0
    BY <2>1, <2>3
  <2> QED
    BY <2>1, <2>2, <2>3, <2>4, <2>5, <2>6
<1>3. ~Waiting(k)
  BY <1>2 DEF Waiting
<1>4. Out' = Out /\ Out \in Seq(Nat)
  BY <1>1, Sequences DEF Out
<1>5. ASSUME Equals(Taken', Taken) PROVE MergeContent'
  <2> SUFFICES ASSUME NEW e \in Edges PROVE Alike(Tally(Taken, e), Occurrences(e, Out))'
    BY DEF MergeContent
  <2>1. Alike(Tally(Taken, e), Occurrences(e, Out))
    BY <1>1 DEF MergeContent
  <2> HIDE DEF Taken, Out
  <2>2. Tally(Taken', e) = Tally(Taken, e)
    BY <1>5, SpotsEqual
  <2> QED
    BY <1>1, <1>4, <2>1, <2>2 DEF Alike
<1>6. CASE AtEnd(readers[k])
  <2>1. Verified(readers[k]) /\ UNCHANGED <<readers, heap>>
    BY <1>0, <1>6 DEF Successor
  <2>2. /\ Taken' = Taken /\ (Trusted' <=> Trusted)
        /\ (\A j : Waiting(j)' <=> Waiting(j)) /\ \A j : Latest(j)' = Latest(j)
    BY <2>1 DEF Taken, Trusted, Waiting, Latest, Passed
  <2>3. HeapFrame'
    <3>1. readers[k].seen = files[group[k]].head
      BY <1>2, <2>1 DEF Verified
    <3>2. \A j \in 1..Len(readers) : ~Waiting(j) => readers[j].seen = files[group[j]].head
      BY <1>0, <1>1, <3>1 DEF HeapFrame
    <3>3. \A y \in heap : y[1] = Latest(y[2])
      BY <1>1 DEF HeapFrame
    <3> QED
      BY <1>1, <1>2, <2>1, <2>2, <3>2, <3>3 DEF HeapFrame
  <2>4. MergeContent'
    <3>1. Equals(Taken', Taken)
      BY <2>2 DEF Equals
    <3> QED
      BY <1>5, <3>1
  <2>5. MergeOrder'
    <3>1. Merging' /\ Trusted' => Trusted
      BY <2>2
    <3> QED
      BY <1>1, <1>4, <2>1, <3>1 DEF MergeOrder
  <2> QED
    BY <2>3, <2>4, <2>5
<1>7. CASE ~AtEnd(readers[k])
  <2> DEFINE s == readers[k].seen
             r == readers[k].run
             d == files[r].data[Len(s) + 1]
             c == [run |-> r, seen |-> Append(s, d)]
  <2>1. /\ Readable(r, Len(s) + 1)
        /\ readers' = [readers EXCEPT ![k] = c]
        /\ heap' = heap \cup {<<d, k>>}
    BY <1>0, <1>7 DEF Successor
  <2>2. s \in Seq(Edges) /\ s \in Seq(Nat) /\ Len(s) \in Nat /\ Len(s) > 0 /\ r = group[k]
    BY <1>2
  <2>3. d \in Edges /\ d \in Nat
    <3>1. r \in DOMAIN files /\ files[r] \in FileRecord
      <4>1. r \in Live
        <5>1. r \in ToSet(group) /\ pc # "delete"
          BY <1>1, <1>2, <2>2, Sequences, RunsOf
        <5> QED
          BY <5>1 DEF Live
      <4> QED
        BY <1>1, <4>1 DEF RunsFrame, Inv, TypeOK, FilesType
    <3>2. files[r].data \in Seq(Edges) /\ Len(s) + 1 <= Len(files[r].data)
      BY <2>1, <3>1 DEF FileRecord, Readable
    <3>3. Len(s) + 1 \in 1..Len(files[r].data)
      BY <2>2, <3>2
    <3>4. d \in Edges
      BY <3>2, <3>3, SeqClosed
    <3> QED
      BY <1>2, <3>4
  <2>4. c.run = r /\ c.seen = Append(s, d)
    OBVIOUS
  <2> HIDE DEF c, d
  <2>5. /\ DOMAIN readers = 1..Len(readers) /\ Len(readers') = Len(readers)
        /\ readers'[k] = c
        /\ \A j \in 1..Len(readers) : j # k => readers'[j] = readers[j]
    BY <1>2, <2>1, ReadersType
  <2>6. /\ Len(Append(s, d)) = Len(s) + 1 /\ Append(s, d)[Len(s) + 1] = d
        /\ SubSeq(Append(s, d), 1, Len(s)) = s /\ SubSeq(s, 1, Len(s)) = s
        /\ \A i \in 1..Len(s) : Append(s, d)[i] = s[i]
    BY <2>2, <2>3, LastApart, AppendProperties
  <2>7. \A j : Waiting(j)' <=> Waiting(j) \/ j = k
    <3>1. (\A y : y \in heap' <=> y \in heap \/ y = <<d, k>>) /\ <<d, k>>[2] = k
      BY <2>1
    <3> QED
      BY <3>1 DEF Waiting
  <2>8. Latest(k)' = d /\ Latest(k) = s[Len(s)]
        /\ \A j \in 1..Len(readers) : j # k => Latest(j)' = Latest(j)
    BY <2>4, <2>5, <2>6 DEF Latest
  <2>9. HeapFrame'
    <3>1. ASSUME NEW j \in 1..Len(readers)
          PROVE  /\ readers'[j].run = group[j] /\ Len(readers'[j].seen) > 0
                 /\ ~Waiting(j)' => readers'[j].seen = files[group[j]].head
      <4>1. CASE j = k
        BY <2>2, <2>4, <2>5, <2>6, <2>7, <4>1
      <4>2. CASE j # k
        <5>1. ~Waiting(j) => readers[j].seen = files[group[j]].head
          BY <1>0, <1>1, <4>2 DEF HeapFrame
        <5> QED
          BY <1>2, <2>5, <2>7, <4>2, <5>1
      <4> QED
        BY <4>1, <4>2
    <3>2. ASSUME NEW y \in heap' PROVE y[2] # 0 /\ y[1] = Latest(y[2])'
      <4>1. CASE y \in heap
        <5>1. y[1] = Latest(y[2]) /\ y[2] \in 1..Len(readers) /\ y[2] # k /\ y[2] # 0
          BY <1>1, <1>2, <4>1 DEF HeapFrame
        <5> QED
          BY <2>8, <5>1
      <4>2. CASE y = <<d, k>>
        BY <1>1, <2>8, <4>2
      <4> QED
        BY <2>1, <4>1, <4>2
    <3> QED
      BY <1>1, <1>2, <2>5, <3>1, <3>2 DEF HeapFrame
  <2>10. MergeContent'
    <3>1. /\ DOMAIN Taken = 1..Len(readers) /\ DOMAIN Taken' = 1..Len(readers)
          /\ \A j \in 1..Len(readers) : Taken[j] = SubSeq(readers[j].seen, 1, Passed(j))
          /\ \A j \in 1..Len(readers) : Taken'[j] = SubSeq(readers'[j].seen, 1, Passed(j)')
      BY <2>5 DEF Taken
    <3> HIDE DEF Taken
    <3>2. Passed(k) = Len(s) /\ Passed(k)' = Len(s)
      <4>1. Passed(k)' = Len(readers'[k].seen) - 1
        BY <2>7 DEF Passed
      <4>2. Passed(k) = Len(s)
        BY <1>3 DEF Passed
      <4>3. Len(readers'[k].seen) = Len(s) + 1
        BY <2>4, <2>5, <2>6
      <4> QED
        BY <2>2, <4>1, <4>2, <4>3
    <3>3. \A j \in 1..Len(readers) : j # k => Passed(j)' = Passed(j)
      BY <2>5, <2>7 DEF Passed
    <3>4. Taken'[k] = Taken[k]
      BY <1>2, <2>4, <2>5, <2>6, <3>1, <3>2
    <3>5. Equals(Taken', Taken)
      BY <2>5, <3>1, <3>3, <3>4 DEF Equals
    <3> QED
      BY <1>5, <3>5
  <2>11. MergeOrder'
    <3> SUFFICES ASSUME Trusted'
                 PROVE  /\ Ascends(Out)
                        /\ \A i \in 1..Len(Out) : \A y \in heap' : Out[i] <= y[1]
                        /\ pc \in {"drain", "yield"} =>
                             /\ distinct_count = Cardinality(ToSet(delivered))
                             /\ duplicates = "unique" => Apart(delivered)
      BY <1>1, <1>4 DEF MergeOrder
    <3>1. \A j \in 1..Len(readers) : Ascends(readers'[j].seen)
      BY <2>5 DEF Trusted
    <3>2. Ascends(s) /\ s[Len(s)] <= d
      <4>1. Ascends(Append(s, d))
        BY <1>2, <2>4, <2>5, <3>1
      <4>2. Len(s) \in 1..Len(Append(s, d)) /\ Len(s) + 1 \in 1..Len(Append(s, d))
            /\ Len(s) < Len(s) + 1
        BY <2>2, <2>6
      <4>3. s[Len(s)] <= d
        BY <2>2, <2>6, <4>1, <4>2 DEF Ascends
      <4>4. \A i \in 1..Len(s) : i \in 1..Len(Append(s, d))
        BY <2>2, <2>6
      <4>5. Ascends(s)
        BY <2>6, <4>1, <4>4 DEF Ascends
      <4> QED
        BY <4>3, <4>5
    <3>3. Trusted
      BY <2>5, <3>1, <3>2 DEF Trusted
    <3>4. /\ Ascends(Out)
          /\ \A i \in 1..Len(Out) : \A y \in heap : Out[i] <= y[1]
          /\ \A i \in 1..Len(Out) : Out[i] <= Latest(k)
          /\ pc \in {"drain", "yield"} =>
               /\ distinct_count = Cardinality(ToSet(delivered))
               /\ duplicates = "unique" => Apart(delivered)
      BY <1>0, <1>1, <3>3 DEF MergeOrder
    <3> HIDE DEF Out
    <3>5. \A i \in 1..Len(Out) : Out[i] <= d
      <4>1. s[Len(s)] \in Nat
        BY <2>2
      <4> QED
        BY <1>4, <2>3, <2>8, <3>2, <3>4, <4>1
    <3>6. \A y \in heap' : y \in heap \/ y[1] = d
      BY <2>1
    <3> QED
      BY <3>4, <3>5, <3>6
  <2> QED
    BY <2>9, <2>10, <2>11
<1> QED
  BY <1>6, <1>7

-----------------------------------------------------------------------------
(* What completes is exact                                                 *)

\* The promise sorts as the reference does.
LEMMA PromiseSorted == \A s : Promise!Sorted(s) = Sorted(s)
<1>1. \A s : Promise!ToSet(s) = ToSet(s)
  BY DEF Promise!ToSet, ToSet
<1>2. \A s, e : Promise!Below(s, e) = Below(s, e) /\ Promise!UpTo(s, e) = UpTo(s, e)
  BY DEF Promise!Below, Below, Promise!UpTo, UpTo, Promise!Cardinality, Cardinality
<1> QED
  BY <1>1, <1>2 DEF Promise!Sorted, Sorted

\* An ascending sequence with the edges of the input is the reference result.
LEMMA ReferenceMet ==
  ASSUME Inv, \A e \in Edges : Alike(Occurrences(e, input), Occurrences(e, delivered)),
         Ascends(delivered), duplicates = "unique" => Apart(delivered)
  PROVE  /\ delivered = Promise!Reference(input, duplicates)
         /\ Promise!ReferenceStatistics(input) = <<Len(input), Cardinality(ToSet(delivered))>>
<1>1. /\ input \in Seq(Edges) /\ delivered \in Seq(Edges) /\ Edges \subseteq Nat
      /\ input \in Seq(Nat) /\ delivered \in Seq(Nat)
  BY Sequences
<1>2. duplicates \in {"preserve", "unique"}
  BY Counts
<1>3. ASSUME NEW e
      PROVE  /\ Occurrences(e, input) = 0 <=> \A i \in 1..Len(input) : input[i] # e
             /\ Occurrences(e, delivered) = 0 <=> \A i \in 1..Len(delivered) : delivered[i] # e
  BY <1>1, OccursNat
<1>4. ASSUME NEW e, e \notin Edges PROVE Occurrences(e, input) = 0 /\ Occurrences(e, delivered) = 0
  <2>1. (\A i \in 1..Len(input) : input[i] \in Edges)
        /\ \A i \in 1..Len(delivered) : delivered[i] \in Edges
    BY <1>1
  <2> QED
    BY <1>3, <1>4, <2>1
<1>5. ASSUME NEW e PROVE Alike(Occurrences(e, input), Occurrences(e, delivered))
  BY <1>4 DEF Alike
<1>6. ASSUME NEW e PROVE Occurrences(e, input) = 0 <=> Occurrences(e, delivered) = 0
  BY <1>5 DEF Alike
<1>7. ToSet(delivered) = ToSet(input)
  <2>1. DOMAIN input = 1..Len(input) /\ DOMAIN delivered = 1..Len(delivered)
    BY <1>1
  <2>2. ASSUME NEW e PROVE e \in ToSet(delivered) <=> e \in ToSet(input)
    <3>1. e \in ToSet(delivered) <=> ~ \A i \in 1..Len(delivered) : delivered[i] # e
      BY <2>1 DEF ToSet
    <3>2. e \in ToSet(input) <=> ~ \A i \in 1..Len(input) : input[i] # e
      BY <2>1 DEF ToSet
    <3> QED
      BY <1>3, <1>6, <3>1, <3>2
  <2> QED
    BY <2>2
<1>8. Promise!ReferenceStatistics(input) = <<Len(input), Cardinality(ToSet(delivered))>>
  <2>1. Promise!ToSet(input) = ToSet(input)
    BY DEF Promise!ToSet, ToSet
  <2>2. Promise!Cardinality(Promise!ToSet(input)) = Cardinality(ToSet(delivered))
    BY <1>7, <2>1 DEF Promise!Cardinality, Cardinality
  <2> QED
    BY <2>2 DEF Promise!ReferenceStatistics
<1>9. CASE duplicates = "preserve"
  <2>1. SameBag(delivered, input)
    BY <1>5, <1>9 DEF Alike, SameBag
  <2>2. delivered = Sorted(input)
    BY <1>1, <2>1, SortUnique
  <2>3. Promise!Reference(input, duplicates) = Promise!Sorted(input)
    BY <1>9 DEF Promise!Reference
  <2> QED
    BY <1>8, <2>2, <2>3, PromiseSorted
<1>10. CASE duplicates = "unique"
  <2> DEFINE f == Promise!FirstEncounters(input)
  <2>1. /\ f \in Seq(Nat) /\ Apart(f)
        /\ \A e \in Nat : Occurrences(e, f) = 0 <=> Occurrences(e, input) = 0
    BY <1>1, FirstsSame
  <2>2. Promise!Reference(input, duplicates) = Promise!Sorted(f)
    BY <1>10 DEF Promise!Reference
  <2> HIDE DEF f
  <2>3. SameBag(delivered, f)
    BY <1>1, <1>6, <1>10, <2>1, ApartSame
  <2>4. delivered = Sorted(f)
    BY <1>1, <2>1, <2>3, SortUnique
  <2> QED
    BY <1>8, <2>2, <2>4, PromiseSorted
<1> QED
  BY <1>2, <1>9, <1>10

\* The final merge has come to its end.
LEMMA DrainExact ==
  ASSUME Inv, OrderInv, Complete
  PROVE  /\ delivered = Promise!Reference(input, duplicates)
         /\ <<raw_count, distinct_count>> = Promise!ReferenceStatistics(input)
<1>1. /\ pc = "drain" /\ owed = 0 /\ heap = {} /\ Merging /\ Going /\ Final /\ Out = delivered
      /\ RunsFrame /\ FillFrame /\ Content /\ RunsOrder /\ HeapFrame /\ MergeContent /\ MergeOrder
  BY DEF Complete, Merging, Going, Final, Out, OrderInv
<1>2. /\ Trusted /\ Family(GroupHeads, Edges)
      /\ \A e : Tally(GroupHeads, e) = Tally(Taken, e) /\ Tally(Taken, e) \in Nat
  BY <1>1, MergeDone
<1>3. /\ raw_count = Len(input) /\ buffer = <<>> /\ todo = <<>> /\ digest = <<>>
      /\ group = current /\ following = <<>>
  BY <1>1 DEF FillFrame, RunsFrame
<1>4. Heads = GroupHeads
  <2>1. Live = ToSet(group)
    <3>1. ToSet(following) = {}
      BY <1>3 DEF ToSet
    <3> QED
      BY <1>1, <1>3, <3>1 DEF Live
  <2> QED
    BY <2>1 DEF Heads, GroupHeads
<1>5. /\ Ascends(delivered)
      /\ distinct_count = Cardinality(ToSet(delivered))
      /\ duplicates = "unique" => Apart(delivered)
  BY <1>1, <1>2 DEF MergeOrder
<1>6. SubSeq(input, 1, raw_count) = input
  BY <1>3, Sequences, SubSeqFull
<1>7. ASSUME NEW e \in Edges PROVE Alike(Occurrences(e, input), Occurrences(e, delivered))
  <2>1. Held(e) = 0
    BY <1>3, OccursEmpty DEF Held
  <2>2. Alike(Occurrences(e, input), Held(e) + Tally(Heads, e))
    BY <1>1, <1>6 DEF Content
  <2>3. Alike(Tally(Taken, e), Occurrences(e, delivered))
    BY <1>1 DEF MergeContent
  <2> HIDE DEF GroupHeads, Heads, Taken
  <2>4. Held(e) + Tally(Heads, e) = Tally(Taken, e)
    BY <1>2, <1>4, <2>1
  <2> QED
    BY <2>2, <2>3, <2>4 DEF Alike
<1> QED
  BY <1>3, <1>5, <1>7, ReferenceMet

\* The source had no edges.
LEMMA EmptyExact ==
  ASSUME Inv, OrderInv, pc = "fill", raw_count = Len(input), buffer = <<>>, current = <<>>
  PROVE  /\ delivered = Promise!Reference(input, duplicates)
         /\ <<0, 0>> = Promise!ReferenceStatistics(input)
<1>1. Going /\ RunsFrame /\ FillFrame /\ Content
  BY DEF Going, OrderInv
<1>2. todo = <<>> /\ digest = <<>> /\ following = <<>> /\ group = <<>> /\ delivered = <<>>
  BY <1>1 DEF FillFrame, RunsFrame
<1>3. DOMAIN Heads = {}
  <2>1. ToSet(<<>>) = {}
    BY DEF ToSet
  <2>2. Live = {}
    BY <1>2, <2>1 DEF Live
  <2> QED
    BY <2>2 DEF Heads
<1>4. SubSeq(input, 1, raw_count) = input
  BY Sequences, SubSeqFull
<1>5. ASSUME NEW e \in Edges PROVE Occurrences(e, input) = 0
  <2>1. Held(e) = 0
    BY <1>2, OccursEmpty DEF Held
  <2>2. Alike(Occurrences(e, input), Held(e) + Tally(Heads, e))
    BY <1>1, <1>4 DEF Content
  <2> HIDE DEF Heads
  <2>3. Tally(Heads, e) = 0
    BY <1>3, TallyNone
  <2> QED
    BY <2>1, <2>2, <2>3 DEF Alike
<1>6. Len(input) = 0
  <2> SUFFICES ASSUME Len(input) # 0 PROVE FALSE
    OBVIOUS
  <2>1. input \in Seq(Edges)
    BY Sequences
  <2>2. 1 \in 1..Len(input) /\ input[1] \in Edges
    BY <2>1
  <2> QED
    BY <1>5, <2>1, <2>2, OccursNat
<1>7. ASSUME NEW e \in Edges PROVE Alike(Occurrences(e, input), Occurrences(e, delivered))
  BY <1>2, <1>5, OccursEmpty DEF Alike
<1>8. Ascends(<<>>) /\ Apart(<<>>) /\ Cardinality(ToSet(<<>>)) = 0
  <2>1. ToSet(<<>>) = {}
    BY DEF ToSet
  <2>2. Ascends(<<>>) /\ Apart(<<>>)
    BY DEF Ascends, Apart
  <2> QED
    BY <2>1, <2>2, FS_EmptySet
<1> QED
  BY <1>2, <1>6, <1>7, <1>8, ReferenceMet

LEMMA CompleteStep ==
  ASSUME Inv, OrderInv, [Next]_vars
  PROVE  CompleteIsExact'
<1> SUFFICES ASSUME outcome' = "complete"
             PROVE  /\ delivered' = Promise!Reference(input, duplicates)'
                    /\ statistics' = Promise!ReferenceStatistics(input)'
  BY DEF CompleteIsExact
<1> USE DEF quiet, result, fill, write, merge, disk, counters
<1>1. Going => outcome = "none"
  BY DEF OrderInv, FillFrame
<1>2. ASSUME UNCHANGED <<input, duplicates, delivered>>,
             delivered = Promise!Reference(input, duplicates),
             statistics' = Promise!ReferenceStatistics(input)
      PROVE  /\ delivered' = Promise!Reference(input, duplicates)'
             /\ statistics' = Promise!ReferenceStatistics(input)'
  BY <1>2
<1>3. CASE UNCHANGED <<input, duplicates, delivered, statistics, outcome>>
  <2>1. /\ delivered = Promise!Reference(input, duplicates)
        /\ statistics = Promise!ReferenceStatistics(input)
    BY <1>3 DEF OrderInv, CompleteIsExact
  <2> QED
    BY <1>2, <1>3, <2>1
<1>4. CASE Complete
  <2>1. UNCHANGED <<input, duplicates, delivered>> /\ statistics' = <<raw_count, distinct_count>>
    BY <1>4 DEF Complete
  <2> QED
    BY <1>2, <1>4, <2>1, DrainExact
<1>5. CASE SourceExhausted
  <2>1. /\ pc = "fill" /\ raw_count = Len(input) /\ UNCHANGED <<input, duplicates, delivered>>
        /\ outcome' = outcome \/ (buffer = <<>> /\ current = <<>> /\ statistics' = <<0, 0>>)
    BY <1>5 DEF SourceExhausted
  <2>2. outcome' # outcome
    BY <1>1, <2>1 DEF Going
  <2> QED
    BY <1>2, <2>1, <2>2, EmptyExact
<1>6. CASE Going /\ outcome' = outcome
  BY <1>1, <1>6
<1>7. CASE Start \/ Close
  BY <1>1, <1>7 DEF Start, Close, Raise, Going
<1>8. CASE ReadFails \/ ReadCancelled \/ CreateFails \/ WriteFails \/ WriteCancelled
           \/ OpenFails \/ SuccessorFails \/ DrainCancelled
  BY <1>8 DEF ReadFails, ReadCancelled, CreateFails, WriteFails, WriteCancelled, OpenFails,
     SuccessorFails, DrainCancelled, RaiseResource, RaiseCancelled, Raise
<1>9. CASE ReadEdge \/ CreateRun \/ WriteRecord \/ SkipRecord \/ FinishRun \/ OpenReader
           \/ Successor \/ StartPass \/ NextGroup \/ EndPass \/ DeleteInput \/ StartDrain
           \/ Deliver \/ Resume
  <2>1. outcome' = outcome /\ Going
    BY <1>9 DEF ReadEdge, CreateRun, WriteRecord, SkipRecord, FinishRun, OpenReader,
       Successor, StartPass, NextGroup, EndPass, DeleteInput, StartDrain, Deliver, Resume, Going
  <2> QED
    BY <1>6, <2>1
<1>10. CASE Cleanup \/ Environment \/ Exited \/ UNCHANGED vars
  <2>1. UNCHANGED <<input, duplicates, delivered, statistics, outcome>>
    BY <1>10 DEF Cleanup, Environment, CancelToken, Damage, Collect, AtExit, Exited, vars
  <2> QED
    BY <1>3, <2>1
<1> QED
  BY <1>4, <1>5, <1>7, <1>8, <1>9, <1>10 DEF Next, Generator

-----------------------------------------------------------------------------
(* The theorem                                                             *)

LEMMA OrderInitially == Init => OrderInv
<1> SUFFICES ASSUME Init PROVE OrderInv
  OBVIOUS
<1>1. /\ pc = "new" /\ outcome = "none" /\ ~Merging /\ ~Final /\ Going
      /\ current = <<>> /\ following = <<>> /\ group = <<>> /\ writing = 0
      /\ buffer = <<>> /\ todo = <<>> /\ digest = <<>> /\ delivered = <<>>
      /\ raw_count = 0 /\ distinct_count = 0
  BY DEF Init, Merging, Final, Going
<1>2. ToSet(<<>>) = {} /\ Ascends(<<>>) /\ Apart(<<>>) /\ Len(<<>>) = 0
  BY DEF ToSet, Ascends, Apart
<1>3. Live = {}
  BY <1>1, <1>2 DEF Live
<1>4. RunsFrame /\ FillFrame
  BY <1>1, <1>2, <1>3 DEF RunsFrame, FillFrame
<1>5. Content
  <2>1. DOMAIN Heads = {}
    BY <1>3 DEF Heads
  <2> HIDE DEF Heads
  <2> SUFFICES ASSUME NEW e \in Edges
               PROVE  Alike(Occurrences(e, SubSeq(input, 1, raw_count)), Held(e) + Tally(Heads, e))
    BY DEF Content
  <2>2. Held(e) = 0 /\ Tally(Heads, e) = 0
    BY <1>1, <2>1, OccursEmpty, TallyNone DEF Held
  <2>3. SubSeq(input, 1, raw_count) = <<>>
    BY <1>1, SubSeqEmpty
  <2>4. Held(e) + Tally(Heads, e) = 0
    BY <2>2
  <2>5. Occurrences(e, SubSeq(input, 1, raw_count)) = 0
    BY <2>3, OccursEmpty
  <2> QED
    BY <2>4, <2>5 DEF Alike
<1>6. RunsOrder
  BY <1>1, <1>2, <1>3 DEF RunsOrder
<1> QED
  BY <1>1, <1>4, <1>5, <1>6 DEF OrderInv, HeapFrame, MergeContent, MergeOrder, CompleteIsExact

LEMMA OrderInductive == Inv /\ OrderInv /\ [Next]_vars => OrderInv'
<1> SUFFICES ASSUME Inv, OrderInv, [Next]_vars PROVE OrderInv'
  OBVIOUS
<1>1. CompleteIsExact'
  BY CompleteStep
<1>2. CASE ~Going'
  <2>1. ~Merging'
    BY <1>2 DEF Merging, Going
  <2> QED
    BY <1>1, <1>2, <2>1 DEF OrderInv, RunsFrame, FillFrame, Content, RunsOrder, HeapFrame,
       MergeContent, MergeOrder
<1>3. CASE Going'
  <2>1. Going /\ Continues /\ RunsFrame /\ FillFrame
    BY <1>3, GoingSteps DEF OrderInv
  <2>2. RunsFrame' /\ FillFrame'
    BY <1>3, <2>1, RunsFrameStep, FillFrameStep
  <2>3. Content' /\ RunsOrder'
    BY <1>3, <2>1, ContentStep, RunsOrderStep
  <2>4. HeapFrame' /\ MergeContent' /\ MergeOrder'
    <3>1. CASE ~Merging'
      BY <3>1 DEF HeapFrame, MergeContent, MergeOrder
    <3>2. CASE Merging'
      <4>1. Enters \/ Stays \/ Takes \/ (Merging /\ OpenReader) \/ (Merging /\ Successor)
        BY <1>3, <2>1, <3>2, MergingSteps
      <4>2. LiveKept
        <5>1. ~FinishRun
          BY <3>2 DEF FinishRun, Merging
        <5> QED
          BY <1>3, <2>1, <5>1, LiveStep
      <4> QED
        BY <2>1, <4>1, <4>2, EnterStep, StayStep, TakeStep, OpenStep, SuccessorStep
    <3> QED
      BY <3>1, <3>2
  <2> QED
    BY <1>1, <2>2, <2>3, <2>4 DEF OrderInv
<1> QED
  BY <1>2, <1>3

\* A stream that completes normally was exact (CompleteIsExact): the consumer of
\* _iter_canonical has received the sorted, and where asked coalesced, edges of the compiler,
\* and the statistics are theirs.  It is so whatever the buffer, the fan-in and the number of
\* passes, and although runs may be damaged while they are read: _RunReader compares the
\* digest of what it read before the merge can end.
THEOREM CompletesExact == Spec => []CompleteIsExact
<1>1. Init => OrderInv
  BY OrderInitially
<1>2. Inv /\ OrderInv /\ [Next]_vars => OrderInv'
  BY OrderInductive
<1>3. OrderInv => CompleteIsExact
  BY DEF OrderInv
<1> QED
  BY <1>1, <1>2, <1>3, Invariance, PTL DEF Spec

-----------------------------------------------------------------------------
(* Without damage every delivered edge is the next of the reference        *)

\* The start of a sequence.
Starts(s, t) == Len(s) <= Len(t) /\ \A i \in 1..Len(s) : s[i] = t[i]

\* Nothing changed a run behind the merge's back: a live run holds what its header vouches
\* for, the run being written what was passed to it, a reader has seen the start of its run.
Faithful ==
  Going =>
    /\ \A f \in Live : files[f].data = files[f].head
    /\ writing # 0 => files[writing].data = digest
    /\ Merging => \A j \in 1..Len(readers) : Starts(readers[j].seen, files[group[j]].head)

\* An ascending sequence starts another if that has the same elements, apart from some
\* that come no earlier than what the first already has.
LEMMA StartsByCounts ==
  ASSUME NEW s \in Seq(Nat), NEW t \in Seq(Nat), Ascends(s), Ascends(t),
         \A e \in Nat : /\ Occurrences(e, s) <= Occurrences(e, t)
                        /\ Occurrences(e, s) # Occurrences(e, t) =>
                             \A i \in 1..Len(s) : s[i] <= e
  PROVE  Starts(s, t)
<1> DEFINE T == { k \in 1..Len(s) : k > Len(t) \/ s[k] # t[k] }
<1>1. Len(s) \in Nat /\ Len(t) \in Nat /\ DOMAIN s = 1..Len(s) /\ DOMAIN t = 1..Len(t)
  OBVIOUS
<1>2. ASSUME T = {} PROVE Starts(s, t)
  <2>1. ASSUME NEW k \in 1..Len(s) PROVE k <= Len(t) /\ s[k] = t[k]
    <3>1. k \notin T /\ k \in Nat
      BY <1>2
    <3> QED
      BY <1>1, <3>1
  <2>2. Len(s) = 0 \/ Len(s) \in 1..Len(s)
    BY <1>1
  <2> QED
    BY <1>1, <2>1, <2>2 DEF Starts
<1>3. ASSUME T # {} PROVE FALSE
  <2>1. T \in SUBSET Nat
    OBVIOUS
  <2> HIDE DEF T
  <2>2. PICK k \in T : \A c \in T : k <= c
    BY <1>3, <2>1, NatMinimum
  <2>3. k \in 1..Len(s) /\ k \in Nat /\ (k > Len(t) \/ s[k] # t[k])
    BY <2>2 DEF T
  <2>4. \A i \in 1..Len(s) : i < k => i <= Len(t) /\ s[i] = t[i]
    <3> SUFFICES ASSUME NEW i \in 1..Len(s), i < k PROVE i <= Len(t) /\ s[i] = t[i]
      OBVIOUS
    <3>1. i \notin T /\ i \in Nat
      BY <2>2, <2>3
    <3> QED
      BY <1>1, <3>1 DEF T
  \* The element at place k of one of them is there once more than in the other.
  <2>5. ASSUME NEW u \in Seq(Nat), NEW v \in Seq(Nat), NEW e, k \in 1..Len(v), v[k] = e,
               \A i \in 1..Len(u) : u[i] = e => i # k /\ i \in 1..Len(v) /\ v[i] = e
        PROVE  Occurrences(e, u) < Occurrences(e, v)
    <3> DEFINE A == { i \in DOMAIN u : u[i] = e }
               B == { i \in DOMAIN v : v[i] = e }
    <3>1. k \in B /\ A \subseteq B \ {k} /\ B \subseteq 1..Len(v) /\ Len(v) \in Nat
      BY <2>5
    <3>2. Occurrences(e, u) = Cardinality(A) /\ Occurrences(e, v) = Cardinality(B)
      BY DEF Occurrences
    <3> HIDE DEF A, B
    <3>3. IsFiniteSet(B)
      BY <3>1, PlacesFinite
    <3>4. IsFiniteSet(B \ {k}) /\ Cardinality(B \ {k}) = Cardinality(B) - 1
      BY <3>1, <3>3, FS_RemoveElement
    <3>5. Cardinality(A) <= Cardinality(B \ {k})
      BY <3>1, <3>4, FS_Subset
    <3>6. Cardinality(A) \in Nat /\ Cardinality(B) \in Nat
      BY <3>2, OccursNat
    <3> QED
      BY <3>2, <3>4, <3>5, <3>6
  <2>6. ASSUME NEW e \in Nat
        PROVE  /\ Occurrences(e, s) \in Nat /\ Occurrences(e, t) \in Nat
               /\ Occurrences(e, s) <= Occurrences(e, t)
               /\ Occurrences(e, s) < Occurrences(e, t) => \A i \in 1..Len(s) : s[i] <= e
    <3>1. Occurrences(e, s) \in Nat /\ Occurrences(e, t) \in Nat
      BY OccursNat
    <3>2. Occurrences(e, s) <= Occurrences(e, t)
      OBVIOUS
    <3>3. ASSUME Occurrences(e, s) < Occurrences(e, t), NEW i \in 1..Len(s)
          PROVE  s[i] <= e
      <4>1. Occurrences(e, s) # Occurrences(e, t)
        BY <3>1, <3>3
      <4> QED
        BY <3>3, <4>1
    <3> QED
      BY <3>1, <3>2, <3>3
  <2>7. PICK a \in Nat : a = s[k]
    BY <2>3
  \* s has no element that t lacks, ...
  <2>8. k <= Len(t) /\ t[k] <= a
    <3> SUFFICES ASSUME k <= Len(t) => a < t[k] PROVE FALSE
      <4>1. k <= Len(t) => t[k] \in Nat
        BY <1>1, <2>3
      <4> QED
        BY <1>1, <2>3, <4>1
    <3>1. \A i \in 1..Len(t) : t[i] = a => i < k
      <4> SUFFICES ASSUME NEW i \in 1..Len(t), t[i] = a, k <= i PROVE FALSE
        BY <1>1, <2>3
      <4>1. k \in 1..Len(t) /\ (k = i \/ k < i)
        BY <1>1, <2>3
      <4>2. t[k] <= t[i] /\ t[k] \in Nat
        BY <4>1 DEF Ascends
      <4>3. a < t[k]
        BY <4>1
      <4> QED
        BY <4>2, <4>3
    <3>2. ASSUME NEW i \in 1..Len(t), t[i] = a PROVE i # k /\ i \in 1..Len(s) /\ s[i] = a
      <4>1. i < k
        BY <3>1, <3>2
      <4>2. i \in 1..Len(s) /\ i # k
        BY <1>1, <2>3, <4>1
      <4> QED
        BY <2>4, <3>2, <4>1, <4>2
    <3>3. Occurrences(a, t) < Occurrences(a, s)
      BY <2>3, <2>5, <2>7, <3>2
    <3>4. Occurrences(a, s) <= Occurrences(a, t) /\ Occurrences(a, s) \in Nat /\ Occurrences(a, t) \in Nat
      BY <2>6
    <3> QED
      BY <3>3, <3>4
  <2>9. PICK b \in Nat : b = t[k] /\ k \in 1..Len(t) /\ b < a
    <3>1. k \in 1..Len(t)
      BY <1>1, <2>3, <2>8
    <3>2. t[k] \in Nat
      BY <3>1
    <3> QED
      BY <2>3, <2>7, <2>8, <3>1, <3>2
  \* ... and what it lacks comes no earlier.
  <2>10. ASSUME NEW i \in 1..Len(s), s[i] = b PROVE i # k /\ i \in 1..Len(t) /\ t[i] = b
    <3>1. ~(k < i)
      <4> SUFFICES ASSUME k < i PROVE FALSE
        OBVIOUS
      <4>1. a <= s[i]
        BY <2>3, <2>7 DEF Ascends
      <4> QED
        BY <2>9, <2>10, <4>1
    <3>2. i # k
      BY <2>7, <2>9, <2>10
    <3>3. i < k
      BY <1>1, <2>3, <3>1, <3>2
    <3>4. i <= Len(t) /\ s[i] = t[i]
      BY <2>4, <3>3
    <3> QED
      BY <1>1, <2>10, <3>2, <3>4
  <2>11. Occurrences(b, s) < Occurrences(b, t)
    BY <2>5, <2>9, <2>10
  <2>12. a <= b
    BY <2>3, <2>6, <2>7, <2>11
  <2> QED
    BY <2>9, <2>12
<1> QED
  BY <1>2, <1>3

\* The reference result ascends, with the edges of the input.
LEMMA ReferenceSorted ==
  ASSUME Inv
  PROVE  LET R == Promise!Reference(input, duplicates)
         IN  /\ R \in Seq(Nat) /\ Ascends(R)
             /\ duplicates = "preserve" => SameBag(R, input)
             /\ duplicates = "unique" =>
                  Apart(R) /\ \A e \in Nat : Occurrences(e, R) = 0 <=> Occurrences(e, input) = 0
<1>1. input \in Seq(Nat) /\ duplicates \in {"preserve", "unique"}
  BY Sequences, Counts
<1>2. CASE duplicates = "preserve"
  <2>1. Promise!Reference(input, duplicates) = Sorted(input)
    BY <1>2, PromiseSorted DEF Promise!Reference
  <2>2. Sorted(input) \in Seq(Nat) /\ Ascends(Sorted(input)) /\ SameBag(Sorted(input), input)
    BY <1>1, SortedBag
  <2> QED
    BY <1>2, <2>1, <2>2
<1>3. CASE duplicates = "unique"
  <2> DEFINE f == Promise!FirstEncounters(input)
  <2>1. /\ f \in Seq(Nat) /\ Apart(f)
        /\ \A e \in Nat : Occurrences(e, f) = 0 <=> Occurrences(e, input) = 0
    BY <1>1, FirstsSame
  <2>2. Promise!Reference(input, duplicates) = Sorted(f)
    BY <1>3, PromiseSorted DEF Promise!Reference
  <2> HIDE DEF f
  <2>3. Sorted(f) \in Seq(Nat) /\ Ascends(Sorted(f)) /\ SameBag(Sorted(f), f)
    BY <2>1, SortedBag
  <2>4. Apart(Sorted(f))
    BY <2>1, <2>3, ApartCounts DEF SameBag
  <2>5. \A e \in Nat : Occurrences(e, Sorted(f)) = 0 <=> Occurrences(e, input) = 0
    BY <2>1, <2>3 DEF SameBag
  <2> QED
    BY <1>3, <2>2, <2>3, <2>4, <2>5
<1> QED
  BY <1>1, <1>2, <1>3

\* In the final merge the live runs are those of the group.
LEMMA FinalHeads ==
  ASSUME Inv, OrderInv, pc \in {"drain", "yield"}
  PROVE  /\ Heads = GroupHeads /\ raw_count = Len(input)
         /\ \A e : Held(e) = 0
<1>1. Going /\ Final /\ RunsFrame /\ FillFrame
  BY DEF Going, Final, OrderInv
<1>2. /\ raw_count = Len(input) /\ buffer = <<>> /\ todo = <<>> /\ digest = <<>>
      /\ group = current /\ following = <<>>
  BY <1>1 DEF FillFrame, RunsFrame
<1>3. ToSet(following) = {}
  BY <1>2 DEF ToSet
<1>4. Live = ToSet(group)
  BY <1>2, <1>3 DEF Live
<1>5. Heads = GroupHeads
  BY <1>4 DEF Heads, GroupHeads
<1>6. ASSUME NEW e PROVE Held(e) = 0
  BY <1>2, OccursEmpty DEF Held
<1> QED
  BY <1>2, <1>5, <1>6

\* What the runs of the group hold, reader by reader.
Wholes == [ j \in 1..Len(readers) |-> files[group[j]].head ]

\* What the readers of a faithful merge have passed on is the start of it.
LEMMA WholesFamily ==
  ASSUME Inv, OrderInv, Faithful, pc \in {"drain", "yield"}
  PROVE  /\ DOMAIN Wholes = 1..Len(readers) /\ Family(Wholes, Edges)
         /\ \A j \in 1..Len(readers) :
              /\ Wholes[j] = files[group[j]].head /\ Wholes[j] \in Seq(Edges)
              /\ Ascends(Wholes[j]) /\ Starts(readers[j].seen, Wholes[j])
         /\ Trusted
         /\ \A e : Tally(Wholes, e) = Tally(Heads, e)
<1>1. /\ Going /\ Merging /\ RunsFrame /\ HeapFrame /\ RunsOrder
      /\ Len(readers) = Len(group) /\ group \in Seq(Nat)
      /\ DOMAIN group = 1..Len(group) /\ Len(group) \in Nat
  BY Sequences DEF Going, Merging, OrderInv, HeapFrame
<1>2. DOMAIN Wholes = 1..Len(readers)
      /\ \A j \in 1..Len(readers) : Wholes[j] = files[group[j]].head
  BY DEF Wholes
<1>3. \A j \in 1..Len(readers) : group[j] \in ToSet(group) /\ group[j] \in Live
  <2>1. \A f \in ToSet(group) : f \in Live
    BY <1>1 DEF Live, Merging
  <2> QED
    BY <1>1, <2>1, RunsOf
<1> HIDE DEF Wholes
<1>4. ASSUME NEW j \in 1..Len(readers)
      PROVE  /\ Wholes[j] \in Seq(Edges) /\ Ascends(Wholes[j])
             /\ Starts(readers[j].seen, Wholes[j])
  <2>1. Wholes[j] \in Seq(Edges)
    BY <1>1, <1>2, <1>3, HeadsFamily
  <2>2. Ascends(Wholes[j])
    BY <1>1, <1>2, <1>3 DEF RunsOrder
  <2>3. Starts(readers[j].seen, Wholes[j])
    BY <1>1, <1>2 DEF Faithful
  <2> QED
    BY <2>1, <2>2, <2>3
<1>5. Family(Wholes, Edges)
  <2>1. IsFiniteSet(1..Len(readers))
    BY <1>1, PlacesFinite
  <2> QED
    BY <1>2, <1>4, <2>1 DEF Family
<1>6. Trusted
  <2> SUFFICES ASSUME NEW j \in 1..Len(readers) PROVE Ascends(readers[j].seen)
    BY DEF Trusted
  <2>1. Len(readers[j].seen) \in Nat /\ Len(Wholes[j]) \in Nat
    BY <1>4, ReadersType
  <2>2. \A i \in 1..Len(readers[j].seen) :
          i \in 1..Len(Wholes[j]) /\ readers[j].seen[i] = Wholes[j][i]
    BY <1>4, <2>1 DEF Starts
  <2> QED
    BY <1>4, <2>2 DEF Ascends
<1>7. Renames(group, Wholes, GroupHeads)
  <2>1. DOMAIN GroupHeads = ToSet(group) /\ \A f \in ToSet(group) : GroupHeads[f] = files[f].head
    BY DEF GroupHeads
  <2> HIDE DEF GroupHeads
  <2>2. \A j \in 1..Len(group) : group[j] \in DOMAIN GroupHeads /\ GroupHeads[group[j]] = Wholes[j]
    BY <1>1, <1>2, <1>3, <2>1
  <2>3. \A i, j \in 1..Len(group) : group[i] = group[j] => i = j
    BY <1>1 DEF RunsFrame, Apart
  <2>4. \A x \in ToSet(group) : \E j \in 1..Len(group) : group[j] = x
    BY <1>1 DEF ToSet
  <2> QED
    BY <1>1, <1>2, <2>1, <2>2, <2>3, <2>4 DEF Renames
<1>8. ASSUME NEW e PROVE Tally(Wholes, e) = Tally(Heads, e)
  <2>1. Heads = GroupHeads
    BY FinalHeads
  <2> HIDE DEF Heads, GroupHeads
  <2>2. Tally(GroupHeads, e) = Tally(Wholes, e)
    BY <1>5, <1>7, TallyRenamed
  <2> QED
    BY <2>1, <2>2
<1> QED
  BY <1>2, <1>4, <1>5, <1>6, <1>8

\* An edge that is still to come is not less than any that was delivered.
LEMMA StillToCome ==
  ASSUME Inv, OrderInv, Faithful, pc \in {"drain", "yield"}, NEW e
  PROVE  /\ Tally(Taken, e) \in Nat /\ Tally(Heads, e) \in Nat
         /\ Tally(Taken, e) <= Tally(Heads, e)
         /\ Tally(Taken, e) # Tally(Heads, e) => \A i \in 1..Len(delivered) : delivered[i] <= e
<1>1. Merging /\ HeapFrame /\ MergeOrder /\ Out = delivered /\ owed \in Nat
  BY ReadersType DEF Merging, OrderInv, Out
<1>2. /\ DOMAIN Wholes = 1..Len(readers) /\ Family(Wholes, Edges) /\ Trusted
      /\ Tally(Wholes, e) = Tally(Heads, e)
  BY WholesFamily
<1>3. /\ Family(Taken, Edges) /\ DOMAIN Taken = 1..Len(readers)
  BY <1>1, TakenFamily
<1> HIDE DEF Wholes, Taken, Heads
<1>4. ASSUME NEW j \in 1..Len(readers)
      PROVE  /\ Passed(j) \in Nat /\ Passed(j) <= Len(Wholes[j]) /\ Len(Wholes[j]) \in Nat
             /\ Len(Taken[j]) = Passed(j)
             /\ \A i \in 1..Passed(j) : Taken[j][i] = Wholes[j][i]
  <2>1. /\ Taken[j] = SubSeq(readers[j].seen, 1, Passed(j)) /\ readers[j].seen \in Seq(Edges)
        /\ Passed(j) \in 0..Len(readers[j].seen) /\ Len(readers[j].seen) \in Nat
    BY <1>1, TakenFamily, ReadersType
  <2>2. Wholes[j] \in Seq(Edges) /\ Starts(readers[j].seen, Wholes[j])
    BY WholesFamily
  <2>3. Passed(j) <= Len(Wholes[j]) /\ Len(Wholes[j]) \in Nat
        /\ \A i \in 1..Passed(j) : readers[j].seen[i] = Wholes[j][i]
    BY <2>1, <2>2 DEF Starts
  <2>4. Len(Taken[j]) = Passed(j) /\ \A i \in 1..Passed(j) : Taken[j][i] = readers[j].seen[i]
    BY <2>1
  <2> QED
    BY <2>1, <2>3, <2>4
<1>5. Spots(Taken, e) \subseteq Spots(Wholes, e)
  <2> SUFFICES ASSUME NEW p \in Spots(Taken, e) PROVE p \in Spots(Wholes, e)
    OBVIOUS
  <2>1. PICK j, i : j = p[1] /\ i = p[2]
    OBVIOUS
  <2>2. p = <<j, i>> /\ j \in 1..Len(readers) /\ i \in 1..Len(Taken[j]) /\ Taken[j][i] = e
    BY <1>3, <2>1, SpotsMember
  <2>3. i \in 1..Len(Wholes[j]) /\ Wholes[j][i] = e
    BY <1>4, <2>2
  <2> QED
    BY <1>2, <2>2, <2>3, SpotsMember
<1>6. /\ IsFiniteSet(Spots(Wholes, e)) /\ Tally(Wholes, e) \in Nat /\ Tally(Taken, e) \in Nat
      /\ Tally(Taken, e) = Cardinality(Spots(Taken, e))
      /\ Tally(Wholes, e) = Cardinality(Spots(Wholes, e))
  BY <1>2, <1>3, TallyNat DEF Tally
<1>7. Tally(Taken, e) <= Tally(Wholes, e)
  <2> HIDE DEF Spots
  <2> QED
    BY <1>5, <1>6, FS_Subset
<1>8. ASSUME Tally(Taken, e) # Tally(Wholes, e), NEW m \in 1..Len(delivered)
      PROVE  delivered[m] <= e
  <2>1. PICK p \in Spots(Wholes, e) : p \notin Spots(Taken, e)
    <3> SUFFICES ASSUME \A p \in Spots(Wholes, e) : p \in Spots(Taken, e) PROVE FALSE
      OBVIOUS
    <3> HIDE DEF Spots
    <3>1. Spots(Wholes, e) = Spots(Taken, e)
      BY <1>5
    <3> QED
      BY <1>6, <1>8, <3>1
  <2>2. PICK j, i : j = p[1] /\ i = p[2]
    OBVIOUS
  <2>3. p = <<j, i>> /\ j \in 1..Len(readers) /\ i \in 1..Len(Wholes[j]) /\ Wholes[j][i] = e
    BY <1>2, <2>1, <2>2, SpotsMember
  <2>4. ~(i \in 1..Len(Taken[j]) /\ Taken[j][i] = e)
    BY <1>3, <2>1, <2>3, SpotsMember
  <2>5. Passed(j) < i /\ i \in Nat
    BY <1>4, <2>3, <2>4
  <2>6. /\ readers[j].seen \in Seq(Edges) /\ readers[j].seen \in Seq(Nat)
        /\ Len(readers[j].seen) \in Nat /\ Len(readers[j].seen) > 0
    BY <1>1, <2>3, ReadersType DEF HeapFrame
  <2>7. /\ Wholes[j] = files[group[j]].head /\ Wholes[j] \in Seq(Edges) /\ Ascends(Wholes[j])
        /\ Starts(readers[j].seen, Wholes[j])
    BY <2>3, WholesFamily
  <2>8. delivered[m] \in Nat /\ Latest(j) \in Nat /\ e \in Nat
    <3>1. delivered[m] \in Nat
      BY Sequences
    <3>2. Latest(j) \in Nat
      BY <2>6 DEF Latest
    <3>3. e \in Nat
      <4>1. Wholes[j][i] \in Edges
        BY <2>3, <2>7
      <4> QED
        BY <2>3, <4>1, Sequences
    <3> QED
      BY <3>1, <3>2, <3>3
  <2>9. ~Waiting(j) => owed = j
    <3> SUFFICES ASSUME ~Waiting(j), owed # j PROVE FALSE
      OBVIOUS
    <3>1. readers[j].seen = Wholes[j]
      BY <1>1, <2>3, <2>7 DEF HeapFrame
    <3>2. Passed(j) = Len(readers[j].seen)
      BY DEF Passed
    <3> QED
      BY <2>3, <2>5, <2>6, <3>1, <3>2
  <2>10. delivered[m] <= Latest(j)
    <3>1. CASE Waiting(j)
      <4>1. PICK x \in heap : x[2] = j
        BY <3>1 DEF Waiting
      <4>2. x[1] = Latest(j)
        BY <1>1, <4>1 DEF HeapFrame
      <4>3. delivered[m] <= x[1]
        BY <1>1, <1>2, <4>1 DEF MergeOrder
      <4> QED
        BY <4>2, <4>3
    <3>2. CASE ~Waiting(j)
      <4>1. owed = j /\ owed # 0
        BY <2>3, <2>9, <3>2
      <4>2. delivered[m] <= Latest(owed)
        BY <1>1, <1>2, <4>1 DEF MergeOrder
      <4> QED
        BY <4>1, <4>2
    <3> QED
      BY <3>1, <3>2
  <2>11. Latest(j) <= e
    <3>1. PICK n : n = Len(readers[j].seen)
      OBVIOUS
    <3>2. n \in 1..Len(Wholes[j]) /\ Latest(j) = Wholes[j][n]
      <4>1. n \in 1..n /\ n \in Nat /\ Latest(j) = readers[j].seen[n]
        BY <2>6, <3>1 DEF Latest
      <4>2. n <= Len(Wholes[j]) /\ \A l \in 1..n : readers[j].seen[l] = Wholes[j][l]
        BY <2>7, <3>1 DEF Starts
      <4>3. Len(Wholes[j]) \in Nat
        BY <2>7
      <4> QED
        BY <4>1, <4>2, <4>3
    <3>3. n <= i
      <4>1. n - 1 <= Passed(j) /\ Passed(j) \in Nat
        BY <1>4, <2>3, <2>6, <3>1 DEF Passed
      <4> QED
        BY <2>5, <2>6, <3>1, <4>1
    <3>4. CASE n = i
      BY <2>3, <2>8, <3>2, <3>4
    <3>5. CASE n < i
      <4>1. Wholes[j][n] <= Wholes[j][i]
        BY <2>3, <2>7, <3>2, <3>5 DEF Ascends
      <4> QED
        BY <2>3, <3>2, <4>1
    <3> QED
      BY <2>5, <2>6, <3>1, <3>3, <3>4, <3>5
  <2> QED
    BY <2>8, <2>10, <2>11
<1> QED
  BY <1>2, <1>6, <1>7, <1>8

\* What was delivered is the start of the reference result.
InStep ==
  pc \in {"drain", "yield"} => Starts(delivered, Promise!Reference(input, duplicates))

LEMMA DeliveredStarts ==
  ASSUME Inv, OrderInv, Faithful
  PROVE  InStep
<1> SUFFICES ASSUME pc \in {"drain", "yield"}
             PROVE  Starts(delivered, Promise!Reference(input, duplicates))
  BY DEF InStep
<1> DEFINE R == Promise!Reference(input, duplicates)
<1>1. /\ R \in Seq(Nat) /\ Ascends(R)
      /\ duplicates = "preserve" => SameBag(R, input)
      /\ duplicates = "unique" =>
           Apart(R) /\ \A e \in Nat : Occurrences(e, R) = 0 <=> Occurrences(e, input) = 0
  BY ReferenceSorted
<1> HIDE DEF R
<1>2. /\ input \in Seq(Edges) /\ delivered \in Seq(Edges) /\ delivered \in Seq(Nat)
      /\ Edges \subseteq Nat /\ duplicates \in {"preserve", "unique"}
  BY Sequences, Counts
<1>3. /\ Ascends(delivered) /\ (duplicates = "unique" => Apart(delivered))
  <2>1. Merging /\ MergeOrder /\ Out = delivered /\ Trusted
    BY WholesFamily DEF Merging, OrderInv, Out
  <2> QED
    BY <2>1 DEF MergeOrder
<1>4. ASSUME NEW e \in Edges
      PROVE  /\ Alike(Occurrences(e, input), Tally(Heads, e))
             /\ Alike(Tally(Taken, e), Occurrences(e, delivered))
  <2>1. Going /\ Content /\ Merging /\ MergeContent /\ Out = delivered
    BY DEF Going, Merging, OrderInv, Out
  <2>2. Held(e) = 0 /\ SubSeq(input, 1, raw_count) = input
    BY <1>2, FinalHeads, SubSeqFull
  <2>3. Alike(Occurrences(e, SubSeq(input, 1, raw_count)), Held(e) + Tally(Heads, e))
    BY <2>1 DEF Content
  <2>4. Tally(Heads, e) \in Nat
    BY StillToCome
  <2>5. Held(e) + Tally(Heads, e) = Tally(Heads, e)
    BY <2>2, <2>4
  <2>6. Alike(Tally(Taken, e), Occurrences(e, delivered))
    BY <2>1 DEF MergeContent
  <2> QED
    BY <2>2, <2>3, <2>5, <2>6
<1>5. ASSUME NEW e \in Nat
      PROVE  /\ Occurrences(e, delivered) <= Occurrences(e, R)
             /\ Occurrences(e, delivered) # Occurrences(e, R) =>
                  \A i \in 1..Len(delivered) : delivered[i] <= e
  <2>1. /\ Occurrences(e, delivered) \in Nat /\ Occurrences(e, R) \in Nat
        /\ Occurrences(e, input) \in Nat
    BY <1>1, <1>2, OccursNat
  <2>2. CASE e \notin Edges
    <3>1. (\A i \in 1..Len(input) : input[i] # e) /\ \A i \in 1..Len(delivered) : delivered[i] # e
      BY <1>2, <2>2
    <3>2. Occurrences(e, input) = 0 /\ Occurrences(e, delivered) = 0
      BY <1>2, <3>1, OccursNat
    <3>3. Occurrences(e, R) = 0
      BY <1>1, <1>2, <3>2 DEF SameBag
    <3> QED
      BY <3>2, <3>3
  <2>3. CASE e \in Edges
    <3>1. PICK m, n : m = Tally(Taken, e) /\ n = Tally(Heads, e)
      OBVIOUS
    <3>2. /\ Alike(Occurrences(e, input), n) /\ Alike(m, Occurrences(e, delivered))
          /\ m \in Nat /\ n \in Nat /\ m <= n
          /\ m # n => \A i \in 1..Len(delivered) : delivered[i] <= e
      BY <1>4, <2>3, <3>1, StillToCome
    <3>3. CASE duplicates = "preserve"
      <4>1. Occurrences(e, R) = n /\ Occurrences(e, delivered) = m
        BY <1>1, <3>2, <3>3 DEF Alike, SameBag
      <4> QED
        BY <3>2, <4>1
    <3>4. CASE duplicates = "unique"
      <4>1. Occurrences(e, R) <= 1 /\ Occurrences(e, delivered) <= 1
        BY <1>1, <1>2, <1>3, <3>4, ApartCounts
      <4>2. (Occurrences(e, R) = 0 <=> n = 0) /\ (m = 0 <=> Occurrences(e, delivered) = 0)
        BY <1>1, <3>2, <3>4 DEF Alike
      <4>3. Occurrences(e, delivered) <= Occurrences(e, R)
        BY <2>1, <3>2, <4>1, <4>2
      <4>4. Occurrences(e, delivered) # Occurrences(e, R) => m # n
        BY <2>1, <4>1, <4>2
      <4> QED
        BY <3>2, <4>3, <4>4
    <3> QED
      BY <1>2, <3>3, <3>4
  <2> QED
    BY <2>2, <2>3
<1>6. Starts(delivered, R)
  BY <1>1, <1>2, <1>3, <1>5, StartsByCounts
<1> QED
  BY <1>6 DEF R

-----------------------------------------------------------------------------
(* Without damage every merge is faithful                                  *)

\* What a live run holds stays with it.
LEMMA DataStep ==
  ASSUME MaxDamage = 0, Inv, RunsFrame, Going, Going', Continues, ~FinishRun
  PROVE  \A f \in Live : files'[f].data = files[f].data
<1> SUFFICES ASSUME NEW f \in Live PROVE files'[f].data = files[f].data
  OBVIOUS
<1>1. /\ f \in DOMAIN files /\ f \in 1..runs_created /\ runs_created \in Nat /\ group \in Seq(Nat)
      /\ writing # 0 => writing = runs_created + 1
  BY Sequences DEF RunsFrame
<1> USE DEF quiet, result, fill, write, merge, bytes, disk, counters
<1>2. CASE Start \/ ReadEdge \/ SourceExhausted \/ SkipRecord \/ OpenReader \/ Successor
           \/ StartPass \/ NextGroup \/ EndPass \/ StartDrain \/ Deliver \/ Resume
           \/ CancelToken \/ UNCHANGED vars
  <2>1. UNCHANGED files
    BY <1>2 DEF Start, ReadEdge, SourceExhausted, SkipRecord, OpenReader, Successor, StartPass,
       NextGroup, EndPass, StartDrain, Deliver, Resume, CancelToken, vars
  <2> QED
    BY <2>1
<1>3. CASE Damage
  BY <1>3 DEF Damage, Inv, TypeOK, EnvironmentType
<1>4. CASE CreateRun
  <2>1. files' = With(files, runs_created + 1, File(<<>>, <<>>, HeaderBytes))
    BY <1>4 DEF CreateRun
  <2>2. f # runs_created + 1
    BY <1>1
  <2> QED
    BY <1>1, <2>1, <2>2 DEF With
<1>5. CASE WriteRecord
  <2>1. PICK file : files' = [files EXCEPT ![writing] = file]
    BY <1>5 DEF WriteRecord
  <2>2. writing # 0 /\ f # writing
    BY <1>1, <1>5 DEF WriteRecord, RunsFrame
  <2> QED
    BY <1>1, <2>1, <2>2
<1>6. CASE DeleteInput
  <2>1. /\ pc = "delete" /\ group # <<>>
        /\ files' = files \/ files' = Without(files, group[1])
    BY <1>6 DEF DeleteInput, KeepRun
  <2>2. group[1] \in ToSet(group)
    BY <1>1, <2>1, RunsOf, EmptySeq
  <2>3. group[1] \notin Live
    BY <2>1, <2>2 DEF RunsFrame, Final, Live
  <2> QED
    BY <1>1, <2>1, <2>3 DEF Without
<1> QED
  BY <1>2, <1>3, <1>4, <1>5, <1>6 DEF Continues

\* It stays what its header vouches for.
LEMMA LiveFaithful ==
  ASSUME MaxDamage = 0, Inv, OrderInv, Faithful, Going, Going', Continues, NEW f \in Live'
  PROVE  files'[f].data = files'[f].head
<1>1. RunsFrame /\ \A x \in Live : x \in DOMAIN files /\ files[x].data = files[x].head
  BY DEF OrderInv, RunsFrame, Faithful
<1>2. CASE FinishRun
  <2>1. /\ \A x \in Live : x # writing
        /\ f = writing \/ f \in ToSet(current) \/ f \in ToSet(following)
        /\ files'[writing].head = digest
        /\ \A x \in DOMAIN files : x # writing => files'[x] = files[x]
    BY <1>1, <1>2, FinishLive
  <2>2. CASE f = writing
    <3>1. /\ writing \in DOMAIN files /\ files[writing].data = digest
          /\ files' = [files EXCEPT ![writing] = File(@.data, digest, @.bytes)]
      BY <1>1, <1>2 DEF FinishRun, RunsFrame, Faithful
    <3>2. files'[writing].data = files[writing].data
      BY <3>1 DEF File
    <3> QED
      BY <2>1, <2>2, <3>1, <3>2
  <2>3. CASE f # writing
    <3>1. f \in Live
      BY <2>1, <2>3 DEF Live
    <3> QED
      BY <1>1, <2>1, <2>3, <3>1
  <2> QED
    BY <2>2, <2>3
<1>3. CASE ~FinishRun
  <2>1. f \in Live /\ files'[f].head = files[f].head
    BY <1>1, <1>3, LiveStep DEF LiveKept
  <2> QED
    BY <1>1, <1>3, <2>1, DataStep
<1> QED
  BY <1>2, <1>3

\* The run being written holds what was passed to it.
LEMMA WritingFaithful ==
  ASSUME MaxDamage = 0, Inv, OrderInv, Faithful, Going, Going', Continues, writing' # 0
  PROVE  files'[writing'].data = digest'
<1> USE DEF quiet, result, fill, write, merge, bytes, disk, counters
<1>1. /\ writing # 0 => writing \in DOMAIN files /\ files[writing].data = digest
      /\ pc # "write" => digest = <<>>
      /\ pc = "write" => writing # 0
  BY DEF OrderInv, RunsFrame, FillFrame, Faithful
<1>2. CASE Start \/ ReadEdge \/ SourceExhausted \/ SkipRecord \/ OpenReader \/ Successor
           \/ StartPass \/ NextGroup \/ EndPass \/ StartDrain \/ Deliver \/ Resume
           \/ CancelToken \/ UNCHANGED vars
  <2>1. UNCHANGED <<files, writing, digest>>
    BY <1>2 DEF Start, ReadEdge, SourceExhausted, SkipRecord, OpenReader, Successor, StartPass,
       NextGroup, EndPass, StartDrain, Deliver, Resume, CancelToken, vars
  <2> QED
    BY <1>1, <2>1
<1>3. CASE Damage
  BY <1>3 DEF Damage, Inv, TypeOK, EnvironmentType
<1>4. CASE FinishRun
  BY <1>4 DEF FinishRun
<1>5. CASE CreateRun
  <2>1. /\ files' = With(files, runs_created + 1, File(<<>>, <<>>, HeaderBytes))
        /\ writing' = runs_created + 1 /\ digest' = digest /\ pc = "create"
    BY <1>5 DEF CreateRun
  <2>2. files'[writing'].data = <<>>
    BY <2>1 DEF With, File
  <2> QED
    BY <1>1, <2>1, <2>2
<1>6. CASE WriteRecord
  <2>1. PICK e, size :
          files' = [files EXCEPT ![writing] = File(Append(@.data, e), @.head, size)]
          /\ digest' = Append(digest, e)
    BY <1>6 DEF WriteRecord
  <2>2. writing' = writing /\ pc = "write"
    BY <1>6 DEF WriteRecord
  <2>3. files'[writing].data = Append(files[writing].data, e)
    BY <1>1, <2>1, <2>2 DEF File
  <2> QED
    BY <1>1, <2>1, <2>2, <2>3
<1>7. CASE DeleteInput
  BY <1>7 DEF DeleteInput, Inv, PlaceFrame
<1> QED
  BY <1>2, <1>3, <1>4, <1>5, <1>6, <1>7 DEF Continues

\* A reader goes on with the next record of its run.
LEMMA ReadersFaithful ==
  ASSUME MaxDamage = 0, Inv, OrderInv, Faithful, Going, Going', Continues, Merging',
         NEW j \in 1..Len(readers')
  PROVE  Starts(readers'[j].seen, files'[group'[j]].head)
<1>1. RunsFrame /\ FillFrame
  BY DEF OrderInv
<1>2. Enters \/ Stays \/ Takes \/ (Merging /\ OpenReader) \/ (Merging /\ Successor)
  BY <1>1, MergingSteps
<1>3. LiveKept
  <2>1. ~FinishRun
    BY DEF FinishRun, Merging
  <2> QED
    BY <1>1, <2>1, LiveStep
<1>4. ASSUME Merging
      PROVE  /\ \A i \in 1..Len(group) : files'[group[i]].head = files[group[i]].head
             /\ \A i \in 1..Len(readers) : Starts(readers[i].seen, files[group[i]].head)
             /\ \A i \in 1..Len(readers) : i \in 1..Len(group)
             /\ \A i \in 1..Len(group) : /\ files[group[i]].data = files[group[i]].head
                                         /\ files[group[i]].head \in Seq(Edges)
  <2>1. \A i \in 1..Len(group) : files'[group[i]].head = files[group[i]].head
    BY <1>1, <1>3, <1>4, GroupKept
  <2>2. \A i \in 1..Len(readers) : Starts(readers[i].seen, files[group[i]].head)
    BY <1>4 DEF Faithful
  <2>3. \A i \in 1..Len(readers) : i \in 1..Len(group)
    BY ReadersType
  <2>4. ASSUME NEW i \in 1..Len(group)
        PROVE  files[group[i]].data = files[group[i]].head /\ files[group[i]].head \in Seq(Edges)
    <3>1. group[i] \in ToSet(group) /\ pc # "delete"
      BY <1>4, Sequences, RunsOf DEF Merging
    <3>2. group[i] \in Live
      BY <3>1 DEF Live
    <3> QED
      BY <1>1, <3>2, HeadsFamily DEF Faithful
  <2> QED
    BY <2>1, <2>2, <2>3, <2>4
<1>5. CASE Enters
  <2>1. readers' = <<>>
    BY <1>5, Idle DEF Enters
  <2> QED
    BY <2>1
<1>6. CASE Stays \/ Takes
  <2>1. Merging /\ UNCHANGED <<readers, group>>
    BY <1>6 DEF Stays, Takes, Pop
  <2> QED
    BY <1>4, <2>1
<1>7. CASE Merging /\ OpenReader
  <2>1. PICK n, run, d : n = Len(readers) + 1 /\ run = group[n] /\ d = files[run].data[1]
    OBVIOUS
  <2>2. /\ pc = "open" /\ Readable(run, 1) /\ group' = group
        /\ readers' = Append(readers, [run |-> run, seen |-> <<d>>])
    BY <1>7, <2>1 DEF OpenReader, fill
  <2>3. n \in 1..Len(group) /\ Len(readers) \in Nat
    BY <2>1, <2>2, ReadersType DEF Inv, ReaderFrame
  <2>4. readers \in Seq([run : Nat, seen : Seq(Edges)])
    BY ReadersType
  <2>5. CASE j \in 1..Len(readers)
    <3>1. readers'[j] = readers[j]
      BY <2>2, <2>4, <2>5
    <3> QED
      BY <1>4, <1>7, <2>2, <2>5, <3>1
  <2>6. CASE j \notin 1..Len(readers)
    <3> DEFINE r == [run |-> run, seen |-> <<d>>]
    <3>1. r.seen = <<d>>
      OBVIOUS
    <3> HIDE DEF r
    <3>2. readers' = Append(readers, r)
      BY <2>2 DEF r
    <3>3. j = n /\ readers'[n] = r
      BY <2>1, <2>3, <2>4, <2>6, <3>2
    <3>4. readers'[j].seen = <<d>>
      BY <3>1, <3>3
    <3>5. 1 <= Len(files[run].head) /\ d = files[run].head[1] /\ files'[run].head = files[run].head
      BY <1>4, <1>7, <2>1, <2>2, <2>3 DEF Readable
    <3>6. Len(<<d>>) = 1 /\ <<d>>[1] = d
      OBVIOUS
    <3>7. \A i \in 1..1 : i = 1
      OBVIOUS
    <3>8. Starts(<<d>>, files'[run].head)
      BY <3>5, <3>6, <3>7 DEF Starts
    <3> QED
      BY <2>1, <2>2, <3>3, <3>4, <3>8
  <2> QED
    BY <2>5, <2>6
<1>8. CASE Merging /\ Successor
  <2>1. PICK k : k = owed
    OBVIOUS
  <2>2. /\ pc \in {"write", "drain"} /\ k # 0 /\ group' = group
        /\ k \in 1..Len(readers) /\ k \in 1..Len(group)
        /\ readers \in Seq([run : Nat, seen : Seq(Edges)])
    BY <1>4, <1>8, <2>1, ReadersType DEF Successor, fill
  <2>3. CASE AtEnd(readers[k])
    <3>1. readers' = readers
      BY <1>8, <2>1, <2>3 DEF Successor
    <3> QED
      BY <1>4, <1>8, <2>2, <3>1
  <2>4. CASE ~AtEnd(readers[k])
    <3> DEFINE s == readers[k].seen
               r == readers[k].run
               d == files[r].data[Len(s) + 1]
               c == [run |-> r, seen |-> Append(s, d)]
    <3>1. Readable(r, Len(s) + 1) /\ readers' = [readers EXCEPT ![k] = c]
      BY <1>8, <2>1, <2>4 DEF Successor
    <3>2. c.seen = Append(s, d)
      OBVIOUS
    <3>3. s \in Seq(Edges) /\ Len(s) \in Nat /\ r = group[k]
      BY <1>8, <2>2, ReadersType DEF OrderInv, HeapFrame
    <3> HIDE DEF c
    <3>4. /\ readers'[k] = c /\ j \in 1..Len(readers)
          /\ j # k => readers'[j] = readers[j]
      BY <2>2, <3>1
    <3>5. CASE j # k
      BY <1>4, <1>8, <2>2, <3>4, <3>5
    <3>6. CASE j = k
      <4>1. /\ files[r].data = files[r].head /\ files[r].head \in Seq(Edges)
            /\ files'[r].head = files[r].head /\ Starts(s, files[r].head)
        BY <1>4, <1>8, <2>2, <3>3
      <4>2. Len(s) + 1 <= Len(files[r].head) /\ d = files[r].head[Len(s) + 1]
        BY <3>1, <4>1 DEF Readable
      <4> HIDE DEF d
      <4>3. d \in Edges
        BY <3>3, <4>1, <4>2
      <4>4. /\ Len(Append(s, d)) = Len(s) + 1 /\ Append(s, d)[Len(s) + 1] = d
            /\ \A i \in 1..Len(s) : Append(s, d)[i] = s[i]
        BY <3>3, <4>3
      <4>5. \A i \in 1..(Len(s) + 1) : i \in 1..Len(s) \/ i = Len(s) + 1
        BY <3>3
      <4>6. Starts(Append(s, d), files[r].head)
        BY <4>1, <4>2, <4>4, <4>5 DEF Starts
      <4> QED
        BY <2>2, <3>2, <3>3, <3>4, <3>6, <4>1, <4>6
    <3> QED
      BY <3>5, <3>6
  <2> QED
    BY <2>3, <2>4
<1> QED
  BY <1>2, <1>5, <1>6, <1>7, <1>8

LEMMA FaithfulInitially == Init => Faithful
<1> SUFFICES ASSUME Init PROVE Faithful
  OBVIOUS
<1>1. /\ pc = "new" /\ ~Merging /\ writing = 0
      /\ current = <<>> /\ following = <<>> /\ group = <<>>
  BY DEF Init, Merging
<1>2. ToSet(<<>>) = {}
  BY DEF ToSet
<1>3. Live = {}
  BY <1>1, <1>2 DEF Live
<1> QED
  BY <1>1, <1>3 DEF Faithful

LEMMA FaithfulInductive == MaxDamage = 0 /\ Inv /\ OrderInv /\ Faithful /\ [Next]_vars => Faithful'
<1> SUFFICES ASSUME MaxDamage = 0, Inv, OrderInv, Faithful, [Next]_vars, Going' PROVE Faithful'
  BY DEF Faithful
<1>1. Going /\ Continues
  BY GoingSteps
<1>2. ASSUME NEW f \in Live' PROVE files'[f].data = files'[f].head
  BY <1>1, LiveFaithful
<1>3. ASSUME writing' # 0 PROVE files'[writing'].data = digest'
  BY <1>1, <1>3, WritingFaithful
<1>4. ASSUME Merging', NEW j \in 1..Len(readers')
      PROVE  Starts(readers'[j].seen, files'[group'[j]].head)
  BY <1>1, <1>4, ReadersFaithful
<1> QED
  BY <1>2, <1>3, <1>4 DEF Faithful

-----------------------------------------------------------------------------
(* The sort implements the reference                                       *)

\* A delivered edge is the next of the reference result.
LEMMA DeliverSeen ==
  ASSUME Inv, OrderInv, InStep', Deliver
  PROVE  Promise!Yield \/ UNCHANGED Promise!streamVars
<1> DEFINE R == Promise!Reference(input, duplicates)
<1>1. /\ pc = "drain" /\ pc' \in {"drain", "yield"}
      /\ UNCHANGED <<input, duplicates, outcome, statistics>>
      /\ delivered' = Append(delivered, Top[1]) \/ delivered' = delivered
  BY DEF Deliver, quiet
<1>2. outcome = "none"
  BY <1>1 DEF OrderInv, FillFrame, Going
<1>3. CASE delivered' = delivered
  BY <1>1, <1>3 DEF Promise!streamVars
<1>4. CASE delivered' = Append(delivered, Top[1])
  <2>1. R \in Seq(Nat)
    BY ReferenceSorted
  <2>2. Starts(delivered', R)
    <3>1. Starts(delivered, R)'
      BY <1>1 DEF InStep
    <3> QED
      BY <1>1, <3>1
  <2> HIDE DEF R
  <2>3. PICK e : e = Top[1]
    OBVIOUS
  <2>4. delivered \in Seq(Edges) /\ Len(delivered) \in Nat
    BY Sequences
  <2>5. Len(delivered') = Len(delivered) + 1 /\ delivered'[Len(delivered) + 1] = e
    BY <1>4, <2>3, <2>4
  <2>6. Len(delivered) < Len(R) /\ R[Len(delivered) + 1] = e
    <3>1. Len(delivered) + 1 <= Len(R) /\ Len(R) \in Nat
      BY <2>1, <2>2, <2>5 DEF Starts
    <3>2. Len(delivered) + 1 \in 1..Len(delivered')
      BY <2>4, <2>5
    <3> QED
      BY <2>2, <2>4, <2>5, <3>1, <3>2 DEF Starts
  <2> QED
    BY <1>1, <1>2, <1>4, <2>3, <2>6 DEF R, Promise!Yield
<1> QED
  BY <1>1, <1>3, <1>4

\* Completion publishes the exact statistics after the last edge.
LEMMA CompleteSeen ==
  ASSUME Inv, OrderInv, Complete \/ SourceExhausted
  PROVE  Promise!Exhaust \/ UNCHANGED Promise!streamVars
<1>1. UNCHANGED <<input, duplicates, delivered>> /\ Going
  BY DEF Complete, SourceExhausted, quiet, Going
<1>2. outcome = "none"
  BY <1>1 DEF OrderInv, FillFrame
<1>3. CASE UNCHANGED <<outcome, statistics>>
  BY <1>1, <1>3 DEF Promise!streamVars
<1>4. CASE ~UNCHANGED <<outcome, statistics>>
  <2>1. outcome' = "complete" /\ delivered = Promise!Reference(input, duplicates)
        /\ statistics' = Promise!ReferenceStatistics(input)
    <3>1. CASE Complete
      BY <3>1, DrainExact DEF Complete
    <3>2. CASE SourceExhausted
      <4>1. /\ pc = "fill" /\ raw_count = Len(input) /\ buffer = <<>> /\ current = <<>>
            /\ outcome' = "complete" /\ statistics' = <<0, 0>>
        BY <1>4, <3>2 DEF SourceExhausted
      <4> QED
        BY <4>1, EmptyExact
    <3> QED
      BY <3>1, <3>2
  <2> QED
    BY <1>1, <1>2, <2>1 DEF Promise!Exhaust
<1> QED
  BY <1>3, <1>4

\* A failure, a cancellation or a close ends the stream where it is.
LEMMA StopSeen ==
  ASSUME OrderInv,
         \/ Start \/ ReadFails \/ ReadCancelled \/ CreateFails \/ WriteFails \/ WriteCancelled
         \/ OpenFails \/ SuccessorFails \/ DrainCancelled \/ Close
  PROVE  Promise!Stop \/ UNCHANGED Promise!streamVars
<1>1. /\ UNCHANGED <<input, duplicates, delivered, statistics>> /\ Going
      /\ outcome' \in {"failed", "cancelled", "closed", outcome}
  <2>1. CASE ReadFails \/ ReadCancelled \/ CreateFails \/ WriteFails \/ WriteCancelled
             \/ OpenFails \/ SuccessorFails \/ DrainCancelled
    BY <2>1 DEF ReadFails, ReadCancelled, CreateFails, WriteFails, WriteCancelled, OpenFails,
       SuccessorFails, DrainCancelled, RaiseResource, RaiseCancelled, Raise, Going, quiet
  <2>2. CASE Start \/ Close
    BY <2>2 DEF Start, Close, Raise, Going, quiet
  <2> QED
    BY <2>1, <2>2
<1>2. outcome = "none"
  BY <1>1 DEF OrderInv, FillFrame
<1> QED
  BY <1>1, <1>2 DEF Promise!Stop, Promise!streamVars

\* The consumer sees nothing of the other steps.
LEMMA Unseen ==
  ASSUME \/ ReadEdge \/ CreateRun \/ WriteRecord \/ SkipRecord \/ FinishRun \/ OpenReader
         \/ Successor \/ StartPass \/ NextGroup \/ EndPass \/ DeleteInput \/ StartDrain
         \/ Resume \/ Cleanup \/ Environment \/ Exited \/ UNCHANGED vars
  PROVE  UNCHANGED Promise!streamVars
<1> USE DEF quiet, result, Promise!streamVars
<1>1. CASE ReadEdge \/ CreateRun \/ WriteRecord \/ SkipRecord \/ FinishRun \/ OpenReader
           \/ Successor \/ StartPass \/ NextGroup \/ EndPass \/ DeleteInput \/ StartDrain
           \/ Resume
  BY <1>1 DEF ReadEdge, CreateRun, WriteRecord, SkipRecord, FinishRun, OpenReader,
     Successor, StartPass, NextGroup, EndPass, DeleteInput, StartDrain, Resume
<1>2. CASE Cleanup \/ Environment \/ Exited \/ UNCHANGED vars
  BY <1>2 DEF Cleanup, Environment, CancelToken, Damage, Collect, AtExit, Exited, vars
<1> QED
  BY <1>1, <1>2

\* The initial states map to initial states.
LEMMA InitSeen == Init => Promise!Init
<1> SUFFICES ASSUME Init PROVE Promise!Init
  OBVIOUS
<1>1. input \in Seq(Nat)
  BY Initially, Sequences
<1> QED
  BY <1>1 DEF Init, Promise!Init, Promise!NoStatistics

\* Without damage to its runs, _iter_canonical implements the in-memory reference policy
\* (ImplementsReference): for every buffer size, fan-in, limit and input, and wherever it
\* fails, is cancelled or is closed, what the consumer has received is at every step a
\* prefix of the sorted, and where asked coalesced, edges of the compiler, and only a
\* generator that delivered all of them completes, with exact statistics.
THEOREM SpillRefines == MaxDamage = 0 /\ Spec => ImplementsReference
<1>1. Inv /\ OrderInv /\ InStep' /\ [Next]_vars => [Promise!Next]_(Promise!streamVars)
  BY DeliverSeen, CompleteSeen, StopSeen, Unseen DEF Next, Generator, Promise!Next
<1>2. ASSUME MaxDamage = 0
      PROVE  Spec => ImplementsReference
  <2>1. Inv /\ OrderInv /\ Faithful /\ [Next]_vars => OrderInv' /\ Faithful'
    BY <1>2, OrderInductive, FaithfulInductive
  <2>2. Inv /\ OrderInv /\ Faithful => InStep
    BY DeliveredStarts
  <2> QED
    BY <1>1, <2>1, <2>2, InitSeen, OrderInitially, FaithfulInitially, Invariance, PTL
    DEF Spec, ImplementsReference, Promise!Spec
<1> QED
  BY <1>2

=============================================================================
