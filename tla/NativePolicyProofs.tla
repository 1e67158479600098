-------------------------- MODULE NativePolicyProofs ---------------------------
(***************************************************************************)
(* The native edge processor implements the in-memory reference, in both   *)
(* orders and with both duplicate policies, for every batch size and       *)
(* input.                                                                  *)
(*                                                                         *)
(* The argument goes along the batches.  Chosen(n) are the places up to n  *)
(* that the duplicate policy keeps.  What the generator has delivered or   *)
(* holds, or in canonical order what the engine collects, is the selection *)
(* of Chosen over the edges pushed so far, because the edges the engine    *)
(* has seen are those met there (Progress); a batch adds its own selection *)
(* behind it (PickedConcat).  After finish, the vector read from its end   *)
(* is what is still to come of the reference result.                       *)
(***************************************************************************)
EXTENDS MCNativePolicy, SequenceLemmas

Pushing == {"push", "push-yield"}

Draining == {"drain", "drain-yield"}

\* How many edges of the input were pushed.
Behind == position - Len(batch)

\* The edges met in the first n places.
Met(n) == { input[i] : i \in 1..n }

\* The places among the first n whose edge the duplicate policy keeps.
Chosen(n) ==
  { i \in 1..n : duplicates = "preserve" \/ \A j \in 1..(i - 1) : input[j] # input[i] }

Selection(n) == Picked(input, Chosen(n))

Result == Promise!Reference(input, duplicates)

\* The shapes of the call, the generator and the engine.
TypeOK ==
  /\ input \in Seq(Edges)
  /\ order \in {"canonical", "encounter"} /\ duplicates \in {"preserve", "unique"}
  /\ passthrough \in BOOLEAN
  /\ passthrough => order = "encounter" /\ duplicates = "preserve"
  /\ pc \in {"read", "end"} \cup Pushing \cup Draining
  /\ position \in 0..Len(input)
  /\ batch \in Seq(Edges) /\ Len(batch) <= position /\ Len(batch) <= BatchEdges
  /\ values \in Seq(Edges) /\ delivered \in Seq(Edges)
  /\ engine \in [seen : SUBSET Edges, canonical : Seq(Edges), raw_edges : Nat,
                 duplicate_edges : Nat, finished : BOOLEAN, cancelled : BOOLEAN]

\* The place of the generator: what it holds, and that it is still open.
PlaceFrame ==
  /\ \A i \in 1..Len(batch) : batch[i] = input[Behind + i]
  /\ pc = "read" => values = <<>>
  /\ pc \in Pushing \cup Draining => batch = <<>>
  /\ pc \in Draining => ~passthrough /\ position = Len(input)
  /\ pc # "end" => outcome = "none" /\ ~engine.cancelled

\* The counts of the engine.  The processor of iter_native_policy has seen what was
\* pushed; that of a passthrough is new for every batch.
EngineFrame ==
  /\ IsFiniteSet(engine.seen)
  /\ pc # "end" /\ ~passthrough => engine.raw_edges = Behind /\ engine.seen = Met(Behind)
  /\ pc = "read" /\ passthrough => engine = NewEngine

\* Where the selection of the edges pushed so far is.
Progress ==
  /\ pc \in {"read"} \cup Pushing =>
       IF order = "encounter"
       THEN delivered \o values = Selection(Behind) /\ engine.canonical = <<>>
       ELSE delivered = <<>> /\ values = <<>> /\ engine.canonical = Selection(Behind)
  /\ pc \in Draining => delivered \o values \o Reverse(engine.canonical) = Result

\* The first edge of a passthrough is delivered before the second is read.
FirstEdge ==
  passthrough =>
    /\ pc = "read" /\ delivered = <<>> => Len(batch) <= 1
    /\ pc = "push" /\ delivered = <<>> => position = 1
    /\ pc = "push-yield" => delivered # <<>>

Inv == TypeOK /\ PlaceFrame /\ EngineFrame /\ Progress /\ FirstEdge /\ Cleared /\ PassesThrough

-----------------------------------------------------------------------------
(* The selection                                                           *)

\* The selection of the first n edges is a sequence of edges.
LEMMA SelectionSeq ==
  ASSUME input \in Seq(Edges), NEW n \in 0..Len(input)
  PROVE  /\ Chosen(n) \in SUBSET (1..n) /\ Chosen(n) \in SUBSET (1..Len(input))
         /\ Selection(n) \in Seq(Edges) /\ Len(Selection(n)) \in Nat
         /\ Selection(0) = <<>>
         /\ duplicates = "preserve" => Len(Selection(n)) = n
<1>1. Len(input) \in Nat /\ n \in Nat /\ n <= Len(input)
  OBVIOUS
<1>2. Chosen(n) \in SUBSET (1..n) /\ Chosen(n) \in SUBSET (1..Len(input))
  BY <1>1 DEF Chosen
<1>3. Selection(n) \in Seq(Edges) /\ Len(Selection(n)) = Cardinality(Chosen(n))
  BY <1>2, PickedSeq DEF Selection
<1>4. Selection(0) = <<>>
  <2>1. Chosen(0) = {} /\ {} \in SUBSET (1..Len(input))
    BY DEF Chosen
  <2>2. Cardinality({}) = 0
    BY FS_EmptySet
  <2>3. Picked(input, {}) \in Seq(Edges) /\ Len(Picked(input, {})) = 0
    BY <2>1, <2>2, PickedSeq
  <2> QED
    BY <2>1, <2>3, EmptySeq DEF Selection
<1>5. duplicates = "preserve" => Len(Selection(n)) = n
  <2>1. duplicates = "preserve" => Chosen(n) = 1..n
    BY DEF Chosen
  <2>2. Cardinality(1..n) = n
    BY <1>1, PlacesFinite
  <2> QED
    BY <1>3, <2>1, <2>2
<1> QED
  BY <1>2, <1>3, <1>4, <1>5

\* A later selection goes on where an earlier one ends.
LEMMA SelectionGrows ==
  ASSUME input \in Seq(Edges), NEW n \in Nat, n <= Len(input)
  PROVE  /\ Len(Selection(n)) <= Len(Selection(Len(input)))
         /\ \A k \in 1..Len(Selection(n)) : Selection(n)[k] = Selection(Len(input))[k]
<1> DEFINE m == Len(input)
           t == SubSeq(input, n + 1, m)
           D == { i \in 1..(m - n) : n + i \in Chosen(m) }
<1>1. m \in Nat /\ n \in Nat /\ n <= m /\ n \in 0..m /\ m \in 0..m
  OBVIOUS
<1>2. /\ t \in Seq(Edges) /\ Len(t) = m - n
      /\ \A i \in 1..(m - n) : input[n + i] = t[i]
  BY <1>1
<1>3. Chosen(n) \in SUBSET (1..n) /\ Chosen(m) \in SUBSET (1..m)
  BY <1>1, SelectionSeq
<1>4. Chosen(m) = Chosen(n) \cup { n + i : i \in D }
  <2>1. \A i \in 1..n : i \in Chosen(m) <=> i \in Chosen(n)
    BY <1>1 DEF Chosen
  <2>2. \A i \in 1..m : i \in 1..n \/ (i - n \in 1..(m - n) /\ n + (i - n) = i)
    BY <1>1
  <2>3. ASSUME NEW i \in Chosen(m) PROVE i \in Chosen(n) \cup { n + x : x \in D }
    <3>1. CASE i \in 1..n
      BY <2>1, <3>1
    <3>2. CASE i - n \in 1..(m - n) /\ n + (i - n) = i
      <4>1. i - n \in D
        BY <3>2
      <4> QED
        BY <3>2, <4>1
    <3> QED
      BY <1>3, <2>2, <3>1, <3>2
  <2>4. ASSUME NEW i \in Chosen(n) PROVE i \in Chosen(m)
    BY <1>3, <2>1
  <2> QED
    BY <2>3, <2>4
<1>5. D \in SUBSET (1..Len(t))
  BY <1>2
<1>6. GoesOn(input, n, t)
  <2>1. n + Len(t) <= Len(input) /\ \A i \in 1..Len(t) : input[n + i] = t[i]
    BY <1>1, <1>2
  <2> QED
    BY <2>1 DEF GoesOn
<1> HIDE DEF t, D, m
<1>7. Chosen(m) = JoinedPlaces(Chosen(n), n, D)
  BY <1>4 DEF JoinedPlaces, Moved
<1>8. Selection(m) = Selection(n) \o Picked(t, D)
  <2> DEFINE C == Chosen(n)
  <2>1. C \in SUBSET (1..n) /\ t \in Seq(Edges) /\ n \in Nat /\ input \in Seq(Edges)
    BY <1>1, <1>2, <1>3
  <2> HIDE DEF C
  <2>2. IsConcat(Picked(input, JoinedPlaces(C, n, D)), Picked(input, C), Picked(t, D))
    BY <1>5, <1>6, <2>1, PickedConcat
  <2> QED
    BY <1>7, <2>2 DEF C, Selection, IsConcat
<1>9. Picked(t, D) \in Seq(Edges) /\ Selection(n) \in Seq(Edges)
  BY <1>1, <1>2, <1>5, PickedSeq, SelectionSeq
<1> DEFINE u == Selection(n)
           w == Picked(t, D)
<1> HIDE DEF u, w
<1>10. Len(u) <= Len(u \o w) /\ \A k \in 1..Len(u) : u[k] = (u \o w)[k]
  BY <1>9 DEF u, w
<1> QED
  BY <1>8, <1>10 DEF u, w, m

\* The reference result is the selection of the whole input, sorted if canonical.
LEMMA ResultIs ==
  ASSUME TypeOK
  PROVE  /\ Result = IF order = "canonical" THEN Sorted(Selection(Len(input)))
                     ELSE Selection(Len(input))
         /\ passthrough => Result = input
         /\ Selection(Len(input)) \in Seq(Nat) /\ Result \in Seq(Nat)
<1>1. Len(input) \in 0..Len(input) /\ input \in Seq(Edges) /\ DOMAIN input = 1..Len(input)
  BY DEF TypeOK
<1>2. Promise!FirstEncounters(input) =
        Picked(input, { i \in DOMAIN input : \A j \in 1..(i - 1) : input[j] # input[i] })
  BY DEF Promise!FirstEncounters, Promise!Picked, Promise!Nth, Promise!Cardinality,
         Picked, Nth, Cardinality
<1>3. ASSUME duplicates = "unique"
      PROVE  Promise!FirstEncounters(input) = Selection(Len(input))
  <2>1. { i \in DOMAIN input : \A j \in 1..(i - 1) : input[j] # input[i] } = Chosen(Len(input))
    BY <1>1, <1>3 DEF Chosen
  <2> QED
    BY <1>2, <2>1 DEF Selection
<1>4. ASSUME duplicates = "preserve"
      PROVE  input = Selection(Len(input))
  <2>1. Chosen(Len(input)) = 1..Len(input)
    BY <1>4 DEF Chosen
  <2> QED
    BY <1>1, <2>1, PickedAll DEF Selection
<1>5. \A v : Promise!Sorted(v) = Sorted(v)
  BY DEF Promise!Sorted, Promise!Below, Promise!UpTo, Promise!ToSet, Promise!Cardinality,
         Sorted, Below, UpTo, ToSet, Cardinality
<1>6. duplicates \in {"preserve", "unique"}
  BY DEF TypeOK
<1>7. Result = IF order = "canonical" THEN Sorted(Selection(Len(input)))
               ELSE Selection(Len(input))
  <2>1. CASE duplicates = "unique"
    BY <1>3, <1>5, <2>1 DEF Result, Promise!Reference
  <2>2. CASE duplicates = "preserve"
    BY <1>4, <1>5, <2>2 DEF Result, Promise!Reference
  <2> QED
    BY <1>6, <2>1, <2>2
<1>8. Selection(Len(input)) \in Seq(Nat)
  <2>1. Selection(Len(input)) \in Seq(Edges) /\ Edges \in SUBSET Nat
    BY <1>1, SelectionSeq, PolicyAssumption
  <2> QED
    BY <2>1, SeqWider
<1>9. Result \in Seq(Nat)
  BY <1>7, <1>8, SortedSeq
<1>10. passthrough => Result = input
  BY <1>4, <1>7 DEF TypeOK
<1> QED
  BY <1>7, <1>8, <1>9, <1>10

\* While the generator is open, what it has delivered and holds begins the result.
LEMMA HeldPrefix ==
  ASSUME TypeOK, Progress, pc # "end"
  PROVE  /\ Len(delivered \o values) <= Len(Result)
         /\ \A k \in 1..Len(delivered \o values) : (delivered \o values)[k] = Result[k]
<1>1. /\ delivered \in Seq(Nat) /\ values \in Seq(Nat) /\ engine.canonical \in Seq(Nat)
      /\ delivered \o values \in Seq(Nat)
  <2>1. delivered \in Seq(Edges) /\ values \in Seq(Edges) /\ engine.canonical \in Seq(Edges)
    BY DEF TypeOK
  <2>2. delivered \in Seq(Nat) /\ values \in Seq(Nat) /\ engine.canonical \in Seq(Nat)
    BY <2>1, PolicyAssumption, SeqWider
  <2> QED
    BY <2>2
<1>2. Behind \in 0..Len(input) /\ input \in Seq(Edges)
  BY DEF TypeOK, Behind
<1>3. Result \in Seq(Nat)
  BY ResultIs
<1>4. CASE pc \in {"read"} \cup Pushing /\ order = "encounter"
  <2>1. delivered \o values = Selection(Behind)
    BY <1>4 DEF Progress
  <2>2. Result = Selection(Len(input))
    BY <1>4, ResultIs
  <2> QED
    BY <1>2, <2>1, <2>2, SelectionGrows
<1>5. CASE pc \in {"read"} \cup Pushing /\ order # "encounter"
  <2>1. delivered = <<>> /\ values = <<>>
    BY <1>5 DEF Progress
  <2>2. delivered \o values = <<>>
    BY <2>1
  <2> QED
    BY <1>3, <2>2
<1>6. CASE pc \in Draining
  <2> DEFINE h == delivered \o values
             r == Reverse(engine.canonical)
  <2>1. h \o r = Result
    BY <1>6 DEF Progress
  <2>2. r \in Seq(Nat) /\ h \in Seq(Nat)
    BY <1>1 DEF Reverse
  <2> HIDE DEF h, r
  <2>3. Len(h) <= Len(h \o r) /\ \A k \in 1..Len(h) : h[k] = (h \o r)[k]
    BY <2>2
  <2> QED
    BY <2>1, <2>3 DEF h
<1> QED
  BY <1>4, <1>5, <1>6 DEF TypeOK

\* A batch selects what the policy keeps of it, behind what was selected before.
LEMMA PushSelection ==
  ASSUME TypeOK, PlaceFrame, EngineFrame, pc = "read"
  PROVE  /\ Kept(batch) \in Seq(Edges)
         /\ Selection(position) = Selection(Behind) \o Kept(batch)
<1> DEFINE n == Behind
           t == batch
           D == { i \in DOMAIN t : duplicates = "preserve" \/ IsNew(t, i) }
<1>1. /\ input \in Seq(Edges) /\ t \in Seq(Edges) /\ Len(t) \in Nat /\ n \in Nat
      /\ position \in 0..Len(input) /\ n + Len(t) = position /\ DOMAIN t = 1..Len(t)
      /\ n \in 0..Len(input) /\ position \in Nat
  BY DEF TypeOK, Behind
<1>2. \A i \in 1..Len(t) : t[i] = input[n + i]
  BY DEF PlaceFrame
<1>3. Kept(batch) = Picked(t, D)
  BY DEF Kept
<1>4. D \in SUBSET (1..Len(t))
  BY <1>1
<1>5. duplicates = "preserve" \/ engine.seen = { input[i] : i \in 1..n }
  BY DEF TypeOK, EngineFrame, Met
<1>6. ASSUME NEW i \in 1..Len(t)
      PROVE  n + i \in Chosen(position) <=> i \in D
  <2>1. n + i \in 1..position
    BY <1>1
  <2>2. CASE duplicates = "preserve"
    BY <1>1, <2>1, <2>2 DEF Chosen
  <2>3. CASE duplicates # "preserve"
    <3> DEFINE p == n + i
    <3>1. p \in Chosen(position) <=> \A j \in 1..(p - 1) : input[j] # input[p]
      <4> p \in 1..position
        BY <2>1
      <4> HIDE DEF p, n, t
      <4> QED
        BY <2>3 DEF Chosen
    <3>2. i \in D <=> t[i] \notin engine.seen /\ \A j \in 1..(i - 1) : t[j] # t[i]
      BY <1>1, <2>3 DEF IsNew
    <3>3. t[i] \notin engine.seen <=> \A j \in 1..n : input[j] # input[n + i]
      BY <1>2, <1>5, <2>3
    <3>4. (\A j \in 1..(i - 1) : t[j] # t[i])
            <=> \A j \in 1..(i - 1) : input[n + j] # input[n + i]
      <4>1. \A j \in 1..(i - 1) : j \in 1..Len(t)
        BY <1>1
      <4>2. \A j \in 1..(i - 1) : t[j] = input[n + j]
        BY <1>2, <4>1
      <4>3. t[i] = input[n + i]
        BY <1>2
      <4> HIDE DEF n, t
      <4> QED
        BY <4>2, <4>3
    <3>5. (\A j \in 1..(p - 1) : input[j] # input[n + i])
            <=> /\ \A j \in 1..n : input[j] # input[n + i]
                /\ \A j \in 1..(i - 1) : input[n + j] # input[n + i]
      <4>1. \A j \in 1..(p - 1) : j \in 1..n \/ (j - n \in 1..(i - 1) /\ n + (j - n) = j)
        BY <1>1
      <4>2. \A j \in 1..n : j \in 1..(p - 1)
        BY <1>1
      <4>3. \A j \in 1..(i - 1) : n + j \in 1..(p - 1)
        BY <1>1
      <4>4. ASSUME \A j \in 1..n : input[j] # input[n + i],
                   \A j \in 1..(i - 1) : input[n + j] # input[n + i],
                   NEW j \in 1..(p - 1)
            PROVE  input[j] # input[n + i]
        <5>1. CASE j \in 1..n
          BY <4>4, <5>1
        <5>2. CASE j - n \in 1..(i - 1) /\ n + (j - n) = j
          <6>1. input[n + (j - n)] # input[n + i]
            BY <4>4, <5>2
          <6> QED
            BY <5>2, <6>1
        <5> QED
          BY <4>1, <5>1, <5>2
      <4> QED
        BY <4>2, <4>3, <4>4
    <3>6. input[p] = input[n + i] /\ p = n + i
      OBVIOUS
    <3> HIDE DEF p
    <3> QED
      BY <3>1, <3>2, <3>3, <3>4, <3>5, <3>6
  <2> QED
    BY <2>2, <2>3
<1>7. Chosen(position) = JoinedPlaces(Chosen(n), n, D)
  <2>1. \A i \in 1..n : i \in Chosen(position) <=> i \in Chosen(n)
    BY <1>1 DEF Chosen
  <2>2. \A i \in 1..position : i \in 1..n \/ (i - n \in 1..Len(t) /\ n + (i - n) = i)
    BY <1>1
  <2>3. Chosen(position) \in SUBSET (1..position) /\ Chosen(n) \in SUBSET (1..n)
    BY DEF Chosen
  <2> HIDE DEF D, n, t
  <2>4. ASSUME NEW i \in Chosen(position) PROVE i \in Chosen(n) \cup { n + x : x \in D }
    <3>1. CASE i \in 1..n
      BY <2>1, <3>1
    <3>2. CASE i - n \in 1..Len(t) /\ n + (i - n) = i
      <4>1. i - n \in D
        BY <1>6, <3>2
      <4> QED
        BY <3>2, <4>1
    <3> QED
      BY <2>2, <2>3, <3>1, <3>2
  <2>5. ASSUME NEW i \in Chosen(n) PROVE i \in Chosen(position)
    BY <2>1, <2>3
  <2>6. \A x \in D : n + x \in Chosen(position)
    BY <1>4, <1>6
  <2> QED
    BY <2>4, <2>5, <2>6 DEF JoinedPlaces, Moved
<1>8. GoesOn(input, n, t)
  BY <1>1, <1>2 DEF GoesOn
<1>9. Chosen(n) \in SUBSET (1..n)
  BY DEF Chosen
<1> HIDE DEF D, n, t
<1>10. IsConcat(Picked(input, JoinedPlaces(Chosen(n), n, D)), Picked(input, Chosen(n)), Picked(t, D))
  <2> DEFINE C == Chosen(n)
  <2>1. C \in SUBSET (1..n)
    BY <1>9
  <2> HIDE DEF C
  <2>2. IsConcat(Picked(input, JoinedPlaces(C, n, D)), Picked(input, C), Picked(t, D))
    BY <1>1, <1>4, <1>8, <2>1, PickedConcat
  <2> QED
    BY <2>2 DEF C
<1>11. Picked(t, D) \in Seq(Edges)
  BY <1>1, <1>4, PickedSeq
<1> QED
  BY <1>3, <1>7, <1>10, <1>11 DEF Selection, IsConcat, n

\* A batch adds as many distinct edges as it has new ones.
LEMMA PushCounts ==
  ASSUME IsFiniteSet(engine.seen), batch \in Seq(Edges)
  PROVE  /\ IsFiniteSet(engine.seen \cup ToSet(batch))
         /\ Cardinality({ i \in DOMAIN batch : ~IsNew(batch, i) }) \in Nat
         /\ Cardinality(engine.seen) \in Nat /\ Cardinality(engine.seen \cup ToSet(batch)) \in Nat
         /\ Cardinality(engine.seen \cup ToSet(batch))
              + Cardinality({ i \in DOMAIN batch : ~IsNew(batch, i) })
              = Cardinality(engine.seen) + Len(batch)
<1> DEFINE S == engine.seen
           n == Len(batch)
           T == ToSet(batch) \ S
           N == { i \in DOMAIN batch : IsNew(batch, i) }
           O == { i \in DOMAIN batch : ~IsNew(batch, i) }
           f == [i \in N |-> batch[i]]
<1>1. n \in Nat /\ DOMAIN batch = 1..n /\ N \in SUBSET (1..n) /\ O \in SUBSET (1..n)
      /\ 1..n \in SUBSET (1..n)
  OBVIOUS
<1>2. f \in Injection(N, T)
  <2>1. \A i \in N : batch[i] \in T
    BY DEF IsNew, ToSet
  <2>2. \A i, j \in N : batch[i] = batch[j] => i = j
    <3> SUFFICES ASSUME NEW i \in N, NEW j \in N, batch[i] = batch[j], i < j PROVE FALSE
      <4>1. \A i, j \in N : i < j \/ j < i \/ i = j
        BY <1>1
      <4> QED
        BY <4>1
    <3>1. i \in 1..(j - 1)
      BY <1>1
    <3> QED
      BY <3>1 DEF IsNew
  <2> QED
    BY <2>1, <2>2 DEF Injection, IsInjective
<1>3. ASSUME NEW e \in T PROVE \E i \in N : batch[i] = e
  <2> DEFINE P == { i \in 1..n : batch[i] = e }
  <2>1. P # {} /\ P \in SUBSET Nat
    BY <1>1 DEF ToSet
  <2>2. PICK i \in P : \A j \in P : i <= j
    <3> HIDE DEF P
    <3> QED
      BY <2>1, NatMinimum
  <2>3. \A j \in 1..(i - 1) : batch[j] # batch[i]
    <3> SUFFICES ASSUME NEW j \in 1..(i - 1), batch[j] = batch[i] PROVE FALSE
      OBVIOUS
    <3>1. j \in P /\ j < i /\ i \in Nat
      BY <1>1
    <3> QED
      BY <2>2, <3>1
  <2>4. i \in N
    BY <1>1, <2>3 DEF IsNew
  <2> QED
    BY <2>4
<1>4. f \in Surjection(N, T)
  BY <1>2, <1>3 DEF Surjection, Injection
<1>5. /\ IsFiniteSet(N) /\ IsFiniteSet(O) /\ Cardinality(N) \in Nat /\ Cardinality(O) \in Nat
      /\ Cardinality(1..n) = n
  <2> HIDE DEF n, N, O
  <2> QED
    BY <1>1, PlacesFinite
<1>6. N \cup O = 1..n /\ N \cap O = {}
  BY <1>1
<1>7. (S \cup T) = S \cup ToSet(batch) /\ S \cap T = {}
  OBVIOUS
<1>8. IsFiniteSet(S) /\ Cardinality(S) \in Nat
  BY FS_CardinalityType
<1> HIDE DEF S, n, T, N, O, f
<1>9. IsFiniteSet(T) /\ Cardinality(T) = Cardinality(N)
  <2>1. IsFiniteSet(T)
    BY <1>4, <1>5, FS_Surjection
  <2>2. Cardinality(T) = Cardinality(N)
    BY <1>2, <1>4, <1>5, FS_Surjection
  <2> QED
    BY <2>1, <2>2
<1>10. n = Cardinality(N) + Cardinality(O)
  <2>1. Cardinality(N \cup O) = Cardinality(N) + Cardinality(O) - Cardinality(N \cap O)
    BY <1>5, FS_Union
  <2>2. Cardinality(N \cap O) = 0
    BY <1>6, FS_EmptySet
  <2>3. Cardinality(N \cup O) = Cardinality(1..n)
    BY <1>6, Zenon
  <2> QED
    BY <1>5, <2>1, <2>2, <2>3
<1>11. IsFiniteSet(S \cup T) /\ Cardinality(S \cup T) = Cardinality(S) + Cardinality(T)
  <2>1. /\ IsFiniteSet(S \cup T)
        /\ Cardinality(S \cup T) = Cardinality(S) + Cardinality(T) - Cardinality(S \cap T)
    BY <1>8, <1>9, FS_Union
  <2>2. Cardinality(S \cap T) = 0
    BY <1>7, FS_EmptySet
  <2> QED
    BY <1>5, <1>8, <1>9, <2>1, <2>2
<1>12. IsFiniteSet(S \cup ToSet(batch)) /\ Cardinality(S \cup ToSet(batch)) = Cardinality(S) + Cardinality(N)
  BY <1>7, <1>9, <1>11
<1>13. Cardinality(S \cup ToSet(batch)) + Cardinality(O) = Cardinality(S) + n
       /\ Cardinality(S \cup ToSet(batch)) \in Nat
  BY <1>5, <1>8, <1>10, <1>12
<1> QED
  BY <1>5, <1>8, <1>12, <1>13 DEF S, O, n

-----------------------------------------------------------------------------
(* The invariant                                                           *)

\* The call does not change, nor does what is said of it.
LEMMA CallFrame ==
  ASSUME UNCHANGED call, NEW m, Behind' = m
  PROVE  /\ Selection(Behind)' = Selection(m) /\ Met(Behind)' = Met(m) /\ Result' = Result
         /\ input' = input /\ order' = order /\ duplicates' = duplicates
         /\ passthrough' = passthrough
<1>1. /\ input' = input /\ order' = order /\ duplicates' = duplicates
      /\ passthrough' = passthrough
  BY DEF call
<1>2. Chosen(Behind)' = Chosen(m)
  BY <1>1 DEF Chosen
<1>3. Met(Behind)' = Met(m)
  BY <1>1 DEF Met
<1>4. Selection(Behind)' = Selection(m)
  BY <1>1, <1>2 DEF Selection
<1>5. Result' = Result
  BY <1>1 DEF Result, Promise!Reference
<1> QED
  BY <1>1, <1>3, <1>4, <1>5

\* The shape of the engine, field by field.
LEMMA EngineShape ==
  ASSUME TypeOK
  PROVE  /\ engine.seen \in SUBSET Edges /\ engine.canonical \in Seq(Edges)
         /\ engine.raw_edges \in Nat /\ engine.duplicate_edges \in Nat
         /\ engine.finished \in BOOLEAN /\ engine.cancelled \in BOOLEAN
         /\ Len(batch) \in Nat /\ position \in Nat /\ Len(input) \in Nat /\ Behind \in 0..Len(input)
         /\ Behind + Len(batch) = position /\ BatchEdges \in Nat \ {0}
         /\ input \in Seq(Edges)
BY PolicyAssumption DEF TypeOK, Behind

\* A new engine satisfies what is said of an engine.
LEMMA NewEngineShape ==
  /\ NewEngine \in [seen : SUBSET Edges, canonical : Seq(Edges), raw_edges : Nat,
                    duplicate_edges : Nat, finished : BOOLEAN, cancelled : BOOLEAN]
  /\ IsFiniteSet(NewEngine.seen) /\ NewEngine.raw_edges = 0 /\ NewEngine.canonical = <<>>
  /\ NewEngine.seen = {} /\ ~NewEngine.cancelled
  /\ NewEngine.raw_edges = Cardinality(NewEngine.seen) + NewEngine.duplicate_edges
<1>1. IsFiniteSet({}) /\ Cardinality({}) = 0
  BY FS_EmptySet
<1> QED
  BY <1>1 DEF NewEngine

\* No input has been read, and nothing delivered.
LEMMA InitInv == Init => Inv
<1> SUFFICES ASSUME Init PROVE Inv
  OBVIOUS
<1>1. input \in Seq(Edges) /\ Len(input) \in Nat
  BY DEF Init
<1>2. TypeOK
  <2>1. <<>> \in Seq(Edges) /\ Len(<<>>) = 0
    BY EmptySeq
  <2>2. /\ position \in 0..Len(input) /\ Len(batch) <= position /\ Len(batch) <= BatchEdges
    BY <1>1, <2>1, PolicyAssumption DEF Init
  <2> QED
    BY <1>1, <2>1, <2>2, NewEngineShape DEF Init, TypeOK
<1>3. Behind = 0
  <2>1. Len(batch) = 0 /\ position = 0
    BY EmptySeq DEF Init
  <2> QED
    BY <2>1 DEF Behind
<1>4. PlaceFrame
  <2>1. ~NewEngine.cancelled
    BY NewEngineShape
  <2> QED
    BY <2>1 DEF Init, PlaceFrame, Pushing, Draining
<1>5. EngineFrame
  <2>1. Met(0) = {}
    BY DEF Met
  <2> QED
    BY <1>3, <2>1, NewEngineShape DEF Init, EngineFrame
<1>6. Progress
  <2>1. Selection(0) = <<>>
    BY <1>1, SelectionSeq
  <2>2. delivered \o values = <<>> /\ engine.canonical = <<>>
    BY NewEngineShape DEF Init
  <2> QED
    BY <1>3, <2>1, <2>2 DEF Init, Progress, Draining
<1>7. FirstEdge
  BY DEF Init, FirstEdge
<1>8. Cleared
  BY NewEngineShape DEF Init, Cleared
<1>9. PassesThrough
  <2>1. IsPrefix(delivered, input)
    BY <1>1, PrefixSelf DEF Init
  <2>2. engine.raw_edges <= BatchEdges
    BY NewEngineShape, PolicyAssumption DEF Init
  <2> QED
    BY <2>1, <2>2 DEF Init, PassesThrough
<1> QED
  BY <1>2, <1>4, <1>5, <1>6, <1>7, <1>8, <1>9 DEF Inv

\* The batch is the input behind what was pushed.
LEMMA StepReadEdge ==
  ASSUME Inv, ReadEdge
  PROVE  Inv'
<1>1. /\ pc = "read" /\ position < Len(input) /\ Len(batch) < BatchLimit
      /\ batch' = Append(batch, input[position + 1]) /\ position' = position + 1
      /\ UNCHANGED call /\ pc' = pc /\ values' = values /\ engine' = engine
      /\ delivered' = delivered /\ outcome' = outcome
  BY DEF ReadEdge, consumer
<1>2. TypeOK /\ PlaceFrame /\ EngineFrame /\ Progress /\ FirstEdge /\ Cleared /\ PassesThrough
  BY DEF Inv
<1>3. /\ Len(batch) \in Nat /\ position \in Nat /\ Len(input) \in Nat /\ BatchEdges \in Nat \ {0}
      /\ batch \in Seq(Edges) /\ input \in Seq(Edges) /\ Behind + Len(batch) = position
      /\ Behind \in Nat
  BY <1>2, EngineShape DEF TypeOK
<1>4. /\ batch' \in Seq(Edges) /\ Len(batch') = Len(batch) + 1
      /\ \A i \in 1..Len(batch) : batch'[i] = batch[i]
      /\ batch'[Len(batch) + 1] = input[position + 1]
  BY <1>1, <1>3
<1>5. Behind' = Behind
  BY <1>1, <1>3, <1>4 DEF Behind
<1>6. /\ Selection(Behind)' = Selection(Behind) /\ Met(Behind)' = Met(Behind) /\ Result' = Result
      /\ input' = input /\ order' = order /\ duplicates' = duplicates
      /\ passthrough' = passthrough
  BY <1>1, <1>5, CallFrame
<1>7. Len(batch') <= BatchEdges /\ (passthrough /\ delivered = <<>> => Len(batch') <= 1)
  BY <1>1, <1>3, <1>4 DEF BatchLimit
<1>8. TypeOK'
  <2>1. position' \in 0..Len(input') /\ Len(batch') <= position'
    BY <1>1, <1>2, <1>3, <1>4, <1>6 DEF TypeOK
  <2> QED
    BY <1>1, <1>2, <1>4, <1>6, <1>7, <2>1 DEF TypeOK
<1>9. PlaceFrame'
  <2>1. ASSUME NEW i \in 1..Len(batch') PROVE batch'[i] = input'[Behind' + i]
    <3>1. CASE i \in 1..Len(batch)
      BY <1>2, <1>4, <1>5, <1>6, <3>1 DEF PlaceFrame
    <3>2. CASE i = Len(batch) + 1
      BY <1>3, <1>4, <1>5, <1>6, <3>2
    <3> QED
      BY <1>3, <1>4, <3>1, <3>2
  <2> QED
    BY <1>1, <1>2, <1>6, <2>1 DEF PlaceFrame, Pushing, Draining
<1>10. EngineFrame'
  BY <1>1, <1>2, <1>5, <1>6 DEF EngineFrame, NewEngine
<1>11. Progress'
  BY <1>1, <1>2, <1>5, <1>6 DEF Progress, Pushing, Draining
<1>12. FirstEdge'
  BY <1>1, <1>2, <1>6, <1>7 DEF FirstEdge
<1>13. Cleared'
  BY <1>1, <1>2, <1>6 DEF Cleared
<1>14. PassesThrough'
  BY <1>1, <1>2, <1>6 DEF PassesThrough
<1> QED
  BY <1>8, <1>9, <1>10, <1>11, <1>12, <1>13, <1>14 DEF Inv

\* A batch is pushed: its selection is held, or goes to the engine's vector.
LEMMA StepPushBatch ==
  ASSUME Inv, PushBatch
  PROVE  Inv'
<1>1. /\ pc = "read" /\ (Len(batch) = BatchLimit \/ (position = Len(input) /\ batch # <<>>))
      /\ engine' = Pushed(batch)
      /\ values' = (IF order = "encounter" THEN Kept(batch) ELSE <<>>)
      /\ batch' = <<>> /\ pc' = "push"
      /\ UNCHANGED call /\ position' = position /\ delivered' = delivered /\ outcome' = outcome
  BY DEF PushBatch, consumer
<1>2. TypeOK /\ PlaceFrame /\ EngineFrame /\ Progress /\ FirstEdge /\ Cleared /\ PassesThrough
  BY DEF Inv
<1>3. /\ engine.seen \in SUBSET Edges /\ engine.canonical \in Seq(Edges)
      /\ engine.raw_edges \in Nat /\ engine.duplicate_edges \in Nat
      /\ engine.finished \in BOOLEAN /\ engine.cancelled \in BOOLEAN
      /\ Len(batch) \in Nat /\ position \in Nat /\ Len(input) \in Nat /\ Behind \in 0..Len(input)
      /\ Behind + Len(batch) = position /\ BatchEdges \in Nat \ {0}
      /\ input \in Seq(Edges) /\ batch \in Seq(Edges) /\ delivered \in Seq(Edges)
  BY <1>2, EngineShape DEF TypeOK
<1>4. Behind' = position
  <2>1. Len(batch') = 0
    BY <1>1
  <2> QED
    BY <1>1, <1>3, <2>1 DEF Behind
<1>5. /\ Selection(Behind)' = Selection(position) /\ Met(Behind)' = Met(position)
      /\ Result' = Result /\ input' = input /\ order' = order /\ duplicates' = duplicates
      /\ passthrough' = passthrough
  BY <1>1, <1>4, CallFrame
<1>6. /\ Kept(batch) \in Seq(Edges)
      /\ Selection(position) = Selection(Behind) \o Kept(batch)
  BY <1>1, <1>2, PushSelection
<1>7. /\ engine'.seen = engine.seen \cup ToSet(batch)
      /\ engine'.raw_edges = engine.raw_edges + Len(batch)
      /\ engine'.duplicate_edges = engine.duplicate_edges
                                     + Cardinality({ i \in DOMAIN batch : ~IsNew(batch, i) })
      /\ engine'.canonical = (IF order = "canonical" THEN engine.canonical \o Kept(batch)
                              ELSE engine.canonical)
      /\ engine'.cancelled = engine.cancelled /\ engine'.finished = engine.finished
      /\ engine' = [seen |-> engine'.seen, canonical |-> engine'.canonical,
                    raw_edges |-> engine'.raw_edges, duplicate_edges |-> engine'.duplicate_edges,
                    finished |-> engine'.finished, cancelled |-> engine'.cancelled]
  BY <1>1, <1>2 DEF Pushed, TypeOK
<1>8. /\ IsFiniteSet(engine.seen \cup ToSet(batch))
      /\ Cardinality({ i \in DOMAIN batch : ~IsNew(batch, i) }) \in Nat
      /\ Cardinality(engine.seen) \in Nat /\ Cardinality(engine.seen \cup ToSet(batch)) \in Nat
      /\ Cardinality(engine.seen \cup ToSet(batch))
           + Cardinality({ i \in DOMAIN batch : ~IsNew(batch, i) })
           = Cardinality(engine.seen) + Len(batch)
  BY <1>2, <1>3, PushCounts DEF EngineFrame
<1>9. TypeOK'
  <2>1. engine' \in [seen : SUBSET Edges, canonical : Seq(Edges), raw_edges : Nat,
                     duplicate_edges : Nat, finished : BOOLEAN, cancelled : BOOLEAN]
    <3>1. engine'.seen \in SUBSET Edges
      BY <1>3, <1>7 DEF ToSet
    <3>2. engine'.canonical \in Seq(Edges)
      BY <1>3, <1>6, <1>7
    <3>3. engine'.raw_edges \in Nat /\ engine'.duplicate_edges \in Nat
      <4>1. PICK k : k = Cardinality({ i \in DOMAIN batch : ~IsNew(batch, i) })
        OBVIOUS
      <4>2. k \in Nat
        BY <1>8, <4>1, Zenon
      <4>3. engine'.duplicate_edges = engine.duplicate_edges + k
        BY <1>7, <4>1, Zenon
      <4>4. engine'.raw_edges = engine.raw_edges + Len(batch)
        BY <1>7
      <4>5. engine.raw_edges \in Nat /\ engine.duplicate_edges \in Nat /\ Len(batch) \in Nat
        BY <1>3
      <4> QED
        BY <4>2, <4>3, <4>4, <4>5
    <3> QED
      BY <1>3, <1>7, <3>1, <3>2, <3>3
  <2>2. values' \in Seq(Edges) /\ batch' \in Seq(Edges) /\ Len(batch') = 0
    BY <1>1, <1>6
  <2>3. Len(batch') <= position' /\ Len(batch') <= BatchEdges
    BY <1>1, <1>3, <2>2
  <2> QED
    BY <1>1, <1>2, <1>5, <2>1, <2>2, <2>3 DEF TypeOK, Pushing
<1>10. PlaceFrame'
  <2>1. Len(batch') = 0 /\ ~engine.cancelled /\ outcome = "none"
    BY <1>1, <1>2 DEF PlaceFrame
  <2>2. ~engine'.cancelled
    BY <1>7, <2>1
  <2>3. \A i \in 1..Len(batch') : batch'[i] = input'[Behind' + i]
    BY <2>1
  <2> QED
    BY <1>1, <2>1, <2>2, <2>3 DEF PlaceFrame, Pushing, Draining
<1>11. EngineFrame'
  <2>1. ASSUME ~passthrough PROVE engine'.raw_edges = position /\ engine'.seen = Met(position)
    <3>1. engine.raw_edges = Behind /\ engine.seen = Met(Behind)
      BY <1>1, <1>2, <2>1 DEF EngineFrame
    <3>2. Met(position) = Met(Behind) \cup ToSet(batch)
      <4>1. \A i \in 1..Len(batch) : batch[i] = input[Behind + i]
        BY <1>2 DEF PlaceFrame
      <4>2. \A i \in 1..position :
              i \in 1..Behind \/ (i - Behind \in 1..Len(batch) /\ Behind + (i - Behind) = i)
        BY <1>3
      <4>3. \A i \in 1..Behind : i \in 1..position
        BY <1>3
      <4>4. \A i \in 1..Len(batch) : Behind + i \in 1..position
        BY <1>3
      <4>5. ToSet(batch) = { input[Behind + i] : i \in 1..Len(batch) }
        <5>1. DOMAIN batch = 1..Len(batch)
          BY <1>3
        <5>2. ToSet(batch) = { batch[i] : i \in 1..Len(batch) }
          BY <5>1 DEF ToSet
        <5> QED
          BY <4>1, <5>2
      <4>6. ASSUME NEW i \in 1..position
            PROVE  input[i] \in Met(Behind) \cup { input[Behind + x] : x \in 1..Len(batch) }
        <5>1. CASE i \in 1..Behind
          BY <5>1 DEF Met
        <5>2. CASE i - Behind \in 1..Len(batch) /\ Behind + (i - Behind) = i
          <6>1. input[i] = input[Behind + (i - Behind)]
            BY <5>2
          <6> QED
            BY <5>2, <6>1
        <5> QED
          BY <4>2, <5>1, <5>2
      <4> QED
        BY <4>3, <4>4, <4>5, <4>6 DEF Met
    <3> QED
      BY <1>3, <1>7, <3>1, <3>2
  <2>2. IsFiniteSet(engine'.seen)
    BY <1>7, <1>8
  <2> QED
    BY <1>1, <1>4, <1>5, <2>1, <2>2 DEF EngineFrame
<1>12. Progress'
  <2>1. values = <<>>
    BY <1>1, <1>2 DEF PlaceFrame
  <2>2. CASE order = "encounter"
    <3>1. delivered = Selection(Behind) /\ engine.canonical = <<>>
      <4>1. delivered \o values = Selection(Behind) /\ engine.canonical = <<>>
        BY <1>1, <1>2, <2>2 DEF Progress
      <4>2. delivered \o values = delivered
        BY <1>3, <2>1
      <4> QED
        BY <4>1, <4>2
    <3>2. delivered' \o values' = Selection(position) /\ engine'.canonical = <<>>
      BY <1>1, <1>6, <1>7, <2>2, <3>1
    <3> QED
      BY <1>1, <1>5, <2>2, <3>2 DEF Progress, Pushing, Draining
  <2>3. CASE order = "canonical"
    <3>1. delivered = <<>> /\ engine.canonical = Selection(Behind)
      BY <1>1, <1>2, <2>3 DEF Progress
    <3>2. delivered' = <<>> /\ values' = <<>> /\ engine'.canonical = Selection(position)
      BY <1>1, <1>6, <1>7, <2>3, <3>1
    <3> QED
      BY <1>1, <1>5, <2>3, <3>2 DEF Progress, Pushing, Draining
  <2> QED
    BY <1>2, <2>2, <2>3 DEF TypeOK
<1>13. FirstEdge'
  <2>1. ASSUME passthrough, delivered = <<>> PROVE position = 1
    <3>1. order = "encounter" /\ duplicates = "preserve"
      BY <1>2, <2>1 DEF TypeOK
    <3>2. values = <<>>
      BY <1>1, <1>2 DEF PlaceFrame
    <3>3. Selection(Behind) = <<>>
      <4>1. delivered \o values = Selection(Behind)
        BY <1>1, <1>2, <3>1 DEF Progress
      <4> QED
        BY <2>1, <3>2, <4>1
    <3>4. Behind = 0
      <4>1. Len(Selection(Behind)) = Behind
        BY <1>3, <3>1, SelectionSeq
      <4> QED
        BY <3>3, <4>1
    <3>5. Len(batch) <= 1
      BY <1>1, <1>2, <2>1 DEF FirstEdge
    <3>6. Len(batch) # 0
      <4>1. BatchLimit # 0
        BY <1>3 DEF BatchLimit
      <4>2. batch # <<>> => Len(batch) # 0
        BY <1>3, EmptySeq
      <4> QED
        BY <1>1, <4>1, <4>2
    <3> QED
      BY <1>3, <3>4, <3>5, <3>6
  <2> QED
    BY <1>1, <1>5, <2>1 DEF FirstEdge
<1>14. Cleared'
  <2>1. engine.raw_edges = Cardinality(engine.seen) + engine.duplicate_edges
    BY <1>1, <1>2 DEF Cleared, PlaceFrame
  <2>2. engine'.raw_edges = Cardinality(engine'.seen) + engine'.duplicate_edges
    <3>1. PICK k, seen : k = Cardinality({ i \in DOMAIN batch : ~IsNew(batch, i) })
                         /\ seen = Cardinality(engine.seen \cup ToSet(batch))
      OBVIOUS
    <3>2. /\ engine'.raw_edges = engine.raw_edges + Len(batch)
          /\ engine'.duplicate_edges = engine.duplicate_edges + k
          /\ Cardinality(engine'.seen) = seen
      BY <1>7, <3>1
    <3>3. PICK d, c : d = engine.duplicate_edges /\ c = Cardinality(engine.seen)
      OBVIOUS
    <3>4. k \in Nat /\ seen \in Nat /\ c \in Nat /\ seen + k = c + Len(batch)
      BY <1>8, <3>1, <3>3
    <3>5. d \in Nat /\ Len(batch) \in Nat
      BY <1>2, <1>3, <3>3 DEF TypeOK
    <3>6. engine'.raw_edges = (c + d) + Len(batch)
      BY <2>1, <3>2, <3>3
    <3>7. engine'.raw_edges = seen + (d + k)
      BY <3>4, <3>5, <3>6
    <3> QED
      BY <3>2, <3>3, <3>7
  <2>3. outcome' = "none"
    BY <1>1, <1>2 DEF PlaceFrame
  <2> QED
    BY <2>2, <2>3 DEF Cleared
<1>15. PassesThrough'
  <2>1. ASSUME passthrough PROVE engine'.raw_edges <= BatchEdges
    <3>1. engine.raw_edges = 0
      BY <1>1, <1>2, <2>1, NewEngineShape DEF EngineFrame
    <3>2. Len(batch) <= BatchEdges
      BY <1>2 DEF TypeOK
    <3> QED
      BY <1>3, <1>7, <3>1, <3>2
  <2> QED
    BY <1>1, <1>2, <1>5, <2>1 DEF PassesThrough
<1> QED
  BY <1>9, <1>10, <1>11, <1>12, <1>13, <1>14, <1>15 DEF Inv

\* What is yielded moves from what is held to what is delivered.
LEMMA YieldMoves ==
  ASSUME NEW S, NEW d \in Seq(S), NEW v \in Seq(S), v # <<>>
  PROVE  /\ Append(d, Head(v)) \in Seq(S) /\ Tail(v) \in Seq(S)
         /\ Append(d, Head(v)) \o Tail(v) = d \o v
         /\ Len(Append(d, Head(v))) = Len(d) + 1 /\ Len(d) + 1 <= Len(d \o v)
         /\ \A k \in 1..(Len(d) + 1) : Append(d, Head(v))[k] = (d \o v)[k]
<1>1. Len(v) \in Nat \ {0} /\ Len(d) \in Nat
  BY EmptySeq
<1> DEFINE a == Append(d, Head(v))
           b == Tail(v)
<1>2. Head(v) \in S /\ Head(v) = v[1]
  BY <1>1
<1>3. /\ a \in Seq(S) /\ Len(a) = Len(d) + 1 /\ a[Len(d) + 1] = v[1]
      /\ \A k \in 1..Len(d) : a[k] = d[k]
  BY <1>1, <1>2
<1>4. b \in Seq(S) /\ Len(b) = Len(v) - 1 /\ \A k \in 1..(Len(v) - 1) : b[k] = v[k + 1]
  BY <1>1
<1> DEFINE u == d \o v
<1>5. /\ u \in Seq(S) /\ Len(u) = Len(d) + Len(v)
      /\ \A k \in 1..Len(d) : u[k] = d[k]
      /\ \A k \in 1..Len(v) : u[Len(d) + k] = v[k]
  BY <1>1
<1> HIDE DEF a, b, u
<1>6. \A k \in 1..Len(a) : u[k] = a[k]
  <2> SUFFICES ASSUME NEW k \in 1..Len(a) PROVE u[k] = a[k]
    OBVIOUS
  <2>1. CASE k \in 1..Len(d)
    BY <1>3, <1>5, <2>1
  <2>2. CASE k = Len(d) + 1
    <3>1. u[Len(d) + 1] = v[1]
      BY <1>1, <1>5
    <3> QED
      BY <1>3, <2>2, <3>1
  <2> QED
    BY <1>1, <1>3, <2>1, <2>2
<1>7. \A k \in 1..Len(b) : u[Len(a) + k] = b[k]
  <2> SUFFICES ASSUME NEW k \in 1..Len(b) PROVE u[Len(a) + k] = b[k]
    OBVIOUS
  <2>1. k + 1 \in 1..Len(v) /\ Len(a) + k = Len(d) + (k + 1)
    BY <1>1, <1>3, <1>4
  <2>2. u[Len(d) + (k + 1)] = v[k + 1]
    BY <1>5, <2>1
  <2> QED
    BY <1>4, <2>1, <2>2
<1>8. Len(u) = Len(a) + Len(b)
  BY <1>1, <1>3, <1>4, <1>5
<1>9. u = a \o b
  BY <1>3, <1>4, <1>5, <1>6, <1>7, <1>8, ConcatPointwise
<1> QED
  BY <1>1, <1>3, <1>4, <1>5, <1>6, <1>9 DEF a, b, u

\* A passthrough that is open has delivered a prefix of the input, whatever part of
\* what it holds is delivered with it.
LEMMA OpenPrefix ==
  ASSUME TypeOK, Progress, pc # "end", passthrough, NEW d \in Seq(Edges),
         Len(d) <= Len(delivered \o values),
         \A k \in 1..Len(d) : d[k] = (delivered \o values)[k]
  PROVE  IsPrefix(d, input)
<1> DEFINE h == delivered \o values
<1>1. Result = input /\ input \in Seq(Edges)
  BY ResultIs DEF TypeOK
<1>2. Len(h) <= Len(Result) /\ \A k \in 1..Len(h) : h[k] = Result[k]
  BY HeldPrefix
<1>3. h \in Seq(Edges)
  BY DEF TypeOK
<1>4. Len(d) <= Len(h) /\ \A k \in 1..Len(d) : d[k] = h[k]
  OBVIOUS
<1>5. Len(d) \in Nat /\ Len(h) \in Nat /\ Len(input) \in Nat
  BY <1>1, <1>3
<1> HIDE DEF h
<1>6. Len(d) <= Len(input) /\ \A k \in 1..Len(d) : d[k] = input[k]
  BY <1>1, <1>2, <1>4, <1>5
<1> QED
  BY <1>1, <1>6, PrefixPointwise

\* The consumer receives the next edge that is held.
LEMMA StepYield ==
  ASSUME Inv, YieldPushed \/ YieldDrained
  PROVE  Inv'
<1>1. /\ values # <<>> /\ delivered' = Append(delivered, Head(values)) /\ values' = Tail(values)
      /\ \/ pc = "push" /\ pc' = "push-yield"
         \/ pc = "drain" /\ pc' = "drain-yield"
      /\ UNCHANGED call /\ position' = position /\ batch' = batch /\ engine' = engine
      /\ outcome' = outcome
  BY DEF YieldPushed, YieldDrained, Yield
<1>2. TypeOK /\ PlaceFrame /\ EngineFrame /\ Progress /\ FirstEdge /\ Cleared /\ PassesThrough
  BY DEF Inv
<1>3. Behind' = Behind
  BY <1>1 DEF Behind
<1>4. /\ Selection(Behind)' = Selection(Behind) /\ Met(Behind)' = Met(Behind) /\ Result' = Result
      /\ input' = input /\ order' = order /\ duplicates' = duplicates
      /\ passthrough' = passthrough
  BY <1>1, <1>3, CallFrame
<1>5. delivered \in Seq(Edges) /\ values \in Seq(Edges)
  BY <1>2 DEF TypeOK
<1>6. /\ delivered' \in Seq(Edges) /\ values' \in Seq(Edges)
      /\ delivered' \o values' = delivered \o values
      /\ Len(delivered') = Len(delivered) + 1 /\ Len(delivered) + 1 <= Len(delivered \o values)
      /\ \A k \in 1..(Len(delivered) + 1) : delivered'[k] = (delivered \o values)[k]
  BY <1>1, <1>5, YieldMoves
<1>7. TypeOK'
  BY <1>1, <1>2, <1>4, <1>6 DEF TypeOK, Pushing, Draining
<1>8. PlaceFrame'
  BY <1>1, <1>2, <1>3, <1>4 DEF PlaceFrame, Pushing, Draining
<1>9. EngineFrame'
  BY <1>1, <1>2, <1>3, <1>4 DEF EngineFrame
<1>10. Progress'
  <2>1. CASE pc = "push" /\ pc' = "push-yield"
    <3>1. order = "encounter"
      BY <1>1, <1>2, <2>1 DEF Progress, Pushing, TypeOK
    <3>2. delivered \o values = Selection(Behind) /\ engine.canonical = <<>>
      BY <1>2, <2>1, <3>1 DEF Progress, Pushing
    <3> QED
      BY <1>1, <1>4, <1>6, <2>1, <3>1, <3>2 DEF Progress, Pushing, Draining
  <2>2. CASE pc = "drain" /\ pc' = "drain-yield"
    <3>1. delivered \o values \o Reverse(engine.canonical) = Result
      BY <1>2, <2>2 DEF Progress, Draining
    <3>2. delivered' \o values' \o Reverse(engine'.canonical) = Result'
      BY <1>1, <1>4, <1>6, <3>1
    <3> QED
      BY <2>2, <3>2 DEF Progress, Pushing
  <2> QED
    BY <1>1, <2>1, <2>2
<1>11. FirstEdge'
  <2>1. delivered' # <<>>
    BY <1>5, <1>6, EmptySeq
  <2> QED
    BY <1>1, <2>1 DEF FirstEdge
<1>12. Cleared'
  BY <1>1, <1>2, <1>4 DEF Cleared
<1>13. PassesThrough'
  <2>1. outcome' = "none"
    BY <1>1, <1>2 DEF PlaceFrame
  <2>2. ASSUME passthrough PROVE IsPrefix(delivered', input)
    <3>1. pc # "end"
      BY <1>1
    <3> QED
      BY <1>2, <1>6, <2>2, <3>1, OpenPrefix
  <2>3. ASSUME passthrough, Len(delivered') = 1, pc' = "push-yield" PROVE position' = 1
    <3>1. Len(delivered) = 0 /\ pc = "push"
      BY <1>1, <1>5, <1>6, <2>3
    <3>2. delivered = <<>>
      BY <1>5, <3>1, EmptySeq
    <3> QED
      BY <1>1, <1>2, <2>3, <3>1, <3>2 DEF FirstEdge
  <2> QED
    BY <1>1, <1>2, <1>4, <2>1, <2>2, <2>3 DEF PassesThrough
<1> QED
  BY <1>7, <1>8, <1>9, <1>10, <1>11, <1>12, <1>13 DEF Inv

\* The consumer asks for the next edge.
LEMMA StepResume ==
  ASSUME Inv, Resume
  PROVE  Inv'
<1>1. /\ \/ pc = "push-yield" /\ pc' = "push"
         \/ pc = "drain-yield" /\ pc' = "drain"
      /\ UNCHANGED call /\ position' = position /\ batch' = batch /\ engine' = engine
      /\ outcome' = outcome /\ values' = values /\ delivered' = delivered
  BY DEF Resume, consumer
<1>2. TypeOK /\ PlaceFrame /\ EngineFrame /\ Progress /\ FirstEdge /\ Cleared /\ PassesThrough
  BY DEF Inv
<1>3. Behind' = Behind
  BY <1>1 DEF Behind
<1>4. /\ Selection(Behind)' = Selection(Behind) /\ Met(Behind)' = Met(Behind) /\ Result' = Result
      /\ input' = input /\ order' = order /\ duplicates' = duplicates
      /\ passthrough' = passthrough
  BY <1>1, <1>3, CallFrame
<1>5. TypeOK'
  BY <1>1, <1>2, <1>4 DEF TypeOK, Pushing, Draining
<1>6. PlaceFrame'
  BY <1>1, <1>2, <1>3, <1>4 DEF PlaceFrame, Pushing, Draining
<1>7. EngineFrame'
  BY <1>1, <1>2, <1>3, <1>4 DEF EngineFrame
<1>8. Progress'
  BY <1>1, <1>2, <1>4 DEF Progress, Pushing, Draining
<1>9. FirstEdge'
  BY <1>1, <1>2, <1>4 DEF FirstEdge
<1>10. Cleared'
  BY <1>1, <1>2, <1>4 DEF Cleared
<1>11. PassesThrough'
  BY <1>1, <1>2, <1>4 DEF PassesThrough
<1> QED
  BY <1>5, <1>6, <1>7, <1>8, <1>9, <1>10, <1>11 DEF Inv

\* A passthrough drops its processor after the batch.
LEMMA StepPushDone ==
  ASSUME Inv, PushDone
  PROVE  Inv'
<1>1. /\ pc = "push" /\ values = <<>> /\ pc' = "read"
      /\ engine' = (IF passthrough THEN NewEngine ELSE engine)
      /\ UNCHANGED call /\ position' = position /\ batch' = batch
      /\ outcome' = outcome /\ values' = values /\ delivered' = delivered
  BY DEF PushDone, consumer
<1>2. TypeOK /\ PlaceFrame /\ EngineFrame /\ Progress /\ FirstEdge /\ Cleared /\ PassesThrough
  BY DEF Inv
<1>3. Behind' = Behind
  BY <1>1 DEF Behind
<1>4. /\ Selection(Behind)' = Selection(Behind) /\ Met(Behind)' = Met(Behind) /\ Result' = Result
      /\ input' = input /\ order' = order /\ duplicates' = duplicates
      /\ passthrough' = passthrough
  BY <1>1, <1>3, CallFrame
<1>5. batch = <<>> /\ Len(batch) = 0 /\ BatchEdges \in Nat
  BY <1>1, <1>2, EmptySeq, PolicyAssumption DEF PlaceFrame, Pushing
<1>6. TypeOK'
  BY <1>1, <1>2, <1>4, NewEngineShape DEF TypeOK
<1>7. PlaceFrame'
  BY <1>1, <1>2, <1>3, <1>4, NewEngineShape DEF PlaceFrame, Pushing, Draining
<1>8. EngineFrame'
  BY <1>1, <1>2, <1>3, <1>4, NewEngineShape DEF EngineFrame
<1>9. Progress'
  <2>1. CASE passthrough
    <3>1. order = "encounter"
      BY <1>2, <2>1 DEF TypeOK
    <3> QED
      BY <1>1, <1>2, <1>4, <2>1, <3>1, NewEngineShape DEF Progress, Pushing, Draining
  <2>2. CASE ~passthrough
    BY <1>1, <1>2, <1>4, <2>2 DEF Progress, Pushing, Draining
  <2> QED
    BY <2>1, <2>2
<1>10. FirstEdge'
  BY <1>1, <1>4, <1>5 DEF FirstEdge
<1>11. Cleared'
  <2>1. outcome' = "none"
    BY <1>1, <1>2 DEF PlaceFrame
  <2> QED
    BY <1>1, <1>2, <1>4, <2>1, NewEngineShape DEF Cleared
<1>12. PassesThrough'
  <2>1. passthrough => engine'.raw_edges = 0
    BY <1>1, NewEngineShape
  <2> QED
    BY <1>1, <1>2, <1>4, <1>5, <2>1 DEF PassesThrough
<1> QED
  BY <1>6, <1>7, <1>8, <1>9, <1>10, <1>11, <1>12 DEF Inv

\* Reversing a sequence, once and twice.
LEMMA ReverseTwice ==
  ASSUME NEW S, NEW s \in Seq(S)
  PROVE  /\ Reverse(s) \in Seq(S) /\ Len(Reverse(s)) = Len(s)
         /\ \A k \in 1..Len(s) : Reverse(s)[k] = s[Len(s) - k + 1]
         /\ Reverse(Reverse(s)) = s
<1> DEFINE r == Reverse(s)
<1>1. Len(s) \in Nat /\ \A k \in 1..Len(s) : Len(s) - k + 1 \in 1..Len(s) /\ s[Len(s) - k + 1] \in S
  OBVIOUS
<1>2. r = [k \in 1..Len(s) |-> s[Len(s) - k + 1]]
  BY DEF Reverse
<1>3. r \in Seq(S) /\ Len(r) = Len(s) /\ \A k \in 1..Len(s) : r[k] = s[Len(s) - k + 1]
  BY <1>1, <1>2
<1> HIDE DEF r
<1>4. Reverse(r) = [k \in 1..Len(s) |-> r[Len(s) - k + 1]]
  BY <1>3 DEF Reverse
<1>5. \A k \in 1..Len(s) : r[Len(s) - k + 1] = s[k]
  <2> SUFFICES ASSUME NEW k \in 1..Len(s) PROVE r[Len(s) - k + 1] = s[k]
    OBVIOUS
  <2>1. r[Len(s) - k + 1] = s[Len(s) - (Len(s) - k + 1) + 1]
    BY <1>1, <1>3
  <2>2. Len(s) - (Len(s) - k + 1) + 1 = k
    BY <1>1
  <2> QED
    BY <2>1, <2>2
<1>6. Reverse(r) = s
  BY <1>4, <1>5
<1> QED
  BY <1>3, <1>6 DEF r

\* finish: what is still to come is the reversed vector, read from its end.
LEMMA StepFinish ==
  ASSUME Inv, Finish
  PROVE  Inv'
<1>1. /\ pc = "read" /\ position = Len(input) /\ batch = <<>> /\ ~passthrough
      /\ engine' = Finished /\ pc' = "drain"
      /\ UNCHANGED call /\ position' = position /\ batch' = batch
      /\ outcome' = outcome /\ values' = values /\ delivered' = delivered
  BY DEF Finish, consumer
<1>2. TypeOK /\ PlaceFrame /\ EngineFrame /\ Progress /\ FirstEdge /\ Cleared /\ PassesThrough
  BY DEF Inv
<1>3. Behind' = Behind /\ Behind = Len(input)
  <2>1. Len(batch) = 0 /\ Len(input) \in Nat
    BY <1>1, <1>2, EmptySeq DEF TypeOK
  <2> QED
    BY <1>1, <2>1 DEF Behind
<1>4. /\ Selection(Behind)' = Selection(Behind) /\ Met(Behind)' = Met(Behind) /\ Result' = Result
      /\ input' = input /\ order' = order /\ duplicates' = duplicates
      /\ passthrough' = passthrough
  BY <1>1, <1>3, CallFrame
<1> DEFINE c == engine.canonical
<1>5. c \in Seq(Edges) /\ c \in Seq(Nat) /\ delivered \in Seq(Edges) /\ values = <<>>
  <2>1. c \in Seq(Edges) /\ delivered \in Seq(Edges) /\ values = <<>>
    BY <1>1, <1>2, EngineShape DEF TypeOK, PlaceFrame
  <2> HIDE DEF c
  <2> QED
    BY <2>1, PolicyAssumption, SeqWider
<1>6. /\ engine'.canonical = Reverse(Sorted(c)) /\ engine'.seen = engine.seen
      /\ engine'.raw_edges = engine.raw_edges /\ engine'.duplicate_edges = engine.duplicate_edges
      /\ engine'.cancelled = engine.cancelled /\ engine'.finished = TRUE
      /\ engine' = [seen |-> engine'.seen, canonical |-> engine'.canonical,
                    raw_edges |-> engine'.raw_edges, duplicate_edges |-> engine'.duplicate_edges,
                    finished |-> engine'.finished, cancelled |-> engine'.cancelled]
  BY <1>1, <1>2 DEF Finished, TypeOK
<1> HIDE DEF c
<1>7. Sorted(c) \in Seq(Edges) /\ Len(Sorted(c)) = Len(c) /\ Len(c) \in Nat
  <2>1. /\ Sorted(c) \in Seq(Nat) /\ Len(Sorted(c)) = Len(c)
        /\ \A k \in 1..Len(c) : Sorted(c)[k] \in ToSet(c)
    BY <1>5, SortedSeq
  <2>2. ToSet(c) \in SUBSET Edges /\ Len(c) \in Nat
    BY <1>5 DEF ToSet
  <2>3. \A k \in 1..Len(Sorted(c)) : Sorted(c)[k] \in Edges
    BY <2>1, <2>2
  <2> QED
    BY <2>1, <2>2, <2>3
<1>8. /\ Reverse(Sorted(c)) \in Seq(Edges) /\ Reverse(Reverse(Sorted(c))) = Sorted(c)
  BY <1>7, ReverseTwice
<1>9. TypeOK'
  <2>1. engine' \in [seen : SUBSET Edges, canonical : Seq(Edges), raw_edges : Nat,
                     duplicate_edges : Nat, finished : BOOLEAN, cancelled : BOOLEAN]
    <3>1. /\ engine'.seen \in SUBSET Edges /\ engine'.canonical \in Seq(Edges)
          /\ engine'.raw_edges \in Nat /\ engine'.duplicate_edges \in Nat
          /\ engine'.finished \in BOOLEAN /\ engine'.cancelled \in BOOLEAN
      BY <1>2, <1>6, <1>8, EngineShape
    <3> QED
      BY <1>6, <3>1
  <2> QED
    BY <1>1, <1>2, <1>4, <2>1 DEF TypeOK, Draining
<1>10. PlaceFrame'
  BY <1>1, <1>2, <1>3, <1>4, <1>6 DEF PlaceFrame, Pushing, Draining
<1>11. EngineFrame'
  BY <1>1, <1>2, <1>3, <1>4, <1>6 DEF EngineFrame
<1>12. Progress'
  <2>1. delivered \o values = delivered
    BY <1>5
  <2>2. delivered \o Sorted(c) = Result
    <3>1. CASE order = "encounter"
      <4>1. delivered = Selection(Len(input)) /\ c = <<>>
        BY <1>1, <1>2, <1>3, <2>1, <3>1 DEF Progress, c
      <4>2. Sorted(c) = <<>>
        BY <1>7, <4>1, EmptySeq
      <4>3. Result = Selection(Len(input))
        BY <1>2, <3>1, ResultIs
      <4> QED
        BY <1>5, <4>1, <4>2, <4>3
    <3>2. CASE order = "canonical"
      <4>1. delivered = <<>> /\ c = Selection(Len(input))
        BY <1>1, <1>2, <1>3, <3>2 DEF Progress, c
      <4>2. Result = Sorted(c)
        BY <1>2, <3>2, <4>1, ResultIs
      <4>3. <<>> \o Sorted(c) = Sorted(c)
        BY <1>7
      <4> QED
        BY <4>1, <4>2, <4>3
    <3> QED
      BY <1>2, <3>1, <3>2 DEF TypeOK
  <2>3. delivered' \o values' \o Reverse(engine'.canonical) = Result'
    BY <1>1, <1>4, <1>6, <1>8, <2>1, <2>2
  <2> QED
    BY <1>1, <2>3 DEF Progress, Pushing
<1>13. FirstEdge'
  BY <1>1, <1>4 DEF FirstEdge
<1>14. Cleared'
  BY <1>1, <1>2, <1>4, <1>6 DEF Cleared, PlaceFrame
<1>15. PassesThrough'
  BY <1>1, <1>4 DEF PassesThrough
<1> QED
  BY <1>9, <1>10, <1>11, <1>12, <1>13, <1>14, <1>15 DEF Inv

\* Popping from the end of the vector takes the next edges in order.
LEMMA PoppedFirst ==
  ASSUME TypeOK
  PROVE  /\ Popped \in Seq(Edges) /\ Drained.canonical \in Seq(Edges)
         /\ Popped \o Reverse(Drained.canonical) = Reverse(engine.canonical)
<1> DEFINE c == engine.canonical
           k == DrainAmount
           e == SubSeq(c, 1, Len(c) - k)
<1>1. c \in Seq(Edges) /\ Len(c) \in Nat /\ k \in 0..Len(c)
  <2>1. c \in Seq(Edges)
    BY EngineShape
  <2> QED
    BY <2>1, PolicyAssumption DEF DrainAmount
<1>2. Popped = [i \in 1..k |-> c[Len(c) + 1 - i]]
  BY DEF Popped
<1>3. Drained.canonical = e
  BY DEF Drained, TypeOK
<1> HIDE DEF c, k
<1>4. e \in Seq(Edges) /\ Len(e) = Len(c) - k /\ \A i \in 1..(Len(c) - k) : e[i] = c[i]
  BY <1>1
<1>5. Popped \in Seq(Edges) /\ Len(Popped) = k /\ \A i \in 1..k : Popped[i] = c[Len(c) + 1 - i]
  <2>1. \A i \in 1..k : c[Len(c) + 1 - i] \in Edges
    BY <1>1
  <2> QED
    BY <1>1, <1>2, <2>1
<1> HIDE DEF e
<1>6. /\ Reverse(e) \in Seq(Edges) /\ Len(Reverse(e)) = Len(c) - k
      /\ \A i \in 1..Len(e) : Reverse(e)[i] = e[Len(e) - i + 1]
  BY <1>4, ReverseTwice
<1>7. /\ Reverse(c) \in Seq(Edges) /\ Len(Reverse(c)) = Len(c)
      /\ \A i \in 1..Len(c) : Reverse(c)[i] = c[Len(c) - i + 1]
  BY <1>1, ReverseTwice
<1>8. \A i \in 1..Len(Popped) : Reverse(c)[i] = Popped[i]
  <2> SUFFICES ASSUME NEW i \in 1..k PROVE Reverse(c)[i] = Popped[i]
    BY <1>5
  <2>1. i \in 1..Len(c) /\ Len(c) - i + 1 = Len(c) + 1 - i
    BY <1>1
  <2> QED
    BY <1>5, <1>7, <2>1
<1>9. \A i \in 1..Len(Reverse(e)) : Reverse(c)[Len(Popped) + i] = Reverse(e)[i]
  <2> SUFFICES ASSUME NEW i \in 1..(Len(c) - k) PROVE Reverse(c)[k + i] = Reverse(e)[i]
    BY <1>5, <1>6
  <2>1. /\ k + i \in 1..Len(c) /\ Len(c) - (k + i) + 1 = Len(e) - i + 1
        /\ Len(e) - i + 1 \in 1..(Len(c) - k) /\ i \in 1..Len(e)
    BY <1>1, <1>4
  <2>2. Reverse(c)[k + i] = c[Len(e) - i + 1]
    BY <1>7, <2>1
  <2>3. Reverse(e)[i] = c[Len(e) - i + 1]
    BY <1>4, <1>6, <2>1
  <2> QED
    BY <2>2, <2>3
<1>10. Len(Reverse(c)) = Len(Popped) + Len(Reverse(e))
  BY <1>1, <1>5, <1>6, <1>7
<1>11. Reverse(c) = Popped \o Reverse(e)
  BY <1>5, <1>6, <1>7, <1>8, <1>9, <1>10, ConcatPointwise
<1> QED
  BY <1>3, <1>4, <1>5, <1>11 DEF c

\* drain_batch: the edges popped are the next of the result.
LEMMA StepDrainBatch ==
  ASSUME Inv, DrainBatch
  PROVE  Inv'
<1>1. /\ pc = "drain" /\ values = <<>> /\ values' = Popped /\ engine' = Drained /\ pc' = pc
      /\ UNCHANGED call /\ position' = position /\ batch' = batch
      /\ outcome' = outcome /\ delivered' = delivered
  BY DEF DrainBatch, consumer
<1>2. TypeOK /\ PlaceFrame /\ EngineFrame /\ Progress /\ FirstEdge /\ Cleared /\ PassesThrough
  BY DEF Inv
<1>3. Behind' = Behind
  BY <1>1 DEF Behind
<1>4. /\ Selection(Behind)' = Selection(Behind) /\ Met(Behind)' = Met(Behind) /\ Result' = Result
      /\ input' = input /\ order' = order /\ duplicates' = duplicates
      /\ passthrough' = passthrough
  BY <1>1, <1>3, CallFrame
<1>5. /\ Popped \in Seq(Edges) /\ Drained.canonical \in Seq(Edges)
      /\ Popped \o Reverse(Drained.canonical) = Reverse(engine.canonical)
  BY <1>2, PoppedFirst
<1>6. ~passthrough
  BY <1>1, <1>2 DEF PlaceFrame, Draining
<1>7. /\ engine'.seen = engine.seen
      /\ engine'.raw_edges = engine.raw_edges /\ engine'.duplicate_edges = engine.duplicate_edges
      /\ engine'.cancelled = engine.cancelled /\ engine'.finished = engine.finished
      /\ engine' = [seen |-> engine'.seen, canonical |-> engine'.canonical,
                    raw_edges |-> engine'.raw_edges, duplicate_edges |-> engine'.duplicate_edges,
                    finished |-> engine'.finished, cancelled |-> engine'.cancelled]
  BY <1>1, <1>2 DEF Drained, TypeOK
<1>8. TypeOK'
  <2>1. engine' \in [seen : SUBSET Edges, canonical : Seq(Edges), raw_edges : Nat,
                     duplicate_edges : Nat, finished : BOOLEAN, cancelled : BOOLEAN]
    <3>1. /\ engine'.seen \in SUBSET Edges /\ engine'.canonical \in Seq(Edges)
          /\ engine'.raw_edges \in Nat /\ engine'.duplicate_edges \in Nat
          /\ engine'.finished \in BOOLEAN /\ engine'.cancelled \in BOOLEAN
      BY <1>1, <1>2, <1>5, <1>7, EngineShape
    <3> QED
      BY <1>7, <3>1
  <2> QED
    BY <1>1, <1>2, <1>4, <1>5, <2>1 DEF TypeOK
<1>9. PlaceFrame'
  BY <1>1, <1>2, <1>3, <1>4, <1>7 DEF PlaceFrame, Pushing, Draining
<1>10. EngineFrame'
  BY <1>1, <1>2, <1>3, <1>4, <1>7 DEF EngineFrame
<1>11. Progress'
  <2> DEFINE r == Reverse(Drained.canonical)
             q == Popped
  <2>1. r \in Seq(Edges) /\ q \in Seq(Edges) /\ delivered \in Seq(Edges)
    BY <1>2, <1>5, ReverseTwice DEF TypeOK
  <2>2. delivered \o values = delivered
    BY <1>1, <2>1
  <2>3. delivered \o Reverse(engine.canonical) = Result
    BY <1>1, <1>2, <2>2 DEF Progress, Draining
  <2> HIDE DEF r, q
  <2>4. (delivered \o q) \o r = delivered \o (q \o r)
    BY <2>1
  <2>5. q \o r = Reverse(engine.canonical)
    BY <1>5 DEF q, r
  <2>6. delivered' \o values' \o Reverse(engine'.canonical) = (delivered \o q) \o r
    BY <1>1 DEF q, r
  <2>7. delivered' \o values' \o Reverse(engine'.canonical) = Result'
    BY <1>4, <2>3, <2>4, <2>5, <2>6
  <2> QED
    BY <1>1, <2>7 DEF Progress, Pushing
<1>12. FirstEdge'
  BY <1>1, <1>4 DEF FirstEdge
<1>13. Cleared'
  BY <1>1, <1>2, <1>4, <1>7 DEF Cleared, PlaceFrame
<1>14. PassesThrough'
  BY <1>4, <1>6 DEF PassesThrough
<1> QED
  BY <1>8, <1>9, <1>10, <1>11, <1>12, <1>13, <1>14 DEF Inv

\* What a generator leaves at its end, whatever becomes of the engine's contents.
LEMMA EndFrame ==
  ASSUME Inv, pc' = "end", UNCHANGED call, position' = position, batch' = batch,
         values' = values, delivered' = delivered,
         engine' \in [seen : SUBSET Edges, canonical : Seq(Edges), raw_edges : Nat,
                      duplicate_edges : Nat, finished : BOOLEAN, cancelled : BOOLEAN],
         IsFiniteSet(engine'.seen)
  PROVE  /\ TypeOK' /\ PlaceFrame' /\ EngineFrame' /\ Progress' /\ FirstEdge'
         /\ input' = input /\ passthrough' = passthrough
<1>1. TypeOK /\ PlaceFrame
  BY DEF Inv
<1>2. Behind' = Behind
  BY DEF Behind
<1>3. /\ input' = input /\ order' = order /\ duplicates' = duplicates
      /\ passthrough' = passthrough
  BY DEF call
<1>4. TypeOK'
  BY <1>1, <1>3 DEF TypeOK
<1>5. PlaceFrame'
  BY <1>1, <1>2, <1>3 DEF PlaceFrame, Pushing, Draining
<1>6. EngineFrame' /\ Progress' /\ FirstEdge'
  BY DEF EngineFrame, Progress, FirstEdge, Pushing, Draining
<1> QED
  BY <1>3, <1>4, <1>5, <1>6

\* A passthrough that has read its source to the end has delivered it.
LEMMA PassthroughAll ==
  ASSUME Inv, CompletePassthrough
  PROVE  delivered = input
<1>1. pc = "read" /\ position = Len(input) /\ batch = <<>> /\ passthrough
  BY DEF CompletePassthrough
<1>2. TypeOK /\ PlaceFrame /\ Progress
  BY DEF Inv
<1>3. order = "encounter" /\ values = <<>> /\ delivered \in Seq(Edges)
  BY <1>1, <1>2 DEF TypeOK, PlaceFrame
<1>4. Behind = Len(input)
  <2>1. Len(batch) = 0 /\ Len(input) \in Nat
    BY <1>1, <1>2, EmptySeq, EngineShape
  <2> QED
    BY <1>1, <2>1 DEF Behind
<1>5. delivered \o values = delivered
  BY <1>3
<1>6. delivered = Selection(Len(input))
  BY <1>1, <1>2, <1>3, <1>4, <1>5 DEF Progress
<1>7. Result = Selection(Len(input)) /\ Result = input
  BY <1>1, <1>2, <1>3, ResultIs
<1> QED
  BY <1>6, <1>7

\* The generator ends by itself.
LEMMA StepComplete ==
  ASSUME Inv, Complete \/ CompletePassthrough
  PROVE  Inv'
<1>1. /\ pc' = "end" /\ outcome' = "complete" /\ UNCHANGED call /\ position' = position
      /\ batch' = batch /\ values' = values /\ delivered' = delivered /\ engine' = engine
      /\ pc \in {"read", "drain"}
  BY DEF Complete, CompletePassthrough
<1>2. TypeOK /\ PlaceFrame /\ EngineFrame /\ Cleared /\ PassesThrough
  BY DEF Inv
<1>3. engine \in [seen : SUBSET Edges, canonical : Seq(Edges), raw_edges : Nat,
                  duplicate_edges : Nat, finished : BOOLEAN, cancelled : BOOLEAN]
  BY <1>2 DEF TypeOK
<1>4. /\ TypeOK' /\ PlaceFrame' /\ EngineFrame' /\ Progress' /\ FirstEdge'
      /\ input' = input /\ passthrough' = passthrough
  <2>1. IsFiniteSet(engine.seen)
    BY <1>2 DEF EngineFrame
  <2> QED
    BY <1>1, <1>3, <2>1, EndFrame
<1>5. Cleared'
  BY <1>1, <1>2 DEF Cleared
<1>6. PassesThrough'
  <2>1. passthrough => delivered = input
    <3>1. ASSUME passthrough, Complete PROVE FALSE
      BY <1>2, <3>1 DEF Complete, PlaceFrame, Draining
    <3> QED
      BY <3>1, PassthroughAll
  <2> QED
    BY <1>1, <1>2, <1>4, <2>1 DEF PassesThrough
<1> QED
  BY <1>4, <1>5, <1>6 DEF Inv

\* What the finally block leaves of the engine.
LEMMA CancelledShape ==
  ASSUME TypeOK
  PROVE  /\ Cancelled \in [seen : SUBSET Edges, canonical : Seq(Edges), raw_edges : Nat,
                           duplicate_edges : Nat, finished : BOOLEAN, cancelled : BOOLEAN]
         /\ Cancelled.cancelled /\ Cancelled.seen = {} /\ Cancelled.canonical = <<>>
<1>1. <<>> \in Seq(Edges)
  BY EmptySeq
<1> QED
  BY <1>1 DEF TypeOK, Cancelled

\* The generator fails or is closed.
LEMMA StepAbandon ==
  ASSUME Inv, Fails \/ Close
  PROVE  Inv'
<1>1. /\ pc' = "end" /\ outcome' \in {"failed", "closed"} /\ UNCHANGED call
      /\ position' = position /\ batch' = batch /\ values' = values /\ delivered' = delivered
      /\ engine' = (IF passthrough THEN NewEngine ELSE Cancelled)
  BY DEF Fails, Close, Abandon
<1>2. TypeOK /\ PassesThrough
  BY DEF Inv
<1>3. /\ engine' \in [seen : SUBSET Edges, canonical : Seq(Edges), raw_edges : Nat,
                      duplicate_edges : Nat, finished : BOOLEAN, cancelled : BOOLEAN]
      /\ engine'.seen = {} /\ engine'.canonical = <<>>
  BY <1>1, <1>2, NewEngineShape, CancelledShape
<1>4. passthrough \/ engine'.cancelled
  BY <1>1, <1>2, CancelledShape
<1>5. /\ TypeOK' /\ PlaceFrame' /\ EngineFrame' /\ Progress' /\ FirstEdge'
      /\ input' = input /\ passthrough' = passthrough
  BY <1>1, <1>3, EndFrame, FS_EmptySet
<1>6. ~engine'.cancelled =>
        engine'.raw_edges = Cardinality(engine'.seen) + engine'.duplicate_edges
  BY <1>1, <1>4, NewEngineShape
<1>7. Cleared'
  BY <1>3, <1>4, <1>5, <1>6 DEF Cleared
<1>8. PassesThrough'
  <2>1. passthrough => engine'.raw_edges = 0
    BY <1>1, NewEngineShape
  <2>2. 0 <= BatchEdges
    BY PolicyAssumption
  <2> QED
    BY <1>1, <1>2, <1>5, <2>1, <2>2 DEF PassesThrough
<1> QED
  BY <1>5, <1>7, <1>8 DEF Inv

\* Nothing happens.
LEMMA Stuttering ==
  ASSUME Inv, UNCHANGED vars
  PROVE  Inv'
<1>1. /\ UNCHANGED call /\ pc' = pc /\ position' = position /\ batch' = batch
      /\ values' = values /\ engine' = engine /\ delivered' = delivered /\ outcome' = outcome
  BY DEF vars, consumer
<1>2. Behind' = Behind
  BY <1>1 DEF Behind
<1>3. /\ Selection(Behind)' = Selection(Behind) /\ Met(Behind)' = Met(Behind) /\ Result' = Result
      /\ input' = input /\ order' = order /\ duplicates' = duplicates
      /\ passthrough' = passthrough
  BY <1>1, <1>2, CallFrame
<1>4. TypeOK' /\ PlaceFrame'
  BY <1>1, <1>2, <1>3 DEF Inv, TypeOK, PlaceFrame
<1>5. EngineFrame' /\ Progress' /\ FirstEdge'
  <2>1. EngineFrame'
    BY <1>1, <1>2, <1>3 DEF Inv, EngineFrame, NewEngine
  <2>2. Progress'
    BY <1>1, <1>3 DEF Inv, Progress, Pushing, Draining
  <2>3. FirstEdge'
    BY <1>1, <1>3 DEF Inv, FirstEdge
  <2> QED
    BY <2>1, <2>2, <2>3
<1>6. Cleared' /\ PassesThrough'
  BY <1>1, <1>3 DEF Inv, Cleared, PassesThrough
<1> QED
  BY <1>4, <1>5, <1>6 DEF Inv

\* Every step keeps the invariant.
LEMMA Inductive == Inv /\ [Next]_vars => Inv'
BY StepReadEdge, StepPushBatch, StepYield, StepResume, StepPushDone, StepFinish,
   StepDrainBatch, StepComplete, StepAbandon, Stuttering DEF Next

\* The invariant holds throughout.
LEMMA Invariance == Spec => []Inv
BY InitInv, Inductive, PTL DEF Spec

\* lib.rs, EdgeEngine.cancel: for every input and batch size, a generator that failed or
\* was closed leaves no edge in native memory, neither in the set of seen edges nor in
\* the sorted vector; and as long as a processor lives, its counts agree with its set.
THEOREM EngineCleared == Spec => []Cleared
<1>1. Inv => Cleared
  BY DEF Inv
<1> QED
  BY <1>1, Invariance, PTL

\* native.py, iter_native_passthrough: for every input and batch size, what is handed out
\* is the input in its order, all of it if the generator completes; no processor takes
\* more than one batch, and the first edge is handed out before the second is read.
THEOREM PassthroughExact == Spec => []PassesThrough
<1>1. Inv => PassesThrough
  BY DEF Inv
<1> QED
  BY <1>1, Invariance, PTL

-----------------------------------------------------------------------------
(* The promise                                                             *)

\* A yield hands out the next edge of the reference result.
LEMMA YieldSeen ==
  ASSUME Inv, YieldPushed \/ YieldDrained
  PROVE  Promise!Yield
<1>1. /\ pc \in {"push", "drain"} /\ values # <<>>
      /\ delivered' = Append(delivered, Head(values))
      /\ UNCHANGED call /\ outcome' = outcome /\ statistics' = statistics
  BY DEF YieldPushed, YieldDrained, Yield
<1>2. TypeOK /\ Progress /\ outcome = "none"
  BY <1>1 DEF Inv, PlaceFrame
<1>3. delivered \in Seq(Edges) /\ values \in Seq(Edges)
  BY <1>2 DEF TypeOK
<1>4. /\ Len(Append(delivered, Head(values))) = Len(delivered) + 1
      /\ Len(delivered) + 1 <= Len(delivered \o values)
      /\ \A k \in 1..(Len(delivered) + 1) :
           Append(delivered, Head(values))[k] = (delivered \o values)[k]
  BY <1>1, <1>3, YieldMoves
<1>5. /\ Len(delivered \o values) <= Len(Result)
      /\ \A k \in 1..Len(delivered \o values) : (delivered \o values)[k] = Result[k]
  BY <1>1, <1>2, HeldPrefix
<1>6. Len(delivered) \in Nat /\ Len(delivered \o values) \in Nat /\ Len(Result) \in Nat
  <2>1. Result \in Seq(Nat)
    BY <1>2, ResultIs
  <2> QED
    BY <1>3, <2>1
<1>7. Append(delivered, Head(values))[Len(delivered) + 1] = Head(values)
  BY <1>3
<1>8. Len(delivered) < Len(Result) /\ Head(values) = Result[Len(delivered) + 1]
  BY <1>4, <1>5, <1>6, <1>7
<1> QED
  BY <1>1, <1>2, <1>8 DEF Promise!Yield, Result, call

\* The end of iter_native_policy: every edge was handed out, the statistics are exact.
LEMMA CompleteSeen ==
  ASSUME Inv, Complete
  PROVE  Promise!Exhaust
<1>1. /\ pc = "drain" /\ values = <<>> /\ engine.canonical = <<>>
      /\ statistics' = <<engine.raw_edges, Cardinality(engine.seen)>>
      /\ outcome' = "complete" /\ UNCHANGED call /\ delivered' = delivered
  BY DEF Complete
<1>2. TypeOK /\ PlaceFrame /\ EngineFrame /\ Progress
  BY DEF Inv
<1>3. ~passthrough /\ position = Len(input) /\ batch = <<>> /\ outcome = "none"
  BY <1>1, <1>2 DEF PlaceFrame, Draining
<1>4. Behind = Len(input) /\ input \in Seq(Edges) /\ Len(input) \in Nat
  <2>1. Len(batch) = 0 /\ Len(input) \in Nat /\ input \in Seq(Edges)
    BY <1>2, <1>3, EmptySeq, EngineShape
  <2> QED
    BY <1>3, <2>1 DEF Behind
<1>5. delivered = Result
  <2>1. delivered \o values \o Reverse(engine.canonical) = Result
    BY <1>1, <1>2 DEF Progress, Draining
  <2>2. Reverse(engine.canonical) = <<>>
    <3>1. Reverse(engine.canonical) \in Seq(Edges) /\ Len(Reverse(engine.canonical)) = 0
      BY <1>1, <1>2, EngineShape, ReverseTwice, EmptySeq
    <3> QED
      BY <3>1, EmptySeq
  <2>3. delivered \in Seq(Edges)
    BY <1>2 DEF TypeOK
  <2>4. delivered \o values = delivered /\ delivered \o <<>> = delivered
    BY <1>1, <2>3
  <2> QED
    BY <2>1, <2>2, <2>4
<1>6. engine.raw_edges = Len(input) /\ engine.seen = Met(Len(input))
  BY <1>1, <1>2, <1>3, <1>4 DEF EngineFrame
<1>7. Met(Len(input)) = ToSet(input)
  BY <1>4 DEF Met, ToSet
<1>8. statistics' = Promise!ReferenceStatistics(input)
  <2>1. Promise!ReferenceStatistics(input) = <<Len(input), Cardinality(ToSet(input))>>
    BY DEF Promise!ReferenceStatistics, Promise!ToSet, Promise!Cardinality, ToSet, Cardinality
  <2> QED
    BY <1>1, <1>6, <1>7, <2>1
<1> QED
  BY <1>1, <1>3, <1>5, <1>8 DEF Promise!Exhaust, Result, call

\* The end of a passthrough, a failure and a close are stops.
LEMMA StopSeen ==
  ASSUME Inv, CompletePassthrough \/ Fails \/ Close
  PROVE  Promise!Stop
<1>1. /\ UNCHANGED call /\ delivered' = delivered /\ statistics' = statistics
      /\ pc \in {"read", "push", "drain", "push-yield", "drain-yield"}
      /\ \/ outcome' \in {"failed", "closed"}
         \/ outcome' = "complete" /\ passthrough
  BY DEF CompletePassthrough, Fails, Close, Abandon
<1>2. outcome = "none"
  BY <1>1 DEF Inv, PlaceFrame
<1>3. passthrough' = passthrough
  BY <1>1 DEF call
<1> QED
  BY <1>1, <1>2, <1>3 DEF Promise!Stop, call

\* Every other step is one that the consumer does not see.
LEMMA Unseen ==
  ASSUME \/ ReadEdge \/ PushBatch \/ Resume \/ PushDone \/ Finish \/ DrainBatch
         \/ UNCHANGED vars
  PROVE  UNCHANGED Promise!streamVars
<1>1. UNCHANGED call /\ UNCHANGED consumer
  BY DEF ReadEdge, PushBatch, Resume, PushDone, Finish, DrainBatch, vars
<1> QED
  BY <1>1 DEF call, consumer, Promise!streamVars

\* The initial states map to initial states.
LEMMA InitSeen == Init => Promise!Init
<1> SUFFICES ASSUME Init PROVE Promise!Init
  OBVIOUS
<1>1. input \in Seq(Edges) /\ Edges \in SUBSET Nat
  BY InitInv, PolicyAssumption DEF Inv, TypeOK
<1>2. input \in Seq(Nat)
  BY <1>1, SeqWider
<1> QED
  BY <1>2 DEF Init, Promise!Init, Promise!NoStatistics

\* lib.rs, EdgeEngine, under native.py, iter_native_policy: for every input, policy and
\* batch size, and wherever it fails or is closed, the consumer receives the edges of
\* compiler.py's in-memory loop in its order, up to where the generator stops, and only
\* a generator that delivered all of them completes, with the reference's statistics.
\* A passthrough delivers the raw edges and publishes no statistics.
THEOREM PolicyRefines == Spec => ImplementsReference
<1>1. Inv /\ [Next]_vars => [Promise!Next]_(Promise!streamVars)
  BY YieldSeen, CompleteSeen, StopSeen, Unseen DEF Next, Promise!Next
<1> QED
  BY <1>1, InitSeen, Invariance, PTL DEF Spec, ImplementsReference, Promise!Spec

=============================================================================
