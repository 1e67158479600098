------------------------- MODULE TableValidationProofs -------------------------
(***************************************************************************)
(* The preflight of a table rejects exactly the tables with a cycle, its    *)
(* walks do not work longer than the table is, and what its first check     *)
(* accepts is cut without gap or overlap, for every table.                  *)
(*                                                                          *)
(* A walk.  The entered nodes are those of the exit events on the stack,    *)
(* one event for each (Entered), and every event but the first is for a     *)
(* child of the nearest exit event under it (Path): what closes a cycle for *)
(* the code is a path back to an entered node, so what a walk rejects has a *)
(* cycle (RejectedCyclic).  The children of a node that was left were left  *)
(* before it (Complete), so the node left last is never on a cycle of nodes *)
(* that were left (LeftAcyclic), and a walk that ends has left them all     *)
(* (EndedAcyclic).  Every event is paid for once: an enter event by a start *)
(* or by a reference of an entered node, an exit event by its node          *)
(* (WorkPaid).                                                              *)
(*                                                                          *)
(* All walks together.  What the three walks see are three families of      *)
(* references.  The checks of the nodes make every other reference go down  *)
(* in the grammar (Height, Descent), so the lowest nodes of a cycle over    *)
(* any references form a cycle on one walk (NoCycleAtAll).                  *)
(*                                                                          *)
(* The columns.  The field loop moves an item and a byte cursor from the    *)
(* first cell to the last and never back (FieldRun); each step passes the   *)
(* items or the bytes of its own field only (FieldStep, ItemRun), and the   *)
(* steps of a cursor that climbs cut what it passes (CutsIntoParts).        *)
(***************************************************************************)
EXTENDS TableValidation, SequenceLemmas

-----------------------------------------------------------------------------
(* Graphs without cycles                                                   *)

\* Some node of T has no successor in T.
HasSink(T, successors) == \E n \in T : successors[n] \cap T = {}

\* The nodes that still have a successor among those left, k times over.
Peeled(S, successors, left, bound) ==
  left = [k \in 0..bound |->
            IF k = 0 THEN S ELSE { n \in left[k - 1] : successors[n] \cap left[k - 1] # {} }]

\* The peeling of NoCycle is defined.
LEMMA PeelingExists ==
  ASSUME NEW S, NEW successors, NEW bound \in Nat
  PROVE  \E left : Peeled(S, successors, left, bound)
<1> DEFINE Bad == { n \in Nat : ~ \E left : Peeled(S, successors, left, n) }
<1>1. SUFFICES ASSUME Bad # {} PROVE FALSE
  OBVIOUS
<1>2. PICK n \in Bad : \A m \in Bad : n <= m
  <2>1. Bad \in SUBSET Nat
    OBVIOUS
  <2> HIDE DEF Bad
  <2> QED
    BY <1>1, <2>1, NatMinimum
<1>3. n \in Nat /\ ~ \E left : Peeled(S, successors, left, n)
  BY <1>2
<1>4. n # 0
  <2> DEFINE f == [k \in 0..0 |-> S]
  <2>1. f = [k \in 0..0 |-> IF k = 0 THEN S ELSE { m \in f[k - 1] : successors[m] \cap f[k - 1] # {} }]
    OBVIOUS
  <2> QED
    BY <1>3, <2>1 DEF Peeled
<1>5. n - 1 \in Nat /\ n - 1 \notin Bad
  BY <1>2, <1>3, <1>4
<1>6. PICK g : Peeled(S, successors, g, n - 1)
  BY <1>5
<1> DEFINE step(P) == { m \in P : successors[m] \cap P # {} }
           h == [k \in 0..n |-> IF k = n THEN step(g[n - 1]) ELSE g[k]]
<1>7. /\ DOMAIN g = 0..(n - 1)
      /\ \A k \in 0..(n - 1) : g[k] = IF k = 0 THEN S ELSE step(g[k - 1])
  BY <1>6 DEF Peeled
<1> HIDE DEF step
<1>8. ASSUME NEW k \in 0..n PROVE h[k] = IF k = 0 THEN S ELSE step(h[k - 1])
  <2>1. CASE k = n
    <3>1. h[k] = step(g[n - 1]) /\ k - 1 \in 0..n /\ k - 1 # n /\ h[k - 1] = g[n - 1]
      BY <1>3, <1>4, <2>1
    <3> QED
      BY <1>4, <2>1, <3>1
  <2>2. CASE k # n /\ k # 0
    <3>1. k \in 0..(n - 1) /\ k - 1 \in 0..n /\ k - 1 # n
      BY <1>3, <2>2
    <3>2. h[k] = g[k] /\ h[k - 1] = g[k - 1]
      BY <2>2, <3>1
    <3> QED
      BY <1>7, <2>2, <3>1, <3>2
  <2>3. CASE k # n /\ k = 0
    BY <1>3, <1>7, <2>3
  <2> QED
    BY <2>1, <2>2, <2>3
<1>9. h = [k \in 0..n |-> IF k = 0 THEN S ELSE step(h[k - 1])]
  <2>1. h = [k \in 0..n |-> h[k]]
    OBVIOUS
  <2> HIDE DEF h
  <2> QED
    BY <1>8, <2>1
<1> QED
  BY <1>3, <1>9 DEF Peeled, step

\* What NoCycle asks of it.
LEMMA NoCyclePeels ==
  ASSUME NEW S, NEW successors, Cardinality(S) \in Nat
  PROVE  \E left : /\ Peeled(S, successors, left, Cardinality(S))
                   /\ NoCycle(S, successors) <=> left[Cardinality(S)] = {}
<1> DEFINE P(left) == left = [k \in 0..Cardinality(S) |->
                                IF k = 0 THEN S
                                ELSE LET prev == left[k - 1] IN { n \in prev : successors[n] \cap prev # {} }]
           chosen == CHOOSE left : P(left)
<1>1. NoCycle(S, successors) <=> chosen[Cardinality(S)] = {}
  BY DEF NoCycle
<1>2. \A left : P(left) <=> Peeled(S, successors, left, Cardinality(S))
  BY DEF Peeled
<1>3. \E left : P(left)
  BY <1>2, PeelingExists
<1> HIDE DEF P
<1>4. P(chosen)
  BY <1>3
<1> QED
  BY <1>1, <1>2, <1>4

\* A set of nodes without a sink is never peeled off.
LEMMA SinklessKept ==
  ASSUME NEW S, NEW successors, IsFiniteSet(S), NoCycle(S, successors),
         NEW T \in SUBSET S, T # {}
  PROVE  HasSink(T, successors)
<1> SUFFICES ASSUME ~HasSink(T, successors) PROVE FALSE
  OBVIOUS
<1>1. Cardinality(S) \in Nat
  BY FS_CardinalityType
<1>2. PICK left : /\ Peeled(S, successors, left, Cardinality(S))
                  /\ NoCycle(S, successors) <=> left[Cardinality(S)] = {}
  BY <1>1, NoCyclePeels
<1> DEFINE Bad == { k \in 0..Cardinality(S) : ~ (T \subseteq left[k]) }
<1>3. Cardinality(S) \in Bad
  BY <1>1, <1>2
<1>4. PICK k \in Bad : \A j \in Bad : k <= j
  <2>1. Bad \in SUBSET Nat
    BY <1>1
  <2> HIDE DEF Bad
  <2> QED
    BY <1>3, <2>1, NatMinimum
<1>5. k \in 0..Cardinality(S) /\ k \in Nat /\ ~ (T \subseteq left[k])
  BY <1>1, <1>4
<1>6. k # 0
  BY <1>2, <1>5 DEF Peeled
<1>7. k - 1 \in 0..Cardinality(S) /\ k - 1 \notin Bad
  BY <1>1, <1>4, <1>5, <1>6
<1>8. T \subseteq left[k - 1]
  BY <1>7
<1>9. left[k] = { n \in left[k - 1] : successors[n] \cap left[k - 1] # {} }
  BY <1>2, <1>5, <1>6 DEF Peeled
<1>10. \A n \in T : successors[n] \cap left[k - 1] # {}
  BY <1>8 DEF HasSink
<1> QED
  BY <1>5, <1>8, <1>9, <1>10

\* Where every set of nodes has a sink, each round peels at least one node off.
LEMMA SinksPeel ==
  ASSUME NEW S, NEW successors, IsFiniteSet(S),
         \A T \in SUBSET S : T # {} => HasSink(T, successors)
  PROVE  NoCycle(S, successors)
<1>1. Cardinality(S) \in Nat
  BY FS_CardinalityType
<1>2. PICK left : /\ Peeled(S, successors, left, Cardinality(S))
                  /\ NoCycle(S, successors) <=> left[Cardinality(S)] = {}
  BY <1>1, NoCyclePeels
<1> DEFINE Fine(k) == /\ left[k] \subseteq S
                      /\ left[k] # {} => Cardinality(left[k]) <= Cardinality(S) - k
           Bad == { k \in 0..Cardinality(S) : ~ Fine(k) }
<1>3. Bad = {}
  <2> SUFFICES ASSUME Bad # {} PROVE FALSE
    OBVIOUS
  <2>1. PICK k \in Bad : \A j \in Bad : k <= j
    <3>1. Bad \in SUBSET Nat
      BY <1>1
    <3> HIDE DEF Bad
    <3> QED
      BY <3>1, NatMinimum
  <2>2. k \in 0..Cardinality(S) /\ k \in Nat /\ ~ Fine(k)
    BY <1>1, <2>1
  <2>3. k # 0
    <3>1. left[0] = S
      BY <1>1, <1>2 DEF Peeled
    <3> QED
      BY <1>1, <2>2, <3>1
  <2>4. k - 1 \in 0..Cardinality(S) /\ k - 1 \notin Bad
    BY <1>1, <2>1, <2>2, <2>3
  <2> DEFINE P == left[k - 1]
             Q == left[k]
  <2>5. Q = { n \in P : successors[n] \cap P # {} }
    BY <1>2, <2>2, <2>3 DEF Peeled
  <2>6. P \subseteq S /\ (P # {} => Cardinality(P) <= Cardinality(S) - (k - 1))
    BY <2>4
  <2>7. Q \subseteq P
    BY <2>5
  <2>8. CASE Q = {}
    BY <2>2, <2>6, <2>7, <2>8
  <2>9. CASE Q # {}
    <3>1. P # {}
      BY <2>7, <2>9
    <3>2. PICK n \in P : successors[n] \cap P = {}
      BY <2>6, <3>1 DEF HasSink
    <3>3. n \notin Q
      BY <2>5, <3>2
    <3> HIDE DEF P, Q
    <3>4. IsFiniteSet(P) /\ IsFiniteSet(P \ {n}) /\ Cardinality(P \ {n}) = Cardinality(P) - 1
      BY <2>6, <3>2, FS_Subset, FS_RemoveElement
    <3>5. Q \subseteq P \ {n}
      BY <2>7, <3>3
    <3>6. Cardinality(Q) <= Cardinality(P \ {n}) /\ Cardinality(Q) \in Nat /\ Cardinality(P) \in Nat
      BY <3>4, <3>5, FS_Subset, FS_CardinalityType
    <3>7. Cardinality(Q) <= Cardinality(S) - k
      BY <1>1, <2>2, <2>6, <3>1, <3>4, <3>6
    <3> QED
      BY <2>2, <2>6, <2>7, <3>7 DEF Q
  <2> QED
    BY <2>8, <2>9
<1>4. Fine(Cardinality(S))
  BY <1>1, <1>3
<1>5. left[Cardinality(S)] = {}
  <2> SUFFICES ASSUME left[Cardinality(S)] # {} PROVE FALSE
    OBVIOUS
  <2>1. PICK L : L = left[Cardinality(S)]
    OBVIOUS
  <2>2. L \subseteq S /\ L # {} /\ Cardinality(L) <= Cardinality(S) - Cardinality(S)
    BY <1>4, <2>1
  <2>3. IsFiniteSet(L) /\ Cardinality(L) \in Nat
    BY <2>2, FS_Subset, FS_CardinalityType
  <2>4. Cardinality(L) = 0
    BY <1>1, <2>2, <2>3
  <2> QED
    BY <2>2, <2>3, <2>4, FS_EmptySet
<1> QED
  BY <1>2, <1>5

-----------------------------------------------------------------------------
(* The graph of a walk                                                     *)

\* The nodes of a walk, of one table.
On(c, walk) == { n \in Nodes(c) : OnWalk(c, walk, n) }

\* The references a walk looks at, whatever they refer to.
Listed(c, walk, n) ==
  CASE walk = "annotation" -> AnnotationChildren(c, n)
    [] walk = "class" -> ClassChildren(c, n)
    [] walk = "data" -> DataRangeChildren(c, n)

Kids(c, walk, n) == ToSet(Children(c, walk, n))

\* A table whose walks can be followed: what the checks before them establish.
Walkable(c) == \A walk \in Walks : \A n \in On(c, walk) : Listed(c, walk, n) \in Seq(Nat)

\* A sequence is one over any set that has its elements.
LEMMA SeqNarrower ==
  ASSUME NEW S, NEW T, NEW s \in Seq(T), \A k \in 1..Len(s) : s[k] \in S
  PROVE  s \in Seq(S)
<1>1. Len(s) \in Nat /\ s = [k \in 1..Len(s) |-> s[k]]
  OBVIOUS
<1> QED
  BY <1>1

\* What is at the selected places is selected.
LEMMA PickedMembers ==
  ASSUME NEW S, NEW s \in Seq(S), NEW C \in SUBSET (1..Len(s)), NEW x
  PROVE  x \in ToSet(Picked(s, C)) <=> \E i \in C : s[i] = x
<1>1. /\ Picked(s, C) \in Seq(S) /\ Len(Picked(s, C)) = Cardinality(C)
      /\ \A k \in 1..Cardinality(C) : Picked(s, C)[k] = s[Nth(C, k)] /\ Nth(C, k) \in C
  BY PickedSeq
<1>2. ToSet(Picked(s, C)) = { Picked(s, C)[k] : k \in 1..Cardinality(C) }
  BY <1>1 DEF ToSet
<1>3. ASSUME NEW i \in C, s[i] = x PROVE x \in ToSet(Picked(s, C))
  <2>1. PICK k : k = Cardinality({ y \in C : y <= i })
    OBVIOUS
  <2>2. Len(s) \in Nat
    OBVIOUS
  <2>3. Nth(C, k) = i /\ k \in 1..Cardinality(C)
    BY <2>1, <2>2, NthOfRank
  <2> QED
    BY <1>1, <1>2, <1>3, <2>3
<1>4. ASSUME x \in ToSet(Picked(s, C)) PROVE \E i \in C : s[i] = x
  <2>1. PICK k \in 1..Cardinality(C) : Picked(s, C)[k] = x
    BY <1>2, <1>4
  <2>2. Nth(C, k) \in C /\ s[Nth(C, k)] = x
    BY <1>1, <2>1
  <2> QED
    BY <2>2
<1> QED
  BY <1>3, <1>4

\* What is on a walk is a node.
LEMMA OnWalkNode ==
  ASSUME NEW c, NEW walk \in Walks, NEW m, OnWalk(c, walk, m)
  PROVE  m \in On(c, walk)
<1>1. "absent" \notin WalkTags(walk)
  BY DEF Walks, WalkTags, RecursiveClassTags, RecursiveDataRangeTags, AggregateTags, RestrictionTags
<1> QED
  BY <1>1 DEF OnWalk, Tag, On

\* The children of a node are its references that are on the walk, in their order.
LEMMA ChildrenListed ==
  ASSUME NEW c, NEW walk \in Walks, NEW n, Listed(c, walk, n) \in Seq(Nat)
  PROVE  /\ Children(c, walk, n) \in Seq(On(c, walk))
         /\ \A m : m \in Kids(c, walk, n) <=> m \in ToSet(Listed(c, walk, n)) /\ OnWalk(c, walk, m)
<1> DEFINE all == Listed(c, walk, n)
           C == { i \in DOMAIN all : OnWalk(c, walk, all[i]) }
<1>1. Children(c, walk, n) = Picked(all, C)
  BY DEF Children, Listed
<1>2. all \in Seq(Nat) /\ DOMAIN all = 1..Len(all) /\ Len(all) \in Nat
  OBVIOUS
<1>3. C \in SUBSET (1..Len(all))
  BY <1>2
<1>4. \A i \in C : OnWalk(c, walk, all[i]) /\ i \in 1..Len(all)
  BY <1>2
<1>5. \A i \in 1..Len(all) : OnWalk(c, walk, all[i]) => i \in C
  BY <1>2
<1>6. \A m : m \in ToSet(all) <=> \E i \in 1..Len(all) : all[i] = m
  BY <1>2 DEF ToSet
<1> HIDE DEF all, C
<1>7. /\ Picked(all, C) \in Seq(Nat) /\ Len(Picked(all, C)) = Cardinality(C) /\ Cardinality(C) \in Nat
      /\ \A k \in 1..Cardinality(C) : Picked(all, C)[k] = all[Nth(C, k)] /\ Nth(C, k) \in C
  BY <1>2, <1>3, PickedSeq, PlacesFinite
<1>8. \A m : m \in ToSet(Picked(all, C)) <=> \E i \in C : all[i] = m
  BY <1>2, <1>3, PickedMembers
<1>9. \A k \in 1..Cardinality(C) : Picked(all, C)[k] \in On(c, walk)
  BY <1>4, <1>7, OnWalkNode
<1>10. Picked(all, C) \in Seq(On(c, walk))
  BY <1>7, <1>9, SeqNarrower
<1>11. \A m : m \in ToSet(Picked(all, C)) <=> m \in ToSet(all) /\ OnWalk(c, walk, m)
  BY <1>4, <1>5, <1>6, <1>8
<1> QED
  BY <1>1, <1>10, <1>11 DEF all, Kids

-----------------------------------------------------------------------------
(* The depth-first search                                                  *)

Walking == stage \in Walks /\ colors # <<>>

Events(walk) == OnNodes(walk) \X {"enter", "exit"}

Exits(i) == stack[i][2] = "exit"

Waits(i) == stack[i][1]

StageNames == {"generic", "nodes", "annotation", "class", "data", "done"}

\* The checks in front of the walks hold once they were passed.
Checked ==
  /\ stage \in StageNames
  /\ columns \in { Table[x] : x \in DOMAIN Table }
  /\ stage # "generic" => ValidateGeneric(columns) = "ok"
  /\ stage \notin {"generic", "nodes"} => ValidateNodes(columns) = "ok"
  /\ ~Walking => colors = <<>> /\ stack = <<>>
  /\ verdict = "ok" => stage = "done"

WalkTypes ==
  Walking => /\ colors \in [Nodes(columns) -> 0..2]
             /\ at \in 1..(NodeCount(columns) + 1)
             /\ work \in Nat
             /\ stack \in Seq(Events(stage))

\* The entered nodes are those of the exit events, one event for each.
Entered ==
  Walking =>
    /\ \A i \in 1..Len(stack) : Exits(i) => colors[Waits(i)] = 1
    /\ \A i, j \in 1..Len(stack) : Exits(i) /\ Exits(j) /\ Waits(i) = Waits(j) => i = j
    /\ \A n \in OnNodes(stage) : colors[n] = 1 => \E i \in 1..Len(stack) : Exits(i) /\ Waits(i) = n

\* Every event but the first is for a child of the nearest exit event under it.
Descends(i, j) ==
  /\ Exits(i) /\ \A l \in (i + 1)..(j - 1) : ~Exits(l)
  /\ Waits(j) \in Kids(columns, stage, Waits(i))

Path == Walking => \A j \in 2..Len(stack) : \E i \in 1..(j - 1) : Descends(i, j)

\* Nothing is forgotten: the children of a node that was left were left, those of an
\* entered one wait behind its exit event, the nodes before the start wait somewhere.
Settled(n, i) == colors[n] = 2 \/ \E j \in i..Len(stack) : Waits(j) = n

Complete ==
  Walking =>
    /\ \A n \in OnNodes(stage) : colors[n] = 2 => \A m \in Kids(columns, stage, n) : colors[m] = 2
    /\ \A i \in 1..Len(stack) :
          Exits(i) => \A m \in Kids(columns, stage, Waits(i)) : Settled(m, i + 1)
    /\ \A n \in OnNodes(stage) : n < at => Settled(n, 1)

\* No cycle among the nodes that were left.
Gone == { n \in OnNodes(stage) : colors[n] = 2 }

Sinks(S) == \A T \in SUBSET S : T # {} => \E n \in T : Kids(columns, stage, n) \cap T = {}

LeftAcyclic == Walking => Sinks(Gone)

\* The walks that have ended.
Ended(walk) ==
  \/ walk = "annotation" /\ stage \in {"class", "data", "done"}
  \/ walk = "class" /\ stage \in {"data", "done"}
  \/ walk = "data" /\ stage = "done"

WalkAcyclic(walk) ==
  \A T \in SUBSET OnNodes(walk) : T # {} => \E n \in T : Kids(columns, walk, n) \cap T = {}

EndedAcyclic == \A walk \in Walks : Ended(walk) => WalkAcyclic(walk)

\* What a walk rejects has a cycle.
RejectedCyclic == verdict = "malformed" /\ stage \in Walks => ~WalkAcyclic(stage)

\* An enter event is paid for by its start node or by a reference of an entered node, an
\* exit event by its node; a refused event stays on the stack.
Started == { n \in OnNodes(stage) : n < at }

Touched == { n \in OnNodes(stage) : colors[n] # 0 }

PaidBy(T) == UNION { {n} \X DOMAIN Children(columns, stage, n) : n \in T }

Paid == PaidBy(Touched)

WorkPaid ==
  Walking =>
    \/ work + Len(stack) <= Cardinality(Started) + Cardinality(Touched) + Cardinality(Paid)
    \/ verdict = "malformed" /\ Len(stack) >= 1

SearchInv ==
  /\ Checked /\ WalkTypes /\ Entered /\ Path /\ Complete /\ LeftAcyclic
  /\ EndedAcyclic /\ RejectedCyclic /\ WorkPaid

-----------------------------------------------------------------------------
(* The steps of a walk, as its invariants see them                         *)

\* The children still to be entered, last one first.
Fresh(c, walk, n, after) ==
  LET last == Reverse(Children(c, walk, n))
  IN  Picked(last, { i \in DOMAIN last : after[last[i]] = 0 })

LEMMA FreshChildren ==
  ASSUME NEW c, NEW walk \in Walks, NEW n, Listed(c, walk, n) \in Seq(Nat), NEW after
  PROVE  /\ Fresh(c, walk, n, after) \in Seq(On(c, walk))
         /\ Len(Fresh(c, walk, n, after)) <= Len(Children(c, walk, n))
         /\ \A m : m \in ToSet(Fresh(c, walk, n, after)) <=> m \in Kids(c, walk, n) /\ after[m] = 0
<1> DEFINE kids == Children(c, walk, n)
           last == Reverse(kids)
           C == { i \in DOMAIN last : after[last[i]] = 0 }
<1>1. kids \in Seq(On(c, walk)) /\ Len(kids) \in Nat
  BY ChildrenListed
<1>2. Fresh(c, walk, n, after) = Picked(last, C)
  BY DEF Fresh
<1>3. Kids(c, walk, n) = ToSet(kids)
  BY DEF Kids
<1> HIDE DEF kids
<1>4. /\ last \in Seq(On(c, walk)) /\ Len(last) = Len(kids) /\ DOMAIN last = 1..Len(kids)
      /\ \A i \in 1..Len(kids) : last[i] = kids[(Len(kids) - i) + 1]
  BY <1>1 DEF Reverse
<1>5. \A m : m \in ToSet(kids) <=> \E i \in 1..Len(kids) : kids[i] = m
  BY <1>1 DEF ToSet
<1>6. \A m : m \in ToSet(kids) <=> \E i \in 1..Len(kids) : last[i] = m
  <2> SUFFICES ASSUME NEW m PROVE m \in ToSet(kids) <=> \E i \in 1..Len(kids) : last[i] = m
    OBVIOUS
  <2>1. ASSUME m \in ToSet(kids) PROVE \E i \in 1..Len(kids) : last[i] = m
    <3>1. PICK i \in 1..Len(kids) : kids[i] = m
      BY <1>5, <2>1
    <3>2. PICK j : j = (Len(kids) - i) + 1
      OBVIOUS
    <3>3. j \in 1..Len(kids) /\ (Len(kids) - j) + 1 = i
      BY <1>1, <3>2
    <3> QED
      BY <1>4, <3>1, <3>3
  <2>2. ASSUME NEW i \in 1..Len(kids), last[i] = m PROVE m \in ToSet(kids)
    <3>1. (Len(kids) - i) + 1 \in 1..Len(kids)
      BY <1>1
    <3> QED
      BY <1>4, <1>5, <2>2, <3>1
  <2> QED
    BY <2>1, <2>2
<1>7. C \in SUBSET (1..Len(last)) /\ \A i \in 1..Len(kids) : i \in C <=> after[last[i]] = 0
  BY <1>4
<1> HIDE DEF last, C
<1>8. /\ Picked(last, C) \in Seq(On(c, walk)) /\ Len(Picked(last, C)) = Cardinality(C)
      /\ Cardinality(C) <= Cardinality(1..Len(last)) /\ Cardinality(1..Len(last)) = Len(last)
  <2>1. Len(last) \in Nat /\ 1..Len(last) \in SUBSET (1..Len(last))
    BY <1>1, <1>4
  <2> QED
    BY <1>4, <1>7, <2>1, PickedSeq, PlacesFinite
<1>9. \A m : m \in ToSet(Picked(last, C)) <=> \E i \in C : last[i] = m
  BY <1>4, <1>7, PickedMembers
<1>10. \A m : m \in ToSet(Picked(last, C)) <=> m \in ToSet(kids) /\ after[m] = 0
  BY <1>4, <1>6, <1>7, <1>9
<1> QED
  BY <1>2, <1>3, <1>4, <1>8, <1>10 DEF kids

\* All events but the last one.
LEMMA FrontPlaces ==
  ASSUME NEW E, NEW s \in Seq(E), Len(s) >= 1
  PROVE  /\ Front(s) \in Seq(E) /\ Len(Front(s)) = Len(s) - 1
         /\ \A i \in 1..(Len(s) - 1) : Front(s)[i] = s[i]
<1>0. PICK m : m = Len(s) - 1
  OBVIOUS
<1>1. m \in Nat /\ 1 \in Int /\ m \in Int /\ Len(s) = m + 1
  BY <1>0
<1>2. \A i \in 1..m : s[i] \in E
  BY <1>1
<1>3. /\ SubSeq(s, 1, m) \in Seq(E)
      /\ Len(SubSeq(s, 1, m)) = IF 1 <= m THEN m - 1 + 1 ELSE 0
      /\ \A i \in 1..(m - 1 + 1) : SubSeq(s, 1, m)[i] = s[1 + i - 1]
  BY <1>1, <1>2, SubSeqProperties
<1>4. m - 1 + 1 = m /\ \A i \in 1..m : 1 + i - 1 = i
  BY <1>1
<1>5. Len(SubSeq(s, 1, m)) = m /\ \A i \in 1..m : SubSeq(s, 1, m)[i] = s[i]
  BY <1>1, <1>3, <1>4
<1> QED
  BY <1>0, <1>3, <1>5 DEF Front

\* An event and further events on top of others.
Pushed(r, e, f) == r \o <<e>> \o f

IsPush(u, r, e, f) ==
  /\ Len(u) = Len(r) + 1 + Len(f)
  /\ \A i \in 1..Len(r) : u[i] = r[i]
  /\ u[Len(r) + 1] = e
  /\ \A i \in 1..Len(f) : u[Len(r) + 1 + i] = f[i]

LEMMA PushedPlaces ==
  ASSUME NEW E, NEW r \in Seq(E), NEW e \in E, NEW f \in Seq(E)
  PROVE  Pushed(r, e, f) \in Seq(E) /\ IsPush(Pushed(r, e, f), r, e, f)
<1> DEFINE s == r \o <<e>>
<1>1. s \in Seq(E) /\ Len(s) = Len(r) + 1 /\ Len(r) \in Nat /\ Len(f) \in Nat
  OBVIOUS
<1>2. (\A i \in 1..Len(r) : s[i] = r[i]) /\ s[Len(r) + 1] = e
  OBVIOUS
<1> HIDE DEF s
<1>3. s \o f \in Seq(E) /\ Len(s \o f) = Len(r) + 1 + Len(f)
  BY <1>1
<1>4. \A i \in 1..(Len(r) + 1) : (s \o f)[i] = s[i]
  BY <1>1
<1>5. \A i \in 1..Len(f) : (s \o f)[Len(r) + 1 + i] = f[i]
  BY <1>1
<1> QED
  BY <1>1, <1>2, <1>3, <1>4, <1>5 DEF s, Pushed, IsPush

\* The node of the event on top.
Top == Waits(Len(stack))

Shrinks ==
  /\ stack' \in Seq(Events(stage)) /\ Len(stack') = Len(stack) - 1
  /\ \A i \in 1..(Len(stack) - 1) : stack'[i] = stack[i]

\* The top event becomes an exit event with k enter events behind it.
Grows(k) ==
  /\ k \in Nat /\ k <= Len(Children(columns, stage, Top))
  /\ stack' \in Seq(Events(stage)) /\ Len(stack') = Len(stack) + k
  /\ \A i \in 1..(Len(stack) - 1) : stack'[i] = stack[i]
  /\ stack'[Len(stack)] = <<Top, "exit">>
  /\ \A i \in (Len(stack) + 1)..(Len(stack) + k) :
        stack'[i][2] = "enter" /\ stack'[i][1] \in Kids(columns, stage, Top)
  /\ \A m \in Kids(columns, stage, Top) :
        colors[m] = 0 => \E i \in (Len(stack) + 1)..(Len(stack) + k) : stack'[i][1] = m

Leaves ==
  /\ Exits(Len(stack)) /\ colors' = [colors EXCEPT ![Top] = 2]
  /\ Shrinks /\ verdict' = verdict

Skips ==
  /\ ~Exits(Len(stack)) /\ colors[Top] = 2 /\ colors' = colors
  /\ Shrinks /\ verdict' = verdict

Refuses ==
  /\ ~Exits(Len(stack)) /\ verdict' = "malformed" /\ colors' = colors /\ stack' = stack
  /\ colors[Top] = 1 \/ \E m \in Kids(columns, stage, Top) : m = Top \/ colors[m] = 1

Enters ==
  /\ ~Exits(Len(stack)) /\ colors[Top] = 0 /\ colors' = [colors EXCEPT ![Top] = 1]
  /\ \A m \in Kids(columns, stage, Top) : m # Top /\ colors[m] # 1
  /\ (\E k \in Nat : Grows(k)) /\ verdict' = verdict

Pops ==
  /\ Walking /\ verdict = "running" /\ stack \in Seq(Events(stage)) /\ Len(stack) \in Nat /\ Len(stack) >= 1
  /\ Top \in OnNodes(stage) /\ Top \in Nodes(columns)
  /\ columns' = columns /\ stage' = stage /\ at' = at /\ work' = work + 1
  /\ Leaves \/ Skips \/ Refuses \/ Enters

\* An event is a pair, and only exit events are no enter events.
LEMMA EventShape ==
  ASSUME NEW e, NEW S, e \in S \X {"enter", "exit"}
  PROVE  e = <<e[1], e[2]>> /\ e[1] \in S /\ (e[2] = "exit" \/ e[2] = "enter")
OBVIOUS

LEMMA EnterGrows ==
  ASSUME Checked, WalkTypes, Walkable(columns), Walking, Len(stack) \in Nat, Len(stack) >= 1,
         Top \in OnNodes(stage), colors[Top] = 0, Enter(stage, Top, Front(stack)),
         ~Exits(Len(stack))
  PROVE  Refuses \/ Enters
<1> DEFINE L == Len(stack)
           n == Top
<1>a. PICK after : after = [colors EXCEPT ![n] = 1]
  OBVIOUS
<1> DEFINE kids == Children(columns, stage, n)
           fresh == Fresh(columns, stage, n, after)
           f == [i \in DOMAIN fresh |-> <<fresh[i], "enter">>]
           new == Pushed(Front(stack), <<n, "exit">>, f)
<1>0. stage \in Walks /\ stack \in Seq(Events(stage)) /\ colors \in [Nodes(columns) -> 0..2]
  BY DEF Walking, WalkTypes
<1>1. Listed(columns, stage, n) \in Seq(Nat) /\ n \in Nodes(columns) /\ On(columns, stage) = OnNodes(stage)
  BY <1>0 DEF Walkable, OnNodes, On
<1>2. \A m : m \in Kids(columns, stage, n) <=> \E i \in 1..Len(kids) : kids[i] = m
  <2>1. kids \in Seq(On(columns, stage))
    BY <1>0, <1>1, ChildrenListed
  <2> QED
    BY <2>1 DEF Kids, ToSet
<1>3. \A m \in Kids(columns, stage, n) : m \in Nodes(columns)
  <2>1. kids \in Seq(On(columns, stage))
    BY <1>0, <1>1, ChildrenListed
  <2> QED
    BY <1>2, <2>1 DEF On
<1>4. \A m \in Nodes(columns) : after[m] = IF m = n THEN 1 ELSE colors[m]
  BY <1>0, <1>a
<1>5. Closes(kids, after) <=> \E m \in Kids(columns, stage, n) : m = n \/ colors[m] = 1
  <2>1. Closes(kids, after) <=> \E m \in Kids(columns, stage, n) : after[m] = 1
    BY DEF Closes, Kids
  <2> QED
    BY <1>3, <1>4, <2>1
<1>6. CASE Closes(kids, after)
  <2>1. Cyclic
    BY <1>6, <1>a DEF Enter
  <2> QED
    BY <1>5, <1>6, <2>1 DEF Cyclic, Refuses
<1>7. CASE ~Closes(kids, after)
  <2>1. colors' = after /\ stack' = new /\ verdict' = verdict
    BY <1>7, <1>a DEF Enter, Fresh, Pushed
  <2>2. /\ fresh \in Seq(OnNodes(stage)) /\ Len(fresh) <= Len(kids) /\ Len(fresh) \in Nat
        /\ \A m : m \in ToSet(fresh) <=> m \in Kids(columns, stage, n) /\ after[m] = 0
    <3>1. /\ fresh \in Seq(On(columns, stage)) /\ Len(fresh) <= Len(kids)
          /\ \A m : m \in ToSet(fresh) <=> m \in Kids(columns, stage, n) /\ after[m] = 0
      BY <1>0, <1>1, FreshChildren
    <3> QED
      BY <1>1, <3>1
  <2> HIDE DEF fresh
  <2>3. f \in Seq(Events(stage)) /\ Len(f) = Len(fresh) /\ \A i \in 1..Len(fresh) : f[i] = <<fresh[i], "enter">>
    BY <2>2 DEF Events
  <2>4. /\ Front(stack) \in Seq(Events(stage)) /\ Len(Front(stack)) = L - 1
        /\ \A i \in 1..(L - 1) : Front(stack)[i] = stack[i]
    BY <1>0, FrontPlaces
  <2>5. <<n, "exit">> \in Events(stage)
    BY DEF Events
  <2> HIDE DEF f
  <2>6. /\ new \in Seq(Events(stage)) /\ Len(new) = Len(Front(stack)) + 1 + Len(f)
        /\ \A i \in 1..Len(Front(stack)) : new[i] = Front(stack)[i]
        /\ new[Len(Front(stack)) + 1] = <<n, "exit">>
        /\ \A i \in 1..Len(f) : new[Len(Front(stack)) + 1 + i] = f[i]
    <3>1. PICK r, e : r = Front(stack) /\ e = <<n, "exit">>
      OBVIOUS
    <3>2. r \in Seq(Events(stage)) /\ e \in Events(stage) /\ f \in Seq(Events(stage))
      BY <2>3, <2>4, <2>5, <3>1
    <3>3. Pushed(r, e, f) \in Seq(Events(stage)) /\ IsPush(Pushed(r, e, f), r, e, f)
      BY <3>2, PushedPlaces
    <3>4. new = Pushed(r, e, f)
      BY <3>1
    <3> HIDE DEF new
    <3> QED
      BY <3>1, <3>3, <3>4 DEF IsPush
  <2> HIDE DEF new
  <2>7. ASSUME NEW i \in 1..Len(fresh) PROVE new[L + i] = <<fresh[i], "enter">>
    <3>1. i \in 1..Len(f) /\ Len(Front(stack)) + 1 + i = L + i
      BY <2>2, <2>3, <2>4
    <3>2. new[Len(Front(stack)) + 1 + i] = f[i]
      BY <2>6, <3>1
    <3> QED
      BY <2>3, <3>1, <3>2
  <2>8. ASSUME NEW i \in (L + 1)..(L + Len(fresh))
        PROVE  new[i][2] = "enter" /\ new[i][1] \in Kids(columns, stage, n)
    <3>1. i - L \in 1..Len(fresh) /\ L + (i - L) = i
      BY <2>2
    <3>2. new[i] = <<fresh[i - L], "enter">>
      BY <2>7, <3>1
    <3>3. fresh[i - L] \in ToSet(fresh)
      BY <2>2, <3>1 DEF ToSet
    <3> QED
      BY <2>2, <3>2, <3>3
  <2>9. ASSUME NEW m \in Kids(columns, stage, n), colors[m] = 0
        PROVE  \E i \in (L + 1)..(L + Len(fresh)) : new[i][1] = m
    <3>1. m # n
      BY <1>5, <1>7
    <3>2. m \in ToSet(fresh)
      BY <1>3, <1>4, <2>2, <2>9, <3>1
    <3>3. PICK j \in 1..Len(fresh) : fresh[j] = m
      BY <2>2, <3>2 DEF ToSet
    <3>4. L + j \in (L + 1)..(L + Len(fresh)) /\ new[L + j] = <<m, "enter">>
      BY <2>2, <2>7, <3>3
    <3> QED
      BY <3>4
  <2>10. Len(new) = L + Len(fresh)
    BY <2>2, <2>3, <2>4, <2>6
  <2>11. \A i \in 1..(L - 1) : new[i] = stack[i]
    BY <2>4, <2>6
  <2>12. new[L] = <<n, "exit">>
    BY <2>4, <2>6
  <2>13. Grows(Len(fresh))
    BY <2>1, <2>2, <2>6, <2>8, <2>9, <2>10, <2>11, <2>12 DEF Grows
  <2>14. \A m \in Kids(columns, stage, n) : m # n /\ colors[m] # 1
    BY <1>5, <1>7
  <2> QED
    BY <1>a, <2>1, <2>2, <2>13, <2>14 DEF Enters
<1> QED
  BY <1>6, <1>7

LEMMA PopOutcomes ==
  ASSUME Checked, WalkTypes, Walkable(columns), NEW walk \in Walks, PopEvent(walk)
  PROVE  walk = stage /\ Pops
<1>1. walk = stage /\ stage \in Walks /\ verdict = "running" /\ stack # <<>> /\ work' = work + 1
  BY DEF PopEvent, Running
<1>2. Walking
  BY <1>1 DEF Checked
<1>3. stack \in Seq(Events(stage)) /\ colors \in [Nodes(columns) -> 0..2]
  BY <1>2 DEF WalkTypes
<1>4. Len(stack) \in Nat /\ Len(stack) >= 1
  BY <1>1, <1>3, EmptySeq
<1>5. stack[Len(stack)] \in Events(stage)
  BY <1>3, <1>4
<1>6. Top \in OnNodes(stage) /\ (Exits(Len(stack)) \/ stack[Len(stack)][2] = "enter")
  BY <1>5, EventShape DEF Events, Top, Waits, Exits
<1>7. Top \in Nodes(columns)
  BY <1>6 DEF OnNodes
<1>8. Last(stack)[1] = Top /\ (Last(stack)[2] = "exit" <=> Exits(Len(stack)))
  BY DEF Last, Top, Waits, Exits
<1>9. stack' = Front(stack) => Shrinks
  <2>1. /\ Front(stack) \in Seq(Events(stage)) /\ Len(Front(stack)) = Len(stack) - 1
        /\ \A i \in 1..(Len(stack) - 1) : Front(stack)[i] = stack[i]
    BY <1>3, <1>4, FrontPlaces
  <2> QED
    BY <2>1 DEF Shrinks
<1>10. /\ columns' = columns /\ stage' = stage /\ at' = at
       /\ Leaves \/ Skips \/ Refuses \/ Enters
  <2>1. CASE Exits(Len(stack)) /\ colors' = Left(Top) /\ stack' = Front(stack)
             /\ UNCHANGED <<columns, stage, at, verdict>>
    BY <1>9, <2>1 DEF Leaves, Left
  <2>2. CASE ~Exits(Len(stack)) /\ colors[Top] = 2 /\ stack' = Front(stack)
             /\ UNCHANGED <<columns, stage, at, colors, verdict>>
    BY <1>9, <2>2 DEF Skips
  <2>3. CASE ~Exits(Len(stack)) /\ colors[Top] = 1 /\ Cyclic
    BY <2>3 DEF Refuses, Cyclic
  <2>4. CASE ~Exits(Len(stack)) /\ colors[Top] = 0 /\ Enter(walk, Top, Front(stack))
    <3>1. Refuses \/ Enters
      BY <1>1, <1>2, <1>4, <1>6, <2>4, EnterGrows
    <3>2. columns' = columns /\ stage' = stage /\ at' = at
      BY <2>4 DEF Enter, Cyclic
    <3> QED
      BY <3>1, <3>2
  <2> QED
    BY <1>1, <1>8, <2>1, <2>2, <2>3, <2>4 DEF PopEvent
<1> QED
  BY <1>1, <1>2, <1>3, <1>4, <1>6, <1>7, <1>10 DEF Pops

\* Nothing of the search moves; only a check in front of the walks may fail.
Rests ==
  /\ columns' = columns /\ stage' = stage /\ at' = at /\ colors' = colors /\ stack' = stack
  /\ work' = work /\ (verdict' = "malformed" => verdict = "malformed" \/ stage \notin Walks)
  /\ verdict = "malformed" => verdict' = "malformed"
  /\ verdict' = "ok" => verdict = "ok" \/ stage = "done"

\* The next stage: after a check that passed, a walk without work, or the end of a walk.
Advances ==
  /\ columns' = columns /\ colors' = <<>> /\ stack' = <<>> /\ verdict' = "running"
  /\ stage' = NextStage(stage)
  /\ \/ stage = "generic" /\ ValidateGeneric(columns) = "ok"
     \/ stage = "nodes" /\ ValidateNodes(columns) = "ok"
     \/ stage \in Walks /\ colors = <<>> /\ ~NeedsWalk(columns, stage)
     \/ Walking /\ stack = <<>> /\ PendingStarts(stage) = {}

Starts ==
  /\ stage \in Walks /\ verdict = "running" /\ colors = <<>> /\ stack = <<>>
  /\ columns' = columns /\ stage' = stage /\ verdict' = verdict
  /\ colors' = [n \in Nodes(columns) |-> 0] /\ at' = 1 /\ work' = 0 /\ stack' = <<>>

Queues ==
  /\ Walking /\ verdict = "running" /\ stack = <<>>
  /\ columns' = columns /\ stage' = stage /\ verdict' = verdict /\ colors' = colors /\ work' = work
  /\ \E n \in PendingStarts(stage) :
        /\ \A m \in PendingStarts(stage) : n <= m
        /\ stack' = <<<<n, "enter">>>> /\ at' = n + 1

LEMMA NextStages ==
  /\ NextStage("generic") = "nodes" /\ NextStage("nodes") = "annotation"
  /\ NextStage("annotation") = "class" /\ NextStage("class") = "data" /\ NextStage("data") = "done"
<1> DEFINE P(s, i) == i \in DOMAIN Stages /\ Stages[i] = s
<1>1. DOMAIN Stages = 1..6
  BY DEF Stages
<1>2. /\ Stages[1] = "generic" /\ Stages[2] = "nodes" /\ Stages[3] = "annotation"
      /\ Stages[4] = "class" /\ Stages[5] = "data" /\ Stages[6] = "done"
  BY DEF Stages
<1>3. \A i \in 1..6 : i = 1 \/ i = 2 \/ i = 3 \/ i = 4 \/ i = 5 \/ i = 6
  OBVIOUS
<1>4. ASSUME NEW s, NEW k \in 1..5, Stages[k] = s, \A i \in 1..6 : Stages[i] = s => i = k
      PROVE  NextStage(s) = Stages[1 + k]
  <2>1. (CHOOSE i \in DOMAIN Stages : Stages[i] = s) = k
    BY <1>1, <1>4
  <2> QED
    BY <2>1 DEF NextStage
<1> QED
  BY <1>2, <1>3, <1>4

\* Which node Min chooses.
LEMMA MinOfPlaces ==
  ASSUME NEW T \in SUBSET Nat, T # {}
  PROVE  Min(T) \in T /\ \A m \in T : Min(T) <= m
BY NatMinimum DEF Min

LEMMA StepOutcomes ==
  ASSUME Checked, WalkTypes, stage \in Walks => Walkable(columns), [TableNext]_tableVars
  PROVE  Rests \/ Advances \/ Starts \/ Queues \/ Pops
<1> USE DEF Running
<1>1. CASE CheckGeneric
  <2>1. colors = <<>> /\ stack = <<>> /\ stage \notin Walks
    BY <1>1 DEF Checked, Walking, Walks, CheckGeneric
  <2>2. CASE ValidateGeneric(columns) = "ok"
    BY <1>1, <2>1, <2>2 DEF CheckGeneric, Conclude, Advances
  <2>3. CASE ValidateGeneric(columns) # "ok"
    BY <1>1, <2>1, <2>3 DEF CheckGeneric, Conclude, Rests
  <2> QED
    BY <2>2, <2>3
<1>2. CASE CheckNodes
  <2>1. colors = <<>> /\ stack = <<>> /\ stage \notin Walks
    BY <1>2 DEF Checked, Walking, Walks, CheckNodes
  <2>2. CASE ValidateNodes(columns) = "ok"
    BY <1>2, <2>1, <2>2 DEF CheckNodes, Conclude, Advances
  <2>3. CASE ValidateNodes(columns) # "ok"
    BY <1>2, <2>1, <2>3 DEF CheckNodes, Conclude, Rests
  <2> QED
    BY <2>2, <2>3
<1>3. ASSUME NEW walk \in Walks, SkipWalk(walk) PROVE Advances
  <2>1. stage = walk /\ colors = <<>> /\ stack = <<>>
    BY <1>3 DEF SkipWalk, Checked, Walking
  <2> QED
    BY <1>3, <2>1 DEF SkipWalk, Conclude, Advances
<1>4. ASSUME NEW walk \in Walks, StartWalk(walk) PROVE Starts
  <2>1. stage = walk /\ verdict = "running" /\ colors = <<>> /\ stack = <<>>
    BY <1>4 DEF StartWalk, Checked, Walking
  <2> QED
    BY <1>4, <2>1 DEF StartWalk, Starts
<1>5. ASSUME NEW walk \in Walks, QueueStart(walk) PROVE Queues
  <2>1. stage = walk /\ verdict = "running" /\ Walking /\ stack = <<>> /\ PendingStarts(stage) # {}
    BY <1>5 DEF QueueStart, Walking
  <2>2. PendingStarts(stage) \in SUBSET Nat
    BY <2>1 DEF PendingStarts, WalkTypes
  <2>3. PICK n : n = Min(PendingStarts(stage))
    OBVIOUS
  <2>4. n \in PendingStarts(stage) /\ \A m \in PendingStarts(stage) : n <= m
    BY <2>1, <2>2, <2>3, MinOfPlaces
  <2>5. stack' = <<<<n, "enter">>>> /\ at' = n + 1
    BY <1>5, <2>1, <2>3 DEF QueueStart
  <2>6. columns' = columns /\ stage' = stage /\ verdict' = verdict /\ colors' = colors /\ work' = work
    BY <1>5 DEF QueueStart
  <2> QED
    BY <2>1, <2>4, <2>5, <2>6 DEF Queues
<1>6. ASSUME NEW walk \in Walks, EndWalk(walk) PROVE Advances
  <2>1. stage = walk /\ Walking /\ stack = <<>> /\ verdict = "running"
    BY <1>6 DEF EndWalk, Walking
  <2> QED
    BY <1>6, <2>1 DEF EndWalk, Advances
<1>7. ASSUME NEW walk \in Walks, PopEvent(walk) PROVE Pops
  <2>1. stage \in Walks
    BY <1>7 DEF PopEvent
  <2> QED
    BY <1>7, <2>1, PopOutcomes
<1>8. CASE Accept \/ CancelPreflight \/ UNCHANGED tableVars
  BY <1>8 DEF Accept, CancelPreflight, tableVars, Rests
<1> QED
  BY <1>1, <1>2, <1>3, <1>4, <1>5, <1>6, <1>7, <1>8 DEF TableNext, WalkStep

-----------------------------------------------------------------------------
(* The steps keep the invariants                                           *)

LEMMA AdvancesTo ==
  ASSUME Checked, Advances
  PROVE  /\ stage' \in StageNames \ {"generic"} /\ ~Walking'
         /\ stage' \notin {"generic", "nodes"} => ValidateNodes(columns) = "ok"
         /\ ValidateGeneric(columns) = "ok"
         /\ \A walk \in Walks : Ended(walk)' => Ended(walk) \/ walk = stage
<1>1. stage \in {"generic", "nodes", "annotation", "class", "data"} /\ stage' = NextStage(stage)
  BY DEF Advances, Walking, Walks
<1>2. \/ stage = "generic" /\ stage' = "nodes"
      \/ stage = "nodes" /\ stage' = "annotation"
      \/ stage = "annotation" /\ stage' = "class"
      \/ stage = "class" /\ stage' = "data"
      \/ stage = "data" /\ stage' = "done"
  BY <1>1, NextStages
<1>3. stage' \in StageNames \ {"generic"}
  BY <1>2 DEF StageNames
<1>4. ~Walking'
  BY DEF Walking, Advances
<1>5. stage' \notin {"generic", "nodes"} => ValidateNodes(columns) = "ok"
  BY <1>2 DEF Checked, Advances, Walking, Walks
<1>6. ValidateGeneric(columns) = "ok"
  BY <1>2 DEF Checked, Advances, Walking, Walks
<1>7. \A walk \in Walks : Ended(walk)' => Ended(walk) \/ walk = stage
  BY <1>2 DEF Walks, Ended
<1> QED
  BY <1>3, <1>4, <1>5, <1>6, <1>7

LEMMA CheckedStep ==
  ASSUME Checked, Rests \/ Advances \/ Starts \/ Queues \/ Pops
  PROVE  Checked'
<1>1. CASE Rests
  BY <1>1 DEF Checked, Rests, Walking
<1>2. CASE Advances
  <2>1. columns' = columns /\ colors' = <<>> /\ stack' = <<>> /\ verdict' = "running"
    BY <1>2 DEF Advances
  <2> QED
    BY <1>2, <2>1, AdvancesTo DEF Checked
<1>3. CASE Starts
  BY <1>3 DEF Checked, Starts, Walking
<1>4. CASE Queues
  BY <1>4 DEF Checked, Queues, Walking
<1>5. CASE Pops
  <2>1. colors # <<>> /\ colors' # <<>>
    <3>1. colors # <<>> /\ Top \in Nodes(columns)
      BY <1>5 DEF Pops, Walking
    <3>2. \A v : [colors EXCEPT ![Top] = v] # <<>>
      BY <3>1
    <3> QED
      BY <1>5, <3>1, <3>2 DEF Pops, Leaves, Skips, Refuses, Enters
  <2>2. verdict' # "ok"
    BY <1>5 DEF Pops, Leaves, Skips, Refuses, Enters
  <2> QED
    BY <1>5, <2>1, <2>2 DEF Checked, Pops, Walking
<1> QED
  BY <1>1, <1>2, <1>3, <1>4, <1>5

\* What the step lemmas need to know of the number of nodes.
LEMMA NodeNumbers ==
  ASSUME Checked
  PROVE  /\ IsTable(columns) /\ NodeCount(columns) \in Nat /\ Nodes(columns) = 1..NodeCount(columns)
         /\ \A walk : OnNodes(walk) \subseteq Nodes(columns)
<1>1. IsTable(columns)
  BY TableAssumption DEF Checked
<1>2. columns.tag \in Seq(STRING)
  BY <1>1 DEF IsTable
<1> QED
  BY <1>1, <1>2 DEF NodeCount, Nodes, OnNodes

LEMMA TypesStep ==
  ASSUME Checked, WalkTypes, Rests \/ Advances \/ Starts \/ Queues \/ Pops
  PROVE  WalkTypes'
<1>0. NodeCount(columns) \in Nat /\ Nodes(columns) = 1..NodeCount(columns)
  BY NodeNumbers
<1>e. columns' = columns /\ stage' = stage => Events(stage') = Events(stage) /\ Events(stage)' = Events(stage')
  BY DEF Events, OnNodes
<1>1. CASE Rests
  BY <1>1 DEF WalkTypes, Rests, Walking, Events, OnNodes
<1>2. CASE Advances
  BY <1>2, AdvancesTo DEF WalkTypes
<1>3. CASE Starts
  <2>1. colors' \in [Nodes(columns) -> 0..2]
    BY <1>3 DEF Starts
  <2>2. stack' \in Seq(Events(stage)')
    BY <1>3 DEF Starts
  <2> QED
    BY <1>0, <1>3, <2>1, <2>2 DEF WalkTypes, Starts
<1>4. CASE Queues
  <2>1. PICK n \in PendingStarts(stage) : stack' = <<<<n, "enter">>>> /\ at' = n + 1
    BY <1>4 DEF Queues
  <2>2. /\ colors \in [Nodes(columns) -> 0..2] /\ work \in Nat /\ at \in 1..(NodeCount(columns) + 1)
        /\ columns' = columns /\ stage' = stage /\ colors' = colors /\ work' = work
    BY <1>4 DEF Queues, WalkTypes
  <2>3. n \in at..NodeCount(columns) /\ OnWalk(columns, stage, n)
    BY <2>1 DEF PendingStarts
  <2>4. n \in 1..NodeCount(columns)
    BY <1>0, <2>2, <2>3
  <2>5. n \in OnNodes(stage)
    BY <1>0, <2>3, <2>4 DEF OnNodes
  <2>6. <<n, "enter">> \in Events(stage)
    BY <2>5 DEF Events
  <2>7. stack' \in Seq(Events(stage))
    BY <2>1, <2>6
  <2>8. n + 1 \in 1..(NodeCount(columns) + 1)
    BY <1>0, <2>4
  <2> QED
    BY <1>e, <2>1, <2>2, <2>7, <2>8 DEF WalkTypes
<1>5. CASE Pops
  <2>1. colors \in [Nodes(columns) -> 0..2] /\ work \in Nat /\ at \in 1..(NodeCount(columns) + 1)
    BY <1>5 DEF Pops, WalkTypes
  <2>2. colors' \in [Nodes(columns) -> 0..2]
    BY <1>5, <2>1 DEF Pops, Leaves, Skips, Refuses, Enters
  <2>3. stack' \in Seq(Events(stage))
    BY <1>5 DEF Pops, Leaves, Skips, Refuses, Enters, Shrinks, Grows
  <2> QED
    BY <1>5, <1>e, <2>1, <2>2, <2>3 DEF WalkTypes, Pops
<1> QED
  BY <1>1, <1>2, <1>3, <1>4, <1>5

LEMMA EnteredStep ==
  ASSUME Checked, WalkTypes, Entered, Rests \/ Advances \/ Starts \/ Queues \/ Pops
  PROVE  Entered'
<1>0. NodeCount(columns) \in Nat /\ Nodes(columns) = 1..NodeCount(columns)
      /\ OnNodes(stage) \subseteq Nodes(columns)
  BY NodeNumbers
<1>e. columns' = columns /\ stage' = stage => OnNodes(stage)' = OnNodes(stage)
  BY DEF OnNodes
<1>1. CASE Rests
  BY <1>1 DEF Entered, Rests, Walking, Exits, Waits, OnNodes
<1>2. CASE Advances
  BY <1>2, AdvancesTo DEF Entered
<1>3. CASE Starts
  <2>1. Len(stack') = 0
    BY <1>3 DEF Starts
  <2>2. \A n \in OnNodes(stage)' : colors'[n] # 1
    BY <1>0, <1>3, <1>e DEF Starts
  <2> QED
    BY <2>1, <2>2 DEF Entered
<1>4. CASE Queues
  <2>1. PICK n : stack' = <<<<n, "enter">>>>
    BY <1>4 DEF Queues
  <2>2. Len(stack') = 1 /\ \A i \in 1..1 : stack'[i][2] # "exit"
    BY <2>1
  <2>3. Walking /\ Len(stack) = 0 /\ colors' = colors
    BY <1>4 DEF Queues
  <2>4. \A n_1 \in OnNodes(stage)' : colors'[n_1] # 1
    BY <1>4, <1>e, <2>3 DEF Entered, Queues
  <2> QED
    BY <2>2, <2>4 DEF Entered, Exits
<1>5. CASE Pops
  <2>0. PICK L : L = Len(stack)
    OBVIOUS
  <2>1. /\ Walking /\ L \in Nat /\ L >= 1 /\ Top \in OnNodes(stage) /\ Top \in Nodes(columns)
        /\ colors \in [Nodes(columns) -> 0..2] /\ Top = Waits(L)
        /\ stack \in Seq(Events(stage)) /\ OnNodes(stage)' = OnNodes(stage)
    BY <1>5, <1>e, <2>0 DEF Pops, WalkTypes, Top
  <2>2. /\ \A i \in 1..L : Exits(i) => colors[Waits(i)] = 1
        /\ \A i, j \in 1..L : Exits(i) /\ Exits(j) /\ Waits(i) = Waits(j) => i = j
        /\ \A n \in OnNodes(stage) : colors[n] = 1 => \E i \in 1..L : Exits(i) /\ Waits(i) = n
    BY <2>0, <2>1 DEF Entered
  <2>3. \A i \in 1..L : Waits(i) \in Nodes(columns)
    <3>1. \A i \in 1..L : stack[i] \in Events(stage)
      BY <2>0, <2>1
    <3>2. \A i \in 1..L : Waits(i) \in OnNodes(stage)
      BY <3>1, EventShape DEF Events, Waits
    <3> QED
      BY <1>0, <3>2
  <2>4. CASE Leaves
    <3>1. Exits(L) /\ colors' = [colors EXCEPT ![Top] = 2] /\ Len(stack') = L - 1
          /\ \A i \in 1..(L - 1) : stack'[i] = stack[i]
      BY <2>0, <2>4 DEF Leaves, Shrinks
    <3>2. \A i \in 1..(L - 1) : i \in 1..L /\ i # L
      BY <2>1
    <3>3. ASSUME NEW i \in 1..(L - 1), Exits(i)' PROVE Exits(i) /\ colors'[Waits(i)'] = 1
      <4>0. Exits(i) /\ Waits(i)' = Waits(i)
        BY <3>1, <3>3 DEF Exits, Waits
      <4>1. Waits(i) # Top /\ colors[Waits(i)] = 1
        BY <2>1, <2>2, <3>1, <3>2, <4>0
      <4> QED
        BY <2>1, <2>3, <3>1, <3>2, <4>0, <4>1
    <3>4. ASSUME NEW i \in 1..(L - 1), NEW j \in 1..(L - 1), Exits(i)', Exits(j)', Waits(i)' = Waits(j)'
          PROVE  i = j
      BY <2>2, <3>1, <3>2, <3>4 DEF Exits, Waits
    <3>5. ASSUME NEW n \in OnNodes(stage), colors'[n] = 1
          PROVE  \E i \in 1..(L - 1) : Exits(i)' /\ Waits(i)' = n
      <4>1. n # Top /\ colors[n] = 1
        BY <1>0, <2>1, <3>1, <3>5
      <4>2. PICK i \in 1..L : Exits(i) /\ Waits(i) = n
        BY <2>2, <4>1
      <4>3. i \in 1..(L - 1)
        BY <2>1, <4>1, <4>2
      <4> QED
        BY <3>1, <4>2, <4>3 DEF Exits, Waits
    <3> QED
      BY <2>1, <3>1, <3>3, <3>4, <3>5 DEF Entered
  <2>5. CASE Skips
    <3>1. ~Exits(L) /\ colors' = colors /\ Len(stack') = L - 1
          /\ \A i \in 1..(L - 1) : stack'[i] = stack[i]
      BY <2>0, <2>5 DEF Skips, Shrinks
    <3>2. \A i \in 1..(L - 1) : i \in 1..L /\ Exits(i)' = Exits(i) /\ Waits(i)' = Waits(i)
      BY <2>1, <3>1 DEF Exits, Waits
    <3>3. \A i \in 1..L : Exits(i) => i \in 1..(L - 1)
      BY <2>1, <3>1
    <3> QED
      BY <2>1, <2>2, <3>1, <3>2, <3>3 DEF Entered
  <2>6. CASE Refuses
    BY <2>0, <2>1, <2>2, <2>6 DEF Entered, Refuses, Exits, Waits
  <2>7. CASE Enters
    <3>1. PICK k \in Nat : Grows(k)
      BY <2>7 DEF Enters
    <3>2. ~Exits(L) /\ colors[Top] = 0 /\ colors' = [colors EXCEPT ![Top] = 1]
      BY <2>0, <2>7 DEF Enters
    <3>3. /\ Len(stack') = L + k
          /\ \A i \in 1..(L - 1) : stack'[i] = stack[i]
          /\ stack'[L][2] = "exit" /\ stack'[L][1] = Top
          /\ \A i \in (L + 1)..(L + k) : stack'[i][2] = "enter"
      BY <2>0, <3>1 DEF Grows
    <3>4. ASSUME NEW i \in 1..(L + k), Exits(i)' PROVE i \in 1..L
      <4>1. i \notin (L + 1)..(L + k)
        BY <3>3, <3>4 DEF Exits
      <4> QED
        BY <2>1, <4>1
    <3>5. \A i \in 1..(L - 1) : Exits(i)' = Exits(i) /\ Waits(i)' = Waits(i) /\ i \in 1..L
      BY <2>1, <3>3 DEF Exits, Waits
    <3>6. Exits(L)' /\ Waits(L)' = Top /\ L \in 1..(L + k)
      BY <2>1, <3>3 DEF Exits, Waits
    <3>7. \A i \in 1..(L - 1) : Exits(i) => Waits(i) # Top /\ colors[Waits(i)] = 1
      BY <2>2, <3>2, <3>5
    <3>8. \A i \in 1..L : i = L \/ i \in 1..(L - 1)
      BY <2>1
    <3>9. ASSUME NEW i \in 1..(L + k), Exits(i)' PROVE colors'[Waits(i)'] = 1
      <4>1. CASE i = L
        BY <2>1, <3>2, <3>6, <4>1
      <4>2. CASE i \in 1..(L - 1)
        <5>1. Waits(i)' = Waits(i) /\ Waits(i) # Top /\ colors[Waits(i)] = 1 /\ Waits(i) \in Nodes(columns)
          BY <2>3, <3>5, <3>7, <3>9, <4>2
        <5> QED
          BY <2>1, <3>2, <5>1
      <4> QED
        BY <3>4, <3>8, <3>9, <4>1, <4>2
    <3>10. ASSUME NEW i \in 1..(L + k), NEW j \in 1..(L + k), Exits(i)', Exits(j)', Waits(i)' = Waits(j)'
           PROVE  i = j
      <4>1. i \in 1..L /\ j \in 1..L
        BY <3>4, <3>10
      <4> QED
        BY <2>2, <3>5, <3>6, <3>7, <3>8, <3>10, <4>1
    <3>11. ASSUME NEW n \in OnNodes(stage), colors'[n] = 1
           PROVE  \E i \in 1..(L + k) : Exits(i)' /\ Waits(i)' = n
      <4>1. CASE n = Top
        BY <3>6, <4>1
      <4>2. CASE n # Top
        <5>1. colors[n] = 1
          BY <1>0, <2>1, <3>2, <3>11, <4>2
        <5>2. PICK i \in 1..L : Exits(i) /\ Waits(i) = n
          BY <2>2, <5>1
        <5>3. i \in 1..(L - 1) /\ i \in 1..(L + k)
          BY <2>1, <3>1, <3>2, <5>2
        <5> QED
          BY <3>5, <5>2, <5>3
      <4> QED
        BY <4>1, <4>2
    <3> QED
      BY <2>1, <3>3, <3>9, <3>10, <3>11 DEF Entered
  <2> QED
    BY <1>5, <2>4, <2>5, <2>6, <2>7 DEF Pops
<1> QED
  BY <1>1, <1>2, <1>3, <1>4, <1>5

LEMMA PathStep ==
  ASSUME Checked, Path, Rests \/ Advances \/ Starts \/ Queues \/ Pops
  PROVE  Path'
<1>1. CASE Rests
  BY <1>1 DEF Path, Rests, Walking, Descends, Exits, Waits
<1>2. CASE Advances
  BY <1>2, AdvancesTo DEF Path
<1>3. CASE Starts
  <2>1. Len(stack') = 0
    BY <1>3 DEF Starts
  <2> QED
    BY <2>1 DEF Path
<1>4. CASE Queues
  <2>1. PICK n : stack' = <<<<n, "enter">>>>
    BY <1>4 DEF Queues
  <2>2. Len(stack') = 1
    BY <2>1
  <2> QED
    BY <2>2 DEF Path
<1>5. CASE Pops
  <2>0. PICK L : L = Len(stack)
    OBVIOUS
  <2>1. L \in Nat /\ L >= 1 /\ Top = Waits(L) /\ columns' = columns /\ stage' = stage
    BY <1>5, <2>0 DEF Pops, Top
  <2>2. \A j \in 2..L : \E i \in 1..(j - 1) : Descends(i, j)
    BY <1>5, <2>0 DEF Path, Pops
  <2>3. ASSUME NEW j \in 2..L, Waits(j)' = Waits(j),
               \A i \in 1..(j - 1) : Exits(i)' = Exits(i) /\ Waits(i)' = Waits(i)
        PROVE  \E i \in 1..(j - 1) : Descends(i, j)'
    <3>1. PICK i \in 1..(j - 1) : Descends(i, j)
      BY <2>2
    <3>2. \A l \in (i + 1)..(j - 1) : l \in 1..(j - 1)
      OBVIOUS
    <3>3. Exits(i)' /\ \A l \in (i + 1)..(j - 1) : ~Exits(l)'
      BY <2>3, <3>1, <3>2 DEF Descends
    <3>4. Waits(j)' \in Kids(columns', stage', Waits(i)')
      BY <2>1, <2>3, <3>1 DEF Descends
    <3> QED
      BY <3>3, <3>4 DEF Descends
  <2>4. CASE Leaves \/ Skips
    <3>1. Len(stack') = L - 1 /\ \A i \in 1..(L - 1) : stack'[i] = stack[i]
      BY <2>0, <2>4 DEF Leaves, Skips, Shrinks
    <3>2. \A i \in 1..(L - 1) : Exits(i)' = Exits(i) /\ Waits(i)' = Waits(i)
      BY <3>1 DEF Exits, Waits
    <3>3. \A j \in 2..(L - 1) : \E i \in 1..(j - 1) : Descends(i, j)'
      <4> SUFFICES ASSUME NEW j \in 2..(L - 1) PROVE \E i \in 1..(j - 1) : Descends(i, j)'
        OBVIOUS
      <4>1. j \in 2..L /\ j \in 1..(L - 1) /\ \A i \in 1..(j - 1) : i \in 1..(L - 1)
        BY <2>1
      <4> QED
        BY <2>3, <3>2, <4>1
    <3> QED
      BY <3>1, <3>3 DEF Path
  <2>5. CASE Refuses
    <3>1. stack' = stack
      BY <2>5 DEF Refuses
    <3>2. \A i \in Nat : Exits(i)' = Exits(i) /\ Waits(i)' = Waits(i)
      BY <3>1 DEF Exits, Waits
    <3> QED
      BY <2>0, <2>1, <2>2, <2>3, <3>1, <3>2 DEF Path
  <2>6. CASE Enters
    <3>1. PICK k \in Nat : Grows(k)
      BY <2>6 DEF Enters
    <3>2. /\ Len(stack') = L + k
          /\ \A i \in 1..(L - 1) : stack'[i] = stack[i]
          /\ stack'[L][2] = "exit" /\ stack'[L][1] = Top
          /\ \A i \in (L + 1)..(L + k) : stack'[i][2] = "enter"
          /\ \A i \in (L + 1)..(L + k) : stack'[i][1] \in Kids(columns, stage, Top)
      BY <2>0, <3>1 DEF Grows
    <3>3. \A i \in 1..(L - 1) : Exits(i)' = Exits(i) /\ Waits(i)' = Waits(i)
      BY <3>2 DEF Exits, Waits
    <3>4. Waits(L)' = Waits(L) /\ Waits(L)' = Top /\ Exits(L)'
      BY <2>1, <3>2 DEF Waits, Exits
    <3>5. ASSUME NEW j \in 2..(L + k) PROVE \E i \in 1..(j - 1) : Descends(i, j)'
      <4>1. CASE j <= L
        <5>1. j \in 2..L /\ Waits(j)' = Waits(j) /\ \A i \in 1..(j - 1) : i \in 1..(L - 1)
          BY <2>1, <3>3, <3>4, <4>1
        <5> QED
          BY <2>3, <3>3, <5>1
      <4>2. CASE j > L
        <5>1. j \in (L + 1)..(L + k) /\ L \in 1..(j - 1)
          BY <2>1, <4>2
        <5>2. ASSUME NEW l \in (L + 1)..(j - 1) PROVE ~Exits(l)'
          <6>1. l \in (L + 1)..(L + k)
            BY <2>1, <5>1
          <6> QED
            BY <3>2, <6>1 DEF Exits
        <5>3. Waits(j)' \in Kids(columns', stage', Waits(L)')
          BY <2>1, <3>2, <3>4, <5>1 DEF Waits
        <5>4. Descends(L, j)'
          BY <3>4, <5>2, <5>3 DEF Descends
        <5> QED
          BY <5>1, <5>4
      <4> QED
        BY <2>1, <4>1, <4>2
    <3> QED
      BY <3>2, <3>5 DEF Path
  <2> QED
    BY <1>5, <2>4, <2>5, <2>6 DEF Pops
<1> QED
  BY <1>1, <1>2, <1>3, <1>4, <1>5

\* What waits somewhere or was left still does so after a step.
LEMMA SettledKept ==
  ASSUME Checked, WalkTypes, Pops, NEW L, L = Len(stack), NEW n \in Nodes(columns), NEW i \in 1..L,
         Settled(n, i)
  PROVE  Settled(n, i)'
<1>0. /\ L \in Nat /\ L >= 1 /\ Top = Waits(L) /\ Top \in Nodes(columns)
      /\ colors \in [Nodes(columns) -> 0..2]
  BY DEF Pops, Top, WalkTypes
<1>1. CASE colors[n] = 2
  <2>1. colors'[n] = 2
    BY <1>0, <1>1 DEF Pops, Leaves, Skips, Refuses, Enters
  <2> QED
    BY <2>1 DEF Settled
<1>2. CASE colors[n] # 2
  <2>1. PICK j \in i..L : Waits(j) = n
    BY <1>2 DEF Settled
  <2>2. CASE Leaves \/ Skips
    <3>1. Len(stack') = L - 1 /\ \A x \in 1..(L - 1) : stack'[x] = stack[x]
      BY <2>2 DEF Leaves, Skips, Shrinks
    <3>2. CASE j = L
      <4>1. n = Top /\ colors[n] # 2
        BY <1>0, <1>2, <2>1, <3>2
      <4>2. colors'[n] = 2
        BY <1>0, <2>2, <4>1 DEF Leaves, Skips
      <4> QED
        BY <4>2 DEF Settled
    <3>3. CASE j # L
      <4>1. j \in i..(L - 1) /\ j \in 1..(L - 1)
        BY <1>0, <3>3
      <4>2. Waits(j)' = n
        BY <2>1, <3>1, <4>1 DEF Waits
      <4> QED
        BY <3>1, <4>1, <4>2 DEF Settled
    <3> QED
      BY <3>2, <3>3
  <2>3. CASE Refuses
    BY <2>1, <2>3 DEF Refuses, Settled, Waits
  <2>4. CASE Enters
    <3>1. PICK k \in Nat : Grows(k)
      BY <2>4 DEF Enters
    <3>2. /\ Len(stack') = L + k /\ stack'[L][1] = Top
          /\ \A x \in 1..(L - 1) : stack'[x] = stack[x]
      BY <3>1 DEF Grows
    <3>3. j \in i..(L + k) /\ (j = L \/ j \in 1..(L - 1))
      BY <1>0
    <3>4. Waits(j)' = n
      BY <1>0, <2>1, <3>2, <3>3 DEF Waits
    <3> QED
      BY <3>2, <3>3, <3>4 DEF Settled
  <2> QED
    BY <2>2, <2>3, <2>4 DEF Pops
<1> QED
  BY <1>1, <1>2

\* The children of a node of the walk are nodes of the walk.
LEMMA KidsOnWalk ==
  ASSUME stage \in Walks => Walkable(columns), Walking, NEW n \in OnNodes(stage)
  PROVE  /\ Kids(columns, stage, n) \subseteq OnNodes(stage)
         /\ Children(columns, stage, n) \in Seq(OnNodes(stage))
<1>1. stage \in Walks /\ On(columns, stage) = OnNodes(stage)
  BY DEF Walking, On, OnNodes
<1>2. Listed(columns, stage, n) \in Seq(Nat)
  BY <1>1 DEF Walkable
<1>3. Children(columns, stage, n) \in Seq(OnNodes(stage))
  BY <1>1, <1>2, ChildrenListed
<1> QED
  BY <1>3 DEF Kids, ToSet

LEMMA CompleteStep ==
  ASSUME Checked, WalkTypes, Complete, stage \in Walks => Walkable(columns),
         Rests \/ Advances \/ Starts \/ Queues \/ Pops
  PROVE  Complete'
<1>0. NodeCount(columns) \in Nat /\ Nodes(columns) = 1..NodeCount(columns)
      /\ OnNodes(stage) \subseteq Nodes(columns)
  BY NodeNumbers
<1>e. columns' = columns /\ stage' = stage =>
        OnNodes(stage)' = OnNodes(stage) /\ \A n : Kids(columns, stage, n)' = Kids(columns, stage, n)
  BY DEF OnNodes
<1>1. CASE Rests
  BY <1>1, <1>e DEF Complete, Rests, Walking, Settled, Exits, Waits
<1>2. CASE Advances
  BY <1>2, AdvancesTo DEF Complete
<1>3. CASE Starts
  <2>1. Len(stack') = 0 /\ at' = 1
    BY <1>3 DEF Starts
  <2>2. \A n \in OnNodes(stage)' : colors'[n] # 2 /\ ~(n < at')
    BY <1>0, <1>3, <1>e, <2>1 DEF Starts
  <2> QED
    BY <2>1, <2>2 DEF Complete
<1>4. CASE Queues
  <2>1. PICK n \in PendingStarts(stage) :
          /\ \A m \in PendingStarts(stage) : n <= m
          /\ stack' = <<<<n, "enter">>>> /\ at' = n + 1
    BY <1>4 DEF Queues
  <2>2. /\ Walking /\ Len(stack) = 0 /\ colors' = colors /\ columns' = columns /\ stage' = stage
        /\ at \in 1..(NodeCount(columns) + 1) /\ colors \in [Nodes(columns) -> 0..2]
    BY <1>4 DEF Queues, WalkTypes
  <2>3. n \in at..NodeCount(columns)
    BY DEF PendingStarts
  <2>4. Len(stack') = 1 /\ stack'[1][2] # "exit" /\ stack'[1][1] = n
    BY <2>1
  <2>5. ASSUME NEW m \in OnNodes(stage), m < at' PROVE Settled(m, 1)'
    <3>1. m \in Nat /\ m <= n
      BY <1>0, <2>1, <2>2, <2>3, <2>5
    <3>2. CASE m = n
      BY <2>4, <3>2 DEF Settled, Waits
    <3>3. CASE m < at
      <4>1. Settled(m, 1)
        BY <2>2, <3>3 DEF Complete
      <4>2. colors[m] = 2
        BY <2>2, <4>1 DEF Settled
      <4> QED
        BY <2>2, <4>2 DEF Settled
    <3>4. CASE m # n /\ ~(m < at)
      <4>1. m \in at..NodeCount(columns) /\ ~(n <= m)
        BY <1>0, <2>2, <2>3, <3>1, <3>4
      <4>2. m \notin PendingStarts(stage)
        BY <2>1, <4>1
      <4>3. colors[m] = 2
        BY <4>1, <4>2 DEF PendingStarts, OnNodes
      <4> QED
        BY <2>2, <4>3 DEF Settled
    <3> QED
      BY <3>2, <3>3, <3>4
  <2>6. \A m \in OnNodes(stage) : colors'[m] = 2 => \A x \in Kids(columns, stage, m) : colors'[x] = 2
    BY <2>2 DEF Complete
  <2>7. \A i \in 1..Len(stack') : ~Exits(i)'
    BY <2>4 DEF Exits
  <2> QED
    BY <1>e, <2>2, <2>5, <2>6, <2>7 DEF Complete
<1>5. CASE Pops
  <2>0. PICK L : L = Len(stack)
    OBVIOUS
  <2>1. /\ Walking /\ L \in Nat /\ L >= 1 /\ Top = Waits(L) /\ columns' = columns /\ stage' = stage
        /\ Top \in OnNodes(stage) /\ at' = at /\ colors \in [Nodes(columns) -> 0..2]
        /\ stack \in Seq(Events(stage))
    BY <1>5, <2>0 DEF Pops, Top, WalkTypes
  <2>2. /\ \A n \in OnNodes(stage) : colors[n] = 2 => \A m \in Kids(columns, stage, n) : colors[m] = 2
        /\ \A i \in 1..L : Exits(i) => \A m \in Kids(columns, stage, Waits(i)) : Settled(m, i + 1)
        /\ \A n \in OnNodes(stage) : n < at => Settled(n, 1)
    BY <2>0, <2>1 DEF Complete
  <2>3. \A n \in OnNodes(stage) : Kids(columns, stage, n) \subseteq Nodes(columns)
    BY <1>0, <2>1, KidsOnWalk
  <2>4. \A i \in 1..L : Waits(i) \in OnNodes(stage)
    <3>1. \A i \in 1..L : stack[i] \in Events(stage)
      BY <2>0, <2>1
    <3> QED
      BY <3>1, EventShape DEF Events, Waits
  <2>5. \A n \in Nodes(columns) : colors[n] = 2 => colors'[n] = 2
    BY <1>5, <2>1 DEF Pops, Leaves, Skips, Refuses, Enters
  <2>6. ASSUME NEW n \in Nodes(columns), NEW i \in 1..L, Settled(n, i) PROVE Settled(n, i)'
    BY <1>5, <2>0, <2>6, SettledKept
  <2>7. ASSUME NEW n \in OnNodes(stage), colors'[n] = 2, NEW m \in Kids(columns, stage, n)
        PROVE  colors'[m] = 2
    <3>1. m \in Nodes(columns) /\ n \in Nodes(columns)
      BY <1>0, <2>3
    <3>2. CASE colors[n] = 2
      BY <2>2, <2>5, <3>1, <3>2
    <3>3. CASE colors[n] # 2
      <4>1. Leaves /\ n = Top
        BY <1>5, <2>1, <2>7, <3>1, <3>3 DEF Pops, Leaves, Skips, Refuses, Enters
      <4>2. Exits(L) /\ L \in 1..L
        BY <2>0, <2>1, <4>1 DEF Leaves
      <4>3. Settled(m, L + 1)
        BY <2>1, <2>2, <4>1, <4>2
      <4>4. colors[m] = 2
        BY <2>0, <2>1, <4>3 DEF Settled
      <4> QED
        BY <2>5, <3>1, <4>4
    <3> QED
      BY <3>2, <3>3
  <2>8. ASSUME NEW n \in OnNodes(stage), n < at' PROVE Settled(n, 1)'
    <3>1. Settled(n, 1) /\ n \in Nodes(columns) /\ 1 \in 1..L
      BY <1>0, <2>1, <2>2, <2>8
    <3> QED
      BY <2>6, <3>1
  <2>9. ASSUME NEW i \in 1..(L - 1), Exits(i)', stack'[i] = stack[i], NEW m \in Kids(columns, stage, Waits(i)')
        PROVE  Settled(m, i + 1)'
    <3>1. i \in 1..L /\ i + 1 \in 1..L /\ Exits(i) /\ Waits(i)' = Waits(i)
      BY <2>1, <2>9 DEF Exits, Waits
    <3>2. Settled(m, i + 1) /\ m \in Nodes(columns)
      BY <2>2, <2>3, <2>4, <2>9, <3>1
    <3> QED
      BY <2>6, <3>1, <3>2
  <2>10. ASSUME NEW i \in 1..Len(stack'), Exits(i)', NEW m \in Kids(columns, stage, Waits(i)')
         PROVE  Settled(m, i + 1)'
    <3>1. CASE Leaves \/ Skips
      <4>1. Len(stack') = L - 1 /\ \A x \in 1..(L - 1) : stack'[x] = stack[x]
        BY <2>0, <3>1 DEF Leaves, Skips, Shrinks
      <4> QED
        BY <2>9, <2>10, <4>1
    <3>2. CASE Refuses
      <4>1. stack' = stack /\ ~Exits(L)
        BY <2>0, <3>2 DEF Refuses
      <4>2. i \in 1..(L - 1)
        BY <2>0, <2>1, <2>10, <4>1 DEF Exits
      <4> QED
        BY <2>9, <2>10, <4>1, <4>2
    <3>3. CASE Enters
      <4>1. PICK k \in Nat : Grows(k)
        BY <3>3 DEF Enters
      <4>2. /\ Len(stack') = L + k
            /\ \A x \in 1..(L - 1) : stack'[x] = stack[x]
            /\ stack'[L][1] = Top
            /\ \A x \in (L + 1)..(L + k) : stack'[x][2] = "enter"
            /\ \A x \in Kids(columns, stage, Top) :
                  colors[x] = 0 => \E y \in (L + 1)..(L + k) : stack'[y][1] = x
        BY <2>0, <4>1 DEF Grows
      <4>3. i \notin (L + 1)..(L + k)
        BY <2>10, <4>2 DEF Exits
      <4>4. CASE i \in 1..(L - 1)
        BY <2>9, <2>10, <4>2, <4>4
      <4>5. CASE i = L
        <5>1. m \in Kids(columns, stage, Top) /\ m \in Nodes(columns)
          BY <2>1, <2>3, <2>10, <4>2, <4>5 DEF Waits
        <5>2. colors[m] # 1
          BY <3>3, <5>1 DEF Enters
        <5>3. CASE colors[m] = 2
          BY <2>5, <5>1, <5>3 DEF Settled
        <5>4. CASE colors[m] = 0
          <6>1. PICK y \in (L + 1)..(L + k) : stack'[y][1] = m
            BY <4>2, <5>1, <5>4
          <6> QED
            BY <4>2, <4>5, <6>1 DEF Settled, Waits
        <5> QED
          BY <2>1, <5>1, <5>2, <5>3, <5>4
      <4> QED
        BY <2>1, <2>10, <4>2, <4>3, <4>4, <4>5
    <3> QED
      BY <1>5, <3>1, <3>2, <3>3 DEF Pops
  <2> QED
    BY <1>e, <2>1, <2>7, <2>8, <2>10 DEF Complete
<1> QED
  BY <1>1, <1>2, <1>3, <1>4, <1>5

LEMMA LeftAcyclicStep ==
  ASSUME Checked, WalkTypes, Entered, Complete, LeftAcyclic, stage \in Walks => Walkable(columns),
         Rests \/ Advances \/ Starts \/ Queues \/ Pops
  PROVE  LeftAcyclic'
<1>0. NodeCount(columns) \in Nat /\ Nodes(columns) = 1..NodeCount(columns)
      /\ OnNodes(stage) \subseteq Nodes(columns)
  BY NodeNumbers
<1>e. columns' = columns /\ stage' = stage =>
        /\ OnNodes(stage)' = OnNodes(stage)
        /\ (Gone' = { n \in OnNodes(stage) : colors'[n] = 2 })
        /\ \A n : Kids(columns, stage, n)' = Kids(columns, stage, n)
  BY DEF OnNodes, Gone
<1>f. ASSUME columns' = columns, stage' = stage, NEW S, S = Gone', Sinks(S)
      PROVE  LeftAcyclic'
  BY <1>e, <1>f DEF LeftAcyclic, Sinks
<1>1. CASE Rests
  <2>1. columns' = columns /\ stage' = stage /\ colors' = colors
    BY <1>1 DEF Rests
  <2>2. CASE Walking
    <3>1. Gone' = Gone /\ Sinks(Gone)
      BY <1>e, <2>1, <2>2 DEF Gone, LeftAcyclic
    <3> QED
      BY <1>f, <2>1, <3>1
  <2>3. CASE ~Walking
    BY <2>1, <2>3 DEF LeftAcyclic, Walking
  <2> QED
    BY <2>2, <2>3
<1>2. CASE Advances
  BY <1>2, AdvancesTo DEF LeftAcyclic
<1>3. CASE Starts
  <2>1. columns' = columns /\ stage' = stage /\ colors' = [n \in Nodes(columns) |-> 0]
    BY <1>3 DEF Starts
  <2>2. Gone' = {}
    BY <1>0, <1>e, <2>1
  <2>3. Sinks({})
    BY DEF Sinks
  <2> QED
    BY <1>f, <2>1, <2>2, <2>3
<1>4. CASE Queues
  <2>1. columns' = columns /\ stage' = stage /\ colors' = colors /\ Walking
    BY <1>4 DEF Queues
  <2>2. Gone' = Gone /\ Sinks(Gone)
    BY <1>e, <2>1 DEF Gone, LeftAcyclic
  <2> QED
    BY <1>f, <2>1, <2>2
<1>5. CASE Pops
  <2>0. PICK L : L = Len(stack)
    OBVIOUS
  <2>1. /\ Walking /\ L \in Nat /\ L >= 1 /\ Top = Waits(L) /\ columns' = columns /\ stage' = stage
        /\ Top \in OnNodes(stage) /\ colors \in [Nodes(columns) -> 0..2]
    BY <1>5, <2>0 DEF Pops, Top, WalkTypes
  <2>2. Sinks(Gone)
    BY <2>1 DEF LeftAcyclic
  <2>3. CASE ~Leaves
    <3>1. \A n \in OnNodes(stage) : colors'[n] = 2 <=> colors[n] = 2
      BY <1>0, <1>5, <2>1, <2>3 DEF Pops, Skips, Refuses, Enters
    <3>2. Gone' = Gone
      BY <1>e, <2>1, <3>1 DEF Gone
    <3> QED
      BY <1>f, <2>1, <2>2, <3>2
  <2>4. CASE Leaves
    <3>1. /\ Exits(L) /\ L \in 1..L /\ colors[Top] = 1
          /\ \A n \in OnNodes(stage) : colors'[n] = 2 <=> colors[n] = 2 \/ n = Top
      <4>1. Exits(L) /\ L \in 1..L /\ colors' = [colors EXCEPT ![Top] = 2]
        BY <2>0, <2>1, <2>4 DEF Leaves
      <4>2. colors[Top] = 1
        BY <2>0, <2>1, <4>1 DEF Entered
      <4> QED
        BY <1>0, <2>1, <4>1, <4>2
    <3>2. \A n : n \in Gone' <=> n \in Gone \/ n = Top
      BY <1>e, <2>1, <3>1 DEF Gone
    <3>3. \A m \in Kids(columns, stage, Top) : colors[m] = 2
      <4>1. \A m \in Kids(columns, stage, Top) : Settled(m, L + 1)
        BY <2>0, <2>1, <3>1 DEF Complete
      <4> QED
        BY <2>0, <2>1, <4>1 DEF Settled
    <3>4. \A n \in Gone : colors[n] = 2 /\ \A m \in Kids(columns, stage, n) : colors[m] = 2
      BY <2>1 DEF Gone, Complete
    <3>5. PICK S : S = Gone'
      OBVIOUS
    <3>6. ASSUME NEW T \in SUBSET S, T # {}
          PROVE  \E n \in T : Kids(columns, stage, n) \cap T = {}
      <4>1. CASE T \subseteq Gone
        BY <2>2, <3>6, <4>1 DEF Sinks
      <4>2. CASE T \subseteq {Top}
        <5>1. Top \in T /\ \A m \in Kids(columns, stage, Top) : m \notin T
          BY <3>1, <3>3, <3>6, <4>2
        <5> QED
          BY <5>1
      <4>3. CASE ~(T \subseteq Gone) /\ ~(T \subseteq {Top})
        <5>1. T \ {Top} \subseteq Gone /\ T \ {Top} # {}
          BY <3>2, <3>5, <4>3
        <5>2. PICK n \in T \ {Top} : Kids(columns, stage, n) \cap (T \ {Top}) = {}
          BY <2>2, <5>1 DEF Sinks
        <5>3. \A m \in Kids(columns, stage, n) : m # Top
          BY <3>1, <3>4, <5>1
        <5>4. Kids(columns, stage, n) \cap T = {}
          BY <5>2, <5>3
        <5> QED
          BY <5>4
      <4> QED
        BY <4>1, <4>2, <4>3
    <3>7. Sinks(S)
      BY <3>6 DEF Sinks
    <3> QED
      BY <1>f, <2>1, <3>5, <3>7
  <2> QED
    BY <2>3, <2>4
<1> QED
  BY <1>1, <1>2, <1>3, <1>4, <1>5

LEMMA EndedStep ==
  ASSUME Checked, WalkTypes, Complete, LeftAcyclic, EndedAcyclic, stage \in Walks => Walkable(columns),
         Rests \/ Advances \/ Starts \/ Queues \/ Pops
  PROVE  EndedAcyclic'
<1>0. NodeCount(columns) \in Nat /\ Nodes(columns) = 1..NodeCount(columns)
      /\ OnNodes(stage) \subseteq Nodes(columns)
  BY NodeNumbers
<1>1. columns' = columns
  BY DEF Rests, Advances, Starts, Queues, Pops
<1>2. \A walk \in Walks : WalkAcyclic(walk)' <=> WalkAcyclic(walk)
  BY <1>1 DEF WalkAcyclic, OnNodes
<1>3. CASE ~Advances
  <2>1. stage' = stage
    BY <1>3 DEF Rests, Starts, Queues, Pops
  <2> QED
    BY <1>2, <2>1 DEF EndedAcyclic, Ended
<1>4. CASE Advances
  <2>1. ASSUME stage \in Walks, ~Walking PROVE WalkAcyclic(stage)
    <3>1. ~NeedsWalk(columns, stage)
      BY <1>4, <2>1 DEF Advances, Walks
    <3>2. SUFFICES ASSUME NEW T \in SUBSET OnNodes(stage), T # {}
                   PROVE  \E n \in T : Kids(columns, stage, n) \cap T = {}
      BY DEF WalkAcyclic
    <3>3. PICK n \in T : TRUE
      BY <3>2
    <3>4. n \in Nodes(columns) /\ OnWalk(columns, stage, n)
      BY <3>2, <3>3 DEF OnNodes
    <3>5. Children(columns, stage, n) = <<>>
      BY <3>1, <3>4 DEF NeedsWalk
    <3>6. Kids(columns, stage, n) = {}
      BY <3>5 DEF Kids, ToSet
    <3> QED
      BY <3>3, <3>6
  <2>2. ASSUME Walking PROVE WalkAcyclic(stage)
    <3>1. stack = <<>> /\ PendingStarts(stage) = {}
      BY <1>4, <2>2 DEF Advances, Walking, Walks
    <3>2. at \in 1..(NodeCount(columns) + 1)
      BY <2>2 DEF WalkTypes
    <3>3. ASSUME NEW n \in OnNodes(stage) PROVE n \in Gone
      <4>1. n \in 1..NodeCount(columns) /\ OnWalk(columns, stage, n)
        BY <1>0, <3>3 DEF OnNodes
      <4>2. CASE n < at
        <5>1. Settled(n, 1)
          BY <2>2, <4>2 DEF Complete
        <5>2. colors[n] = 2
          BY <3>1, <5>1 DEF Settled
        <5> QED
          BY <5>2 DEF Gone
      <4>3. CASE ~(n < at)
        <5>1. n \in at..NodeCount(columns)
          BY <1>0, <3>2, <4>1, <4>3
        <5>2. colors[n] = 2
          BY <3>1, <4>1, <5>1 DEF PendingStarts
        <5> QED
          BY <5>2 DEF Gone
      <4> QED
        BY <4>2, <4>3
    <3>4. Sinks(Gone) /\ OnNodes(stage) \subseteq Gone
      BY <2>2, <3>3 DEF LeftAcyclic
    <3> QED
      BY <3>4 DEF Sinks, WalkAcyclic
  <2>3. stage \in Walks => WalkAcyclic(stage)
    BY <2>1, <2>2
  <2>4. \A walk \in Walks : Ended(walk)' => Ended(walk) \/ walk = stage
    BY <1>4, AdvancesTo
  <2> QED
    BY <1>2, <2>3, <2>4 DEF EndedAcyclic
<1> QED
  BY <1>3, <1>4

\* What closes a cycle: from every entered node the path goes on to the top event.
LEMMA PathGoesOn ==
  ASSUME Path, Walking, NEW L \in Nat, L = Len(stack), NEW i \in 1..(L - 1), Exits(i)
  PROVE  \E j \in (i + 1)..L : (Exits(j) \/ j = L) /\ Waits(j) \in Kids(columns, stage, Waits(i))
<1> DEFINE J == { j \in (i + 1)..L : Exits(j) \/ j = L }
<1>1. J \in SUBSET Nat /\ L \in J
  OBVIOUS
<1> HIDE DEF J
<1>2. PICK j \in J : \A x \in J : j <= x
  BY <1>1, NatMinimum
<1>3. j \in (i + 1)..L /\ (Exits(j) \/ j = L) /\ j \in 2..L /\ j \in Nat
  BY <1>2 DEF J
<1>4. PICK x \in 1..(j - 1) : Descends(x, j)
  BY <1>3 DEF Path
<1>5. x = i
  <2>1. ~(x < i)
    <3>1. x < i => i \in (x + 1)..(j - 1)
      BY <1>3, <1>4
    <3> QED
      BY <1>4, <3>1 DEF Descends
  <2>2. ~(i < x)
    <3>1. i < x => x \in J
      BY <1>3, <1>4 DEF J, Descends
    <3> QED
      BY <1>2, <1>3, <1>4, <3>1
  <2> QED
    BY <1>3, <1>4, <2>1, <2>2
<1> QED
  BY <1>3, <1>4, <1>5 DEF Descends

LEMMA RefusesCyclic ==
  ASSUME Checked, WalkTypes, Entered, Path, stage \in Walks => Walkable(columns), Pops, Refuses
  PROVE  ~WalkAcyclic(stage)
<1>0. PICK L : L = Len(stack)
  OBVIOUS
<1>1. /\ Walking /\ L \in Nat /\ L >= 1 /\ Top = Waits(L) /\ Top \in OnNodes(stage)
      /\ stack \in Seq(Events(stage)) /\ ~Exits(L)
  BY <1>0 DEF Pops, Top, Refuses
<1>2. \A i \in 1..L : Waits(i) \in OnNodes(stage)
  <2>1. \A i \in 1..L : stack[i] \in Events(stage)
    BY <1>0, <1>1
  <2> QED
    BY <2>1, EventShape DEF Events, Waits
<1>3. \A n \in OnNodes(stage) : colors[n] = 1 => \E i \in 1..(L - 1) : Exits(i) /\ Waits(i) = n
  <2>1. \A n \in OnNodes(stage) : colors[n] = 1 => \E i \in 1..L : Exits(i) /\ Waits(i) = n
    BY <1>0, <1>1 DEF Entered
  <2>2. \A i \in 1..L : Exits(i) => i \in 1..(L - 1)
    BY <1>1
  <2> QED
    BY <2>1, <2>2
\* A closed part of the graph without a sink refutes that there is no cycle.
<1>4. SUFFICES \E T \in SUBSET OnNodes(stage) :
                  T # {} /\ \A n \in T : \E m \in T : m \in Kids(columns, stage, n)
  BY DEF WalkAcyclic
<1>5. ASSUME NEW p \in 1..(L - 1), Exits(p),
             Waits(p) = Top \/ Waits(p) \in Kids(columns, stage, Top)
      PROVE  \E T \in SUBSET OnNodes(stage) :
                T # {} /\ \A n \in T : \E m \in T : m \in Kids(columns, stage, n)
  <2> DEFINE I == { i \in p..L : Exits(i) \/ i = L }
             T == { Waits(i) : i \in I }
  <2>1. \A i \in I : i \in 1..L
    OBVIOUS
  <2>2. T \in SUBSET OnNodes(stage)
    BY <1>2, <2>1
  <2>3. L \in I /\ p \in I
    BY <1>1, <1>5
  <2>4. T # {}
    BY <2>3
  <2>5. ASSUME NEW i \in I, i # L PROVE \E j \in I : Waits(j) \in Kids(columns, stage, Waits(i))
    <3>1. i \in 1..(L - 1) /\ Exits(i) /\ i \in p..L
      BY <1>1, <2>5
    <3>2. PICK j \in (i + 1)..L : (Exits(j) \/ j = L) /\ Waits(j) \in Kids(columns, stage, Waits(i))
      BY <1>0, <1>1, <3>1, PathGoesOn
    <3>3. j \in I
      BY <1>1, <3>1, <3>2
    <3> QED
      BY <3>2, <3>3
  <2>6. p # L
    BY <1>1
  <2> HIDE DEF I
  <2>7. \E j \in I : Waits(j) \in Kids(columns, stage, Top)
    BY <1>5, <2>3, <2>5, <2>6
  <2>8. \A i \in I : \E j \in I : Waits(j) \in Kids(columns, stage, Waits(i))
    BY <1>1, <2>5, <2>7
  <2>9. \A n \in T : \E m \in T : m \in Kids(columns, stage, n)
    BY <2>8
  <2> QED
    BY <2>2, <2>4, <2>9
<1>6. CASE colors[Top] = 1
  BY <1>1, <1>3, <1>5, <1>6
<1>7. ASSUME NEW m \in Kids(columns, stage, Top), m = Top \/ colors[m] = 1
      PROVE  \E T \in SUBSET OnNodes(stage) :
                T # {} /\ \A n \in T : \E x \in T : x \in Kids(columns, stage, n)
  <2>1. m \in OnNodes(stage)
    BY <1>1, <1>7, KidsOnWalk
  <2>2. CASE m = Top
    <3>1. {Top} \in SUBSET OnNodes(stage) /\ {Top} # {}
      BY <1>1
    <3>2. \A n \in {Top} : \E x \in {Top} : x \in Kids(columns, stage, n)
      BY <1>7, <2>2
    <3> QED
      BY <3>1, <3>2
  <2>3. CASE colors[m] = 1
    BY <1>3, <1>5, <1>7, <2>1, <2>3
  <2> QED
    BY <1>7, <2>2, <2>3
<1> QED
  BY <1>6, <1>7 DEF Refuses

LEMMA RejectedStep ==
  ASSUME Checked, WalkTypes, Entered, Path, RejectedCyclic, stage \in Walks => Walkable(columns),
         Rests \/ Advances \/ Starts \/ Queues \/ Pops
  PROVE  RejectedCyclic'
<1>1. columns' = columns
  BY DEF Rests, Advances, Starts, Queues, Pops
<1>2. stage' = stage => (WalkAcyclic(stage)' <=> WalkAcyclic(stage))
  BY <1>1 DEF WalkAcyclic, OnNodes
<1>3. CASE Rests
  BY <1>2, <1>3 DEF RejectedCyclic, Rests
<1>4. CASE Advances
  BY <1>4 DEF RejectedCyclic, Advances
<1>5. CASE Starts \/ Queues
  BY <1>2, <1>5 DEF RejectedCyclic, Starts, Queues
<1>6. CASE Pops
  <2>1. CASE Refuses
    BY <1>2, <1>6, <2>1, RefusesCyclic DEF RejectedCyclic, Pops
  <2>2. CASE ~Refuses
    BY <1>2, <1>6, <2>2 DEF RejectedCyclic, Pops, Leaves, Skips, Enters
  <2> QED
    BY <2>1, <2>2
<1> QED
  BY <1>3, <1>4, <1>5, <1>6

\* The places of the references of some nodes can be counted.
LEMMA PaidFinite ==
  ASSUME Checked, stage \in Walks, Walkable(columns), NEW T \in SUBSET OnNodes(stage)
  PROVE  /\ IsFiniteSet(OnNodes(stage)) /\ IsFiniteSet(T) /\ Cardinality(T) \in Nat
         /\ IsFiniteSet(PaidBy(T)) /\ Cardinality(PaidBy(T)) \in Nat
<1>1. NodeCount(columns) \in Nat /\ Nodes(columns) = 1..NodeCount(columns) /\ OnNodes(stage) \subseteq Nodes(columns)
  BY NodeNumbers
<1>2. /\ IsFiniteSet(OnNodes(stage)) /\ IsFiniteSet(T) /\ Cardinality(T) \in Nat
  BY <1>1, PlacesFinite
<1> DEFINE row(n) == {n} \X DOMAIN Children(columns, stage, n)
           rows == { row(n) : n \in T }
           f == [n \in T |-> row(n)]
<1>3. ASSUME NEW n \in T PROVE IsFiniteSet(row(n))
  <2>1. PICK kids : kids = Children(columns, stage, n)
    OBVIOUS
  <2>2. kids \in Seq(On(columns, stage))
    <3>1. n \in On(columns, stage)
      BY DEF On, OnNodes
    <3> QED
      BY <2>1, <3>1, ChildrenListed DEF Walkable
  <2>3. DOMAIN kids = 1..Len(kids) /\ Len(kids) \in Nat
    BY <2>2
  <2>4. IsFiniteSet({n}) /\ IsFiniteSet(1..Len(kids))
    BY <2>3, FS_Singleton, PlacesFinite
  <2> QED
    BY <2>1, <2>3, <2>4, FS_Product
<1> HIDE DEF row
<1>4. f \in Surjection(T, rows)
  BY DEF Surjection
<1> HIDE DEF f
<1>5. \A R \in rows : IsFiniteSet(R)
  BY <1>3
<1>6. PaidBy(T) = UNION rows
  BY DEF PaidBy, row
<1> HIDE DEF rows
<1>7. IsFiniteSet(rows)
  BY <1>2, <1>4, FS_Surjection
<1>8. IsFiniteSet(UNION rows)
  BY <1>5, <1>7, FS_UNION
<1> QED
  BY <1>2, <1>6, <1>8, FS_CardinalityType

\* A node that is entered pays for its exit event and for its children.
LEMMA EnteringPays ==
  ASSUME Checked, stage \in Walks, Walkable(columns), NEW T \in SUBSET OnNodes(stage),
         NEW n \in OnNodes(stage), n \notin T
  PROVE  Cardinality(T \cup {n}) + Cardinality(PaidBy(T \cup {n}))
           = Cardinality(T) + Cardinality(PaidBy(T)) + 1 + Len(Children(columns, stage, n))
<1>1. PICK kids : kids = Children(columns, stage, n)
  OBVIOUS
<1>2. kids \in Seq(On(columns, stage))
  <2>1. n \in On(columns, stage)
    BY DEF On, OnNodes
  <2> QED
    BY <1>1, <2>1, ChildrenListed DEF Walkable
<1>3. PICK K : K = Len(kids)
  OBVIOUS
<1>4. K \in Nat /\ DOMAIN kids = 1..K
  BY <1>2, <1>3
<1>5. PICK P, Q : P = PaidBy(T) /\ Q = {n} \X (1..K)
  OBVIOUS
<1>6. IsFiniteSet(T) /\ IsFiniteSet(P) /\ Cardinality(T) \in Nat /\ Cardinality(P) \in Nat
  BY <1>5, PaidFinite
<1>7. IsFiniteSet(Q) /\ Cardinality(Q) = K
  <2>1. IsFiniteSet({n}) /\ Cardinality({n}) = 1
    BY FS_Singleton
  <2>2. IsFiniteSet(1..K) /\ Cardinality(1..K) = K
    BY <1>4, PlacesFinite
  <2>3. IsFiniteSet({n} \X (1..K)) /\ Cardinality({n} \X (1..K)) = Cardinality({n}) * Cardinality(1..K)
    BY <2>1, <2>2, FS_Product
  <2> QED
    BY <1>4, <1>5, <2>1, <2>2, <2>3
<1>8. PaidBy(T \cup {n}) = P \cup Q
  BY <1>1, <1>4, <1>5 DEF PaidBy
<1>9. P \cap Q = {}
  BY <1>5 DEF PaidBy
<1>10. Cardinality(P \cup Q) = Cardinality(P) + K
  <2>1. Cardinality(P \cup Q) = Cardinality(P) + Cardinality(Q) - Cardinality(P \cap Q)
    BY <1>6, <1>7, FS_Union
  <2>2. Cardinality(P \cap Q) = 0
    BY <1>9, FS_EmptySet
  <2> QED
    BY <1>4, <1>6, <1>7, <2>1, <2>2
<1>11. Cardinality(T \cup {n}) = Cardinality(T) + 1
  BY <1>6, FS_AddElement
<1>12. Cardinality(PaidBy(T \cup {n})) = Cardinality(P) + K
  BY <1>8, <1>10
<1>13. Cardinality(PaidBy(T)) = Cardinality(P) /\ Len(Children(columns, stage, n)) = K
  BY <1>1, <1>3, <1>5
<1> QED
  BY <1>4, <1>6, <1>11, <1>12, <1>13

LEMMA WorkPaidStep ==
  ASSUME Checked, WalkTypes, Entered, WorkPaid, stage \in Walks => Walkable(columns),
         Rests \/ Advances \/ Starts \/ Queues \/ Pops
  PROVE  WorkPaid'
<1>0. NodeCount(columns) \in Nat /\ Nodes(columns) = 1..NodeCount(columns)
      /\ OnNodes(stage) \subseteq Nodes(columns)
  BY NodeNumbers
<1>e. columns' = columns /\ stage' = stage =>
        /\ Started' = { n \in OnNodes(stage) : n < at' }
        /\ Touched' = { n \in OnNodes(stage) : colors'[n] # 0 }
        /\ Paid' = PaidBy(Touched')
  BY DEF Started, Touched, Paid, PaidBy, OnNodes
<1>f. ASSUME stage \in Walks, NEW T \in SUBSET OnNodes(stage)
      PROVE  /\ IsFiniteSet(T) /\ Cardinality(T) \in Nat
             /\ IsFiniteSet(PaidBy(T)) /\ Cardinality(PaidBy(T)) \in Nat
  BY <1>f, PaidFinite
<1>1. CASE Rests
  BY <1>1 DEF WorkPaid, Rests, Walking, Started, Touched, Paid, PaidBy, OnNodes
<1>2. CASE Advances
  BY <1>2, AdvancesTo DEF WorkPaid
<1>3. CASE Starts
  <2>1. stage \in Walks /\ columns' = columns /\ stage' = stage /\ work' = 0 /\ Len(stack') = 0
    BY <1>3 DEF Starts
  <2>2. PICK S, T : S = Started' /\ T = Touched'
    OBVIOUS
  <2>3. S \in SUBSET OnNodes(stage) /\ T \in SUBSET OnNodes(stage) /\ Paid' = PaidBy(T)
    BY <1>e, <2>1, <2>2
  <2>4. Cardinality(S) \in Nat /\ Cardinality(T) \in Nat /\ Cardinality(PaidBy(T)) \in Nat
    BY <1>f, <2>1, <2>3
  <2>5. work' + Len(stack') <= Cardinality(S) + Cardinality(T) + Cardinality(PaidBy(T))
    BY <2>1, <2>4
  <2> QED
    BY <2>2, <2>3, <2>5 DEF WorkPaid
<1>4. CASE Queues
  <2>1. /\ Walking /\ stage \in Walks /\ columns' = columns /\ stage' = stage
        /\ colors' = colors /\ work' = work /\ Len(stack) = 0 /\ work \in Nat
        /\ verdict # "malformed"
    BY <1>4 DEF Queues, Walking, WalkTypes
  <2>2. PICK n \in PendingStarts(stage) : stack' = <<<<n, "enter">>>> /\ at' = n + 1
    BY <1>4 DEF Queues
  <2>3. at \in Nat /\ n \in at..NodeCount(columns) /\ OnWalk(columns, stage, n) /\ at >= 1
    BY <2>1, <2>2 DEF PendingStarts, WalkTypes
  <2>4. n \in Nat /\ n >= at /\ n \in OnNodes(stage)
    BY <1>0, <2>3 DEF OnNodes
  <2>5. PICK S, U, T : S = Started /\ U = Started' /\ T = Touched
    OBVIOUS
  <2>6. U = { m \in OnNodes(stage) : m < n + 1 } /\ Touched' = T /\ Paid' = PaidBy(T) /\ Paid = PaidBy(T)
    BY <1>e, <2>1, <2>2, <2>5 DEF Touched, Paid
  <2>7. S \in SUBSET OnNodes(stage) /\ U \in SUBSET OnNodes(stage) /\ T \in SUBSET OnNodes(stage)
    BY <2>5, <2>6 DEF Started, Touched
  <2>8. /\ IsFiniteSet(S) /\ Cardinality(S) \in Nat /\ IsFiniteSet(U) /\ Cardinality(U) \in Nat
        /\ Cardinality(T) \in Nat /\ Cardinality(PaidBy(T)) \in Nat
    BY <1>f, <2>1, <2>7
  <2>9. n \notin S /\ S \cup {n} \in SUBSET U
    BY <1>0, <2>3, <2>4, <2>5, <2>6 DEF Started
  <2>10. Cardinality(S \cup {n}) = Cardinality(S) + 1 /\ Cardinality(S \cup {n}) <= Cardinality(U)
    BY <2>8, <2>9, FS_AddElement, FS_Subset
  <2>11. work + 0 <= Cardinality(S) + Cardinality(T) + Cardinality(PaidBy(T))
    BY <2>1, <2>5, <2>6 DEF WorkPaid
  <2>12. Len(stack') = 1
    BY <2>2
  <2>13. work' + Len(stack') <= Cardinality(U) + Cardinality(T) + Cardinality(PaidBy(T))
    BY <2>1, <2>8, <2>10, <2>11, <2>12
  <2> QED
    BY <2>5, <2>6, <2>13 DEF WorkPaid
<1>5. CASE Pops
  <2>0. PICK L : L = Len(stack)
    OBVIOUS
  <2>1. /\ Walking /\ stage \in Walks /\ columns' = columns /\ stage' = stage /\ at' = at
        /\ work' = work + 1 /\ work \in Nat /\ L \in Nat /\ L >= 1 /\ verdict # "malformed"
        /\ Top \in OnNodes(stage) /\ colors \in [Nodes(columns) -> 0..2] /\ Top = Waits(L)
    BY <1>5, <2>0 DEF Pops, Walking, WalkTypes, Top
  <2>2. PICK S, T, P : S = Started /\ T = Touched /\ P = PaidBy(T)
    OBVIOUS
  <2>3. /\ S \in SUBSET OnNodes(stage) /\ T \in SUBSET OnNodes(stage) /\ Started' = S /\ Paid = P
        /\ Touched' = { n \in OnNodes(stage) : colors'[n] # 0 } /\ Paid' = PaidBy(Touched')
    BY <1>e, <2>1, <2>2 DEF Started, Touched, Paid
  <2>4. Cardinality(S) \in Nat /\ Cardinality(T) \in Nat /\ Cardinality(P) \in Nat
    BY <1>f, <2>1, <2>2, <2>3
  <2>5. work + L <= Cardinality(S) + Cardinality(T) + Cardinality(P)
    BY <2>0, <2>1, <2>2, <2>3 DEF WorkPaid
  <2>6. CASE Leaves \/ Skips
    <3>1. Len(stack') = L - 1
      BY <2>0, <2>6 DEF Leaves, Skips, Shrinks
    <3>2. ASSUME Leaves PROVE colors[Top] = 1
      BY <2>0, <2>1, <3>2 DEF Leaves, Entered
    <3>3. \A n \in OnNodes(stage) : colors'[n] # 0 <=> colors[n] # 0
      BY <1>0, <2>1, <2>6, <3>2 DEF Leaves, Skips
    <3>4. Touched' = T
      BY <2>2, <2>3, <3>3 DEF Touched
    <3>5. work' + Len(stack') <= Cardinality(S) + Cardinality(T) + Cardinality(P)
      BY <2>1, <2>4, <2>5, <3>1
    <3> QED
      BY <2>2, <2>3, <3>4, <3>5 DEF WorkPaid
  <2>7. CASE Refuses
    BY <2>0, <2>1, <2>7 DEF Refuses, WorkPaid
  <2>8. CASE Enters
    <3>1. PICK k \in Nat : Grows(k)
      BY <2>8 DEF Enters
    <3>2. Len(stack') = L + k /\ k <= Len(Children(columns, stage, Top))
      BY <2>0, <3>1 DEF Grows
    <3>3. PICK n, K, U, Q : n = Top /\ K = Len(Children(columns, stage, n)) /\ U = T \cup {n} /\ Q = PaidBy(U)
      OBVIOUS
    <3>4. n \in OnNodes(stage) /\ n \notin T
      BY <2>1, <2>2, <2>8, <3>3 DEF Enters, Touched
    <3>5. K \in Nat
      <4>1. n \in On(columns, stage)
        BY <3>4 DEF On, OnNodes
      <4>2. Children(columns, stage, n) \in Seq(On(columns, stage))
        BY <2>1, <4>1, ChildrenListed DEF Walkable
      <4> QED
        BY <3>3, <4>2
    <3>6. \A m \in OnNodes(stage) : colors'[m] # 0 <=> m = n \/ colors[m] # 0
      BY <1>0, <2>1, <2>8, <3>3 DEF Enters
    <3>7. Touched' = U /\ Paid' = Q
      BY <2>2, <2>3, <3>3, <3>4, <3>6 DEF Touched
    <3>8. Cardinality(U) + Cardinality(Q) = Cardinality(T) + Cardinality(P) + 1 + K
      BY <2>1, <2>2, <2>3, <3>3, <3>4, EnteringPays
    <3>9. U \in SUBSET OnNodes(stage)
      BY <2>3, <3>3, <3>4
    <3>10. Cardinality(U) \in Nat /\ Cardinality(Q) \in Nat
      BY <1>f, <2>1, <3>3, <3>9
    <3>11. work' + Len(stack') <= Cardinality(S) + Cardinality(U) + Cardinality(Q)
      <4>1. work' + Len(stack') = (work + L) + 1 + k
        BY <2>1, <3>2
      <4>2. k <= K
        BY <3>2, <3>3
      <4>3. (work + L) + 1 + k <= (Cardinality(S) + Cardinality(T) + Cardinality(P)) + 1 + K
        BY <2>1, <2>4, <2>5, <3>5, <4>2
      <4>4. (Cardinality(S) + Cardinality(T) + Cardinality(P)) + 1 + K
              = Cardinality(S) + Cardinality(U) + Cardinality(Q)
        BY <2>4, <3>5, <3>8, <3>10
      <4> QED
        BY <4>1, <4>3, <4>4
    <3> QED
      BY <2>3, <3>7, <3>11 DEF WorkPaid
  <2> QED
    BY <1>5, <2>6, <2>7, <2>8 DEF Pops
<1> QED
  BY <1>1, <1>2, <1>3, <1>4, <1>5

-----------------------------------------------------------------------------
(* What the checks of a node say of the nodes it refers to                 *)

\* A loop that reports its first error and reports none.
LEMMA LoopOk ==
  ASSUME NEW f, DOMAIN f \subseteq Nat, Earliest(Tabulated(f)) = "ok"
  PROVE  \A i \in DOMAIN f : f[i] = "ok"
<1>1. Tabulated(f) = f
  BY DEF Tabulated
<1> DEFINE bad == { i \in DOMAIN f : f[i] # "ok" }
           first == CHOOSE i \in bad : \A j \in bad : i <= j
<1>2. IF bad = {} THEN TRUE ELSE f[first] = "ok"
  BY <1>1 DEF Earliest
<1>3. SUFFICES ASSUME bad # {} PROVE FALSE
  OBVIOUS
<1>4. bad \in SUBSET Nat /\ \A i \in bad : f[i] # "ok"
  OBVIOUS
<1> HIDE DEF bad
<1>5. \E i \in bad : \A j \in bad : i <= j
  BY <1>3, <1>4, NatMinimum
<1>6. first \in bad
  BY <1>5
<1> QED
  BY <1>2, <1>3, <1>4, <1>6

\* The columns fit together: what validate_generic establishes and the walks rely on.
Shaped(c) ==
  /\ \A n \in Nodes(c) : c.offset[n] \in Nat /\ c.offset[n + 1] \in Nat /\ c.offset[n + 1] <= Len(c.fkind)
  /\ \A f \in 1..Len(c.fkind) : c.fval[f] \in Nat /\ c.flen[f] \in Nat
  /\ NodeCount(c) \in Nat /\ Len(c.fkind) \in Nat

LEMMA GenericShape ==
  ASSUME NEW c, IsTable(c), ValidateGeneric(c) = "ok"
  PROVE  Shaped(c)
<1>1. OffsetsCover(c) = "ok"
  BY DEF ValidateGeneric, &&
<1>2. /\ Len(c.offset) = NodeCount(c) + 1
      /\ Len(c.fval) = Len(c.fkind) /\ Len(c.flen) = Len(c.fkind)
      /\ \A i \in 1..NodeCount(c) : c.offset[i] <= c.offset[i + 1]
      /\ c.offset[Len(c.offset)] = Len(c.fkind)
  BY <1>1 DEF OffsetsCover, Need, Last
<1>3. PICK N, F : N = NodeCount(c) /\ F = Len(c.fkind)
  OBVIOUS
<1>4. /\ c.tag \in Seq(STRING) /\ c.fkind \in Seq(STRING)
      /\ c.offset \in Seq(Nat) /\ c.fval \in Seq(Nat) /\ c.flen \in Seq(Nat)
  BY DEF IsTable
<1>5. N \in Nat /\ F \in Nat
  BY <1>3, <1>4 DEF NodeCount
<1>6. \A i \in 1..(N + 1) : c.offset[i] \in Nat
  <2>1. c.offset \in Seq(Nat) /\ Len(c.offset) = N + 1
    BY <1>2, <1>3, <1>4
  <2> QED
    BY <2>1
<1>7. \A f \in 1..F : c.fval[f] \in Nat /\ c.flen[f] \in Nat
  <2>1. c.fval \in Seq(Nat) /\ c.flen \in Seq(Nat) /\ Len(c.fval) = F /\ Len(c.flen) = F
    BY <1>2, <1>3, <1>4
  <2> QED
    BY <2>1
<1> DEFINE Bad == { d \in 0..N : ~(c.offset[(N + 1) - d] <= F) }
<1>8. Bad = {}
  <2> SUFFICES ASSUME Bad # {} PROVE FALSE
    OBVIOUS
  <2>1. Bad \in SUBSET Nat
    BY <1>5
  <2>2. PICK d \in Bad : \A e \in Bad : d <= e
    <3> HIDE DEF Bad
    <3> QED
      BY <2>1, NatMinimum
  <2>3. d \in 0..N /\ ~(c.offset[(N + 1) - d] <= F)
    BY <2>2
  <2>4. c.offset[N + 1] = F
    BY <1>2, <1>3
  <2>5. d # 0
    BY <1>5, <2>3, <2>4
  <2>6. d - 1 \in 0..N /\ d - 1 \notin Bad
    BY <1>5, <2>2, <2>3, <2>5
  <2>7. c.offset[(N + 1) - (d - 1)] <= F
    BY <2>6
  <2>8. PICK i : i = (N + 1) - d
    OBVIOUS
  <2>9. i \in 1..N /\ i + 1 = (N + 1) - (d - 1) /\ i \in 1..(N + 1) /\ i + 1 \in 1..(N + 1)
    BY <1>5, <2>3, <2>5, <2>8
  <2>10. c.offset[i] <= c.offset[i + 1]
    BY <1>2, <1>3, <2>9
  <2>11. c.offset[i] \in Nat /\ c.offset[i + 1] \in Nat
    BY <1>6, <2>9
  <2>12. c.offset[i + 1] <= F /\ ~(c.offset[i] <= F)
    BY <2>3, <2>7, <2>8, <2>9
  <2> QED
    BY <1>5, <2>10, <2>11, <2>12
<1>9. ASSUME NEW n \in 1..N
      PROVE  c.offset[n] \in Nat /\ c.offset[n + 1] \in Nat /\ c.offset[n + 1] <= F
  <2>1. n \in 1..(N + 1) /\ n + 1 \in 1..(N + 1)
    BY <1>5
  <2>2. PICK d : d = N - n
    OBVIOUS
  <2>3. d \in 0..N /\ (N + 1) - d = n + 1
    BY <1>5, <2>2
  <2> QED
    BY <1>6, <1>8, <2>1, <2>3
<1> QED
  BY <1>3, <1>5, <1>7, <1>9 DEF Shaped, Nodes

\* The nodes that one field of a node holds.
Held(c, n, i) ==
  ({Ref(c, n, i)} \cup IF c.fkind[Field(c, n, i)] \in {"set", "sequence"}
                       THEN { ItemNode(c, k) : k \in ItemIndexes(c, Field(c, n, i)) } ELSE {}) \ {0}

\* A node has as many fields as its check asks for; no other field holds a child.
LEMMA ChildrenHeld ==
  ASSUME NEW c, Shaped(c), NEW n, NEW arity \in Nat, Exact(c, n, arity) = "ok",
         NEW m \in ChildSet(c, n)
  PROVE  \E i \in 1..arity : m \in Held(c, n, i)
<1>1. n \in Nodes(c) /\ c.offset[n + 1] - c.offset[n] = arity
  BY DEF Exact, Need
<1>2. PICK a, b : a = c.offset[n] /\ b = c.offset[n + 1]
  OBVIOUS
<1>3. a \in Nat /\ b \in Nat /\ b = a + arity
  BY <1>1, <1>2 DEF Shaped
<1>4. FieldsOf(c, n) = (a + 1)..b
  BY <1>1, <1>2 DEF FieldsOf
<1>5. Cardinality(FieldsOf(c, n)) = arity
  <2>1. a + 1 \in Int /\ b \in Int
    BY <1>3
  <2>2. Cardinality((a + 1)..b) = IF a + 1 > b THEN 0 ELSE b - (a + 1) + 1
    BY <2>1, FS_Interval
  <2> QED
    BY <1>3, <1>4, <2>2
<1>6. \A i \in 1..arity : Field(c, n, i) = a + i
  BY <1>1, <1>2, <1>3 DEF Field
<1>7. m # 0 /\ \/ m \in { Ref(c, n, i) : i \in 1..arity }
               \/ \E f \in FieldsOf(c, n) : /\ c.fkind[f] \in {"set", "sequence"}
                                            /\ m \in { ItemNode(c, k) : k \in ItemIndexes(c, f) }
  BY <1>5 DEF ChildSet
<1>8. ASSUME m \in { Ref(c, n, i) : i \in 1..arity } PROVE \E i \in 1..arity : m \in Held(c, n, i)
  BY <1>7, <1>8 DEF Held
<1>9. ASSUME NEW f \in FieldsOf(c, n), c.fkind[f] \in {"set", "sequence"},
             m \in { ItemNode(c, k) : k \in ItemIndexes(c, f) }
      PROVE  \E i \in 1..arity : m \in Held(c, n, i)
  <2>1. PICK i : i = f - a
    OBVIOUS
  <2>2. i \in 1..arity /\ f = a + i
    BY <1>3, <1>4, <2>1
  <2>3. Field(c, n, i) = f
    BY <1>6, <2>2
  <2> QED
    BY <1>7, <1>9, <2>2, <2>3 DEF Held
<1> QED
  BY <1>7, <1>8, <1>9

\* A field that is a reference holds the node it refers to.
LEMMA HeldNode ==
  ASSUME NEW c, NEW n, NEW i, Ref(c, n, i) # 0
  PROVE  Held(c, n, i) = {Ref(c, n, i)} /\ Ref(c, n, i) \in Nodes(c)
<1>1. c.fkind[Field(c, n, i)] = "node" /\ Ref(c, n, i) \in Nodes(c)
  BY DEF Ref, RefAt
<1> QED
  BY <1>1 DEF Held

\* A field that is data holds no node.
LEMMA HeldData ==
  ASSUME NEW c, NEW n, NEW i, c.fkind[Field(c, n, i)] \notin {"node", "set", "sequence"}
  PROVE  Held(c, n, i) = {}
<1>1. Ref(c, n, i) = 0
  BY DEF Ref, RefAt
<1> QED
  BY <1>1 DEF Held

\* A collection holds its items, which are nodes.
LEMMA HeldItems ==
  ASSUME NEW c, Shaped(c), NEW n, NEW i \in Nat \ {0}, NEW kind \in {"set", "sequence"}, NEW least,
         Collection(c, n, i, kind, least) = "ok"
  PROVE  /\ Items(c, n, i) \in Seq(Nat) /\ DOMAIN Items(c, n, i) \subseteq Nat
         /\ \A k \in DOMAIN Items(c, n, i) : Items(c, n, i)[k] \in Nodes(c)
         /\ \A m \in Held(c, n, i) : \E k \in DOMAIN Items(c, n, i) : Items(c, n, i)[k] = m
<1>1. PICK f : f = Field(c, n, i)
  OBVIOUS
<1>2. /\ f # 0 /\ c.fkind[f] = kind
      /\ \A k \in ItemIndexes(c, f) : ItemNode(c, k) # 0
  BY <1>1 DEF Collection, CollectionAt, Need
<1>3. n \in Nodes(c) /\ f = c.offset[n] + i /\ f <= c.offset[n + 1]
  BY <1>1, <1>2 DEF Field
<1>4. f \in 1..Len(c.fkind)
  BY <1>3 DEF Shaped
<1>5. PICK v, l : v = c.fval[f] /\ l = c.flen[f]
  OBVIOUS
<1>6. v \in Nat /\ l \in Nat
  BY <1>4, <1>5 DEF Shaped
<1>7. ItemIndexes(c, f) = (v + 1)..(v + l)
  BY <1>5 DEF ItemIndexes
<1>8. Items(c, n, i) = [k \in 1..l |-> ItemNode(c, v + k)]
  BY <1>1, <1>5 DEF Items, ItemsAt
<1>9. \A k : ItemNode(c, k) # 0 => ItemNode(c, k) \in Nodes(c)
  BY DEF ItemNode
<1>10. \A k \in 1..l : ItemNode(c, v + k) \in Nodes(c)
  <2> SUFFICES ASSUME NEW k \in 1..l PROVE ItemNode(c, v + k) \in Nodes(c)
    OBVIOUS
  <2>1. v + k \in (v + 1)..(v + l)
    BY <1>6
  <2> QED
    BY <1>2, <1>7, <1>9, <2>1
<1>11. Nodes(c) \subseteq Nat
  BY DEF Shaped, Nodes
<1>12. Items(c, n, i) \in Seq(Nat) /\ DOMAIN Items(c, n, i) = 1..l
  BY <1>6, <1>8, <1>10, <1>11
<1>13. ASSUME NEW m \in Held(c, n, i) PROVE \E k \in 1..l : ItemNode(c, v + k) = m
  <2>1. Ref(c, n, i) = 0
    BY <1>1, <1>2 DEF Ref, RefAt
  <2>2. m \in { ItemNode(c, k) : k \in (v + 1)..(v + l) }
    BY <1>1, <1>2, <1>7, <2>1 DEF Held
  <2>3. PICK k \in (v + 1)..(v + l) : m = ItemNode(c, k)
    BY <2>2
  <2>4. PICK j : j = k - v
    OBVIOUS
  <2>5. j \in 1..l /\ v + j = k
    BY <1>6, <2>4
  <2> QED
    BY <2>3, <2>5
<1> QED
  BY <1>8, <1>10, <1>12, <1>13

\* How high a constructor stands above the leaves.
Height(t) ==
  IF t \in {"IRI", "AnonymousIndividual"} THEN 0
  ELSE IF t = "Entity" THEN 1
  ELSE IF t \in {"Literal", "ObjectInverseOf", "Variable"} THEN 2
  ELSE IF t \in {"Annotation", "FacetRestriction", "ObjectPropertyChain"} THEN 3
  ELSE IF t \in {"DataOneOf", "DatatypeRestriction"} THEN 4
  ELSE IF t \in RecursiveDataRangeTags THEN 5
  ELSE IF t \in DataClassTags \cup {"ObjectOneOf", "ObjectHasValue", "ObjectHasSelf"} THEN 6
  ELSE IF t \in RecursiveClassTags THEN 7
  ELSE IF t \in SwrlAtomTags THEN 8
  ELSE 9

LEMMA Heights ==
  /\ \A t : Height(t) \in 0..9
  /\ \A t \in {"IRI", "AnonymousIndividual"} : Height(t) = 0
  /\ Height("Entity") = 1
  /\ \A t \in {"Literal", "ObjectInverseOf", "Variable"} : Height(t) = 2
  /\ \A t \in {"Annotation", "FacetRestriction", "ObjectPropertyChain"} : Height(t) = 3
  /\ \A t \in {"DataOneOf", "DatatypeRestriction"} : Height(t) = 4
  /\ \A t \in RecursiveDataRangeTags : Height(t) = 5
  /\ \A t \in DataClassTags \cup {"ObjectOneOf", "ObjectHasValue", "ObjectHasSelf"} : Height(t) = 6
  /\ \A t \in RecursiveClassTags : Height(t) = 7
  /\ \A t \in SwrlAtomTags : Height(t) = 8
BY DEF Height, RecursiveDataRangeTags, DataClassTags, RecursiveClassTags, AggregateTags, RestrictionTags,
       SwrlAtomTags

LEMMA TagSets ==
  /\ \A t \in DataRangeTags : t \in RecursiveDataRangeTags \cup {"DataOneOf", "DatatypeRestriction"}
  /\ \A t \in ClassExpressionTags :
        t \in RecursiveClassTags \cup DataClassTags \cup {"ObjectOneOf", "ObjectHasValue", "ObjectHasSelf"}
  /\ \A t \in AggregateTags \cup RestrictionTags \cup NonprojectingTags : t \in ClassExpressionTags
BY DEF DataRangeTags, ClassExpressionTags, NonprojectingTags, RecursiveClassTags

\* A checked reference is to a node of its sort, and how high that one stands.
LEMMA SortHeights ==
  ASSUME NEW c, NEW m
  PROVE  /\ \A kind : Named(c, m, kind) = "ok" => Height(Tag(c, m)) < 2
         /\ Iri(c, m) = "ok" => Height(Tag(c, m)) < 1
         /\ Entity(c, m) = "ok" => Height(Tag(c, m)) < 2
         /\ Individual(c, m) = "ok" => Height(Tag(c, m)) < 2
         /\ Literal(c, m) = "ok" => Height(Tag(c, m)) < 3
         /\ MetadataValue(c, m) = "ok" => Height(Tag(c, m)) < 3
         /\ AnnotationValue(c, m) = "ok" => Height(Tag(c, m)) < 3
         /\ AnnotationSubject(c, m) = "ok" => Height(Tag(c, m)) < 3
         /\ ObjectPropertyExpression(c, m) = "ok" => Height(Tag(c, m)) < 3
         /\ SwrlIndividual(c, m) = "ok" => Height(Tag(c, m)) < 3
         /\ SwrlData(c, m) = "ok" => Height(Tag(c, m)) < 3
         /\ FacetRestriction(c, m) = "ok" => Height(Tag(c, m)) < 4
         /\ DataRangeReference(c, m) = "ok" => Tag(c, m) \in {"Entity"} \cup DataRangeTags
         /\ DataRange(c, m) = "ok" => Height(Tag(c, m)) < 6
         /\ ClassReference(c, m) = "ok" => Tag(c, m) \in {"Entity"} \cup ClassExpressionTags
         /\ ClassExpression(c, m) = "ok" => Height(Tag(c, m)) < 8
<1> DEFINE t == Tag(c, m)
<1>0. Unexpected(c, m) # "ok"
  BY DEF Unexpected
<1>1. ASSUME NEW kind, Named(c, m, kind) = "ok" PROVE t = "Entity"
  BY <1>0, <1>1 DEF Named
<1>2. Iri(c, m) = "ok" => t = "IRI"
  BY DEF Iri, &&, Need
<1>3. Entity(c, m) = "ok" => t = "Entity"
  BY DEF Entity, &&, Need
<1>4. Individual(c, m) = "ok" => t \in {"Entity", "AnonymousIndividual"}
  BY DEF Individual
<1>5. Literal(c, m) = "ok" => t = "Literal"
  BY DEF Literal, &&, Need
<1>6. AnnotationValue(c, m) = "ok" => t \in {"IRI", "AnonymousIndividual", "Literal"}
  BY DEF AnnotationValue
<1>7. MetadataValue(c, m) = "ok" => t \in {"IRI", "AnonymousIndividual", "Literal"}
  BY <1>0 DEF MetadataValue
<1>8. AnnotationSubject(c, m) = "ok" => t \in {"IRI", "AnonymousIndividual"}
  BY DEF AnnotationSubject
<1>9. ObjectPropertyExpression(c, m) = "ok" => t \in {"Entity", "ObjectInverseOf"}
  BY <1>0 DEF ObjectPropertyExpression
<1>10. SwrlIndividual(c, m) = "ok" => t \in {"Variable", "Entity", "AnonymousIndividual"}
  BY <1>4 DEF SwrlIndividual
<1>11. SwrlData(c, m) = "ok" => t \in {"Variable", "Literal"}
  BY DEF SwrlData
<1>12. FacetRestriction(c, m) = "ok" => t = "FacetRestriction"
  BY DEF FacetRestriction, &&, Need
<1>13. DataRangeReference(c, m) = "ok" => t \in {"Entity"} \cup DataRangeTags
  BY DEF DataRangeReference, Need
<1>14. DataRange(c, m) = "ok" => t \in {"Entity"} \cup DataRangeTags
  BY DEF DataRange, DataRangeTags, RecursiveDataRangeTags
<1>15. ClassReference(c, m) = "ok" => t \in {"Entity"} \cup ClassExpressionTags
  BY DEF ClassReference, Need
<1>16. ClassExpression(c, m) = "ok" => t \in {"Entity"} \cup ClassExpressionTags
  <2>1. Nonprojecting(c, m) = "ok" => t \in NonprojectingTags
    BY <1>0 DEF Nonprojecting, NonprojectingTags
  <2> QED
    BY <2>1 DEF ClassExpression, ClassExpressionTags
<1>17. \A x : /\ Height(x) \in 0..9
              /\ x = "IRI" \/ x = "AnonymousIndividual" => Height(x) < 1
              /\ x = "Entity" => Height(x) < 2
              /\ x \in {"Literal", "ObjectInverseOf", "Variable"} => Height(x) < 3
              /\ x = "FacetRestriction" => Height(x) < 4
              /\ x \in DataRangeTags => Height(x) < 6
              /\ x \in ClassExpressionTags => Height(x) < 8
  <2> SUFFICES ASSUME NEW x
               PROVE  /\ Height(x) \in 0..9
                      /\ x = "IRI" \/ x = "AnonymousIndividual" => Height(x) < 1
                      /\ x = "Entity" => Height(x) < 2
                      /\ x \in {"Literal", "ObjectInverseOf", "Variable"} => Height(x) < 3
                      /\ x = "FacetRestriction" => Height(x) < 4
                      /\ x \in DataRangeTags => Height(x) < 6
                      /\ x \in ClassExpressionTags => Height(x) < 8
    OBVIOUS
  <2>1. x \in DataRangeTags => Height(x) < 6
    BY Heights, TagSets
  <2>2. x \in ClassExpressionTags => Height(x) < 8
    BY Heights, TagSets
  <2> QED
    BY <2>1, <2>2, Heights
<1>18. PICK h : h = Height(t)
  OBVIOUS
<1>19. /\ h \in 0..9
       /\ t = "IRI" \/ t = "AnonymousIndividual" => h < 1
       /\ t = "Entity" => h < 2
       /\ t \in {"Literal", "ObjectInverseOf", "Variable"} => h < 3
       /\ t = "FacetRestriction" => h < 4
       /\ t \in DataRangeTags => h < 6
       /\ t \in ClassExpressionTags => h < 8
  BY <1>17, <1>18
<1> HIDE DEF t
<1>20. /\ t = "Entity" \/ t = "AnonymousIndividual" => h < 2
       /\ t \in {"Variable", "Entity", "AnonymousIndividual"} => h < 3
       /\ t \in {"IRI", "AnonymousIndividual", "Literal"} => h < 3
       /\ t \in {"Entity", "ObjectInverseOf"} => h < 3
       /\ t \in {"Entity"} \cup DataRangeTags => h < 6
       /\ t \in {"Entity"} \cup ClassExpressionTags => h < 8
  BY <1>19
<1>21. /\ \A kind : Named(c, m, kind) = "ok" => h < 2
       /\ Iri(c, m) = "ok" => h < 1
       /\ Entity(c, m) = "ok" => h < 2
       /\ Individual(c, m) = "ok" => h < 2
       /\ Literal(c, m) = "ok" => h < 3
  BY <1>1, <1>2, <1>3, <1>4, <1>5, <1>19, <1>20 DEF t
<1>22. /\ MetadataValue(c, m) = "ok" => h < 3
       /\ AnnotationValue(c, m) = "ok" => h < 3
       /\ AnnotationSubject(c, m) = "ok" => h < 3
       /\ ObjectPropertyExpression(c, m) = "ok" => h < 3
  BY <1>6, <1>7, <1>8, <1>9, <1>19, <1>20 DEF t
<1>23. /\ SwrlIndividual(c, m) = "ok" => h < 3
       /\ SwrlData(c, m) = "ok" => h < 3
       /\ FacetRestriction(c, m) = "ok" => h < 4
       /\ DataRange(c, m) = "ok" => h < 6
       /\ ClassExpression(c, m) = "ok" => h < 8
  BY <1>10, <1>11, <1>12, <1>14, <1>16, <1>19, <1>20 DEF t
<1> QED
  BY <1>13, <1>15, <1>18, <1>21, <1>22, <1>23 DEF t

\* The nodes one field holds stand below k.
HeldBelow(c, n, i, k) == \A m \in Held(c, n, i) : Height(Tag(c, m)) < k

LEMMA AbsentNode ==
  ASSUME NEW c
  PROVE  Tag(c, 0) = "absent" /\ Height("absent") = 9
<1>1. Tag(c, 0) = "absent"
  BY DEF Tag, Nodes
<1> QED
  BY <1>1 DEF Height, RecursiveDataRangeTags, DataClassTags, RecursiveClassTags, AggregateTags,
              RestrictionTags, SwrlAtomTags

\* A reference to a low node is none to an absent one.
LEMMA RefBelow ==
  ASSUME NEW c, NEW n, NEW i, NEW j \in 0..9, NEW k \in Int, j <= k,
         Height(Tag(c, Ref(c, n, i))) < j
  PROVE  HeldBelow(c, n, i, k)
<1>1. PICK h : h = Height(Tag(c, Ref(c, n, i)))
  OBVIOUS
<1>2. h \in 0..9 /\ h < j
  BY <1>1, Heights
<1>3. h < k /\ h # 9
  BY <1>2
<1>4. Ref(c, n, i) # 0
  BY <1>1, <1>3, AbsentNode
<1>5. Held(c, n, i) = {Ref(c, n, i)}
  BY <1>4, HeldNode
<1> QED
  BY <1>1, <1>3, <1>5 DEF HeldBelow

\* Fields with one checked reference.
LEMMA FieldSorts ==
  ASSUME NEW c, NEW n, NEW i, NEW k \in 3..9
  PROVE  /\ \A kind : Named(c, Ref(c, n, i), kind) = "ok" => HeldBelow(c, n, i, k)
         /\ Iri(c, Ref(c, n, i)) = "ok" => HeldBelow(c, n, i, k)
         /\ Entity(c, Ref(c, n, i)) = "ok" => HeldBelow(c, n, i, k)
         /\ Individual(c, Ref(c, n, i)) = "ok" => HeldBelow(c, n, i, k)
         /\ Literal(c, Ref(c, n, i)) = "ok" => HeldBelow(c, n, i, k)
         /\ MetadataValue(c, Ref(c, n, i)) = "ok" => HeldBelow(c, n, i, k)
         /\ AnnotationValue(c, Ref(c, n, i)) = "ok" => HeldBelow(c, n, i, k)
         /\ AnnotationSubject(c, Ref(c, n, i)) = "ok" => HeldBelow(c, n, i, k)
         /\ ObjectPropertyExpression(c, Ref(c, n, i)) = "ok" => HeldBelow(c, n, i, k)
         /\ SwrlIndividual(c, Ref(c, n, i)) = "ok" => HeldBelow(c, n, i, k)
         /\ SwrlData(c, Ref(c, n, i)) = "ok" => HeldBelow(c, n, i, k)
         /\ DataRange(c, Ref(c, n, i)) = "ok" /\ k >= 6 => HeldBelow(c, n, i, k)
         /\ ClassExpression(c, Ref(c, n, i)) = "ok" /\ k >= 8 => HeldBelow(c, n, i, k)
<1>1. PICK m : m = Ref(c, n, i)
  OBVIOUS
<1>2. PICK h : h = Height(Tag(c, m))
  OBVIOUS
<1>3. \A j \in 0..9 : h < j /\ j <= k => HeldBelow(c, n, i, k)
  BY <1>1, <1>2, RefBelow
<1>4. h \in 0..9
  BY <1>2, Heights
<1>5. /\ h < 3 => HeldBelow(c, n, i, k)
      /\ h < 6 /\ k >= 6 => HeldBelow(c, n, i, k)
      /\ h < 8 /\ k >= 8 => HeldBelow(c, n, i, k)
  BY <1>3
<1>6. h < 1 \/ h < 2 => HeldBelow(c, n, i, k)
  BY <1>4, <1>5
<1>7. /\ \A kind : Named(c, m, kind) = "ok" => h < 2
      /\ Iri(c, m) = "ok" => h < 1
      /\ Entity(c, m) = "ok" => h < 2
      /\ Individual(c, m) = "ok" => h < 2
      /\ Literal(c, m) = "ok" => h < 3
      /\ MetadataValue(c, m) = "ok" => h < 3
      /\ AnnotationValue(c, m) = "ok" => h < 3
      /\ AnnotationSubject(c, m) = "ok" => h < 3
      /\ ObjectPropertyExpression(c, m) = "ok" => h < 3
      /\ SwrlIndividual(c, m) = "ok" => h < 3
      /\ SwrlData(c, m) = "ok" => h < 3
      /\ DataRange(c, m) = "ok" => h < 6
      /\ ClassExpression(c, m) = "ok" => h < 8
  BY <1>2, SortHeights
<1> QED
  BY <1>1, <1>5, <1>6, <1>7

\* Fields without a reference.
LEMMA DataFields ==
  ASSUME NEW c, NEW n, NEW i, NEW k
  PROVE  /\ \A kind \in {"text", "bytes", "integer", "enum"} :
               HasScalar(c, n, i, kind) => HeldBelow(c, n, i, k)
         /\ CanonicalInteger(c, n, i) = "ok" => HeldBelow(c, n, i, k)
         /\ c.fkind[Field(c, n, i)] \in {"none", "text"} => HeldBelow(c, n, i, k)
<1>1. c.fkind[Field(c, n, i)] \notin {"node", "set", "sequence"} => HeldBelow(c, n, i, k)
  BY HeldData DEF HeldBelow
<1>2. \A kind \in {"text", "bytes", "integer", "enum"} :
         HasScalar(c, n, i, kind) => c.fkind[Field(c, n, i)] = kind
  BY DEF HasScalar, ScalarFits
<1>3. CanonicalInteger(c, n, i) = "ok" => HasScalar(c, n, i, "integer")
  BY DEF CanonicalInteger, &&, Need
<1>4. \A kind \in {"text", "bytes", "integer", "enum"} : kind \notin {"node", "set", "sequence"}
  OBVIOUS
<1> QED
  BY <1>1, <1>2, <1>3, <1>4

\* Fields with a checked collection.
IsCollection(c, n, i) ==
  \E kind \in {"set", "sequence"} : \E least : Collection(c, n, i, kind, least) = "ok"

LEMMA Collections ==
  ASSUME NEW c, NEW n, NEW i, NEW least
  PROVE  /\ NodeSet(c, n, i, least) = "ok" => IsCollection(c, n, i)
         /\ NodeSequence(c, n, i, least) = "ok" => IsCollection(c, n, i)
<1>1. NodeSet(c, n, i, least) = "ok" => Collection(c, n, i, "set", least) = "ok"
  BY DEF NodeSet, &&
<1>2. NodeSequence(c, n, i, least) = "ok" => Collection(c, n, i, "sequence", least) = "ok"
  BY DEF NodeSequence
<1> QED
  BY <1>1, <1>2 DEF IsCollection

LEMMA ItemsBelow ==
  ASSUME NEW c, Shaped(c), NEW n, NEW i \in Nat \ {0}, IsCollection(c, n, i), NEW k,
         NEW f, DOMAIN f = DOMAIN Items(c, n, i), Earliest(Tabulated(f)) = "ok",
         \A j \in DOMAIN Items(c, n, i) : f[j] = "ok" => Height(Tag(c, Items(c, n, i)[j])) < k
  PROVE  HeldBelow(c, n, i, k)
<1>1. /\ DOMAIN Items(c, n, i) \subseteq Nat
      /\ \A m \in Held(c, n, i) : \E j \in DOMAIN Items(c, n, i) : Items(c, n, i)[j] = m
  BY HeldItems DEF IsCollection
<1>2. \A j \in DOMAIN Items(c, n, i) : f[j] = "ok"
  BY <1>1, LoopOk
<1> QED
  BY <1>1, <1>2 DEF HeldBelow

LEMMA SetSorts ==
  ASSUME NEW c, Shaped(c), NEW n, NEW i \in Nat \ {0}, IsCollection(c, n, i)
  PROVE  /\ Each(c, n, i, Literal) = "ok" => HeldBelow(c, n, i, 3)
         /\ Each(c, n, i, Individual) = "ok" => HeldBelow(c, n, i, 2)
         /\ Each(c, n, i, ObjectPropertyExpression) = "ok" => HeldBelow(c, n, i, 3)
         /\ Each(c, n, i, NamedDataProperty) = "ok" => HeldBelow(c, n, i, 2)
         /\ Each(c, n, i, SwrlData) = "ok" => HeldBelow(c, n, i, 3)
         /\ Each(c, n, i, FacetRestriction) = "ok" => HeldBelow(c, n, i, 4)
<1>1. ASSUME Each(c, n, i, Literal) = "ok" PROVE HeldBelow(c, n, i, 3)
  <2> DEFINE f == [j \in DOMAIN Items(c, n, i) |-> Literal(c, Items(c, n, i)[j])]
  <2>1. Earliest(Tabulated(f)) = "ok"
    BY <1>1 DEF Each, FirstError
  <2>2. \A j \in DOMAIN Items(c, n, i) : f[j] = "ok" => Height(Tag(c, Items(c, n, i)[j])) < 3
    BY SortHeights
  <2>3. DOMAIN f = DOMAIN Items(c, n, i)
    OBVIOUS
  <2> HIDE DEF f
  <2> QED
    BY <2>1, <2>2, <2>3, ItemsBelow
<1>2. ASSUME Each(c, n, i, Individual) = "ok" PROVE HeldBelow(c, n, i, 2)
  <2> DEFINE f == [j \in DOMAIN Items(c, n, i) |-> Individual(c, Items(c, n, i)[j])]
  <2>1. Earliest(Tabulated(f)) = "ok"
    BY <1>2 DEF Each, FirstError
  <2>2. \A j \in DOMAIN Items(c, n, i) : f[j] = "ok" => Height(Tag(c, Items(c, n, i)[j])) < 2
    BY SortHeights
  <2>3. DOMAIN f = DOMAIN Items(c, n, i)
    OBVIOUS
  <2> HIDE DEF f
  <2> QED
    BY <2>1, <2>2, <2>3, ItemsBelow
<1>3. ASSUME Each(c, n, i, ObjectPropertyExpression) = "ok" PROVE HeldBelow(c, n, i, 3)
  <2> DEFINE f == [j \in DOMAIN Items(c, n, i) |-> ObjectPropertyExpression(c, Items(c, n, i)[j])]
  <2>1. Earliest(Tabulated(f)) = "ok"
    BY <1>3 DEF Each, FirstError
  <2>2. \A j \in DOMAIN Items(c, n, i) : f[j] = "ok" => Height(Tag(c, Items(c, n, i)[j])) < 3
    BY SortHeights
  <2>3. DOMAIN f = DOMAIN Items(c, n, i)
    OBVIOUS
  <2> HIDE DEF f
  <2> QED
    BY <2>1, <2>2, <2>3, ItemsBelow
<1>4. ASSUME Each(c, n, i, NamedDataProperty) = "ok" PROVE HeldBelow(c, n, i, 2)
  <2> DEFINE f == [j \in DOMAIN Items(c, n, i) |-> Named(c, Items(c, n, i)[j], "data_property")]
  <2>1. Earliest(Tabulated(f)) = "ok"
    BY <1>4 DEF Each, FirstError, NamedDataProperty
  <2>2. \A j \in DOMAIN Items(c, n, i) : f[j] = "ok" => Height(Tag(c, Items(c, n, i)[j])) < 2
    BY SortHeights
  <2>3. DOMAIN f = DOMAIN Items(c, n, i)
    OBVIOUS
  <2> HIDE DEF f
  <2> QED
    BY <2>1, <2>2, <2>3, ItemsBelow
<1>5. ASSUME Each(c, n, i, SwrlData) = "ok" PROVE HeldBelow(c, n, i, 3)
  <2> DEFINE f == [j \in DOMAIN Items(c, n, i) |-> SwrlData(c, Items(c, n, i)[j])]
  <2>1. Earliest(Tabulated(f)) = "ok"
    BY <1>5 DEF Each, FirstError
  <2>2. \A j \in DOMAIN Items(c, n, i) : f[j] = "ok" => Height(Tag(c, Items(c, n, i)[j])) < 3
    BY SortHeights
  <2>3. DOMAIN f = DOMAIN Items(c, n, i)
    OBVIOUS
  <2> HIDE DEF f
  <2> QED
    BY <2>1, <2>2, <2>3, ItemsBelow
<1>6. ASSUME Each(c, n, i, FacetRestriction) = "ok" PROVE HeldBelow(c, n, i, 4)
  <2> DEFINE f == [j \in DOMAIN Items(c, n, i) |-> FacetRestriction(c, Items(c, n, i)[j])]
  <2>1. Earliest(Tabulated(f)) = "ok"
    BY <1>6 DEF Each, FirstError
  <2>2. \A j \in DOMAIN Items(c, n, i) : f[j] = "ok" => Height(Tag(c, Items(c, n, i)[j])) < 4
    BY SortHeights
  <2>3. DOMAIN f = DOMAIN Items(c, n, i)
    OBVIOUS
  <2> HIDE DEF f
  <2> QED
    BY <2>1, <2>2, <2>3, ItemsBelow
<1> QED
  BY <1>1, <1>2, <1>3, <1>4, <1>5, <1>6

LEMMA BelowMore ==
  ASSUME NEW c, NEW n, NEW i, NEW j \in Int, NEW k \in Int, j <= k, HeldBelow(c, n, i, j)
  PROVE  HeldBelow(c, n, i, k)
<1>1. SUFFICES ASSUME NEW m \in Held(c, n, i) PROVE Height(Tag(c, m)) < k
  BY DEF HeldBelow
<1>2. PICK h : h = Height(Tag(c, m))
  OBVIOUS
<1>3. h < j /\ h \in 0..9
  BY <1>1, <1>2, Heights DEF HeldBelow
<1>4. h < k
  BY <1>3
<1> QED
  BY <1>2, <1>4

\* Annotations are the children of most nodes.
LEMMA AnnotationSets ==
  ASSUME NEW c, Shaped(c), NEW n, NEW i \in Nat \ {0}
  PROVE  /\ AnnotationSet(c, n, i) = "ok" => HeldBelow(c, n, i, 4)
         /\ AnnotationSetHash(c, n, i) = "ok" => HeldBelow(c, n, i, 4)
<1>1. ASSUME AnnotationSet(c, n, i) = "ok" PROVE HeldBelow(c, n, i, 4)
  <2> DEFINE f == [j \in DOMAIN Items(c, n, i) |-> Need(Tag(c, Items(c, n, i)[j]) = "Annotation")]
  <2>1. NodeSet(c, n, i, 0) = "ok" /\ Earliest(Tabulated(f)) = "ok"
    BY <1>1 DEF AnnotationSet, Each, FirstError, &&
  <2>2. \A j \in DOMAIN Items(c, n, i) : f[j] = "ok" => Height(Tag(c, Items(c, n, i)[j])) < 4
    BY Heights DEF Need
  <2>3. DOMAIN f = DOMAIN Items(c, n, i)
    OBVIOUS
  <2> HIDE DEF f
  <2> QED
    BY <2>1, <2>2, <2>3, ItemsBelow, Collections
<1>2. ASSUME AnnotationSetHash(c, n, i) = "ok" PROVE HeldBelow(c, n, i, 4)
  <2> DEFINE f == [j \in DOMAIN Items(c, n, i) |-> AnnotationHash(c, Items(c, n, i)[j])]
  <2>1. NodeSet(c, n, i, 0) = "ok" /\ Earliest(Tabulated(f)) = "ok"
    BY <1>2 DEF AnnotationSetHash, Each, FirstError, &&
  <2>2. \A j \in DOMAIN Items(c, n, i) : f[j] = "ok" => Height(Tag(c, Items(c, n, i)[j])) < 4
    <3>1. \A m : AnnotationHash(c, m) = "ok" => Tag(c, m) = "Annotation"
      BY DEF AnnotationHash, &&, Need
    <3> QED
      BY <3>1, Heights
  <2>3. DOMAIN f = DOMAIN Items(c, n, i)
    OBVIOUS
  <2> HIDE DEF f
  <2> QED
    BY <2>1, <2>2, <2>3, ItemsBelow, Collections
<1> QED
  BY <1>1, <1>2

\* The verdict of a class expression is looked up for a node or for none.
LEMMA VerdictAt ==
  ASSUME NEW c, Shaped(c)
  PROVE  /\ \A m \in 0..NodeCount(c) : ClassVerdicts(c)[m] = ClassExpression(c, m)
         /\ \A n, i : Ref(c, n, i) \in 0..NodeCount(c)
         /\ Nodes(c) \subseteq 0..NodeCount(c)
<1>1. Nodes(c) \subseteq 0..NodeCount(c) /\ 0 \in 0..NodeCount(c)
  BY DEF Nodes, Shaped
<1>2. \A n, i : Ref(c, n, i) \in 0..NodeCount(c)
  BY <1>1 DEF Ref, RefAt
<1> DEFINE f == [m \in 0..NodeCount(c) |-> ClassExpression(c, m)]
<1>3. ClassVerdicts(c) = f
  BY DEF ClassVerdicts, Tabulated
<1> QED
  BY <1>1, <1>2, <1>3

LEMMA ClassSets ==
  ASSUME NEW c, Shaped(c), NEW n, NEW i \in Nat \ {0}, ClassSet(c, n, i, ClassVerdicts(c)) = "ok"
  PROVE  HeldBelow(c, n, i, 8)
<1> DEFINE f == [j \in DOMAIN Items(c, n, i) |-> ClassVerdicts(c)[Items(c, n, i)[j]]]
<1>1. NodeSet(c, n, i, 2) = "ok" /\ Earliest(Tabulated(f)) = "ok"
  BY DEF ClassSet, FirstError, &&
<1>2. IsCollection(c, n, i)
  BY <1>1, Collections
<1>3. \A j \in DOMAIN Items(c, n, i) : Items(c, n, i)[j] \in Nodes(c)
  BY <1>2, HeldItems DEF IsCollection
<1>4. ASSUME NEW j \in DOMAIN Items(c, n, i), f[j] = "ok" PROVE Height(Tag(c, Items(c, n, i)[j])) < 8
  <2>1. ClassExpression(c, Items(c, n, i)[j]) = "ok"
    BY <1>3, <1>4, VerdictAt
  <2> QED
    BY <2>1, SortHeights
<1>5. DOMAIN f = DOMAIN Items(c, n, i)
  OBVIOUS
<1> HIDE DEF f
<1> QED
  BY <1>1, <1>2, <1>4, <1>5, ItemsBelow

LEMMA ClassFields ==
  ASSUME NEW c, Shaped(c), NEW n, NEW i, ClassVerdicts(c)[Ref(c, n, i)] = "ok"
  PROVE  ClassExpression(c, Ref(c, n, i)) = "ok"
BY VerdictAt

\* All children stand below k.
Lower(c, n, k) == \A m \in ChildSet(c, n) : Height(Tag(c, m)) < k

LEMMA Arities ==
  ASSUME NEW c, Shaped(c), NEW n, NEW k
  PROVE  /\ Exact(c, n, 1) = "ok" /\ HeldBelow(c, n, 1, k) => Lower(c, n, k)
         /\ Exact(c, n, 2) = "ok" /\ HeldBelow(c, n, 1, k) /\ HeldBelow(c, n, 2, k) => Lower(c, n, k)
         /\ (/\ Exact(c, n, 3) = "ok"
             /\ HeldBelow(c, n, 1, k) /\ HeldBelow(c, n, 2, k) /\ HeldBelow(c, n, 3, k)) => Lower(c, n, k)
         /\ (/\ Exact(c, n, 4) = "ok" /\ HeldBelow(c, n, 1, k) /\ HeldBelow(c, n, 2, k)
             /\ HeldBelow(c, n, 3, k) /\ HeldBelow(c, n, 4, k)) => Lower(c, n, k)
<1>1. ASSUME NEW arity \in Nat, Exact(c, n, arity) = "ok", \A i \in 1..arity : HeldBelow(c, n, i, k)
      PROVE  Lower(c, n, k)
  <2>1. SUFFICES ASSUME NEW m \in ChildSet(c, n) PROVE Height(Tag(c, m)) < k
    BY DEF Lower
  <2>2. PICK i \in 1..arity : m \in Held(c, n, i)
    BY <1>1, <2>1, ChildrenHeld
  <2> QED
    BY <1>1, <2>2 DEF HeldBelow
<1>2. /\ \A i \in 1..1 : i = 1
      /\ \A i \in 1..2 : i = 1 \/ i = 2
      /\ \A i \in 1..3 : i = 1 \/ i = 2 \/ i = 3
      /\ \A i \in 1..4 : i = 1 \/ i = 2 \/ i = 3 \/ i = 4
  OBVIOUS
<1>3. Exact(c, n, 1) = "ok" /\ HeldBelow(c, n, 1, k) => Lower(c, n, k)
  BY <1>1, <1>2
<1>4. Exact(c, n, 2) = "ok" /\ HeldBelow(c, n, 1, k) /\ HeldBelow(c, n, 2, k) => Lower(c, n, k)
  BY <1>1, <1>2
<1>5. (/\ Exact(c, n, 3) = "ok"
       /\ HeldBelow(c, n, 1, k) /\ HeldBelow(c, n, 2, k) /\ HeldBelow(c, n, 3, k)) => Lower(c, n, k)
  BY <1>1, <1>2
<1>6. (/\ Exact(c, n, 4) = "ok" /\ HeldBelow(c, n, 1, k) /\ HeldBelow(c, n, 2, k)
       /\ HeldBelow(c, n, 3, k) /\ HeldBelow(c, n, 4, k)) => Lower(c, n, k)
  BY <1>1, <1>2
<1> QED
  BY <1>3, <1>4, <1>5, <1>6

\* What an axiom may hold in one field.
LEMMA AxiomFields ==
  ASSUME NEW c, Shaped(c), NEW n, NEW i \in Nat \ {0}
  PROVE  /\ AnnotationSet(c, n, i) = "ok" \/ AnnotationSetHash(c, n, i) = "ok" => HeldBelow(c, n, i, 9)
         /\ ClassSet(c, n, i, ClassVerdicts(c)) = "ok" => HeldBelow(c, n, i, 9)
         /\ ClassVerdicts(c)[Ref(c, n, i)] = "ok" => HeldBelow(c, n, i, 9)
         /\ \A least : NodeSet(c, n, i, least) = "ok" /\ Each(c, n, i, Individual) = "ok"
                         => HeldBelow(c, n, i, 9)
         /\ \A least : NodeSet(c, n, i, least) = "ok" /\ Each(c, n, i, ObjectPropertyExpression) = "ok"
                         => HeldBelow(c, n, i, 9)
         /\ \A least : NodeSet(c, n, i, least) = "ok" /\ Each(c, n, i, NamedDataProperty) = "ok"
                         => HeldBelow(c, n, i, 9)
<1>1. \A j \in {2, 3, 4, 8} : HeldBelow(c, n, i, j) => HeldBelow(c, n, i, 9)
  BY BelowMore
<1>2. AnnotationSet(c, n, i) = "ok" \/ AnnotationSetHash(c, n, i) = "ok" => HeldBelow(c, n, i, 4)
  BY AnnotationSets
<1>3. ClassSet(c, n, i, ClassVerdicts(c)) = "ok" => HeldBelow(c, n, i, 8)
  BY ClassSets
<1>4. ClassVerdicts(c)[Ref(c, n, i)] = "ok" => HeldBelow(c, n, i, 9)
  BY ClassFields, FieldSorts
<1>5. \A least : NodeSet(c, n, i, least) = "ok" => IsCollection(c, n, i)
  BY Collections
<1>6. IsCollection(c, n, i) /\ Each(c, n, i, Individual) = "ok" => HeldBelow(c, n, i, 2)
  BY SetSorts
<1>7. IsCollection(c, n, i) /\ Each(c, n, i, ObjectPropertyExpression) = "ok" => HeldBelow(c, n, i, 3)
  BY SetSorts
<1>8. IsCollection(c, n, i) /\ Each(c, n, i, NamedDataProperty) = "ok" => HeldBelow(c, n, i, 2)
  BY SetSorts
<1>9. 2 \in {2, 3, 4, 8} /\ 3 \in {2, 3, 4, 8} /\ 4 \in {2, 3, 4, 8} /\ 8 \in {2, 3, 4, 8}
  OBVIOUS
<1>10. AnnotationSet(c, n, i) = "ok" \/ AnnotationSetHash(c, n, i) = "ok" => HeldBelow(c, n, i, 9)
  BY <1>1, <1>2, <1>9
<1>11. ClassSet(c, n, i, ClassVerdicts(c)) = "ok" => HeldBelow(c, n, i, 9)
  BY <1>1, <1>3, <1>9
<1>12. \A least : NodeSet(c, n, i, least) = "ok" /\ Each(c, n, i, Individual) = "ok" => HeldBelow(c, n, i, 9)
  BY <1>1, <1>5, <1>6, <1>9
<1>13. \A least : NodeSet(c, n, i, least) = "ok" /\ Each(c, n, i, ObjectPropertyExpression) = "ok"
                    => HeldBelow(c, n, i, 9)
  BY <1>1, <1>5, <1>7, <1>9
<1>14. \A least : NodeSet(c, n, i, least) = "ok" /\ Each(c, n, i, NamedDataProperty) = "ok"
                    => HeldBelow(c, n, i, 9)
  BY <1>1, <1>5, <1>8, <1>9
<1> QED
  BY <1>4, <1>10, <1>11, <1>12, <1>13, <1>14

\* The operands of a subclass axiom are class expressions.
LEMMA SubclassFields ==
  ASSUME NEW c, Shaped(c), NEW n,
         SubclassOperands(c, Ref(c, n, 1), Ref(c, n, 2), ClassVerdicts(c)) = "ok"
  PROVE  HeldBelow(c, n, 1, 9) /\ HeldBelow(c, n, 2, 9)
<1>1. PICK sub, sup : sub = Ref(c, n, 1) /\ sup = Ref(c, n, 2)
  OBVIOUS
<1>2. \/ NamedClass(c, sub) = "ok" /\ NamedClass(c, sup) = "ok"
      \/ NamedClass(c, sub) = "ok" /\ Tag(c, sup) \in RestrictionTags
      \/ Tag(c, sub) \in RestrictionTags /\ NamedClass(c, sup) = "ok"
      \/ ClassVerdicts(c)[sub] = "ok" /\ ClassVerdicts(c)[sup] = "ok"
  BY <1>1 DEF SubclassOperands, &&, Need
<1>3. sub \in 0..NodeCount(c) /\ sup \in 0..NodeCount(c)
  BY <1>1, VerdictAt
<1>4. \A m \in {sub, sup} :
         NamedClass(c, m) = "ok" \/ Tag(c, m) \in RestrictionTags \/ ClassVerdicts(c)[m] = "ok"
           => Height(Tag(c, m)) < 8
  <2> SUFFICES ASSUME NEW m \in {sub, sup}
               PROVE  NamedClass(c, m) = "ok" \/ Tag(c, m) \in RestrictionTags \/ ClassVerdicts(c)[m] = "ok"
                        => Height(Tag(c, m)) < 8
    OBVIOUS
  <2>1. NamedClass(c, m) = "ok" => Height(Tag(c, m)) < 2
    BY SortHeights DEF NamedClass
  <2>2. Tag(c, m) \in RestrictionTags => Height(Tag(c, m)) = 7
    BY Heights DEF RecursiveClassTags
  <2>3. ClassVerdicts(c)[m] = "ok" => Height(Tag(c, m)) < 8
    BY <1>3, VerdictAt, SortHeights
  <2>4. Height(Tag(c, m)) \in 0..9
    BY Heights
  <2> QED
    BY <2>1, <2>2, <2>3, <2>4
<1>5. Height(Tag(c, sub)) < 8 /\ Height(Tag(c, sup)) < 8
  BY <1>2, <1>4
<1> QED
  BY <1>1, <1>5, RefBelow

LEMMA ClassAxioms ==
  ASSUME NEW c, Shaped(c), NEW n, NEW class, class = ClassVerdicts(c)
  PROVE  /\ Declaration(c, n) = "ok" => Lower(c, n, 9)
         /\ SubClassOf(c, n, class) = "ok" => Lower(c, n, 9)
         /\ ClassSetAxiom(c, n, class) = "ok" => Lower(c, n, 9)
         /\ DisjointUnion(c, n, class) = "ok" => Lower(c, n, 9)
         /\ HasKey(c, n, class) = "ok" => Lower(c, n, 9)
         /\ ClassAssertion(c, n, class) = "ok" => Lower(c, n, 9)
<1>1. ASSUME Declaration(c, n) = "ok" PROVE Lower(c, n, 9)
  <2>1. Exact(c, n, 2) = "ok" /\ Entity(c, Ref(c, n, 1)) = "ok" /\ AnnotationSet(c, n, 2) = "ok"
    BY <1>1 DEF Declaration, &&
  <2>2. HeldBelow(c, n, 1, 9)
    BY <2>1, FieldSorts
  <2>3. HeldBelow(c, n, 2, 9)
    BY <2>1, AxiomFields
  <2> QED
    BY <2>1, <2>2, <2>3, Arities
<1>2. ASSUME SubClassOf(c, n, class) = "ok" PROVE Lower(c, n, 9)
  <2>1. /\ Exact(c, n, 3) = "ok" /\ AnnotationSet(c, n, 3) = "ok"
        /\ SubclassOperands(c, Ref(c, n, 1), Ref(c, n, 2), class) = "ok"
    BY <1>2 DEF SubClassOf, &&
  <2>2. HeldBelow(c, n, 1, 9) /\ HeldBelow(c, n, 2, 9)
    BY <2>1, SubclassFields
  <2>3. HeldBelow(c, n, 3, 9)
    BY <2>1, AxiomFields
  <2> QED
    BY <2>1, <2>2, <2>3, Arities
<1>3. ASSUME ClassSetAxiom(c, n, class) = "ok" PROVE Lower(c, n, 9)
  <2>1. Exact(c, n, 2) = "ok" /\ ClassSet(c, n, 1, class) = "ok" /\ AnnotationSet(c, n, 2) = "ok"
    BY <1>3 DEF ClassSetAxiom, &&
  <2>2. HeldBelow(c, n, 1, 9) /\ HeldBelow(c, n, 2, 9)
    BY <2>1, AxiomFields
  <2> QED
    BY <2>1, <2>2, Arities
<1>4. ASSUME DisjointUnion(c, n, class) = "ok" PROVE Lower(c, n, 9)
  <2>1. /\ Exact(c, n, 3) = "ok" /\ Named(c, Ref(c, n, 1), "class") = "ok"
        /\ ClassSet(c, n, 2, class) = "ok" /\ AnnotationSet(c, n, 3) = "ok"
    BY <1>4 DEF DisjointUnion, NamedClass, &&
  <2>2. HeldBelow(c, n, 1, 9)
    BY <2>1, FieldSorts
  <2>3. HeldBelow(c, n, 2, 9) /\ HeldBelow(c, n, 3, 9)
    BY <2>1, AxiomFields
  <2> QED
    BY <2>1, <2>2, <2>3, Arities
<1>5. ASSUME HasKey(c, n, class) = "ok" PROVE Lower(c, n, 9)
  <2>1. /\ Exact(c, n, 4) = "ok" /\ class[Ref(c, n, 1)] = "ok"
        /\ NodeSet(c, n, 2, 0) = "ok" /\ Each(c, n, 2, ObjectPropertyExpression) = "ok"
        /\ NodeSet(c, n, 3, 0) = "ok" /\ Each(c, n, 3, NamedDataProperty) = "ok"
        /\ AnnotationSet(c, n, 4) = "ok"
    BY <1>5 DEF HasKey, &&
  <2>2. HeldBelow(c, n, 1, 9)
    BY <2>1, AxiomFields
  <2>3. HeldBelow(c, n, 2, 9)
    BY <2>1, AxiomFields
  <2>4. HeldBelow(c, n, 3, 9)
    BY <2>1, AxiomFields
  <2>5. HeldBelow(c, n, 4, 9)
    BY <2>1, AxiomFields
  <2> QED
    BY <2>1, <2>2, <2>3, <2>4, <2>5, Arities
<1>6. ASSUME ClassAssertion(c, n, class) = "ok" PROVE Lower(c, n, 9)
  <2>1. /\ Exact(c, n, 3) = "ok" /\ class[Ref(c, n, 1)] = "ok" /\ Individual(c, Ref(c, n, 2)) = "ok"
        /\ AnnotationSet(c, n, 3) = "ok"
    BY <1>6 DEF ClassAssertion, &&
  <2>2. HeldBelow(c, n, 1, 9) /\ HeldBelow(c, n, 3, 9)
    BY <2>1, AxiomFields
  <2>3. HeldBelow(c, n, 2, 9)
    BY <2>1, FieldSorts
  <2> QED
    BY <2>1, <2>2, <2>3, Arities
<1> QED
  BY <1>1, <1>2, <1>3, <1>4, <1>5, <1>6

LEMMA ObjectPropertyAxioms ==
  ASSUME NEW c, Shaped(c), NEW n, NEW class, class = ClassVerdicts(c)
  PROVE  /\ RoleAxiomParts(c, n) = "ok" => Lower(c, n, 9)
         /\ ObjectPropertySet(c, n) = "ok" => Lower(c, n, 9)
         /\ ObjectPropertyCharacteristic(c, n) = "ok" => Lower(c, n, 9)
         /\ ObjectPropertyClass(c, n, class) = "ok" => Lower(c, n, 9)
         /\ NegativeObjectPropertyAssertion(c, n) = "ok" => Lower(c, n, 9)
<1>1. ASSUME RoleAxiomParts(c, n) = "ok" PROVE Lower(c, n, 9)
  <2>1. /\ Exact(c, n, 3) = "ok" /\ ObjectPropertyExpression(c, Ref(c, n, 1)) = "ok"
        /\ ObjectPropertyExpression(c, Ref(c, n, 2)) = "ok"
        /\ AnnotationSetHash(c, n, 3) = "ok"
    BY <1>1 DEF RoleAxiomParts, &&
  <2>2. HeldBelow(c, n, 1, 9) /\ HeldBelow(c, n, 2, 9)
    BY <2>1, FieldSorts
  <2>3. HeldBelow(c, n, 3, 9)
    BY <2>1, AxiomFields
  <2> QED
    BY <2>1, <2>2, <2>3, Arities
<1>2. ASSUME ObjectPropertySet(c, n) = "ok" PROVE Lower(c, n, 9)
  <2>1. /\ Exact(c, n, 2) = "ok" /\ NodeSet(c, n, 1, 2) = "ok"
        /\ Each(c, n, 1, ObjectPropertyExpression) = "ok"
        /\ AnnotationSet(c, n, 2) = "ok"
    BY <1>2 DEF ObjectPropertySet, &&
  <2>2. HeldBelow(c, n, 1, 9)
    BY <2>1, AxiomFields
  <2>3. HeldBelow(c, n, 2, 9)
    BY <2>1, AxiomFields
  <2> QED
    BY <2>1, <2>2, <2>3, Arities
<1>3. ASSUME ObjectPropertyCharacteristic(c, n) = "ok" PROVE Lower(c, n, 9)
  <2>1. /\ Exact(c, n, 2) = "ok" /\ ObjectPropertyExpression(c, Ref(c, n, 1)) = "ok"
        /\ AnnotationSet(c, n, 2) = "ok"
    BY <1>3 DEF ObjectPropertyCharacteristic, &&
  <2>2. HeldBelow(c, n, 1, 9)
    BY <2>1, FieldSorts
  <2>3. HeldBelow(c, n, 2, 9)
    BY <2>1, AxiomFields
  <2> QED
    BY <2>1, <2>2, <2>3, Arities
<1>4. ASSUME ObjectPropertyClass(c, n, class) = "ok" PROVE Lower(c, n, 9)
  <2>1. /\ Exact(c, n, 3) = "ok" /\ ObjectPropertyExpression(c, Ref(c, n, 1)) = "ok"
        /\ class[Ref(c, n, 2)] = "ok" /\ AnnotationSet(c, n, 3) = "ok"
    BY <1>4 DEF ObjectPropertyClass, &&
  <2>2. HeldBelow(c, n, 1, 9)
    BY <2>1, FieldSorts
  <2>3. HeldBelow(c, n, 2, 9) /\ HeldBelow(c, n, 3, 9)
    BY <2>1, AxiomFields
  <2> QED
    BY <2>1, <2>2, <2>3, Arities
<1>5. ASSUME NegativeObjectPropertyAssertion(c, n) = "ok" PROVE Lower(c, n, 9)
  <2>1. /\ Exact(c, n, 4) = "ok" /\ ObjectPropertyExpression(c, Ref(c, n, 1)) = "ok"
        /\ Individual(c, Ref(c, n, 2)) = "ok" /\ Individual(c, Ref(c, n, 3)) = "ok"
        /\ AnnotationSet(c, n, 4) = "ok"
    BY <1>5 DEF NegativeObjectPropertyAssertion, &&
  <2>2. HeldBelow(c, n, 1, 9) /\ HeldBelow(c, n, 2, 9) /\ HeldBelow(c, n, 3, 9)
    BY <2>1, FieldSorts
  <2>3. HeldBelow(c, n, 4, 9)
    BY <2>1, AxiomFields
  <2> QED
    BY <2>1, <2>2, <2>3, Arities
<1> QED
  BY <1>1, <1>2, <1>3, <1>4, <1>5

LEMMA DataPropertyAxioms ==
  ASSUME NEW c, Shaped(c), NEW n, NEW class, class = ClassVerdicts(c)
  PROVE  /\ BinaryDataProperty(c, n) = "ok" => Lower(c, n, 9)
         /\ DataPropertySet(c, n) = "ok" => Lower(c, n, 9)
         /\ DataPropertyDomain(c, n, class) = "ok" => Lower(c, n, 9)
         /\ DataPropertyRange(c, n) = "ok" => Lower(c, n, 9)
         /\ FunctionalDataProperty(c, n) = "ok" => Lower(c, n, 9)
         /\ DatatypeDefinition(c, n) = "ok" => Lower(c, n, 9)
         /\ DataPropertyAssertion(c, n) = "ok" => Lower(c, n, 9)
<1>1. ASSUME BinaryDataProperty(c, n) = "ok" PROVE Lower(c, n, 9)
  <2>1. /\ Exact(c, n, 3) = "ok" /\ Named(c, Ref(c, n, 1), "data_property") = "ok"
        /\ Named(c, Ref(c, n, 2), "data_property") = "ok"
        /\ AnnotationSet(c, n, 3) = "ok"
    BY <1>1 DEF BinaryDataProperty, NamedDataProperty, &&
  <2>2. HeldBelow(c, n, 1, 9) /\ HeldBelow(c, n, 2, 9)
    BY <2>1, FieldSorts
  <2>3. HeldBelow(c, n, 3, 9)
    BY <2>1, AxiomFields
  <2> QED
    BY <2>1, <2>2, <2>3, Arities
<1>2. ASSUME DataPropertySet(c, n) = "ok" PROVE Lower(c, n, 9)
  <2>1. /\ Exact(c, n, 2) = "ok" /\ NodeSet(c, n, 1, 2) = "ok"
        /\ Each(c, n, 1, NamedDataProperty) = "ok" /\ AnnotationSet(c, n, 2) = "ok"
    BY <1>2 DEF DataPropertySet, &&
  <2>2. HeldBelow(c, n, 1, 9)
    BY <2>1, AxiomFields
  <2>3. HeldBelow(c, n, 2, 9)
    BY <2>1, AxiomFields
  <2> QED
    BY <2>1, <2>2, <2>3, Arities
<1>3. ASSUME DataPropertyDomain(c, n, class) = "ok" PROVE Lower(c, n, 9)
  <2>1. /\ Exact(c, n, 3) = "ok" /\ Named(c, Ref(c, n, 1), "data_property") = "ok"
        /\ class[Ref(c, n, 2)] = "ok" /\ AnnotationSet(c, n, 3) = "ok"
    BY <1>3 DEF DataPropertyDomain, NamedDataProperty, &&
  <2>2. HeldBelow(c, n, 1, 9)
    BY <2>1, FieldSorts
  <2>3. HeldBelow(c, n, 2, 9) /\ HeldBelow(c, n, 3, 9)
    BY <2>1, AxiomFields
  <2> QED
    BY <2>1, <2>2, <2>3, Arities
<1>4. ASSUME DataPropertyRange(c, n) = "ok" PROVE Lower(c, n, 9)
  <2>1. /\ Exact(c, n, 3) = "ok" /\ Named(c, Ref(c, n, 1), "data_property") = "ok"
        /\ DataRange(c, Ref(c, n, 2)) = "ok" /\ AnnotationSet(c, n, 3) = "ok"
    BY <1>4 DEF DataPropertyRange, NamedDataProperty, &&
  <2>2. HeldBelow(c, n, 1, 9) /\ HeldBelow(c, n, 2, 9)
    BY <2>1, FieldSorts
  <2>3. HeldBelow(c, n, 3, 9)
    BY <2>1, AxiomFields
  <2> QED
    BY <2>1, <2>2, <2>3, Arities
<1>5. ASSUME FunctionalDataProperty(c, n) = "ok" PROVE Lower(c, n, 9)
  <2>1. /\ Exact(c, n, 2) = "ok" /\ Named(c, Ref(c, n, 1), "data_property") = "ok"
        /\ AnnotationSet(c, n, 2) = "ok"
    BY <1>5 DEF FunctionalDataProperty, NamedDataProperty, &&
  <2>2. HeldBelow(c, n, 1, 9)
    BY <2>1, FieldSorts
  <2>3. HeldBelow(c, n, 2, 9)
    BY <2>1, AxiomFields
  <2> QED
    BY <2>1, <2>2, <2>3, Arities
<1>6. ASSUME DatatypeDefinition(c, n) = "ok" PROVE Lower(c, n, 9)
  <2>1. /\ Exact(c, n, 3) = "ok" /\ Named(c, Ref(c, n, 1), "datatype") = "ok"
        /\ DataRange(c, Ref(c, n, 2)) = "ok" /\ AnnotationSet(c, n, 3) = "ok"
    BY <1>6 DEF DatatypeDefinition, &&
  <2>2. HeldBelow(c, n, 1, 9) /\ HeldBelow(c, n, 2, 9)
    BY <2>1, FieldSorts
  <2>3. HeldBelow(c, n, 3, 9)
    BY <2>1, AxiomFields
  <2> QED
    BY <2>1, <2>2, <2>3, Arities
<1>7. ASSUME DataPropertyAssertion(c, n) = "ok" PROVE Lower(c, n, 9)
  <2>1. /\ Exact(c, n, 4) = "ok" /\ Named(c, Ref(c, n, 1), "data_property") = "ok"
        /\ Individual(c, Ref(c, n, 2)) = "ok" /\ Literal(c, Ref(c, n, 3)) = "ok"
        /\ AnnotationSet(c, n, 4) = "ok"
    BY <1>7 DEF DataPropertyAssertion, NamedDataProperty, &&
  <2>2. HeldBelow(c, n, 1, 9) /\ HeldBelow(c, n, 2, 9) /\ HeldBelow(c, n, 3, 9)
    BY <2>1, FieldSorts
  <2>3. HeldBelow(c, n, 4, 9)
    BY <2>1, AxiomFields
  <2> QED
    BY <2>1, <2>2, <2>3, Arities
<1> QED
  BY <1>1, <1>2, <1>3, <1>4, <1>5, <1>6, <1>7

LEMMA OtherAxioms ==
  ASSUME NEW c, Shaped(c), NEW n
  PROVE  /\ IndividualSet(c, n) = "ok" => Lower(c, n, 9)
         /\ AnnotationAssertion(c, n) = "ok" => Lower(c, n, 9)
         /\ SubAnnotationPropertyOf(c, n) = "ok" => Lower(c, n, 9)
         /\ AnnotationPropertyIri(c, n) = "ok" => Lower(c, n, 9)
<1>1. ASSUME IndividualSet(c, n) = "ok" PROVE Lower(c, n, 9)
  <2>1. /\ Exact(c, n, 2) = "ok" /\ NodeSet(c, n, 1, 2) = "ok"
        /\ Each(c, n, 1, Individual) = "ok" /\ AnnotationSet(c, n, 2) = "ok"
    BY <1>1 DEF IndividualSet, &&
  <2>2. HeldBelow(c, n, 1, 9)
    BY <2>1, AxiomFields
  <2>3. HeldBelow(c, n, 2, 9)
    BY <2>1, AxiomFields
  <2> QED
    BY <2>1, <2>2, <2>3, Arities
<1>2. ASSUME AnnotationAssertion(c, n) = "ok" PROVE Lower(c, n, 9)
  <2>1. /\ Exact(c, n, 4) = "ok" /\ Named(c, Ref(c, n, 1), "annotation_property") = "ok"
        /\ AnnotationSubject(c, Ref(c, n, 2)) = "ok"
        /\ AnnotationValue(c, Ref(c, n, 3)) = "ok" /\ AnnotationSet(c, n, 4) = "ok"
    BY <1>2 DEF AnnotationAssertion, NamedAnnotationProperty, &&
  <2>2. HeldBelow(c, n, 1, 9) /\ HeldBelow(c, n, 2, 9) /\ HeldBelow(c, n, 3, 9)
    BY <2>1, FieldSorts
  <2>3. HeldBelow(c, n, 4, 9)
    BY <2>1, AxiomFields
  <2> QED
    BY <2>1, <2>2, <2>3, Arities
<1>3. ASSUME SubAnnotationPropertyOf(c, n) = "ok" PROVE Lower(c, n, 9)
  <2>1. /\ Exact(c, n, 3) = "ok" /\ Named(c, Ref(c, n, 1), "annotation_property") = "ok"
        /\ Named(c, Ref(c, n, 2), "annotation_property") = "ok"
        /\ AnnotationSet(c, n, 3) = "ok"
    BY <1>3 DEF SubAnnotationPropertyOf, NamedAnnotationProperty, &&
  <2>2. HeldBelow(c, n, 1, 9) /\ HeldBelow(c, n, 2, 9)
    BY <2>1, FieldSorts
  <2>3. HeldBelow(c, n, 3, 9)
    BY <2>1, AxiomFields
  <2> QED
    BY <2>1, <2>2, <2>3, Arities
<1>4. ASSUME AnnotationPropertyIri(c, n) = "ok" PROVE Lower(c, n, 9)
  <2>1. /\ Exact(c, n, 3) = "ok" /\ Named(c, Ref(c, n, 1), "annotation_property") = "ok"
        /\ Iri(c, Ref(c, n, 2)) = "ok" /\ AnnotationSet(c, n, 3) = "ok"
    BY <1>4 DEF AnnotationPropertyIri, NamedAnnotationProperty, &&
  <2>2. HeldBelow(c, n, 1, 9) /\ HeldBelow(c, n, 2, 9)
    BY <2>1, FieldSorts
  <2>3. HeldBelow(c, n, 3, 9)
    BY <2>1, AxiomFields
  <2> QED
    BY <2>1, <2>2, <2>3, Arities
<1> QED
  BY <1>1, <1>2, <1>3, <1>4

\* A property assertion with an inverse property is well formed and refused; the other axiom
\* with its own shape is the sub-property, which may be a chain.
LEMMA PropertyAxioms ==
  ASSUME NEW c, Shaped(c), NEW n
  PROVE  /\ SubObjectPropertyOf(c, n) = "ok" => Lower(c, n, 9)
         /\ ObjectPropertyAssertion(c, n) = "ok" => Lower(c, n, 9)
         /\ SwrlRule(c, n) = "ok" => Lower(c, n, 9)
<1>1. ASSUME SubObjectPropertyOf(c, n) = "ok" PROVE Lower(c, n, 9)
  <2>1. /\ Exact(c, n, 3) = "ok" /\ ObjectPropertyExpression(c, Ref(c, n, 2)) = "ok"
        /\ AnnotationSetHash(c, n, 3) = "ok"
        /\ \/ Tag(c, Ref(c, n, 1)) = "ObjectPropertyChain"
           \/ ObjectPropertyExpression(c, Ref(c, n, 1)) = "ok"
    BY <1>1 DEF SubObjectPropertyOf, &&
  <2>2. HeldBelow(c, n, 2, 9)
    BY <2>1, FieldSorts
  <2>3. HeldBelow(c, n, 3, 9)
    BY <2>1, AxiomFields
  <2>4. Tag(c, Ref(c, n, 1)) = "ObjectPropertyChain" => Height(Tag(c, Ref(c, n, 1))) < 4
    BY Heights
  <2>5. HeldBelow(c, n, 1, 9)
    BY <2>1, <2>4, RefBelow, FieldSorts
  <2> QED
    BY <2>1, <2>2, <2>3, <2>5, Arities
<1>2. ASSUME ObjectPropertyAssertion(c, n) = "ok" PROVE Lower(c, n, 9)
  <2>1. /\ Exact(c, n, 4) = "ok" /\ Named(c, Ref(c, n, 1), "object_property") = "ok"
        /\ Individual(c, Ref(c, n, 2)) = "ok" /\ Individual(c, Ref(c, n, 3)) = "ok"
        /\ AnnotationSet(c, n, 4) = "ok"
    BY <1>2 DEF ObjectPropertyAssertion, &&
  <2>2. HeldBelow(c, n, 1, 9) /\ HeldBelow(c, n, 2, 9) /\ HeldBelow(c, n, 3, 9)
    BY <2>1, FieldSorts
  <2>3. HeldBelow(c, n, 4, 9)
    BY <2>1, AxiomFields
  <2> QED
    BY <2>1, <2>2, <2>3, Arities
<1>3. ASSUME SwrlRule(c, n) = "ok" PROVE Lower(c, n, 9)
  <2> DEFINE f(i) == [j \in DOMAIN Items(c, n, i) |-> Need(Tag(c, Items(c, n, i)[j]) \in SwrlAtomTags)]
  <2>1. /\ Exact(c, n, 3) = "ok" /\ AnnotationSet(c, n, 3) = "ok"
        /\ NodeSet(c, n, 1, 0) = "ok" /\ NodeSet(c, n, 2, 0) = "ok"
        /\ Earliest(Tabulated(f(1))) = "ok" /\ Earliest(Tabulated(f(2))) = "ok"
    BY <1>3 DEF SwrlRule, Each, FirstError, &&
  <2>2. ASSUME NEW i \in {1, 2}, NodeSet(c, n, i, 0) = "ok", Earliest(Tabulated(f(i))) = "ok"
        PROVE  HeldBelow(c, n, i, 9)
    <3>1. \A j \in DOMAIN Items(c, n, i) : f(i)[j] = "ok" => Height(Tag(c, Items(c, n, i)[j])) < 9
      BY Heights DEF Need
    <3>2. DOMAIN f(i) = DOMAIN Items(c, n, i)
      OBVIOUS
    <3>3. i \in Nat \ {0} /\ IsCollection(c, n, i)
      BY <2>2, Collections
    <3> HIDE DEF f
    <3> QED
      BY <2>2, <3>1, <3>2, <3>3, ItemsBelow
  <2>3. HeldBelow(c, n, 3, 9)
    BY <2>1, AxiomFields
  <2>4. HeldBelow(c, n, 1, 9) /\ HeldBelow(c, n, 2, 9)
    <3> HIDE DEF f
    <3> QED
      BY <2>1, <2>2
  <2> QED
    BY <2>1, <2>3, <2>4, Arities
<1> QED
  BY <1>1, <1>2, <1>3

\* Leaves, properties and the data of literals.
LEMMA LeafNodes ==
  ASSUME NEW c, Shaped(c), NEW n
  PROVE  /\ Iri(c, n) = "ok" => Lower(c, n, 0)
         /\ Anonymous(c, n) = "ok" => Lower(c, n, 0)
         /\ Entity(c, n) = "ok" /\ Iri(c, Ref(c, n, 2)) = "ok" => Lower(c, n, 1)
         /\ Literal(c, n) = "ok" => Lower(c, n, 2)
         /\ ObjectInverse(c, n) = "ok" => Lower(c, n, 2)
         /\ Variable(c, n) = "ok" => Lower(c, n, 2)
<1>1. \A i, k : HasScalar(c, n, i, "text") \/ HasScalar(c, n, i, "bytes") \/ HasScalar(c, n, i, "enum")
                  => HeldBelow(c, n, i, k)
  BY DataFields
<1>2. ASSUME Iri(c, n) = "ok" PROVE Lower(c, n, 0)
  <2>1. Exact(c, n, 1) = "ok" /\ HasScalar(c, n, 1, "text")
    BY <1>2 DEF Iri, &&, Need
  <2> QED
    BY <1>1, <2>1, Arities
<1>3. ASSUME Anonymous(c, n) = "ok" PROVE Lower(c, n, 0)
  <2>1. Exact(c, n, 2) = "ok" /\ HasScalar(c, n, 1, "bytes") /\ HasScalar(c, n, 2, "bytes")
    BY <1>3 DEF Anonymous, &&, Need
  <2> QED
    BY <1>1, <2>1, Arities
<1>4. ASSUME Entity(c, n) = "ok", Iri(c, Ref(c, n, 2)) = "ok" PROVE Lower(c, n, 1)
  <2>1. Exact(c, n, 2) = "ok" /\ HasScalar(c, n, 1, "enum")
    BY <1>4 DEF Entity, &&, Need
  <2>2. Height(Tag(c, Ref(c, n, 2))) < 1
    BY <1>4, SortHeights
  <2>3. HeldBelow(c, n, 2, 1)
    BY <2>2, RefBelow
  <2> QED
    BY <1>1, <2>1, <2>3, Arities
<1>5. ASSUME Literal(c, n) = "ok" PROVE Lower(c, n, 2)
  <2>1. /\ Exact(c, n, 3) = "ok" /\ HasScalar(c, n, 1, "text")
        /\ Named(c, Ref(c, n, 2), "datatype") = "ok" /\ LiteralLanguage(c, n) = "ok"
    BY <1>5 DEF Literal, &&, Need
  <2>2. Height(Tag(c, Ref(c, n, 2))) < 2
    BY <2>1, SortHeights
  <2>3. HeldBelow(c, n, 2, 2)
    BY <2>2, RefBelow
  <2>4. c.fkind[Field(c, n, 3)] \in {"none", "text"}
    BY <2>1 DEF LiteralLanguage
  <2>5. HeldBelow(c, n, 3, 2)
    BY <2>4, DataFields
  <2> QED
    BY <1>1, <2>1, <2>3, <2>5, Arities
<1>6. ASSUME ObjectInverse(c, n) = "ok" PROVE Lower(c, n, 2)
  <2>1. Exact(c, n, 1) = "ok" /\ Named(c, Ref(c, n, 1), "object_property") = "ok"
    BY <1>6 DEF ObjectInverse, &&
  <2>2. Height(Tag(c, Ref(c, n, 1))) < 2
    BY <2>1, SortHeights
  <2>3. HeldBelow(c, n, 1, 2)
    BY <2>2, RefBelow
  <2> QED
    BY <2>1, <2>3, Arities
<1>7. ASSUME Variable(c, n) = "ok" PROVE Lower(c, n, 2)
  <2>1. Exact(c, n, 1) = "ok" /\ Iri(c, Ref(c, n, 1)) = "ok"
    BY <1>7 DEF Variable, &&
  <2>2. Height(Tag(c, Ref(c, n, 1))) < 1
    BY <2>1, SortHeights
  <2>3. HeldBelow(c, n, 1, 2)
    BY <2>2, RefBelow
  <2> QED
    BY <2>1, <2>3, Arities
<1> QED
  BY <1>2, <1>3, <1>4, <1>5, <1>6, <1>7

\* What a collection of checked members may hold, seen from a node of height k.
LEMMA MemberFields ==
  ASSUME NEW c, Shaped(c), NEW n, NEW i \in Nat \ {0}, NEW k \in 3..9, NEW least,
         NodeSet(c, n, i, least) = "ok" \/ NodeSequence(c, n, i, least) = "ok"
  PROVE  /\ Each(c, n, i, Literal) = "ok" => HeldBelow(c, n, i, k)
         /\ Each(c, n, i, Individual) = "ok" => HeldBelow(c, n, i, k)
         /\ Each(c, n, i, ObjectPropertyExpression) = "ok" => HeldBelow(c, n, i, k)
         /\ Each(c, n, i, NamedDataProperty) = "ok" => HeldBelow(c, n, i, k)
         /\ Each(c, n, i, SwrlData) = "ok" => HeldBelow(c, n, i, k)
         /\ Each(c, n, i, FacetRestriction) = "ok" /\ k >= 4 => HeldBelow(c, n, i, k)
<1>1. IsCollection(c, n, i)
  BY Collections
<1>2. \A j \in Int : j <= k /\ HeldBelow(c, n, i, j) => HeldBelow(c, n, i, k)
  BY BelowMore
<1>3. /\ HeldBelow(c, n, i, 2) \/ HeldBelow(c, n, i, 3) => HeldBelow(c, n, i, k)
      /\ HeldBelow(c, n, i, 4) /\ k >= 4 => HeldBelow(c, n, i, k)
  BY <1>2
<1>4. /\ Each(c, n, i, Literal) = "ok" => HeldBelow(c, n, i, 3)
      /\ Each(c, n, i, Individual) = "ok" => HeldBelow(c, n, i, 2)
      /\ Each(c, n, i, ObjectPropertyExpression) = "ok" => HeldBelow(c, n, i, 3)
      /\ Each(c, n, i, NamedDataProperty) = "ok" => HeldBelow(c, n, i, 2)
      /\ Each(c, n, i, SwrlData) = "ok" => HeldBelow(c, n, i, 3)
      /\ Each(c, n, i, FacetRestriction) = "ok" => HeldBelow(c, n, i, 4)
  BY <1>1, SetSorts
<1> QED
  BY <1>3, <1>4

LEMMA FlatNodes ==
  ASSUME NEW c, Shaped(c), NEW n
  PROVE  /\ FacetRestriction(c, n) = "ok" => Lower(c, n, 3)
         /\ ObjectPropertyChain(c, n) = "ok" => Lower(c, n, 3)
<1>1. ASSUME FacetRestriction(c, n) = "ok" PROVE Lower(c, n, 3)
  <2>1. /\ Exact(c, n, 2) = "ok" /\ Iri(c, Ref(c, n, 1)) = "ok"
        /\ Literal(c, Ref(c, n, 2)) = "ok"
    BY <1>1 DEF FacetRestriction, &&
  <2>2. HeldBelow(c, n, 1, 3) /\ HeldBelow(c, n, 2, 3)
    BY <2>1, FieldSorts
  <2> QED
    BY <2>1, <2>2, Arities
<1>2. ASSUME ObjectPropertyChain(c, n) = "ok" PROVE Lower(c, n, 3)
  <2>1. /\ Exact(c, n, 1) = "ok" /\ NodeSequence(c, n, 1, 2) = "ok"
        /\ Each(c, n, 1, ObjectPropertyExpression) = "ok"
    BY <1>2 DEF ObjectPropertyChain, &&
  <2>2. HeldBelow(c, n, 1, 3)
    BY <2>1, MemberFields
  <2> QED
    BY <2>1, <2>2, Arities
<1> QED
  BY <1>1, <1>2

\* Data ranges that do not nest.
LEMMA FlatRanges ==
  ASSUME NEW c, Shaped(c), NEW n, DataRange(c, n) = "ok", Tag(c, n) \in {"DataOneOf", "DatatypeRestriction"}
  PROVE  Lower(c, n, 4)
<1>1. CASE Tag(c, n) = "DataOneOf"
  <2>1. Exact(c, n, 1) = "ok" /\ NodeSet(c, n, 1, 1) = "ok" /\ Each(c, n, 1, Literal) = "ok"
    BY <1>1 DEF DataRange, &&
  <2>2. HeldBelow(c, n, 1, 4)
    BY <2>1, MemberFields
  <2> QED
    BY <2>1, <2>2, Arities
<1>2. CASE Tag(c, n) = "DatatypeRestriction"
  <2>1. /\ Exact(c, n, 2) = "ok" /\ Named(c, Ref(c, n, 1), "datatype") = "ok"
        /\ NodeSet(c, n, 2, 1) = "ok" /\ Each(c, n, 2, FacetRestriction) = "ok"
    BY <1>2 DEF DataRange, &&
  <2>2. HeldBelow(c, n, 1, 4)
    BY <2>1, FieldSorts
  <2>3. HeldBelow(c, n, 2, 4)
    BY <2>1, MemberFields
  <2> QED
    BY <2>1, <2>2, <2>3, Arities
<1> QED
  BY <1>1, <1>2

\* Class expressions that do not nest.
LEMMA DataClasses ==
  ASSUME NEW c, Shaped(c), NEW n, DataClass(c, n) = "ok"
  PROVE  Lower(c, n, 6)
<1>1. CASE Tag(c, n) \in {"DataSomeValuesFrom", "DataAllValuesFrom"}
  <2>1. /\ Exact(c, n, 2) = "ok" /\ NodeSequence(c, n, 1, 1) = "ok"
        /\ Each(c, n, 1, NamedDataProperty) = "ok" /\ DataRange(c, Ref(c, n, 2)) = "ok"
    BY <1>1 DEF DataClass, &&
  <2>2. HeldBelow(c, n, 1, 6)
    BY <2>1, MemberFields
  <2>3. HeldBelow(c, n, 2, 6)
    BY <2>1, FieldSorts
  <2> QED
    BY <2>1, <2>2, <2>3, Arities
<1>2. CASE Tag(c, n) = "DataHasValue"
  <2>1. /\ Exact(c, n, 2) = "ok" /\ Named(c, Ref(c, n, 1), "data_property") = "ok"
        /\ Literal(c, Ref(c, n, 2)) = "ok"
    BY <1>2 DEF DataClass, NamedDataProperty, &&
  <2>2. HeldBelow(c, n, 1, 6) /\ HeldBelow(c, n, 2, 6)
    BY <2>1, FieldSorts
  <2> QED
    BY <2>1, <2>2, Arities
<1>3. CASE Tag(c, n) \notin {"DataSomeValuesFrom", "DataAllValuesFrom", "DataHasValue"}
  <2>1. /\ Exact(c, n, 3) = "ok" /\ CanonicalInteger(c, n, 1) = "ok"
        /\ Named(c, Ref(c, n, 2), "data_property") = "ok" /\ DataRange(c, Ref(c, n, 3)) = "ok"
    BY <1>3 DEF DataClass, NamedDataProperty, &&
  <2>2. HeldBelow(c, n, 1, 6)
    BY <2>1, DataFields
  <2>3. HeldBelow(c, n, 2, 6) /\ HeldBelow(c, n, 3, 6)
    BY <2>1, FieldSorts
  <2> QED
    BY <2>1, <2>2, <2>3, Arities
<1> QED
  BY <1>1, <1>2, <1>3

LEMMA FlatClasses ==
  ASSUME NEW c, Shaped(c), NEW n, ClassExpression(c, n) = "ok",
         Tag(c, n) \in DataClassTags \cup {"ObjectOneOf", "ObjectHasValue", "ObjectHasSelf"}
  PROVE  Lower(c, n, 6)
<1>1. Nonprojecting(c, n) = "ok"
  BY DEF ClassExpression, DataClassTags, AggregateTags, RestrictionTags
<1>2. CASE Tag(c, n) \in DataClassTags
  <2>1. DataClass(c, n) = "ok"
    BY <1>1, <1>2 DEF Nonprojecting, DataClassTags
  <2> QED
    BY <2>1, DataClasses
<1>3. CASE Tag(c, n) = "ObjectOneOf"
  <2>1. Exact(c, n, 1) = "ok" /\ NodeSet(c, n, 1, 1) = "ok" /\ Each(c, n, 1, Individual) = "ok"
    BY <1>1, <1>3 DEF Nonprojecting, DataClassTags, Each, FirstError, &&
  <2>2. HeldBelow(c, n, 1, 6)
    BY <2>1, MemberFields
  <2> QED
    BY <2>1, <2>2, Arities
<1>4. CASE Tag(c, n) = "ObjectHasValue"
  <2>1. /\ Exact(c, n, 2) = "ok" /\ ObjectPropertyExpression(c, Ref(c, n, 1)) = "ok"
        /\ Individual(c, Ref(c, n, 2)) = "ok"
    BY <1>1, <1>4 DEF Nonprojecting, DataClassTags, Each, FirstError, &&
  <2>2. HeldBelow(c, n, 1, 6) /\ HeldBelow(c, n, 2, 6)
    BY <2>1, FieldSorts
  <2> QED
    BY <2>1, <2>2, Arities
<1>5. CASE Tag(c, n) = "ObjectHasSelf"
  <2>1. Exact(c, n, 1) = "ok" /\ ObjectPropertyExpression(c, Ref(c, n, 1)) = "ok"
    BY <1>1, <1>5 DEF Nonprojecting, DataClassTags, Each, FirstError, &&
  <2>2. HeldBelow(c, n, 1, 6)
    BY <2>1, FieldSorts
  <2> QED
    BY <2>1, <2>2, Arities
<1> QED
  BY <1>2, <1>3, <1>4, <1>5

\* Atoms of rules.
LEMMA AtomNodes ==
  ASSUME NEW c, Shaped(c), NEW n, SwrlAtom(c, n, ClassVerdicts(c)) = "ok"
  PROVE  Lower(c, n, 8)
<1>1. CASE Tag(c, n) = "ClassAtom"
  <2>1. /\ Exact(c, n, 2) = "ok" /\ ClassVerdicts(c)[Ref(c, n, 1)] = "ok"
        /\ SwrlIndividual(c, Ref(c, n, 2)) = "ok"
    BY <1>1 DEF SwrlAtom, &&
  <2>2. ClassExpression(c, Ref(c, n, 1)) = "ok"
    BY <2>1, ClassFields
  <2>3. HeldBelow(c, n, 1, 8) /\ HeldBelow(c, n, 2, 8)
    BY <2>1, <2>2, FieldSorts
  <2> QED
    BY <2>1, <2>3, Arities
<1>2. CASE Tag(c, n) = "DataRangeAtom"
  <2>1. /\ Exact(c, n, 2) = "ok" /\ DataRange(c, Ref(c, n, 1)) = "ok"
        /\ SwrlData(c, Ref(c, n, 2)) = "ok"
    BY <1>2 DEF SwrlAtom, &&
  <2>2. HeldBelow(c, n, 1, 8) /\ HeldBelow(c, n, 2, 8)
    BY <2>1, FieldSorts
  <2> QED
    BY <2>1, <2>2, Arities
<1>3. CASE Tag(c, n) = "ObjectPropertyAtom"
  <2>1. /\ Exact(c, n, 3) = "ok" /\ ObjectPropertyExpression(c, Ref(c, n, 1)) = "ok"
        /\ SwrlIndividual(c, Ref(c, n, 2)) = "ok" /\ SwrlIndividual(c, Ref(c, n, 3)) = "ok"
    BY <1>3 DEF SwrlAtom, &&
  <2>2. HeldBelow(c, n, 1, 8) /\ HeldBelow(c, n, 2, 8) /\ HeldBelow(c, n, 3, 8)
    BY <2>1, FieldSorts
  <2> QED
    BY <2>1, <2>2, Arities
<1>4. CASE Tag(c, n) = "DataPropertyAtom"
  <2>1. /\ Exact(c, n, 3) = "ok" /\ Named(c, Ref(c, n, 1), "data_property") = "ok"
        /\ SwrlIndividual(c, Ref(c, n, 2)) = "ok" /\ SwrlData(c, Ref(c, n, 3)) = "ok"
    BY <1>4 DEF SwrlAtom, NamedDataProperty, &&
  <2>2. HeldBelow(c, n, 1, 8) /\ HeldBelow(c, n, 2, 8) /\ HeldBelow(c, n, 3, 8)
    BY <2>1, FieldSorts
  <2> QED
    BY <2>1, <2>2, Arities
<1>5. CASE Tag(c, n) = "BuiltInAtom"
  <2>1. /\ Exact(c, n, 2) = "ok" /\ Iri(c, Ref(c, n, 1)) = "ok"
        /\ NodeSequence(c, n, 2, 0) = "ok" /\ Each(c, n, 2, SwrlData) = "ok"
    BY <1>5 DEF SwrlAtom, &&
  <2>2. HeldBelow(c, n, 1, 8)
    BY <2>1, FieldSorts
  <2>3. HeldBelow(c, n, 2, 8)
    BY <2>1, MemberFields
  <2> QED
    BY <2>1, <2>2, <2>3, Arities
<1>6. CASE Tag(c, n) \notin {"ClassAtom", "DataRangeAtom", "ObjectPropertyAtom", "DataPropertyAtom",
                             "BuiltInAtom"}
  <2>1. /\ Exact(c, n, 2) = "ok"
        /\ SwrlIndividual(c, Ref(c, n, 1)) = "ok" /\ SwrlIndividual(c, Ref(c, n, 2)) = "ok"
    BY <1>6 DEF SwrlAtom, &&
  <2>2. HeldBelow(c, n, 1, 8) /\ HeldBelow(c, n, 2, 8)
    BY <2>1, FieldSorts
  <2> QED
    BY <2>1, <2>2, Arities
<1> QED
  BY <1>1, <1>2, <1>3, <1>4, <1>5, <1>6

\* Every child is lower, or a child of the walk the node is on.
Descent(c, n) ==
  \A m \in ChildSet(c, n) :
    \/ Height(Tag(c, m)) < Height(Tag(c, n))
    \/ \E walk \in Walks : OnWalk(c, walk, n) /\ m \in Kids(c, walk, n)

Nested(c, walk, n, i) ==
  \A m \in Held(c, n, i) :
    \/ Height(Tag(c, m)) < Height(Tag(c, n))
    \/ OnWalk(c, walk, m) /\ m \in ToSet(Listed(c, walk, n))

LEMMA WalkDescent ==
  ASSUME NEW c, Shaped(c), NEW walk \in Walks, NEW n, OnWalk(c, walk, n), Listed(c, walk, n) \in Seq(Nat),
         NEW arity \in Nat, Exact(c, n, arity) = "ok", \A i \in 1..arity : Nested(c, walk, n, i)
  PROVE  Descent(c, n)
<1>1. SUFFICES ASSUME NEW m \in ChildSet(c, n)
               PROVE  \/ Height(Tag(c, m)) < Height(Tag(c, n))
                      \/ m \in Kids(c, walk, n)
  BY DEF Descent
<1>2. PICK i \in 1..arity : m \in Held(c, n, i)
  BY <1>1, ChildrenHeld
<1>3. \/ Height(Tag(c, m)) < Height(Tag(c, n))
      \/ OnWalk(c, walk, m) /\ m \in ToSet(Listed(c, walk, n))
  BY <1>2 DEF Nested
<1> QED
  BY <1>3, ChildrenListed

LEMMA BelowNested ==
  ASSUME NEW c, NEW walk, NEW n, NEW i, HeldBelow(c, n, i, Height(Tag(c, n)))
  PROVE  Nested(c, walk, n, i)
BY DEF HeldBelow, Nested

\* A collection of which every member is lower or on the walk.
LEMMA ItemsNested ==
  ASSUME NEW c, Shaped(c), NEW walk, NEW n, NEW i \in Nat \ {0}, IsCollection(c, n, i),
         Listed(c, walk, n) = Items(c, n, i),
         NEW f, DOMAIN f = DOMAIN Items(c, n, i), Earliest(Tabulated(f)) = "ok",
         \A j \in DOMAIN Items(c, n, i) :
            f[j] = "ok" => \/ Height(Tag(c, Items(c, n, i)[j])) < Height(Tag(c, n))
                           \/ OnWalk(c, walk, Items(c, n, i)[j])
  PROVE  Listed(c, walk, n) \in Seq(Nat) /\ Nested(c, walk, n, i)
<1>1. /\ Items(c, n, i) \in Seq(Nat) /\ DOMAIN Items(c, n, i) \subseteq Nat
      /\ \A m \in Held(c, n, i) : \E j \in DOMAIN Items(c, n, i) : Items(c, n, i)[j] = m
  BY HeldItems DEF IsCollection
<1>2. \A j \in DOMAIN Items(c, n, i) : f[j] = "ok"
  BY <1>1, LoopOk
<1>3. \A j \in DOMAIN Items(c, n, i) : Items(c, n, i)[j] \in ToSet(Items(c, n, i))
  BY DEF ToSet
<1> QED
  BY <1>1, <1>2, <1>3 DEF Nested

\* A reference that is lower or on the walk.
LEMMA RefNested ==
  ASSUME NEW c, Shaped(c), NEW walk, NEW n, NEW i, Listed(c, walk, n) = <<Ref(c, n, i)>>, Ref(c, n, i) # 0,
         Height(Tag(c, Ref(c, n, i))) < Height(Tag(c, n)) \/ OnWalk(c, walk, Ref(c, n, i))
  PROVE  Listed(c, walk, n) \in Seq(Nat) /\ Nested(c, walk, n, i)
<1>1. PICK m : m = Ref(c, n, i)
  OBVIOUS
<1>2. Held(c, n, i) = {m} /\ m \in Nodes(c)
  BY <1>1, HeldNode
<1>3. m \in Nat
  BY <1>2 DEF Nodes, Shaped
<1>4. Listed(c, walk, n) = <<m>>
  BY <1>1
<1>5. m \in ToSet(<<m>>)
  <2>1. 1 \in DOMAIN <<m>> /\ <<m>>[1] = m
    OBVIOUS
  <2> QED
    BY <2>1 DEF ToSet
<1> QED
  BY <1>1, <1>2, <1>3, <1>4, <1>5 DEF Nested

LEMMA WalkHeights ==
  ASSUME NEW c, NEW m
  PROVE  /\ OnWalk(c, "annotation", m) <=> Tag(c, m) = "Annotation"
         /\ OnWalk(c, "data", m) <=> Tag(c, m) \in RecursiveDataRangeTags
         /\ OnWalk(c, "class", m) <=> Tag(c, m) \in RecursiveClassTags
         /\ OnWalk(c, "annotation", m) => Height(Tag(c, m)) = 3
         /\ OnWalk(c, "data", m) => Height(Tag(c, m)) = 5
         /\ OnWalk(c, "class", m) => Height(Tag(c, m)) = 7
         /\ Tag(c, m) \in {"Entity"} \cup DataRangeTags => Height(Tag(c, m)) < 5 \/ OnWalk(c, "data", m)
         /\ Tag(c, m) \in {"Entity"} \cup ClassExpressionTags => Height(Tag(c, m)) < 7 \/ OnWalk(c, "class", m)
<1>1. /\ OnWalk(c, "annotation", m) <=> Tag(c, m) = "Annotation"
      /\ OnWalk(c, "data", m) <=> Tag(c, m) \in RecursiveDataRangeTags
      /\ OnWalk(c, "class", m) <=> Tag(c, m) \in RecursiveClassTags
  BY DEF OnWalk, WalkTags
<1> QED
  BY <1>1, Heights, TagSets

LEMMA AnnotationNode ==
  ASSUME NEW c, Shaped(c), NEW n, Tag(c, n) = "Annotation", Annotation(c, n) = "ok"
  PROVE  Listed(c, "annotation", n) \in Seq(Nat) /\ Descent(c, n)
<1> DEFINE f == [j \in DOMAIN Items(c, n, 3) |-> Need(Tag(c, Items(c, n, 3)[j]) = "Annotation")]
<1>1. /\ Exact(c, n, 3) = "ok" /\ Named(c, Ref(c, n, 1), "annotation_property") = "ok"
      /\ MetadataValue(c, Ref(c, n, 2)) = "ok"
      /\ NodeSet(c, n, 3, 0) = "ok" /\ Earliest(Tabulated(f)) = "ok"
  BY DEF Annotation, NamedAnnotationProperty, AnnotationSet, Each, FirstError, &&
<1>2. OnWalk(c, "annotation", n) /\ Height(Tag(c, n)) = 3
  BY WalkHeights
<1>3. HeldBelow(c, n, 1, 3) /\ HeldBelow(c, n, 2, 3)
  BY <1>1, FieldSorts
<1>4. Listed(c, "annotation", n) = Items(c, n, 3)
  BY DEF Listed, AnnotationChildren
<1>5. \A j \in DOMAIN Items(c, n, 3) : f[j] = "ok" => OnWalk(c, "annotation", Items(c, n, 3)[j])
  BY WalkHeights DEF Need
<1>6. DOMAIN f = DOMAIN Items(c, n, 3)
  OBVIOUS
<1> HIDE DEF f
<1>7. Listed(c, "annotation", n) \in Seq(Nat) /\ Nested(c, "annotation", n, 3)
  BY <1>1, <1>4, <1>5, <1>6, Collections, ItemsNested
<1>8. Nested(c, "annotation", n, 1) /\ Nested(c, "annotation", n, 2)
  BY <1>2, <1>3, BelowNested
<1>9. \A i \in 1..3 : Nested(c, "annotation", n, i)
  <2>1. \A i \in 1..3 : i = 1 \/ i = 2 \/ i = 3
    OBVIOUS
  <2> QED
    BY <1>7, <1>8, <2>1
<1>10. "annotation" \in Walks
  BY DEF Walks
<1> QED
  BY <1>1, <1>2, <1>7, <1>9, <1>10, WalkDescent

LEMMA DataRangeNode ==
  ASSUME NEW c, Shaped(c), NEW n, OnWalk(c, "data", n), DataRange(c, n) = "ok"
  PROVE  Listed(c, "data", n) \in Seq(Nat) /\ Descent(c, n)
<1>1. Height(Tag(c, n)) = 5 /\ Tag(c, n) \in RecursiveDataRangeTags
  BY WalkHeights
<1>2. SUFFICES Exact(c, n, 1) = "ok" /\ Listed(c, "data", n) \in Seq(Nat) /\ Nested(c, "data", n, 1)
  <2>1. \A i \in 1..1 : i = 1
    OBVIOUS
  <2>2. "data" \in Walks
    BY DEF Walks
  <2> QED
    BY <2>1, <2>2, WalkDescent
<1>3. CASE Tag(c, n) = "DataComplementOf"
  <2>1. Exact(c, n, 1) = "ok" /\ DataRangeReference(c, Ref(c, n, 1)) = "ok"
    BY <1>3 DEF DataRange, &&
  <2>2. Listed(c, "data", n) = <<Ref(c, n, 1)>>
    BY <1>3 DEF Listed, DataRangeChildren
  <2>3. Tag(c, Ref(c, n, 1)) \in {"Entity"} \cup DataRangeTags
    BY <2>1, SortHeights
  <2>4. Ref(c, n, 1) # 0
    BY <2>3, AbsentNode DEF DataRangeTags, RecursiveDataRangeTags
  <2>5. Height(Tag(c, Ref(c, n, 1))) < Height(Tag(c, n)) \/ OnWalk(c, "data", Ref(c, n, 1))
    BY <1>1, <2>3, WalkHeights
  <2> QED
    BY <2>1, <2>2, <2>4, <2>5, RefNested
<1>4. CASE Tag(c, n) \in {"DataIntersectionOf", "DataUnionOf"}
  <2> DEFINE f == [j \in DOMAIN Items(c, n, 1) |->
                     Need(Tag(c, Items(c, n, 1)[j]) # Tag(c, n)) && DataRangeReference(c, Items(c, n, 1)[j])]
  <2>1. Exact(c, n, 1) = "ok" /\ NodeSet(c, n, 1, 2) = "ok" /\ Earliest(Tabulated(f)) = "ok"
    BY <1>4 DEF DataRange, Each, FirstError, &&
  <2>2. Listed(c, "data", n) = Items(c, n, 1)
    BY <1>4 DEF Listed, DataRangeChildren
  <2>3. ASSUME NEW j \in DOMAIN Items(c, n, 1), f[j] = "ok"
        PROVE  \/ Height(Tag(c, Items(c, n, 1)[j])) < Height(Tag(c, n))
               \/ OnWalk(c, "data", Items(c, n, 1)[j])
    <3>1. DataRangeReference(c, Items(c, n, 1)[j]) = "ok"
      BY <2>3 DEF &&, Need
    <3> QED
      BY <1>1, <3>1, SortHeights, WalkHeights
  <2>4. DOMAIN f = DOMAIN Items(c, n, 1)
    OBVIOUS
  <2> HIDE DEF f
  <2>5. Listed(c, "data", n) \in Seq(Nat) /\ Nested(c, "data", n, 1)
    BY <2>1, <2>2, <2>3, <2>4, Collections, ItemsNested
  <2> QED
    BY <2>1, <2>5
<1> QED
  BY <1>1, <1>3, <1>4 DEF RecursiveDataRangeTags

LEMMA ClassNode ==
  ASSUME NEW c, Shaped(c), NEW n, OnWalk(c, "class", n), ClassExpression(c, n) = "ok"
  PROVE  Listed(c, "class", n) \in Seq(Nat) /\ Descent(c, n)
<1>1. Height(Tag(c, n)) = 7 /\ Tag(c, n) \in RecursiveClassTags
  BY WalkHeights
<1>2. "class" \in Walks
  BY DEF Walks
<1>3. CASE Tag(c, n) \in AggregateTags
  <2> DEFINE f == [j \in DOMAIN Items(c, n, 1) |-> AggregateOperand(c, Items(c, n, 1)[j], Tag(c, n))]
  <2>1. Aggregate(c, n) = "ok"
    BY <1>3 DEF ClassExpression, AggregateTags, RestrictionTags
  <2>2. Exact(c, n, 1) = "ok" /\ NodeSet(c, n, 1, 2) = "ok" /\ Earliest(Tabulated(f)) = "ok"
    BY <2>1 DEF Aggregate, Each, FirstError, &&
  <2>3. Listed(c, "class", n) = Items(c, n, 1)
    BY <1>3 DEF Listed, ClassChildren
  <2>4. ASSUME NEW m, AggregateOperand(c, m, Tag(c, n)) = "ok"
        PROVE  Tag(c, m) \in {"Entity"} \cup ClassExpressionTags
    <3>1. Unexpected(c, m) # "ok"
      BY DEF Unexpected
    <3> QED
      BY <2>4, <3>1 DEF AggregateOperand, ClassExpressionTags
  <2>5. \A j \in DOMAIN Items(c, n, 1) : f[j] = "ok" =>
           \/ Height(Tag(c, Items(c, n, 1)[j])) < Height(Tag(c, n))
           \/ OnWalk(c, "class", Items(c, n, 1)[j])
    BY <1>1, <2>4, WalkHeights
  <2>6. DOMAIN f = DOMAIN Items(c, n, 1)
    OBVIOUS
  <2> HIDE DEF f
  <2>7. Listed(c, "class", n) \in Seq(Nat) /\ Nested(c, "class", n, 1)
    BY <2>2, <2>3, <2>5, <2>6, Collections, ItemsNested
  <2>8. \A i \in 1..1 : i = 1
    OBVIOUS
  <2> QED
    BY <1>2, <2>2, <2>7, <2>8, WalkDescent
<1>4. ASSUME NEW i, Tag(c, n) \notin AggregateTags, SingleChild(c, n) = Ref(c, n, i),
             Tag(c, Ref(c, n, i)) \in {"Entity"} \cup ClassExpressionTags
      PROVE  Listed(c, "class", n) \in Seq(Nat) /\ Nested(c, "class", n, i)
  <2>1. Listed(c, "class", n) = <<Ref(c, n, i)>>
    BY <1>4 DEF Listed, ClassChildren
  <2>2. Ref(c, n, i) # 0
    <3>1. "absent" \notin {"Entity"} \cup ClassExpressionTags
      BY DEF ClassExpressionTags, AggregateTags, RestrictionTags, NonprojectingTags, DataClassTags
    <3> QED
      BY <1>4, <3>1, AbsentNode
  <2>3. Height(Tag(c, Ref(c, n, i))) < Height(Tag(c, n)) \/ OnWalk(c, "class", Ref(c, n, i))
    BY <1>1, <1>4, WalkHeights
  <2> QED
    BY <2>1, <2>2, <2>3, RefNested
<1>5. CASE Tag(c, n) = "ObjectComplementOf"
  <2>1. Exact(c, n, 1) = "ok" /\ ClassReference(c, Ref(c, n, 1)) = "ok"
    BY <1>5 DEF ClassExpression, Nonprojecting, AggregateTags, RestrictionTags, DataClassTags, &&
  <2>2. SingleChild(c, n) = Ref(c, n, 1) /\ Tag(c, n) \notin AggregateTags
    BY <1>5 DEF SingleChild, AggregateTags
  <2>3. Listed(c, "class", n) \in Seq(Nat) /\ Nested(c, "class", n, 1)
    BY <1>4, <2>1, <2>2, SortHeights
  <2>4. \A i \in 1..1 : i = 1
    OBVIOUS
  <2> QED
    BY <1>2, <2>1, <2>3, <2>4, WalkDescent
<1>6. CASE Tag(c, n) \in {"ObjectSomeValuesFrom", "ObjectAllValuesFrom"}
  <2>1. Restriction(c, n) = "ok" /\ PropertyField(c, n) = 1
    BY <1>6 DEF ClassExpression, AggregateTags, RestrictionTags, PropertyField
  <2>2. /\ Exact(c, n, 2) = "ok" /\ ObjectPropertyExpression(c, Ref(c, n, 1)) = "ok"
        /\ ClassReference(c, Ref(c, n, 2)) = "ok"
    BY <1>6, <2>1 DEF Restriction, RestrictionTags, &&
  <2>3. SingleChild(c, n) = Ref(c, n, 2) /\ Tag(c, n) \notin AggregateTags
    BY <1>6 DEF SingleChild, AggregateTags
  <2>4. Listed(c, "class", n) \in Seq(Nat) /\ Nested(c, "class", n, 2)
    BY <1>4, <2>2, <2>3, SortHeights
  <2>5. HeldBelow(c, n, 1, 7)
    BY <2>2, FieldSorts
  <2>6. Nested(c, "class", n, 1)
    BY <1>1, <2>5, BelowNested
  <2>7. \A i \in 1..2 : i = 1 \/ i = 2
    OBVIOUS
  <2> QED
    BY <1>2, <2>2, <2>4, <2>6, <2>7, WalkDescent
<1>7. CASE Tag(c, n) \in {"ObjectMinCardinality", "ObjectMaxCardinality", "ObjectExactCardinality"}
  <2>1. /\ Exact(c, n, 3) = "ok" /\ CanonicalInteger(c, n, 1) = "ok"
        /\ ObjectPropertyExpression(c, Ref(c, n, 2)) = "ok" /\ ClassReference(c, Ref(c, n, 3)) = "ok"
    <3>1. CASE Tag(c, n) = "ObjectExactCardinality"
      BY <3>1 DEF ClassExpression, Nonprojecting, AggregateTags, RestrictionTags, DataClassTags, &&
    <3>2. CASE Tag(c, n) \in {"ObjectMinCardinality", "ObjectMaxCardinality"}
      <4>1. Restriction(c, n) = "ok" /\ PropertyField(c, n) = 2
        BY <3>2 DEF ClassExpression, AggregateTags, RestrictionTags, PropertyField
      <4> QED
        BY <3>2, <4>1 DEF Restriction, RestrictionTags, &&
    <3> QED
      BY <1>7, <3>1, <3>2
  <2>2. SingleChild(c, n) = Ref(c, n, 3) /\ Tag(c, n) \notin AggregateTags
    BY <1>7 DEF SingleChild, AggregateTags
  <2>3. Listed(c, "class", n) \in Seq(Nat) /\ Nested(c, "class", n, 3)
    BY <1>4, <2>1, <2>2, SortHeights
  <2>4. HeldBelow(c, n, 1, 7) /\ HeldBelow(c, n, 2, 7)
    BY <2>1, FieldSorts, DataFields
  <2>5. Nested(c, "class", n, 1) /\ Nested(c, "class", n, 2)
    BY <1>1, <2>4, BelowNested
  <2>6. \A i \in 1..3 : i = 1 \/ i = 2 \/ i = 3
    OBVIOUS
  <2> QED
    BY <1>2, <2>1, <2>3, <2>5, <2>6, WalkDescent
<1> QED
  BY <1>1, <1>3, <1>5, <1>6, <1>7 DEF RecursiveClassTags, RestrictionTags

LEMMA LowerDescends ==
  ASSUME NEW c, NEW n, Lower(c, n, Height(Tag(c, n)))
  PROVE  Descent(c, n)
BY DEF Lower, Descent

LEMMA AxiomHeights ==
  /\ \A t \in AxiomTags : Height(t) = 9
  /\ \A t \in AxiomTags : \A walk \in Walks : t \notin WalkTags(walk)
<1>1. \A t \in AxiomTags :
        t \notin {"IRI", "AnonymousIndividual", "Entity", "Literal", "ObjectInverseOf", "Variable", "Annotation",
                  "FacetRestriction", "ObjectPropertyChain", "DataOneOf", "DatatypeRestriction",
                  "ObjectOneOf", "ObjectHasValue", "ObjectHasSelf"}
                 \cup RecursiveDataRangeTags \cup DataClassTags \cup RecursiveClassTags \cup SwrlAtomTags
  BY DEF AxiomTags, ClassAxiomTags, PropertyAxiomTags, OtherAxiomTags, CharacteristicTags,
         RecursiveDataRangeTags, DataClassTags, RecursiveClassTags, AggregateTags, RestrictionTags, SwrlAtomTags
<1>2. \A t \in AxiomTags : Height(t) = 9
  BY <1>1 DEF Height
<1>3. \A t \in AxiomTags : \A walk \in Walks : t \notin WalkTags(walk)
  BY <1>1 DEF Walks, WalkTags
<1> QED
  BY <1>2, <1>3

\* The checks of the axioms, one method for each.
LEMMA AxiomDescends ==
  ASSUME NEW c, Shaped(c), NEW n, ValidateAxiom(c, n, ClassVerdicts(c)) = "ok"
  PROVE  Tag(c, n) \in AxiomTags /\ Descent(c, n)
<1>1. PICK class : class = ClassVerdicts(c)
  OBVIOUS
<1>2. PICK t : t = Tag(c, n)
  OBVIOUS
<1>3. Unexpected(c, n) # "ok"
  BY DEF Unexpected
<1>4. t \in AxiomTags
  <2> SUFFICES ASSUME t \notin AxiomTags PROVE FALSE
    OBVIOUS
  <2>1. t \notin ClassAxiomTags /\ t \notin PropertyAxiomTags /\ t \notin OtherAxiomTags /\ t # "SWRLRule"
    BY DEF AxiomTags
  <2>2. ValidateAxiom(c, n, class) = Unexpected(c, n)
    BY <1>2, <2>1 DEF ValidateAxiom, ClassAxiomTags, PropertyAxiomTags, OtherAxiomTags, CharacteristicTags
  <2> QED
    BY <1>1, <1>3, <2>2
<1>5. ASSUME t \in ClassAxiomTags PROVE Lower(c, n, 9)
  <2>1. \/ Declaration(c, n) = "ok" \/ SubClassOf(c, n, class) = "ok" \/ ClassSetAxiom(c, n, class) = "ok"
        \/ DisjointUnion(c, n, class) = "ok" \/ HasKey(c, n, class) = "ok" \/ ClassAssertion(c, n, class) = "ok"
    BY <1>1, <1>2, <1>5 DEF ValidateAxiom, ClassAxiomTags, CharacteristicTags
  <2> QED
    BY <1>1, <2>1, ClassAxioms
<1>6. ASSUME t \in PropertyAxiomTags PROVE Lower(c, n, 9)
  <2>1. \/ SubObjectPropertyOf(c, n) = "ok" \/ RoleAxiomParts(c, n) = "ok" \/ ObjectPropertySet(c, n) = "ok"
        \/ ObjectPropertyClass(c, n, class) = "ok" \/ ObjectPropertyCharacteristic(c, n) = "ok"
        \/ ObjectPropertyAssertion(c, n) = "ok" \/ NegativeObjectPropertyAssertion(c, n) = "ok"
        \/ BinaryDataProperty(c, n) = "ok" \/ DataPropertySet(c, n) = "ok"
        \/ DataPropertyDomain(c, n, class) = "ok" \/ DataPropertyRange(c, n) = "ok"
        \/ FunctionalDataProperty(c, n) = "ok" \/ DatatypeDefinition(c, n) = "ok"
        \/ DataPropertyAssertion(c, n) = "ok"
    BY <1>1, <1>2, <1>6 DEF ValidateAxiom, PropertyAxiomTags, CharacteristicTags
  <2> QED
    BY <1>1, <2>1, ObjectPropertyAxioms, DataPropertyAxioms, PropertyAxioms
<1>7. ASSUME t \in OtherAxiomTags \cup {"SWRLRule"} PROVE Lower(c, n, 9)
  <2>1. \/ IndividualSet(c, n) = "ok" \/ AnnotationAssertion(c, n) = "ok" \/ SubAnnotationPropertyOf(c, n) = "ok"
        \/ AnnotationPropertyIri(c, n) = "ok" \/ SwrlRule(c, n) = "ok"
    BY <1>1, <1>2, <1>7 DEF ValidateAxiom, OtherAxiomTags, CharacteristicTags
  <2> QED
    BY <2>1, OtherAxioms, PropertyAxioms
<1>8. Lower(c, n, 9)
  BY <1>4, <1>5, <1>6, <1>7 DEF AxiomTags
<1>9. Height(Tag(c, n)) = 9
  BY <1>2, <1>4, AxiomHeights
<1> QED
  BY <1>2, <1>4, <1>8, <1>9, LowerDescends

\* The checks of everything else.
LEMMA ExpressionDescends ==
  ASSUME NEW c, Shaped(c), NEW n \in Nodes(c), Tag(c, n) \in SchemaTags \ AxiomTags,
         ValidateExpression(c, n, ClassVerdicts(c)) = "ok"
  PROVE  /\ Descent(c, n)
         /\ \A walk \in Walks : OnWalk(c, walk, n) => Listed(c, walk, n) \in Seq(Nat)
<1>1. PICK class : class = ClassVerdicts(c)
  OBVIOUS
<1>2. PICK t : t = Tag(c, n)
  OBVIOUS
<1>3. class[n] = ClassExpression(c, n)
  BY <1>1, VerdictAt
<1>4. \/ t = "IRI" /\ Iri(c, n) = "ok"
      \/ t = "Entity" /\ Entity(c, n) = "ok" /\ Iri(c, Ref(c, n, 2)) = "ok"
      \/ t = "AnonymousIndividual" /\ Anonymous(c, n) = "ok"
      \/ t = "Literal" /\ Literal(c, n) = "ok"
      \/ t = "Annotation" /\ Annotation(c, n) = "ok"
      \/ t = "ObjectInverseOf" /\ ObjectInverse(c, n) = "ok"
      \/ t = "ObjectPropertyChain" /\ ObjectPropertyChain(c, n) = "ok"
      \/ t = "FacetRestriction" /\ FacetRestriction(c, n) = "ok"
      \/ t \in DataRangeTags /\ DataRange(c, n) = "ok"
      \/ t \in ClassExpressionTags /\ ClassExpression(c, n) = "ok"
      \/ t = "Variable" /\ Variable(c, n) = "ok"
      \/ t \in SwrlAtomTags /\ SwrlAtom(c, n, class) = "ok"
  <2> DEFINE simple == {"IRI", "Entity", "AnonymousIndividual", "Literal", "Annotation", "ObjectInverseOf",
                        "ObjectPropertyChain", "FacetRestriction", "Variable"}
  <2>1. t \in simple \cup DataRangeTags \cup ClassExpressionTags \cup SwrlAtomTags
    BY <1>2 DEF SchemaTags, AxiomTags
  <2>2. /\ \A x \in DataRangeTags : x \notin simple
        /\ \A x \in ClassExpressionTags : x \notin simple /\ x \notin DataRangeTags
        /\ \A x \in SwrlAtomTags : x \notin simple /\ x \notin DataRangeTags /\ x \notin ClassExpressionTags
    BY DEF DataRangeTags, RecursiveDataRangeTags, ClassExpressionTags, AggregateTags, RestrictionTags,
           NonprojectingTags, DataClassTags, SwrlAtomTags
  <2> QED
    BY <1>1, <1>2, <1>3, <2>1, <2>2 DEF ValidateExpression, &&
<1>5. OnWalk(c, "annotation", n) => Annotation(c, n) = "ok" /\ t = "Annotation"
  BY <1>2, <1>4, WalkHeights
     DEF DataRangeTags, RecursiveDataRangeTags, ClassExpressionTags, AggregateTags, RestrictionTags,
         NonprojectingTags, DataClassTags, SwrlAtomTags
<1>6. OnWalk(c, "data", n) => DataRange(c, n) = "ok"
  BY <1>2, <1>4, WalkHeights
     DEF DataRangeTags, RecursiveDataRangeTags, ClassExpressionTags, AggregateTags, RestrictionTags,
         NonprojectingTags, DataClassTags, SwrlAtomTags
<1>7. OnWalk(c, "class", n) => ClassExpression(c, n) = "ok"
  BY <1>2, <1>4, WalkHeights
     DEF DataRangeTags, RecursiveDataRangeTags, RecursiveClassTags, AggregateTags, RestrictionTags, SwrlAtomTags
<1>8. \A walk \in Walks : OnWalk(c, walk, n) => Listed(c, walk, n) \in Seq(Nat)
  BY <1>2, <1>5, <1>6, <1>7, AnnotationNode, DataRangeNode, ClassNode DEF Walks
<1>9. Descent(c, n)
  <2>1. CASE OnWalk(c, "annotation", n) \/ OnWalk(c, "data", n) \/ OnWalk(c, "class", n)
    BY <1>2, <1>5, <1>6, <1>7, <2>1, AnnotationNode, DataRangeNode, ClassNode
  <2>2. CASE ~OnWalk(c, "annotation", n) /\ ~OnWalk(c, "data", n) /\ ~OnWalk(c, "class", n)
    <3>1. t # "Annotation" /\ t \notin RecursiveDataRangeTags /\ t \notin RecursiveClassTags
      BY <1>2, <2>2, WalkHeights
    <3>2. CASE t \in DataRangeTags /\ DataRange(c, n) = "ok"
      <4>1. t \in {"DataOneOf", "DatatypeRestriction"}
        BY <3>1, <3>2 DEF DataRangeTags
      <4> QED
        BY <1>2, <3>2, <4>1, FlatRanges, Heights, LowerDescends
    <3>3. CASE t \in ClassExpressionTags /\ ClassExpression(c, n) = "ok"
      <4>1. t \in DataClassTags \cup {"ObjectOneOf", "ObjectHasValue", "ObjectHasSelf"}
        BY <3>1, <3>3, TagSets
      <4> QED
        BY <1>2, <3>3, <4>1, FlatClasses, Heights, LowerDescends
    <3>4. CASE t \in SwrlAtomTags /\ SwrlAtom(c, n, class) = "ok"
      BY <1>1, <1>2, <3>4, AtomNodes, Heights, LowerDescends
    <3>5. CASE t \in {"FacetRestriction", "ObjectPropertyChain"}
      <4>1. Height(t) = 3
        BY <3>5, Heights
      <4>2. FacetRestriction(c, n) = "ok" \/ ObjectPropertyChain(c, n) = "ok"
        BY <1>4, <3>5 DEF DataRangeTags, RecursiveDataRangeTags, ClassExpressionTags, AggregateTags,
                          RestrictionTags, NonprojectingTags, DataClassTags, SwrlAtomTags
      <4> QED
        BY <1>2, <4>1, <4>2, FlatNodes, LowerDescends
    <3>6. CASE t \in {"IRI", "AnonymousIndividual"} /\ (Iri(c, n) = "ok" \/ Anonymous(c, n) = "ok")
      BY <1>2, <3>6, LeafNodes, Heights, LowerDescends
    <3>7. CASE t = "Entity" /\ Entity(c, n) = "ok" /\ Iri(c, Ref(c, n, 2)) = "ok"
      BY <1>2, <3>7, LeafNodes, Heights, LowerDescends
    <3>8. CASE /\ t \in {"Literal", "ObjectInverseOf", "Variable"}
               /\ Literal(c, n) = "ok" \/ ObjectInverse(c, n) = "ok" \/ Variable(c, n) = "ok"
      BY <1>2, <3>8, LeafNodes, Heights, LowerDescends
    <3> QED
      BY <1>4, <3>1, <3>2, <3>3, <3>4, <3>5, <3>6, <3>7, <3>8
  <2> QED
    BY <2>1, <2>2
<1> QED
  BY <1>8, <1>9

LEMMA NodeDescends ==
  ASSUME NEW c, Shaped(c), NEW n \in Nodes(c), ValidateNode(c, n, ClassVerdicts(c)) = "ok"
  PROVE  /\ Descent(c, n)
         /\ \A walk \in Walks : OnWalk(c, walk, n) => Listed(c, walk, n) \in Seq(Nat)
<1>1. PICK class : class = ClassVerdicts(c)
  OBVIOUS
<1>2. CASE Tag(c, n) \in SchemaTags \ AxiomTags
  <2>1. ValidateExpression(c, n, class) = "ok"
    BY <1>1, <1>2 DEF ValidateNode
  <2> QED
    BY <1>1, <1>2, <2>1, ExpressionDescends
<1>3. CASE ~(Tag(c, n) \in SchemaTags \ AxiomTags)
  <2>1. ValidateAxiom(c, n, class) = "ok"
    BY <1>1, <1>3 DEF ValidateNode
  <2>2. Tag(c, n) \in AxiomTags /\ Descent(c, n)
    BY <1>1, <2>1, AxiomDescends
  <2> QED
    BY <2>2, AxiomHeights DEF OnWalk
<1> QED
  BY <1>2, <1>3

\* validate_supported_nodes up to its walks: every reference goes down or along a walk.
LEMMA NodesDescend ==
  ASSUME NEW c, Shaped(c), ValidateNodes(c) = "ok"
  PROVE  Walkable(c) /\ \A n \in Nodes(c) : Descent(c, n)
<1>1. PICK class : class = ClassVerdicts(c)
  OBVIOUS
<1> DEFINE s == [n \in Nodes(c) |-> n]
           f == [i \in DOMAIN s |-> ValidateNode(c, s[i], class)]
<1>2. Earliest(Tabulated(f)) = "ok"
  BY <1>1 DEF ValidateNodes, CheckEach, FirstError
<1>3. DOMAIN f = Nodes(c) /\ Nodes(c) \subseteq Nat
  BY DEF Nodes
<1>4. \A n \in Nodes(c) : f[n] = ValidateNode(c, n, class)
  OBVIOUS
<1> HIDE DEF f
<1>5. \A n \in Nodes(c) : f[n] = "ok"
  BY <1>2, <1>3, LoopOk
<1>6. \A n \in Nodes(c) : ValidateNode(c, n, class) = "ok"
  BY <1>4, <1>5
<1>7. \A n \in Nodes(c) : /\ Descent(c, n)
                          /\ \A walk \in Walks : OnWalk(c, walk, n) => Listed(c, walk, n) \in Seq(Nat)
  BY <1>1, <1>6, NodeDescends
<1> QED
  BY <1>7 DEF Walkable, On

\* Each walk has a height of its own, and its references stay on it.
LEMMA WalkLevels ==
  ASSUME NEW c, NEW v \in Walks, NEW w \in Walks, NEW m, NEW n, OnWalk(c, v, m), OnWalk(c, w, n)
  PROVE  v = w <=> Height(Tag(c, m)) = Height(Tag(c, n))
BY WalkHeights DEF Walks

\* No cycle on a walk, none in the table: the lowest nodes of a cycle are on one walk.
LEMMA NoCycleAtAll ==
  ASSUME NEW c, Shaped(c), Walkable(c), \A n \in Nodes(c) : Descent(c, n),
         \A walk \in Walks : \A T \in SUBSET On(c, walk) :
            T # {} => \E n \in T : Kids(c, walk, n) \cap T = {}
  PROVE  NoCycle(Nodes(c), [n \in Nodes(c) |-> ChildSet(c, n)])
<1> DEFINE successors == [n \in Nodes(c) |-> ChildSet(c, n)]
<1>1. IsFiniteSet(Nodes(c))
  <2>1. NodeCount(c) \in Nat /\ Nodes(c) \in SUBSET (1..NodeCount(c))
    BY DEF Nodes, Shaped
  <2> QED
    BY <2>1, PlacesFinite
<1>2. ASSUME NEW T \in SUBSET Nodes(c), T # {} PROVE HasSink(T, successors)
  <2>1. SUFFICES ASSUME \A n \in T : ChildSet(c, n) \cap T # {} PROVE FALSE
    BY DEF HasSink
  <2> DEFINE high(n) == Height(Tag(c, n))
             H == { high(n) : n \in T }
  <2>2. \A n : high(n) \in Nat
    BY Heights
  <2> HIDE DEF high
  <2>3. H \in SUBSET Nat /\ H # {}
    BY <1>2, <2>2
  <2>4. PICK k \in H : \A x \in H : k <= x
    <3> HIDE DEF H
    <3> QED
      BY <2>3, NatMinimum
  <2>5. k \in Nat /\ \A n \in T : k <= high(n)
    BY <2>3, <2>4
  <2>6. PICK U : U = { n \in T : high(n) = k }
    OBVIOUS
  <2>7. U # {} /\ U \subseteq T
    BY <2>4, <2>6
  <2>8. ASSUME NEW n \in U
        PROVE  \E walk \in Walks : \E m \in U :
                  OnWalk(c, walk, n) /\ OnWalk(c, walk, m) /\ m \in Kids(c, walk, n)
    <3>1. n \in T /\ high(n) = k /\ n \in Nodes(c)
      BY <1>2, <2>6
    <3>2. PICK m \in T : m \in ChildSet(c, n)
      BY <2>1, <3>1
    <3>3. \/ high(m) < high(n)
          \/ \E walk \in Walks : OnWalk(c, walk, n) /\ m \in Kids(c, walk, n)
      BY <3>1, <3>2 DEF Descent, high
    <3>4. ~(high(m) < high(n))
      BY <2>2, <2>5, <3>1, <3>2
    <3>5. PICK walk \in Walks : OnWalk(c, walk, n) /\ m \in Kids(c, walk, n)
      BY <3>3, <3>4
    <3>6. Listed(c, walk, n) \in Seq(Nat)
      BY <3>1, <3>5 DEF Walkable, On
    <3>7. OnWalk(c, walk, m)
      BY <3>5, <3>6, ChildrenListed
    <3>8. high(m) = high(n)
      BY <3>5, <3>7, WalkLevels DEF high
    <3> QED
      BY <2>6, <3>1, <3>2, <3>5, <3>7, <3>8
  <2>9. PICK n0 \in U, w \in Walks : OnWalk(c, w, n0)
    BY <2>7, <2>8
  <2>10. \A n \in U : OnWalk(c, w, n) /\ \E m \in U : m \in Kids(c, w, n)
    <3> SUFFICES ASSUME NEW n \in U PROVE OnWalk(c, w, n) /\ \E m \in U : m \in Kids(c, w, n)
      OBVIOUS
    <3>1. PICK v \in Walks : OnWalk(c, v, n) /\ \E m \in U : m \in Kids(c, v, n)
      BY <2>8
    <3>2. high(n) = high(n0)
      BY <2>6, <2>9
    <3>3. v = w
      BY <2>9, <3>1, <3>2, WalkLevels DEF high
    <3> QED
      BY <3>1, <3>3
  <2>11. U \in SUBSET On(c, w)
    BY <1>2, <2>7, <2>10 DEF On
  <2> QED
    BY <2>7, <2>9, <2>10, <2>11
<1> HIDE DEF successors
<1>3. NoCycle(Nodes(c), successors)
  BY <1>1, <1>2, SinksPeel
<1> QED
  BY <1>3 DEF successors

-----------------------------------------------------------------------------
(* The theorems                                                            *)

LEMMA ColumnsWalkable ==
  ASSUME Checked, stage \notin {"generic", "nodes"}
  PROVE  Shaped(columns) /\ Walkable(columns) /\ \A n \in Nodes(columns) : Descent(columns, n)
<1>1. IsTable(columns)
  BY NodeNumbers
<1>2. ValidateGeneric(columns) = "ok" /\ ValidateNodes(columns) = "ok"
  BY DEF Checked
<1> QED
  BY <1>1, <1>2, GenericShape, NodesDescend

LEMMA SearchInit ==
  ASSUME TableInit
  PROVE  SearchInv
<1>1. ~Walking /\ stage = "generic" /\ verdict = "running" /\ colors = <<>> /\ stack = <<>>
  BY DEF TableInit, Walking, Walks
<1>2. Checked
  BY <1>1 DEF TableInit, Checked, StageNames
<1>3. WalkTypes /\ Entered /\ Path /\ Complete /\ LeftAcyclic /\ WorkPaid
  BY <1>1 DEF WalkTypes, Entered, Path, Complete, LeftAcyclic, WorkPaid
<1>4. EndedAcyclic /\ RejectedCyclic
  BY <1>1 DEF EndedAcyclic, Ended, RejectedCyclic
<1> QED
  BY <1>2, <1>3, <1>4 DEF SearchInv

LEMMA SearchStep ==
  ASSUME SearchInv, [TableNext]_tableVars
  PROVE  SearchInv'
<1>1. /\ Checked /\ WalkTypes /\ Entered /\ Path /\ Complete /\ LeftAcyclic
      /\ EndedAcyclic /\ RejectedCyclic /\ WorkPaid
  BY DEF SearchInv
<1>2. stage \in Walks => Walkable(columns)
  BY <1>1, ColumnsWalkable DEF Walks
<1>3. Rests \/ Advances \/ Starts \/ Queues \/ Pops
  BY <1>1, <1>2, StepOutcomes
<1>4. Checked' /\ WalkTypes' /\ Entered' /\ Path'
  BY <1>1, <1>3, CheckedStep, TypesStep, EnteredStep, PathStep
<1>5. Complete' /\ LeftAcyclic' /\ EndedAcyclic'
  BY <1>1, <1>2, <1>3, CompleteStep, LeftAcyclicStep, EndedStep
<1>6. RejectedCyclic' /\ WorkPaid'
  BY <1>1, <1>2, <1>3, RejectedStep, WorkPaidStep
<1> QED
  BY <1>4, <1>5, <1>6 DEF SearchInv

\* The searches of validate_supported_nodes: what an entered and a left node say, the path
\* to the top event, the walks that ended, and what the popped events cost.
THEOREM SearchHolds == TableSpec => []SearchInv
<1>1. TableInit => SearchInv
  BY SearchInit
<1>2. SearchInv /\ [TableNext]_tableVars => SearchInv'
  BY SearchStep
<1> QED
  BY <1>1, <1>2, PTL DEF TableSpec

LEMMA BoundFollows ==
  ASSUME SearchInv
  PROVE  WorkBounded
<1>1. SUFFICES ASSUME stage \in Walks, colors # <<>>, stack = <<>>
               PROVE  work <= 2 * Cardinality(OnNodes(stage)) + Cardinality(References(stage))
  BY DEF WorkBounded
<1>2. Walking /\ Checked /\ WorkPaid /\ Walkable(columns) /\ work \in Nat
  <2>1. Walking /\ Checked /\ WorkPaid /\ WalkTypes
    BY <1>1 DEF SearchInv, Walking
  <2> QED
    BY <1>1, <2>1, ColumnsWalkable DEF Walks, WalkTypes
<1>3. PICK N, S, T : N = OnNodes(stage) /\ S = Started /\ T = Touched
  OBVIOUS
<1>4. S \in SUBSET N /\ T \in SUBSET N
  BY <1>3 DEF Started, Touched
<1>5. PICK P, Q : P = PaidBy(T) /\ Q = PaidBy(N)
  OBVIOUS
<1>6. P \subseteq Q
  BY <1>4, <1>5 DEF PaidBy
<1>7. References(stage) = Q /\ Paid = P
  BY <1>3, <1>5 DEF References, PaidBy, Paid
<1>8. /\ IsFiniteSet(N) /\ Cardinality(N) \in Nat /\ Cardinality(S) \in Nat /\ Cardinality(T) \in Nat
  BY <1>1, <1>2, <1>3, <1>4, PaidFinite
<1>9. IsFiniteSet(Q) /\ Cardinality(Q) \in Nat /\ Cardinality(P) \in Nat
  BY <1>1, <1>2, <1>3, <1>4, <1>5, PaidFinite
<1>10. Cardinality(S) <= Cardinality(N) /\ Cardinality(T) <= Cardinality(N)
  BY <1>4, <1>8, FS_Subset
<1>11. Cardinality(P) <= Cardinality(Q)
  BY <1>6, <1>9, FS_Subset
<1>12. Len(stack) = 0
  BY <1>1
<1>13. work <= Cardinality(S) + Cardinality(T) + Cardinality(P)
  BY <1>2, <1>3, <1>7, <1>12 DEF WorkPaid
<1>14. work <= 2 * Cardinality(N) + Cardinality(Q)
  BY <1>2, <1>8, <1>9, <1>10, <1>11, <1>13
<1> QED
  BY <1>3, <1>7, <1>14

\* No walk of validate_supported_nodes works longer than its nodes and references allow.
THEOREM WalksBounded == TableSpec => []WorkBounded
BY SearchHolds, BoundFollows, PTL

LEMMA CyclesFollow ==
  ASSUME SearchInv
  PROVE  CyclesExact
<1>1. Checked /\ EndedAcyclic /\ RejectedCyclic
  BY DEF SearchInv
<1>2. \A walk : On(columns, walk) = OnNodes(walk)
  BY DEF On, OnNodes
<1>3. ASSUME verdict = "ok"
      PROVE  NoCycle(Nodes(columns), [n \in Nodes(columns) |-> ChildSet(columns, n)])
  <2>1. stage = "done"
    BY <1>1, <1>3 DEF Checked
  <2>2. \A walk \in Walks : WalkAcyclic(walk)
    BY <1>1, <2>1 DEF EndedAcyclic, Ended, Walks
  <2>3. Shaped(columns) /\ Walkable(columns) /\ \A n \in Nodes(columns) : Descent(columns, n)
    BY <1>1, <2>1, ColumnsWalkable
  <2>4. \A walk \in Walks : \A T \in SUBSET On(columns, walk) :
           T # {} => \E n \in T : Kids(columns, walk, n) \cap T = {}
    BY <1>2, <2>2 DEF WalkAcyclic
  <2> QED
    BY <2>3, <2>4, NoCycleAtAll
<1>4. ASSUME verdict = "malformed", stage \in Walks, NoCycle(OnNodes(stage), WalkGraph(stage))
      PROVE  FALSE
  <2>1. PICK T \in SUBSET OnNodes(stage) : T # {} /\ \A n \in T : Kids(columns, stage, n) \cap T # {}
    BY <1>1, <1>4 DEF RejectedCyclic, WalkAcyclic
  <2>2. PICK S, graph : S = OnNodes(stage) /\ graph = WalkGraph(stage)
    OBVIOUS
  <2>3. \A n \in S : graph[n] = Kids(columns, stage, n)
    BY <2>2 DEF WalkGraph, Kids
  <2>4. IsFiniteSet(S)
    BY <1>1, <2>2, NodeNumbers, PlacesFinite
  <2>5. T \in SUBSET S /\ T # {} /\ NoCycle(S, graph)
    BY <1>4, <2>1, <2>2
  <2>6. HasSink(T, graph)
    BY <2>4, <2>5, SinklessKept
  <2> QED
    BY <2>1, <2>3, <2>5, <2>6 DEF HasSink
<1> QED
  BY <1>3, <1>4 DEF CyclesExact

\* What validate_supported_nodes accepts has no cycle over any reference, and what one of
\* its walks rejects has a cycle on that walk.
THEOREM WalksExact == TableSpec => []CyclesExact
BY SearchHolds, CyclesFollow, PTL

-----------------------------------------------------------------------------
(* The cursors over the columns                                            *)

\* What the column lengths compared by validate_generic say.
Aligned(c) ==
  /\ c.tag \in Seq(STRING) /\ c.fkind \in Seq(STRING) /\ c.ikind \in Seq(STRING) /\ c.arena \in Seq(STRING)
  /\ c.fval \in [1..Len(c.fkind) -> Nat] /\ c.flen \in [1..Len(c.fkind) -> Nat]
  /\ c.ival \in [1..Len(c.ikind) -> Nat] /\ c.ilen \in [1..Len(c.ikind) -> Nat]
  /\ c.offset \in [1..(NodeCount(c) + 1) -> Nat]
  /\ c.offset[1] = 0 /\ c.offset[NodeCount(c) + 1] = Len(c.fkind)
  /\ \A i \in 1..NodeCount(c) : c.offset[i] <= c.offset[i + 1]

\* The sizes, and the numbers place by place.
LEMMA AlignedNumbers ==
  ASSUME NEW c, Aligned(c)
  PROVE  /\ NodeCount(c) \in Nat /\ Len(c.fkind) \in Nat /\ Len(c.ikind) \in Nat /\ Len(c.arena) \in Nat
         /\ DOMAIN c.fkind = 1..Len(c.fkind) /\ DOMAIN c.ikind = 1..Len(c.ikind)
         /\ DOMAIN c.arena = 1..Len(c.arena)
         /\ \A f \in 1..Len(c.fkind) : c.fval[f] \in Nat /\ c.flen[f] \in Nat
         /\ \A k \in 1..Len(c.ikind) : c.ival[k] \in Nat /\ c.ilen[k] \in Nat
<1>1. \A s \in Seq(STRING) : Len(s) \in Nat /\ DOMAIN s = 1..Len(s)
  OBVIOUS
<1>2. /\ c.tag \in Seq(STRING) /\ c.fkind \in Seq(STRING)
      /\ c.ikind \in Seq(STRING) /\ c.arena \in Seq(STRING)
  BY DEF Aligned
<1>3. \A f \in 1..Len(c.fkind) : c.fval[f] \in Nat /\ c.flen[f] \in Nat
  BY DEF Aligned
<1>4. \A k \in 1..Len(c.ikind) : c.ival[k] \in Nat /\ c.ilen[k] \in Nat
  BY DEF Aligned
<1> QED
  BY <1>1, <1>2, <1>3, <1>4 DEF NodeCount

LEMMA GenericAligned ==
  ASSUME NEW c, IsTable(c), ValidateGeneric(c) = "ok"
  PROVE  Aligned(c)
<1>1. OffsetsCover(c) = "ok"
  BY DEF ValidateGeneric, &&
<1>2. /\ Len(c.offset) = NodeCount(c) + 1
      /\ Len(c.fval) = Len(c.fkind) /\ Len(c.flen) = Len(c.fkind)
      /\ Len(c.ival) = Len(c.ikind) /\ Len(c.ilen) = Len(c.ikind)
      /\ c.offset[1] = 0
      /\ \A i \in 1..NodeCount(c) : c.offset[i] <= c.offset[i + 1]
      /\ c.offset[Len(c.offset)] = Len(c.fkind)
  BY <1>1 DEF OffsetsCover, Need, Last
<1>3. /\ c.tag \in Seq(STRING) /\ c.fkind \in Seq(STRING) /\ c.ikind \in Seq(STRING) /\ c.arena \in Seq(STRING)
      /\ c.offset \in Seq(Nat) /\ c.fval \in Seq(Nat) /\ c.flen \in Seq(Nat)
      /\ c.ival \in Seq(Nat) /\ c.ilen \in Seq(Nat)
  BY DEF IsTable
<1>4. \A s \in Seq(Nat) : s \in [1..Len(s) -> Nat]
  OBVIOUS
<1>5. /\ c.fval \in [1..Len(c.fkind) -> Nat] /\ c.flen \in [1..Len(c.fkind) -> Nat]
      /\ c.ival \in [1..Len(c.ikind) -> Nat] /\ c.ilen \in [1..Len(c.ikind) -> Nat]
      /\ c.offset \in [1..(NodeCount(c) + 1) -> Nat]
  BY <1>2, <1>3, <1>4
<1>6. c.offset[NodeCount(c) + 1] = Len(c.fkind)
  BY <1>2
<1> QED
  BY <1>2, <1>3, <1>5, <1>6 DEF Aligned

\* A leaf that validate_leaf accepts: a scalar starts at the cursor and moves it over
\* its bytes, any other leaf leaves it, a reference is in range.
LeafStep(c, kind, value, length, before, after) ==
  /\ before \in Nat /\ after \in Nat /\ before <= after
  /\ kind \in ScalarKinds => value = before /\ after = value + length /\ after <= Len(c.arena)
  /\ kind \notin ScalarKinds => after = before
  /\ kind = "node" => value \in Nodes(c)

LEMMA LeafMoves ==
  ASSUME NEW c, Len(c.arena) \in Nat, NEW kind, NEW value \in Nat, NEW length \in Nat, NEW before \in Nat,
         LeafCursor(c, kind, value, length, before) # -1
  PROVE  LeafStep(c, kind, value, length, before, LeafCursor(c, kind, value, length, before))
<1>1. CASE kind = "none"
  BY <1>1 DEF LeafCursor, LeafStep, ScalarKinds
<1>2. CASE kind = "node"
  BY <1>2 DEF LeafCursor, LeafStep, ScalarKinds
<1>3. CASE kind \in ScalarKinds
  <2>1. LeafCursor(c, kind, value, length, before)
          = IF value = before /\ length <= Len(c.arena) - before THEN before + length ELSE -1
    BY <1>3 DEF LeafCursor, ScalarKinds
  <2>2. value = before /\ length <= Len(c.arena) - before
        /\ LeafCursor(c, kind, value, length, before) = before + length
    BY <2>1
  <2>3. kind # "node"
    BY <1>3 DEF ScalarKinds
  <2> QED
    BY <1>3, <2>2, <2>3 DEF LeafStep
<1>4. CASE kind \notin {"none", "node"} \cup ScalarKinds
  BY <1>4 DEF LeafCursor, ScalarKinds
<1> QED
  BY <1>1, <1>2, <1>3, <1>4

\* The scan of ItemCursor.
IsScan(c, first, length, cursor, scan) ==
  scan = [j \in 0..length |->
            IF j = 0 THEN cursor
            ELSE IF scan[j - 1] = -1 THEN -1
                 ELSE LeafCursor(c, c.ikind[first + j], c.ival[first + j], c.ilen[first + j], scan[j - 1])]

LEMMA ScanExists ==
  ASSUME NEW c, NEW first, NEW length \in Nat, NEW cursor
  PROVE  \E scan : IsScan(c, first, length, cursor, scan)
<1> DEFINE Bad == { n \in Nat : ~ \E scan : IsScan(c, first, n, cursor, scan) }
<1>1. SUFFICES ASSUME Bad # {} PROVE FALSE
  OBVIOUS
<1>2. PICK n \in Bad : \A m \in Bad : n <= m
  <2>1. Bad \in SUBSET Nat
    OBVIOUS
  <2> HIDE DEF Bad
  <2> QED
    BY <1>1, <2>1, NatMinimum
<1>3. n # 0
  <2>1. IsScan(c, first, 0, cursor, [j \in 0..0 |-> cursor])
    BY DEF IsScan
  <2> QED
    BY <2>1
<1>4. n \in Nat /\ n - 1 \in Nat /\ n - 1 \notin Bad
  BY <1>2, <1>3
<1>5. PICK f : IsScan(c, first, n - 1, cursor, f)
  BY <1>4
<1> DEFINE leaf(j, s) == IF s = -1 THEN -1
                         ELSE LeafCursor(c, c.ikind[first + j], c.ival[first + j], c.ilen[first + j], s)
           g == [j \in 0..n |-> IF j = n THEN leaf(n, f[n - 1]) ELSE f[j]]
<1>6. f = [j \in 0..(n - 1) |-> IF j = 0 THEN cursor ELSE leaf(j, f[j - 1])]
  BY <1>5 DEF IsScan
<1> HIDE DEF leaf
<1>7. ASSUME NEW j \in 0..n PROVE g[j] = IF j = 0 THEN cursor ELSE leaf(j, g[j - 1])
  <2>1. CASE j = n
    BY <1>3, <1>4, <2>1
  <2>2. CASE j # n
    <3>1. j \in 0..(n - 1) /\ (j # 0 => j - 1 \in 0..n /\ j - 1 # n)
      BY <1>4, <2>2
    <3>2. f[j] = IF j = 0 THEN cursor ELSE leaf(j, f[j - 1])
      BY <1>6, <3>1
    <3> QED
      BY <2>2, <3>1, <3>2
  <2> QED
    BY <2>1, <2>2
<1>8. g = [j \in 0..n |-> IF j = 0 THEN cursor ELSE leaf(j, g[j - 1])]
  <2>1. DOMAIN g = 0..n /\ g = [j \in 0..n |-> g[j]]
    OBVIOUS
  <2> HIDE DEF g
  <2> QED
    BY <1>7, <2>1
<1> HIDE DEF g
<1>9. IsScan(c, first, n, cursor, g)
  BY <1>8 DEF IsScan, leaf
<1> QED
  BY <1>2, <1>9

LEMMA ScanChosen ==
  ASSUME NEW c, NEW first, NEW length \in Nat, NEW cursor
  PROVE  \E scan : IsScan(c, first, length, cursor, scan) /\ ItemCursor(c, first, length, cursor) = scan[length]
<1> DEFINE P(scan) ==
             scan = [j \in 0..length |->
                       IF j = 0 THEN cursor
                       ELSE LET s == scan[j - 1]  k == first + j
                            IN  IF s = -1 THEN -1 ELSE LeafCursor(c, c.ikind[k], c.ival[k], c.ilen[k], s)]
           chosen == CHOOSE scan : P(scan)
<1>1. ItemCursor(c, first, length, cursor) = chosen[length]
  BY DEF ItemCursor
<1>2. \A scan : P(scan) <=> IsScan(c, first, length, cursor, scan)
  BY DEF IsScan
<1>3. \E scan : P(scan)
  BY <1>2, ScanExists
<1> HIDE DEF P
<1>4. P(chosen)
  BY <1>3
<1> QED
  BY <1>1, <1>2, <1>4

\* The cursor before and after each item of one collection.
ItemRun(c, first, length, cursor, scan) ==
  /\ scan \in [0..length -> Nat] /\ scan[0] = cursor
  /\ \A j \in 1..length :
        LeafStep(c, c.ikind[first + j], c.ival[first + j], c.ilen[first + j], scan[j - 1], scan[j])

LEMMA ItemsRun ==
  ASSUME NEW c, Aligned(c), NEW first \in Nat, NEW length \in Nat, first + length <= Len(c.ikind),
         NEW cursor \in Nat, ItemCursor(c, first, length, cursor) # -1
  PROVE  \E scan : /\ ItemRun(c, first, length, cursor, scan)
                   /\ scan[length] = ItemCursor(c, first, length, cursor)
<1>1. PICK scan : /\ IsScan(c, first, length, cursor, scan)
                  /\ scan[length] = ItemCursor(c, first, length, cursor)
  BY ScanChosen
<1> DEFINE leaf(j, s) == LeafCursor(c, c.ikind[first + j], c.ival[first + j], c.ilen[first + j], s)
<1>2. /\ scan = [j \in 0..length |-> scan[j]] /\ scan[0] = cursor
      /\ \A j \in 1..length : scan[j] = IF scan[j - 1] = -1 THEN -1 ELSE leaf(j, scan[j - 1])
  <2>1. scan = [j \in 0..length |->
            IF j = 0 THEN cursor ELSE IF scan[j - 1] = -1 THEN -1 ELSE leaf(j, scan[j - 1])]
    BY <1>1 DEF IsScan
  <2> HIDE DEF leaf
  <2>2. \A j \in 1..length : j \in 0..length /\ j # 0
    OBVIOUS
  <2>3. DOMAIN scan = 0..length
    BY <2>1
  <2>4. scan = [j \in 0..length |-> scan[j]]
    BY <2>1, <2>3
  <2> QED
    BY <2>1, <2>2, <2>4
<1>3. \A d \in 0..length : scan[length - d] # -1
  <2> DEFINE Bad == { d \in 0..length : scan[length - d] = -1 }
  <2>1. SUFFICES ASSUME Bad # {} PROVE FALSE
    OBVIOUS
  <2>2. Bad \in SUBSET Nat
    OBVIOUS
  <2>3. PICK d \in Bad : \A e \in Bad : d <= e
    <3> HIDE DEF Bad
    <3> QED
      BY <2>1, <2>2, NatMinimum
  <2>4. d \in 0..length /\ scan[length - d] = -1
    BY <2>3
  <2>5. d # 0
    BY <1>1, <2>4
  <2>6. d - 1 \in 0..length /\ d - 1 \notin Bad
    BY <2>3, <2>4, <2>5
  <2>7. PICK j : j = length - (d - 1)
    OBVIOUS
  <2>8. j \in 1..length /\ j - 1 = length - d
    BY <2>4, <2>5, <2>7
  <2>9. scan[j] # -1 /\ scan[j - 1] = -1
    BY <2>4, <2>6, <2>7, <2>8
  <2> HIDE DEF leaf
  <2> QED
    BY <1>2, <2>8, <2>9
<1>4. \A j \in 0..length : scan[j] # -1
  <2> SUFFICES ASSUME NEW j \in 0..length PROVE scan[j] # -1
    OBVIOUS
  <2>1. length - j \in 0..length /\ length - (length - j) = j
    OBVIOUS
  <2> QED
    BY <1>3, <2>1
<1>5. ASSUME NEW j \in 1..length, scan[j - 1] \in Nat
      PROVE  LeafStep(c, c.ikind[first + j], c.ival[first + j], c.ilen[first + j], scan[j - 1], scan[j])
  <2>0. Len(c.ikind) \in Nat /\ Len(c.arena) \in Nat
    BY AlignedNumbers
  <2>1. j \in 0..length /\ first + j \in 1..Len(c.ikind)
    BY <2>0
  <2>2. c.ival[first + j] \in Nat /\ c.ilen[first + j] \in Nat
    BY <2>1, AlignedNumbers
  <2>3. scan[j] = leaf(j, scan[j - 1]) /\ scan[j] # -1
    BY <1>2, <1>4, <2>1
  <2> QED
    BY <1>5, <2>0, <2>2, <2>3, LeafMoves
<1>6. \A j \in 0..length : scan[j] \in Nat
  <2> DEFINE Bad == { j \in 0..length : scan[j] \notin Nat }
  <2>1. SUFFICES ASSUME Bad # {} PROVE FALSE
    OBVIOUS
  <2>2. Bad \in SUBSET Nat
    OBVIOUS
  <2>3. PICK j \in Bad : \A e \in Bad : j <= e
    <3> HIDE DEF Bad
    <3> QED
      BY <2>1, <2>2, NatMinimum
  <2>4. j \in 0..length /\ scan[j] \notin Nat /\ j # 0
    BY <1>2, <2>3
  <2>5. j - 1 \in 0..length /\ j - 1 \notin Bad /\ j \in 1..length
    BY <2>3, <2>4
  <2> QED
    BY <1>5, <2>4, <2>5 DEF LeafStep
<1>7. \A j \in 1..length : j - 1 \in 0..length
  OBVIOUS
<1>8. scan \in [0..length -> Nat]
  BY <1>2, <1>6
<1> QED
  BY <1>1, <1>2, <1>5, <1>6, <1>7, <1>8 DEF ItemRun

\* What one field that validate_generic accepts does to both cursors.
FieldStep(c, f, here, there) ==
  /\ here \in Nat \X Nat /\ there \in Nat \X Nat
  /\ c.fkind[f] \in {"set", "sequence"} =>
        /\ c.fval[f] = here[1] /\ there[1] = here[1] + c.flen[f] /\ there[1] <= Len(c.ikind)
        /\ \E scan : ItemRun(c, here[1], c.flen[f], here[2], scan) /\ scan[c.flen[f]] = there[2]
  /\ c.fkind[f] \notin {"set", "sequence"} =>
        there[1] = here[1] /\ LeafStep(c, c.fkind[f], c.fval[f], c.flen[f], here[2], there[2])

LEMMA CollectionMoves ==
  ASSUME NEW c, Aligned(c), NEW f \in 1..Len(c.fkind), NEW here \in Nat \X Nat,
         c.fkind[f] \in {"set", "sequence"}, CollectionCursor(c, f, here) # <<-1, -1>>
  PROVE  FieldStep(c, f, here, CollectionCursor(c, f, here))
<1>1. PICK p, s, v, l : p = here[1] /\ s = here[2] /\ v = c.fval[f] /\ l = c.flen[f]
  OBVIOUS
<1>2. p \in Nat /\ s \in Nat /\ v \in Nat /\ l \in Nat
  BY <1>1, AlignedNumbers
<1>3. /\ v = p /\ p + l <= Len(c.ikind) /\ ItemCursor(c, p, l, s) # -1
      /\ CollectionCursor(c, f, here) = <<p + l, ItemCursor(c, p, l, s)>>
  BY <1>1 DEF CollectionCursor
<1>4. PICK scan : ItemRun(c, p, l, s, scan) /\ scan[l] = ItemCursor(c, p, l, s)
  <2>1. p \in Nat /\ l \in Nat /\ s \in Nat
    BY <1>2
  <2>2. p + l <= Len(c.ikind)
    BY <1>3
  <2>3. ItemCursor(c, p, l, s) # -1
    BY <1>3
  <2>4. \E scan : ItemRun(c, p, l, s, scan) /\ scan[l] = ItemCursor(c, p, l, s)
    BY <2>1, <2>2, <2>3, ItemsRun
  <2> QED
    BY <2>4
<1>5. scan[l] \in Nat
  BY <1>2, <1>4 DEF ItemRun
<1>6. PICK there : there = CollectionCursor(c, f, here)
  OBVIOUS
<1>7. there = <<p + l, scan[l]>>
  BY <1>3, <1>4, <1>6
<1>8. there \in Nat \X Nat /\ there[1] = p + l /\ there[2] = scan[l]
  BY <1>2, <1>5, <1>7
<1>9. \E sc : ItemRun(c, p, l, s, sc) /\ sc[l] = there[2]
  BY <1>4, <1>8
<1>10. FieldStep(c, f, here, there)
  BY <1>1, <1>3, <1>8, <1>9 DEF FieldStep
<1> QED
  BY <1>6, <1>10

LEMMA FieldMoves ==
  ASSUME NEW c, Aligned(c), NEW f \in 1..Len(c.fkind), NEW here \in Cursors
  PROVE  /\ FieldCursor(c, f, here) \in Cursors
         /\ here = <<-1, -1>> => FieldCursor(c, f, here) = here
         /\ FieldCursor(c, f, here) # <<-1, -1>> => FieldStep(c, f, here, FieldCursor(c, f, here))
<1>1. CASE here = <<-1, -1>>
  <2>1. here[1] = -1
    BY <1>1
  <2>2. FieldCursor(c, f, here) = here
    BY <2>1 DEF FieldCursor
  <2> QED
    BY <1>1, <2>2
<1>2. CASE here \in Nat \X Nat
  <2>1. here[1] \in Nat /\ here[2] \in Nat /\ here[1] # -1 /\ here # <<-1, -1>>
    BY <1>2
  <2>2. c.fval[f] \in Nat /\ c.flen[f] \in Nat /\ Len(c.arena) \in Nat
    BY AlignedNumbers
  <2>3. CASE c.fkind[f] \in {"set", "sequence"}
    <3>1. FieldCursor(c, f, here) = CollectionCursor(c, f, here)
      BY <2>1, <2>3 DEF FieldCursor
    <3>2. CollectionCursor(c, f, here) # <<-1, -1>> => FieldStep(c, f, here, CollectionCursor(c, f, here))
      BY <1>2, <2>3, CollectionMoves
    <3>3. CollectionCursor(c, f, here) \in Cursors
      BY <3>2 DEF FieldStep, Cursors
    <3> QED
      BY <2>1, <3>1, <3>2, <3>3
  <2>4. CASE c.fkind[f] \notin {"set", "sequence"}
    <3>1. PICK s : s = LeafCursor(c, c.fkind[f], c.fval[f], c.flen[f], here[2])
      OBVIOUS
    <3>2. FieldCursor(c, f, here) = IF s = -1 THEN <<-1, -1>> ELSE <<here[1], s>>
      BY <2>1, <2>4, <3>1 DEF FieldCursor
    <3>3. CASE s = -1
      BY <2>1, <3>2, <3>3 DEF Cursors
    <3>4. CASE s # -1
      <4>1. LeafStep(c, c.fkind[f], c.fval[f], c.flen[f], here[2], s)
        BY <2>1, <2>2, <3>1, <3>4, LeafMoves
      <4>2. s \in Nat
        BY <4>1 DEF LeafStep
      <4>3. PICK there : there = <<here[1], s>>
        OBVIOUS
      <4>4. there \in Nat \X Nat /\ there[1] = here[1] /\ there[2] = s
        BY <2>1, <4>2, <4>3
      <4>5. FieldStep(c, f, here, there)
        BY <1>2, <2>4, <4>1, <4>4 DEF FieldStep
      <4> QED
        BY <2>1, <3>2, <3>4, <4>3, <4>4, <4>5 DEF Cursors
    <3> QED
      BY <3>3, <3>4
  <2> QED
    BY <2>3, <2>4
<1> QED
  BY <1>1, <1>2 DEF Cursors

\* The pieces of the field loop of CursorsCover, those of at most d fields, and what
\* its recursion computes of a piece.
Pieces(c) == [from : 0..Len(c.fkind), to : 0..Len(c.fkind), here : Cursors]

Short(c, d) == { r \in Pieces(c) : r.to - r.from <= d }

Piece(i, j, h) == [from |-> i, to |-> j, here |-> h]

Middle(r) == (r.from + r.to) \div 2

Halved(c, after, r) ==
  IF r.to <= r.from THEN r.here
  ELSE IF r.to = r.from + 1 THEN FieldCursor(c, r.to, r.here)
  ELSE after[Piece(Middle(r), r.to, after[Piece(r.from, Middle(r), r.here)])]

LEMMA HalfPieces ==
  ASSUME NEW c, Aligned(c), NEW d \in Nat, NEW r \in Short(c, d), r.from + 1 < r.to
  PROVE  /\ r.from < Middle(r) /\ Middle(r) < r.to /\ Middle(r) \in Nat
         /\ Piece(r.from, Middle(r), r.here) \in Short(c, d - 1)
         /\ \A h \in Cursors : Piece(Middle(r), r.to, h) \in Short(c, d - 1)
<1>1. PICK i, j, h, F : i = r.from /\ j = r.to /\ h = r.here /\ F = Len(c.fkind)
  OBVIOUS
<1>2. i \in 0..F /\ j \in 0..F /\ h \in Cursors /\ j - i <= d /\ F \in Nat
  BY <1>1, AlignedNumbers DEF Short, Pieces
<1>3. PICK m : m = (i + j) \div 2
  OBVIOUS
<1>4. m \in Nat /\ i < m /\ m < j
  BY <1>1, <1>2, <1>3
<1>5. m \in 0..F /\ m - i <= d - 1 /\ j - m <= d - 1
  BY <1>2, <1>4
<1>6. Middle(r) = m
  BY <1>1, <1>3 DEF Middle
<1>7. \A x \in 0..F, y \in 0..F, k \in Cursors : y - x <= d - 1 => Piece(x, y, k) \in Short(c, d - 1)
  BY <1>1 DEF Piece, Short, Pieces
<1> QED
  BY <1>1, <1>2, <1>4, <1>5, <1>6, <1>7

LEMMA HalvesAgree ==
  ASSUME NEW c, Aligned(c), NEW d \in Nat, NEW r \in Short(c, d), NEW g, NEW h,
         \A x \in Short(c, d - 1) : g[x] \in Cursors /\ h[x] = g[x]
  PROVE  Halved(c, g, r) \in Cursors /\ Halved(c, h, r) = Halved(c, g, r)
<1>1. r.from \in 0..Len(c.fkind) /\ r.to \in 0..Len(c.fkind) /\ r.here \in Cursors /\ Len(c.fkind) \in Nat
  BY AlignedNumbers DEF Short, Pieces
<1>2. CASE r.to <= r.from
  BY <1>1, <1>2 DEF Halved
<1>3. CASE r.to = r.from + 1
  <2>1. r.to \in 1..Len(c.fkind) /\ ~(r.to <= r.from)
    BY <1>1, <1>3
  <2>2. FieldCursor(c, r.to, r.here) \in Cursors
    BY <1>1, <2>1, FieldMoves
  <2> QED
    BY <1>3, <2>1, <2>2 DEF Halved
<1>4. CASE r.from + 1 < r.to
  <2>1. PICK left : left = Piece(r.from, Middle(r), r.here)
    OBVIOUS
  <2>2. left \in Short(c, d - 1) /\ \A k \in Cursors : Piece(Middle(r), r.to, k) \in Short(c, d - 1)
    BY <1>4, <2>1, HalfPieces
  <2>3. g[left] \in Cursors /\ h[left] = g[left]
    BY <2>2
  <2>4. PICK right : right = Piece(Middle(r), r.to, g[left])
    OBVIOUS
  <2>5. right \in Short(c, d - 1)
    BY <2>2, <2>3, <2>4
  <2>6. g[right] \in Cursors /\ h[right] = g[right]
    BY <2>5
  <2>7. ~(r.to <= r.from) /\ r.to # r.from + 1
    BY <1>1, <1>4
  <2>8. Halved(c, g, r) = g[right] /\ Halved(c, h, r) = h[right]
    BY <2>1, <2>3, <2>4, <2>7 DEF Halved
  <2> QED
    BY <2>6, <2>8
<1> QED
  BY <1>1, <1>2, <1>3, <1>4

\* The recursion is defined, and yields cursors.
IsHalving(c, d, after) ==
  /\ after = [r \in Short(c, d) |-> Halved(c, after, r)]
  /\ \A r \in Short(c, d) : after[r] \in Cursors

LEMMA HalvingExists ==
  ASSUME NEW c, Aligned(c), NEW bound \in Nat
  PROVE  \E after : IsHalving(c, bound, after)
<1> DEFINE Bad == { d \in Nat : ~ \E after : IsHalving(c, d, after) }
<1>1. SUFFICES ASSUME Bad # {} PROVE FALSE
  OBVIOUS
<1>2. PICK d \in Bad : \A e \in Bad : d <= e
  <2>1. Bad \in SUBSET Nat
    OBVIOUS
  <2> HIDE DEF Bad
  <2> QED
    BY <1>1, <2>1, NatMinimum
<1>3. d # 0
  <2> DEFINE g == [r \in Short(c, 0) |-> r.here]
  <2>1. ASSUME NEW r \in Short(c, 0) PROVE Halved(c, g, r) = r.here /\ r.here \in Cursors
    <3>1. r.from \in 0..Len(c.fkind) /\ r.to \in 0..Len(c.fkind) /\ r.here \in Cursors /\ r.to - r.from <= 0
      BY DEF Short, Pieces
    <3>2. r.to <= r.from
      BY <3>1, AlignedNumbers
    <3> QED
      BY <3>1, <3>2 DEF Halved
  <2>2. \A r \in Short(c, 0) : g[r] = r.here
    OBVIOUS
  <2>3. g = [r \in Short(c, 0) |-> g[r]]
    OBVIOUS
  <2> HIDE DEF g
  <2>4. IsHalving(c, 0, g)
    BY <2>1, <2>2, <2>3 DEF IsHalving
  <2> QED
    BY <2>4
<1>4. d \in Nat /\ d - 1 \in Nat /\ d - 1 \notin Bad
  BY <1>2, <1>3
<1>5. PICK g : IsHalving(c, d - 1, g)
  BY <1>4
<1> DEFINE h == [r \in Short(c, d) |-> Halved(c, g, r)]
<1>6. Short(c, d - 1) \subseteq Short(c, d)
  BY <1>4, AlignedNumbers DEF Short, Pieces
<1>7. ASSUME NEW x \in Short(c, d - 1) PROVE g[x] \in Cursors /\ h[x] = g[x]
  BY <1>5, <1>6 DEF IsHalving
<1>8. h = [r \in Short(c, d) |-> h[r]] /\ \A r \in Short(c, d) : h[r] = Halved(c, g, r)
  OBVIOUS
<1> HIDE DEF h
<1>9. ASSUME NEW r \in Short(c, d) PROVE h[r] = Halved(c, h, r) /\ h[r] \in Cursors
  BY <1>4, <1>7, <1>8, HalvesAgree
<1>10. h = [r \in Short(c, d) |-> Halved(c, h, r)]
  BY <1>8, <1>9
<1>11. IsHalving(c, d, h)
  BY <1>9, <1>10 DEF IsHalving
<1> QED
  BY <1>2, <1>11

\* Both cursors after each field of a piece.
IsPath(c, i, j, C) ==
  C \in [i..j -> Cursors] /\ \A f \in (i + 1)..j : C[f] = FieldCursor(c, f, C[f - 1])

Reaches(c, r, end) ==
  \E C : IsPath(c, r.from, r.to, C) /\ C[r.from] = r.here /\ C[r.to] = end

LEMMA HalvingTyped ==
  ASSUME NEW c, Aligned(c), NEW after, after = [r \in Pieces(c) |-> Halved(c, after, r)]
  PROVE  IsHalving(c, Len(c.fkind), after)
<1>0. Len(c.fkind) \in Nat
  BY AlignedNumbers
<1>1. \A x : x \in Pieces(c) <=> x \in Short(c, Len(c.fkind))
  BY <1>0 DEF Pieces, Short
<1> DEFINE Bad == { d \in Nat : \E r \in Short(c, d) : after[r] \notin Cursors }
<1>2. Bad = {}
  <2> SUFFICES ASSUME Bad # {} PROVE FALSE
    OBVIOUS
  <2>1. Bad \in SUBSET Nat
    OBVIOUS
  <2>2. PICK d \in Bad : \A e \in Bad : d <= e
    <3> HIDE DEF Bad
    <3> QED
      BY <2>1, NatMinimum
  <2>3. PICK r \in Short(c, d) : after[r] \notin Cursors
    BY <2>2
  <2>4. d \in Nat /\ r \in Pieces(c) /\ r.to - r.from <= d
    BY <2>2 DEF Short
  <2>5. after[r] = Halved(c, after, r)
    BY <2>4
  <2>6. d # 0
    <3>1. r.from \in Nat /\ r.to \in Nat /\ r.here \in Cursors
      BY <1>0, <2>4 DEF Pieces
    <3>2. d = 0 => r.to <= r.from
      BY <2>4, <3>1
    <3> QED
      BY <2>3, <2>5, <3>1, <3>2 DEF Halved
  <2>7. d - 1 \in Nat /\ d - 1 \notin Bad
    BY <2>2, <2>4, <2>6
  <2>8. \A x \in Short(c, d - 1) : after[x] \in Cursors
    BY <2>7
  <2>9. Halved(c, after, r) \in Cursors
    BY <2>4, <2>8, HalvesAgree
  <2> QED
    BY <2>3, <2>5, <2>9
<1>3. \A r \in Short(c, Len(c.fkind)) : after[r] \in Cursors
  BY <1>0, <1>2
<1>4. Pieces(c) = Short(c, Len(c.fkind))
  BY <1>1
<1> QED
  BY <1>3, <1>4 DEF IsHalving

LEMMA PathsJoin ==
  ASSUME NEW c, NEW i \in Nat, NEW m \in Nat, NEW j \in Nat, i <= m, m <= j, NEW B, NEW D,
         IsPath(c, i, m, B), IsPath(c, m, j, D), B[m] = D[m]
  PROVE  \E C : IsPath(c, i, j, C) /\ C[i] = B[i] /\ C[j] = D[j]
<1> DEFINE C == [f \in i..j |-> IF f <= m THEN B[f] ELSE D[f]]
<1>1. \A f \in i..j : C[f] = IF f <= m THEN B[f] ELSE D[f]
  OBVIOUS
<1>2. C = [f \in i..j |-> C[f]]
  OBVIOUS
<1> HIDE DEF C
<1>3. ASSUME NEW f \in i..j PROVE C[f] \in Cursors
  <2>1. f <= m => f \in i..m
    OBVIOUS
  <2>2. ~(f <= m) => f \in m..j
    OBVIOUS
  <2> QED
    BY <1>1, <2>1, <2>2 DEF IsPath
<1>4. ASSUME NEW f \in (i + 1)..j PROVE C[f] = FieldCursor(c, f, C[f - 1])
  <2>1. f \in i..j /\ f - 1 \in i..j
    OBVIOUS
  <2>2. CASE f <= m
    <3>1. f \in (i + 1)..m /\ f - 1 <= m
      BY <2>2
    <3>2. B[f] = FieldCursor(c, f, B[f - 1])
      BY <3>1 DEF IsPath
    <3>3. C[f] = B[f] /\ C[f - 1] = B[f - 1]
      BY <1>1, <2>1, <2>2, <3>1
    <3> QED
      BY <3>2, <3>3
  <2>3. CASE ~(f <= m)
    <3>1. f \in (m + 1)..j /\ f - 1 \in m..j
      BY <2>3
    <3>2. D[f] = FieldCursor(c, f, D[f - 1])
      BY <3>1 DEF IsPath
    <3>3. C[f] = D[f] /\ C[f - 1] = IF f - 1 <= m THEN B[f - 1] ELSE D[f - 1]
      BY <1>1, <2>1, <2>3
    <3>4. f - 1 <= m => f - 1 = m
      BY <3>1
    <3>5. C[f - 1] = D[f - 1]
      BY <3>3, <3>4
    <3> QED
      BY <3>2, <3>3, <3>5
  <2> QED
    BY <2>2, <2>3
<1>5. C \in [i..j -> Cursors]
  BY <1>2, <1>3
<1>6. i \in i..j /\ j \in i..j /\ C[i] = B[i]
  BY <1>1
<1>7. C[j] = D[j]
  <2>1. j <= m => j = m
    OBVIOUS
  <2> QED
    BY <1>1, <1>6, <2>1
<1> QED
  BY <1>4, <1>5, <1>6, <1>7 DEF IsPath

LEMMA HalvingPath ==
  ASSUME NEW c, Aligned(c), NEW after, IsHalving(c, Len(c.fkind), after),
         NEW piece \in Pieces(c), piece.from <= piece.to
  PROVE  Reaches(c, piece, after[piece])
<1>0. Len(c.fkind) \in Nat
  BY AlignedNumbers
<1> DEFINE Lost(d, r) == r.from <= r.to /\ r.to - r.from = d /\ ~Reaches(c, r, after[r])
           Bad == { d \in Nat : \E r \in Pieces(c) : Lost(d, r) }
<1>1. SUFFICES ASSUME Bad # {} PROVE FALSE
  <2>1. Bad = {}
    BY <1>1
  <2>2. piece.from \in 0..Len(c.fkind) /\ piece.to \in 0..Len(c.fkind)
    BY DEF Pieces
  <2>3. piece.to - piece.from \in Nat
    BY <1>0, <2>2
  <2> QED
    BY <2>1, <2>3
<1>2. PICK d \in Bad : \A e \in Bad : d <= e
  <2>1. Bad \in SUBSET Nat
    OBVIOUS
  <2> HIDE DEF Bad
  <2> QED
    BY <1>1, <2>1, NatMinimum
<1>3. PICK r \in Pieces(c) : Lost(d, r)
  BY <1>2
<1>4. \A x \in Pieces(c) : x.from <= x.to /\ x.to - x.from \in Nat /\ x.to - x.from < d => Reaches(c, x, after[x])
  <2> SUFFICES ASSUME NEW x \in Pieces(c), x.from <= x.to, x.to - x.from \in Nat, x.to - x.from < d
               PROVE  Reaches(c, x, after[x])
    OBVIOUS
  <2>1. d \in Nat
    BY <1>2
  <2>2. x.to - x.from \notin Bad
    BY <1>2, <2>1
  <2> QED
    BY <2>2
<1>5. \A x \in Pieces(c) : x \in Short(c, Len(c.fkind))
  BY <1>0 DEF Pieces, Short
<1>6. after[r] = Halved(c, after, r)
  BY <1>5 DEF IsHalving
<1>7. PICK i, j, h : i = r.from /\ j = r.to /\ h = r.here
  OBVIOUS
<1>8. i \in 0..Len(c.fkind) /\ j \in 0..Len(c.fkind) /\ h \in Cursors /\ i <= j /\ d = j - i
  BY <1>3, <1>7 DEF Pieces
<1>9. CASE i = j
  <2> DEFINE C == [f \in i..j |-> h]
  <2>1. IsPath(c, i, j, C) /\ C[i] = h /\ C[j] = h
    BY <1>0, <1>8, <1>9 DEF IsPath
  <2>2. after[r] = h
    BY <1>0, <1>6, <1>7, <1>8, <1>9 DEF Halved
  <2> HIDE DEF C
  <2>3. Reaches(c, r, after[r])
    BY <1>7, <2>1, <2>2 DEF Reaches
  <2> QED
    BY <1>3, <2>3
<1>10. CASE j = i + 1
  <2> DEFINE C == [f \in i..j |-> IF f = i THEN h ELSE FieldCursor(c, j, h)]
  <2>0. i \in Nat /\ j \in Nat
    BY <1>0, <1>8
  <2>b. j \in 1..Len(c.fkind)
    BY <1>8, <1>10, <2>0
  <2>c. i # j /\ j - 1 = i
    BY <1>10, <2>0
  <2>d. i \in i..j /\ j \in i..j
    BY <1>10, <2>0
  <2>1. j \in 1..Len(c.fkind) /\ i \in i..j /\ j \in i..j /\ i # j /\ j - 1 = i
    BY <2>b, <2>c, <2>d
  <2>a. \A f \in (i + 1)..j : f = j
    BY <1>10, <2>0
  <2>2. FieldCursor(c, j, h) \in Cursors
    BY <1>8, <2>1, FieldMoves
  <2>3. C \in [i..j -> Cursors]
    BY <1>8, <2>2
  <2>4. C[i] = h /\ C[j] = FieldCursor(c, j, h)
    BY <2>1
  <2> HIDE DEF C
  <2>5. IsPath(c, i, j, C)
    BY <2>1, <2>a, <2>3, <2>4 DEF IsPath
  <2>6. ~(j <= i)
    BY <1>0, <1>8, <1>10
  <2>7. after[r] = FieldCursor(c, j, h)
    BY <1>6, <1>7, <1>10, <2>6 DEF Halved
  <2>8. Reaches(c, r, after[r])
    BY <1>7, <2>4, <2>5, <2>7 DEF Reaches
  <2> QED
    BY <1>3, <2>8
<1>11. CASE i + 1 < j
  <2>1. PICK m : m = Middle(r)
    OBVIOUS
  <2>2. PICK left : left = Piece(i, m, h)
    OBVIOUS
  <2>3. /\ i < m /\ m < j /\ m \in Nat /\ left \in Short(c, Len(c.fkind) - 1)
        /\ \A k \in Cursors : Piece(m, j, k) \in Short(c, Len(c.fkind) - 1)
    BY <1>0, <1>5, <1>7, <1>11, <2>1, <2>2, HalfPieces
  <2>4. left \in Pieces(c) /\ left.from = i /\ left.to = m /\ left.here = h
    BY <2>2, <2>3 DEF Short, Piece
  <2>5. after[left] \in Cursors
    BY <1>5, <2>4 DEF IsHalving
  <2>6. PICK right : right = Piece(m, j, after[left])
    OBVIOUS
  <2>7. right \in Pieces(c) /\ right.from = m /\ right.to = j /\ right.here = after[left]
    BY <2>3, <2>5, <2>6 DEF Short, Piece
  <2>8. i \in Nat /\ j \in Nat /\ m - i \in Nat /\ m - i < d /\ j - m \in Nat /\ j - m < d
    BY <1>0, <1>8, <2>3
  <2>9. Reaches(c, left, after[left]) /\ Reaches(c, right, after[right])
    BY <1>4, <2>3, <2>4, <2>7, <2>8
  <2>10. ~(j <= i) /\ j # i + 1
    BY <1>11, <2>8
  <2>11. after[r] = after[right]
    BY <1>6, <1>7, <2>1, <2>2, <2>6, <2>10 DEF Halved
  <2>12. PICK B : IsPath(c, i, m, B) /\ B[i] = h /\ B[m] = after[left]
    BY <2>4, <2>9 DEF Reaches
  <2>13. PICK D : IsPath(c, m, j, D) /\ D[m] = after[left] /\ D[j] = after[right]
    BY <2>7, <2>9 DEF Reaches
  <2>14. \E C : IsPath(c, i, j, C) /\ C[i] = B[i] /\ C[j] = D[j]
    BY <2>3, <2>8, <2>12, <2>13, PathsJoin
  <2>15. Reaches(c, r, after[r])
    BY <1>7, <2>11, <2>12, <2>13, <2>14 DEF Reaches
  <2> QED
    BY <1>3, <2>15
<1> QED
  BY <1>0, <1>8, <1>9, <1>10, <1>11

\* The cursors before and after each field of a table that validate_generic accepts.
FieldRun(c, C) ==
  /\ C \in [0..Len(c.fkind) -> Nat \X Nat]
  /\ C[0] = <<0, 0>> /\ C[Len(c.fkind)] = <<Len(c.ikind), Len(c.arena)>>
  /\ \A f \in 1..Len(c.fkind) : FieldStep(c, f, C[f - 1], C[f])

LEMMA FieldsRun ==
  ASSUME NEW c, Aligned(c), CursorsCover(c) = "ok"
  PROVE  \E C : FieldRun(c, C)
<1>0. PICK F : F = Len(c.fkind)
  OBVIOUS
<1>1. F \in Nat
  BY <1>0, AlignedNumbers
<1> DEFINE P(after) ==
             after = [r \in [from : 0 .. Len(c.fkind), to : 0 .. Len(c.fkind), here : Cursors] |->
                        IF r.to <= r.from THEN r.here
                        ELSE IF r.to = r.from + 1 THEN FieldCursor(c, r.to, r.here)
                        ELSE LET half  == (r.from + r.to) \div 2
                                 there == after[[from |-> r.from, to |-> half, here |-> r.here]]
                             IN  after[[from |-> half, to |-> r.to, here |-> there]]]
           whole == [from |-> 0, to |-> Len(c.fkind), here |-> <<0, 0>>]
           chosen == CHOOSE after : P(after)
<1>2. chosen[whole] = <<Len(c.ikind), Len(c.arena)>>
  <2>1. CursorsCover(c) = Need(chosen[whole] = <<Len(c.ikind), Len(c.arena)>>)
    BY DEF CursorsCover
  <2> HIDE DEF chosen, whole
  <2> QED
    BY <2>1 DEF Need
<1>3. Pieces(c) = Short(c, F)
  <2>1. \A r \in Pieces(c) : r.to - r.from <= F
    BY <1>0, <1>1 DEF Pieces
  <2> QED
    BY <2>1 DEF Short
<1>4. \A after : P(after) <=> after = [r \in Pieces(c) |-> Halved(c, after, r)]
  BY DEF Pieces, Halved, Piece, Middle
<1> HIDE DEF P
<1>5. \E after : P(after)
  BY <1>1, <1>3, <1>4, HalvingExists DEF IsHalving
<1>6. P(chosen)
  BY <1>5
<1>7. IsHalving(c, Len(c.fkind), chosen)
  BY <1>4, <1>6, HalvingTyped
<1> HIDE DEF chosen
<1>8. whole \in Pieces(c) /\ whole.from = 0 /\ whole.to = F /\ whole.here = <<0, 0>>
  BY <1>0, <1>1 DEF Pieces, Cursors
<1> HIDE DEF whole
<1>9. Reaches(c, whole, <<Len(c.ikind), Len(c.arena)>>)
  BY <1>1, <1>2, <1>7, <1>8, HalvingPath
<1>10. PICK C : IsPath(c, 0, F, C) /\ C[0] = <<0, 0>> /\ C[F] = <<Len(c.ikind), Len(c.arena)>>
  BY <1>8, <1>9 DEF Reaches
<1>11. C \in [0..F -> Cursors] /\ \A f \in 1..F : C[f] = FieldCursor(c, f, C[f - 1])
  BY <1>10 DEF IsPath
<1>12. \A d \in 0..F : C[F - d] # <<-1, -1>>
  <2> DEFINE Bad == { d \in 0..F : C[F - d] = <<-1, -1>> }
  <2>1. SUFFICES ASSUME Bad # {} PROVE FALSE
    OBVIOUS
  <2>2. Bad \in SUBSET Nat
    BY <1>1
  <2>3. PICK d \in Bad : \A e \in Bad : d <= e
    <3> HIDE DEF Bad
    <3> QED
      BY <2>1, <2>2, NatMinimum
  <2>4. d \in 0..F /\ C[F - d] = <<-1, -1>>
    BY <2>3
  <2>5. Len(c.ikind) \in Nat /\ F - 0 = F
    BY <1>1, AlignedNumbers
  <2>6. d # 0
    BY <1>10, <2>4, <2>5
  <2>7. d - 1 \in 0..F /\ d - 1 \notin Bad
    BY <1>1, <2>3, <2>4, <2>6
  <2>8. PICK f : f = F - (d - 1)
    OBVIOUS
  <2>9. f \in 1..F /\ f - 1 = F - d
    BY <1>1, <2>4, <2>6, <2>8
  <2>10. C[f] # <<-1, -1>>
    BY <2>7, <2>8
  <2>11. C[f - 1] = <<-1, -1>> /\ C[f - 1] \in Cursors
    BY <2>4, <2>9 DEF Cursors
  <2>12. FieldCursor(c, f, C[f - 1]) = <<-1, -1>>
    BY <1>0, <2>9, <2>11, FieldMoves
  <2> QED
    BY <1>11, <2>9, <2>10, <2>12
<1>13. \A f \in 0..F : C[f] # <<-1, -1>>
  <2> SUFFICES ASSUME NEW f \in 0..F PROVE C[f] # <<-1, -1>>
    OBVIOUS
  <2>1. F - f \in 0..F /\ F - (F - f) = f
    BY <1>1
  <2> QED
    BY <1>12, <2>1
<1>14. C \in [0..F -> Nat \X Nat]
  BY <1>11, <1>13 DEF Cursors
<1>15. ASSUME NEW f \in 1..F PROVE FieldStep(c, f, C[f - 1], C[f])
  <2>1. f \in 0..F /\ f - 1 \in 0..F
    BY <1>1
  <2>2. C[f - 1] \in Cursors /\ C[f] = FieldCursor(c, f, C[f - 1]) /\ C[f] # <<-1, -1>>
    BY <1>11, <1>13, <2>1
  <2> QED
    BY <1>0, <2>2, FieldMoves
<1> QED
  BY <1>0, <1>10, <1>14, <1>15 DEF FieldRun

-----------------------------------------------------------------------------
(* What the cursors cut the columns into                                   *)

\* A cursor that never goes back, and the places it passes in its step i.
Climbs(h, n) == h \in [0..n -> Nat] /\ \A i \in 1..n : h[i - 1] <= h[i]

Segment(h, i) == (h[i - 1] + 1)..h[i]

LEMMA ClimbOrder ==
  ASSUME NEW n \in Nat, NEW h, Climbs(h, n), NEW i \in 0..n, NEW j \in 0..n, i <= j
  PROVE  h[i] <= h[j]
<1> DEFINE Bad == { k \in i..n : ~(h[i] <= h[k]) }
<1>1. SUFFICES ASSUME Bad # {} PROVE FALSE
  OBVIOUS
<1>2. Bad \in SUBSET Nat
  OBVIOUS
<1>3. PICK k \in Bad : \A m \in Bad : k <= m
  <2> HIDE DEF Bad
  <2> QED
    BY <1>1, <1>2, NatMinimum
<1>4. k \in i..n /\ ~(h[i] <= h[k])
  BY <1>3
<1>5. \A m \in 0..n : h[m] \in Nat
  BY DEF Climbs
<1>6. k # i
  BY <1>4, <1>5
<1>7. k - 1 \in i..n /\ k - 1 \notin Bad /\ k \in 1..n /\ k \in 0..n /\ k - 1 \in 0..n
  BY <1>3, <1>4, <1>6
<1>8. h[i] <= h[k - 1]
  BY <1>7
<1>9. h[k - 1] <= h[k]
  BY <1>7 DEF Climbs
<1> QED
  BY <1>4, <1>5, <1>7, <1>8, <1>9

\* Every place is passed once.
LEMMA SegmentFound ==
  ASSUME NEW n \in Nat, NEW h, Climbs(h, n), NEW b \in (h[0] + 1)..h[n]
  PROVE  \E i \in 1..n : b \in Segment(h, i)
<1>1. \A m \in 0..n : h[m] \in Nat
  BY DEF Climbs
<1>2. b \in Nat /\ h[0] < b /\ b <= h[n]
  BY <1>1
<1> DEFINE Past == { i \in 0..n : b <= h[i] }
<1>3. Past \in SUBSET Nat /\ n \in Past
  BY <1>2
<1>4. PICK i \in Past : \A m \in Past : i <= m
  <2> HIDE DEF Past
  <2> QED
    BY <1>3, NatMinimum
<1>5. i \in 0..n /\ b <= h[i]
  BY <1>4
<1>6. i # 0
  BY <1>1, <1>2, <1>5
<1>7. i - 1 \in 0..n /\ i - 1 \notin Past /\ i \in 1..n
  BY <1>4, <1>5, <1>6
<1>8. ~(b <= h[i - 1])
  BY <1>7
<1>9. b \in Segment(h, i)
  BY <1>1, <1>2, <1>5, <1>7, <1>8 DEF Segment
<1> QED
  BY <1>7, <1>9

LEMMA SegmentOnly ==
  ASSUME NEW n \in Nat, NEW h, Climbs(h, n), NEW i \in 1..n, NEW b \in Segment(h, i)
  PROVE  /\ b \in (h[0] + 1)..h[n]
         /\ \A j \in 1..n : b \in Segment(h, j) => j = i
<1>1. \A m \in 0..n : h[m] \in Nat
  BY DEF Climbs
<1>2. \A j \in 1..n : j \in 0..n /\ j - 1 \in 0..n
  OBVIOUS
<1>3. b \in Nat /\ h[i - 1] < b /\ b <= h[i]
  BY <1>1, <1>2 DEF Segment
<1>4. h[0] <= h[i - 1] /\ h[i] <= h[n]
  BY <1>2, ClimbOrder
<1>5. b \in (h[0] + 1)..h[n]
  BY <1>1, <1>2, <1>3, <1>4
<1>6. ASSUME NEW j \in 1..n, b \in Segment(h, j), j # i PROVE FALSE
  <2>1. h[j - 1] < b /\ b <= h[j] /\ h[j] \in Nat /\ h[j - 1] \in Nat /\ h[i] \in Nat /\ h[i - 1] \in Nat
    BY <1>1, <1>2, <1>6 DEF Segment
  <2>2. CASE i < j
    <3>1. i \in 0..n /\ j - 1 \in 0..n /\ i <= j - 1
      BY <2>2
    <3>2. h[i] <= h[j - 1]
      BY <3>1, ClimbOrder
    <3> QED
      BY <1>3, <2>1, <3>2
  <2>3. CASE j < i
    <3>1. j \in 0..n /\ i - 1 \in 0..n /\ j <= i - 1
      BY <2>3
    <3>2. h[j] <= h[i - 1]
      BY <3>1, ClimbOrder
    <3> QED
      BY <1>3, <2>1, <3>2
  <2> QED
    BY <1>6, <2>2, <2>3
<1> QED
  BY <1>5, <1>6

\* The steps of a cursor cut what it passes into parts; a step that stays has none.
LEMMA CutsIntoParts ==
  ASSUME NEW n \in Nat, NEW h, Climbs(h, n), NEW S \in SUBSET (1..n), NEW part,
         DOMAIN part = S, \A i \in S : part[i] = Segment(h, i),
         \A i \in (1..n) \ S : h[i - 1] = h[i]
  PROVE  Partition(part, (h[0] + 1)..h[n])
<1>1. ASSUME NEW b \in (h[0] + 1)..h[n] PROVE \E i \in S : b \in part[i]
  <2>1. PICK i \in 1..n : b \in Segment(h, i)
    BY SegmentFound
  <2>2. i \in 0..n /\ i - 1 \in 0..n
    OBVIOUS
  <2>3. h[i] \in Nat /\ h[i - 1] \in Nat
    BY <2>2 DEF Climbs
  <2>4. h[i - 1] # h[i]
    BY <2>1, <2>3 DEF Segment
  <2> QED
    BY <2>1, <2>4
<1>2. ASSUME NEW i \in S, NEW b \in part[i]
      PROVE  b \in (h[0] + 1)..h[n] /\ \A j \in S : b \in part[j] => j = i
  <2>1. i \in 1..n /\ b \in Segment(h, i) /\ \A j \in S : j \in 1..n
    BY <1>2
  <2> QED
    BY <2>1, SegmentOnly
<1>3. UNION { part[x] : x \in DOMAIN part } = (h[0] + 1)..h[n]
  BY <1>1, <1>2
<1>4. \A x, y \in DOMAIN part : x # y => part[x] \cap part[y] = {}
  BY <1>2
<1> QED
  BY <1>3, <1>4 DEF Partition

\* The offsets give every field to one node.
LEMMA NodesPart ==
  ASSUME NEW c, Aligned(c)
  PROVE  Partition([n \in Nodes(c) |-> FieldsOf(c, n)], DOMAIN c.fkind)
<1>1. PICK N, F : N = NodeCount(c) /\ F = Len(c.fkind)
  OBVIOUS
<1>2. N \in Nat /\ F \in Nat /\ DOMAIN c.fkind = 1..F /\ Nodes(c) = 1..N
  BY <1>1, AlignedNumbers DEF Nodes
<1> DEFINE h == [i \in 0..N |-> c.offset[i + 1]]
           part == [n \in Nodes(c) |-> FieldsOf(c, n)]
<1>3. \A i \in 0..N : i + 1 \in 1..(N + 1)
  BY <1>2
<1>4. /\ \A i \in 1..(N + 1) : c.offset[i] \in Nat
      /\ c.offset[1] = 0 /\ c.offset[N + 1] = F
      /\ \A i \in 1..N : c.offset[i] <= c.offset[i + 1]
  BY <1>1 DEF Aligned
<1>5. \A i \in 1..N : i \in 0..N /\ i - 1 \in 0..N /\ (i - 1) + 1 = i
  BY <1>2
<1>6. \A i \in 0..N : h[i] = c.offset[i + 1]
  OBVIOUS
<1>7. h \in [0..N -> Nat]
  BY <1>3, <1>4
<1> HIDE DEF h
<1>8. Climbs(h, N)
  BY <1>4, <1>5, <1>6, <1>7 DEF Climbs
<1>9. h[0] = 0 /\ h[N] = F
  BY <1>2, <1>4, <1>6
<1>10. \A n \in 1..N : part[n] = Segment(h, n)
  BY <1>2, <1>5, <1>6 DEF FieldsOf, Segment
<1>11. DOMAIN part = 1..N
  BY <1>2
<1> HIDE DEF part
<1>12. Partition(part, (h[0] + 1)..h[N])
  BY <1>2, <1>8, <1>10, <1>11, CutsIntoParts
<1>13. (h[0] + 1)..h[N] = DOMAIN c.fkind
  BY <1>2, <1>9
<1> QED
  BY <1>12, <1>13 DEF part

\* The two cursors of a run, the one over the items and the one over the arena.
ItemAt(c, C) == [f \in 0..Len(c.fkind) |-> C[f][1]]

ByteAt(c, C) == [f \in 0..Len(c.fkind) |-> C[f][2]]

LEMMA RunClimbs ==
  ASSUME NEW c, Aligned(c), NEW C, FieldRun(c, C)
  PROVE  /\ Climbs(ItemAt(c, C), Len(c.fkind)) /\ Climbs(ByteAt(c, C), Len(c.fkind))
         /\ ItemAt(c, C)[0] = 0 /\ ItemAt(c, C)[Len(c.fkind)] = Len(c.ikind)
         /\ ByteAt(c, C)[0] = 0 /\ ByteAt(c, C)[Len(c.fkind)] = Len(c.arena)
         /\ \A f \in 1..Len(c.fkind) :
               /\ ItemAt(c, C)[f - 1] = C[f - 1][1] /\ ItemAt(c, C)[f] = C[f][1]
               /\ ByteAt(c, C)[f - 1] = C[f - 1][2] /\ ByteAt(c, C)[f] = C[f][2]
<1>1. PICK F : F = Len(c.fkind)
  OBVIOUS
<1>2. F \in Nat
  BY <1>1, AlignedNumbers
<1>3. \A f \in 0..F : C[f] \in Nat \X Nat
  BY <1>1 DEF FieldRun
<1>4. \A f \in 0..F : C[f][1] \in Nat /\ C[f][2] \in Nat
  BY <1>3
<1>5. PICK P, B : P = ItemAt(c, C) /\ B = ByteAt(c, C)
  OBVIOUS
<1>6. P = [f \in 0..F |-> C[f][1]] /\ B = [f \in 0..F |-> C[f][2]]
  BY <1>1, <1>5 DEF ItemAt, ByteAt
<1>7. P \in [0..F -> Nat] /\ B \in [0..F -> Nat]
  BY <1>4, <1>6
<1>8. \A f \in 0..F : P[f] = C[f][1] /\ B[f] = C[f][2]
  BY <1>6
<1>9. \A f \in 1..F : f \in 0..F /\ f - 1 \in 0..F
  BY <1>2
<1>10. \A f \in 1..F : /\ P[f - 1] = C[f - 1][1] /\ P[f] = C[f][1]
                       /\ B[f - 1] = C[f - 1][2] /\ B[f] = C[f][2]
  BY <1>8, <1>9
<1>11. ASSUME NEW f \in 1..F PROVE C[f - 1][1] <= C[f][1] /\ C[f - 1][2] <= C[f][2]
  <2>1. PICK p, b, q, d : p = C[f - 1][1] /\ b = C[f - 1][2] /\ q = C[f][1] /\ d = C[f][2]
    OBVIOUS
  <2>2. p \in Nat /\ b \in Nat /\ q \in Nat /\ d \in Nat
    BY <1>4, <1>9, <2>1
  <2>3. FieldStep(c, f, C[f - 1], C[f])
    BY <1>1 DEF FieldRun
  <2>4. CASE c.fkind[f] \in {"set", "sequence"}
    <3>1. PICK l : l = c.flen[f]
      OBVIOUS
    <3>2. l \in Nat /\ q = p + l
      BY <1>1, <2>1, <2>3, <2>4, <3>1, AlignedNumbers DEF FieldStep
    <3>3. PICK scan : ItemRun(c, p, l, b, scan) /\ scan[l] = d
      BY <2>1, <2>3, <2>4, <3>1 DEF FieldStep
    <3>4. Climbs(scan, l) /\ scan[0] = b
      BY <3>3 DEF ItemRun, LeafStep, Climbs
    <3>5. scan[0] <= scan[l]
      BY <3>2, <3>4, ClimbOrder
    <3> QED
      BY <2>1, <2>2, <3>2, <3>3, <3>4, <3>5
  <2>5. CASE c.fkind[f] \notin {"set", "sequence"}
    BY <2>1, <2>2, <2>3, <2>5 DEF FieldStep, LeafStep
  <2> QED
    BY <2>4, <2>5
<1>12. Climbs(P, F) /\ Climbs(B, F)
  BY <1>7, <1>10, <1>11 DEF Climbs
<1>13. 0 \in 0..F /\ F \in 0..F
  BY <1>2
<1>14. C[0] = <<0, 0>> /\ C[F] = <<Len(c.ikind), Len(c.arena)>>
  BY <1>1 DEF FieldRun
<1>15. P[0] = 0 /\ P[F] = Len(c.ikind) /\ B[0] = 0 /\ B[F] = Len(c.arena)
  BY <1>8, <1>13, <1>14
<1> QED
  BY <1>1, <1>5, <1>10, <1>12, <1>15

\* The item cursor gives every item to one collection.
LEMMA ItemsPart ==
  ASSUME NEW c, Aligned(c), NEW C, FieldRun(c, C)
  PROVE  Partition([f \in CollectionFields(c) |-> ItemIndexes(c, f)], DOMAIN c.ikind)
<1>1. PICK F, h : F = Len(c.fkind) /\ h = ItemAt(c, C)
  OBVIOUS
<1>2. /\ F \in Nat /\ Climbs(h, F) /\ h[0] = 0 /\ h[F] = Len(c.ikind) /\ Len(c.ikind) \in Nat
      /\ DOMAIN c.fkind = 1..F /\ DOMAIN c.ikind = 1..Len(c.ikind)
      /\ \A f \in 1..F : h[f - 1] = C[f - 1][1] /\ h[f] = C[f][1]
  BY <1>1, AlignedNumbers, RunClimbs
<1>3. \A f \in 1..F : FieldStep(c, f, C[f - 1], C[f])
  BY <1>1 DEF FieldRun
<1> DEFINE part == [f \in CollectionFields(c) |-> ItemIndexes(c, f)]
<1>4. CollectionFields(c) \in SUBSET (1..F)
  BY <1>2 DEF CollectionFields
<1>5. DOMAIN part = CollectionFields(c) /\ \A f \in CollectionFields(c) : part[f] = ItemIndexes(c, f)
  OBVIOUS
<1> HIDE DEF part
<1>6. ASSUME NEW f \in CollectionFields(c) PROVE part[f] = Segment(h, f)
  <2>1. f \in 1..F /\ c.fkind[f] \in {"set", "sequence"}
    BY <1>2 DEF CollectionFields
  <2>2. c.fval[f] = h[f - 1] /\ h[f] = h[f - 1] + c.flen[f]
    BY <1>2, <1>3, <2>1 DEF FieldStep
  <2> QED
    BY <1>5, <2>2 DEF ItemIndexes, Segment
<1>7. ASSUME NEW f \in (1..F) \ CollectionFields(c) PROVE h[f - 1] = h[f]
  <2>1. c.fkind[f] \notin {"set", "sequence"} /\ f \in 1..F
    BY <1>2 DEF CollectionFields
  <2> QED
    BY <1>2, <1>3, <2>1 DEF FieldStep
<1>8. Partition(part, (h[0] + 1)..h[F])
  BY <1>2, <1>4, <1>5, <1>6, <1>7, CutsIntoParts
<1>9. (h[0] + 1)..h[F] = DOMAIN c.ikind
  BY <1>2
<1> QED
  BY <1>8, <1>9 DEF part

\* The scalars a field holds: the field, or items of its collection.
OfField(c, f, x) ==
  \/ x = <<"field", f>> /\ c.fkind[f] \in ScalarKinds
  \/ /\ c.fkind[f] \in {"set", "sequence"}
     /\ \E k \in ItemIndexes(c, f) : x = <<"item", k>> /\ c.ikind[k] \in ScalarKinds

\* They share out the bytes the field passes.
SharesOut(c, f, bytes) ==
  /\ \A x : OfField(c, f, x) => Span(c, x) \subseteq bytes
  /\ \A b \in bytes : \E x : OfField(c, f, x) /\ b \in Span(c, x)
  /\ \A x, y : OfField(c, f, x) /\ OfField(c, f, y) /\ x # y => Span(c, x) \cap Span(c, y) = {}

\* The places of the bytes of a leaf, none when it is no scalar.
LEMMA LeafSpan ==
  ASSUME NEW c, NEW kind, NEW value \in Nat, NEW length \in Nat, NEW before, NEW after,
         LeafStep(c, kind, value, length, before, after)
  PROVE  /\ kind \in ScalarKinds => (value + 1)..(value + length) = (before + 1)..after
         /\ kind \notin ScalarKinds => (before + 1)..after = {}
BY DEF LeafStep

LEMMA LeafShares ==
  ASSUME NEW c, Aligned(c), NEW f \in 1..Len(c.fkind), c.fkind[f] \notin {"set", "sequence"},
         NEW before, NEW after, LeafStep(c, c.fkind[f], c.fval[f], c.flen[f], before, after)
  PROVE  SharesOut(c, f, (before + 1)..after)
<1>1. c.fval[f] \in Nat /\ c.flen[f] \in Nat
  BY AlignedNumbers
<1>2. PICK x : x = <<"field", f>>
  OBVIOUS
<1>3. x[1] = "field" /\ x[2] = f
  BY <1>2
<1>4. Span(c, x) = (c.fval[f] + 1)..(c.fval[f] + c.flen[f])
  BY <1>3 DEF Span
<1>5. \A y : OfField(c, f, y) <=> y = x /\ c.fkind[f] \in ScalarKinds
  BY <1>2 DEF OfField
<1>6. PICK v, l, bytes : v = c.fval[f] /\ l = c.flen[f] /\ bytes = (before + 1)..after
  OBVIOUS
<1>7. /\ c.fkind[f] \in ScalarKinds => (v + 1)..(v + l) = bytes
      /\ c.fkind[f] \notin ScalarKinds => bytes = {}
  <2>1. PICK kind : kind = c.fkind[f]
    OBVIOUS
  <2>2. v \in Nat /\ l \in Nat
    BY <1>1, <1>6
  <2>3. LeafStep(c, kind, v, l, before, after)
    BY <1>6, <2>1
  <2>4. /\ kind \in ScalarKinds => (v + 1)..(v + l) = (before + 1)..after
        /\ kind \notin ScalarKinds => (before + 1)..after = {}
    BY <2>2, <2>3, LeafSpan
  <2> QED
    BY <1>6, <2>1, <2>4
<1>8. Span(c, x) = (v + 1)..(v + l)
  BY <1>4, <1>6
<1>9. \A y : OfField(c, f, y) => y = x /\ Span(c, y) = bytes
  BY <1>5, <1>7, <1>8
<1>10. \A b \in bytes : OfField(c, f, x) /\ b \in Span(c, x)
  BY <1>5, <1>7, <1>8
<1>11. SharesOut(c, f, bytes)
  BY <1>9, <1>10 DEF SharesOut
<1> QED
  BY <1>6, <1>11

LEMMA CollectionShares ==
  ASSUME NEW c, Aligned(c), NEW f \in 1..Len(c.fkind), c.fkind[f] \in {"set", "sequence"},
         c.fval[f] + c.flen[f] <= Len(c.ikind),
         NEW cursor, NEW scan, ItemRun(c, c.fval[f], c.flen[f], cursor, scan)
  PROVE  SharesOut(c, f, (cursor + 1)..scan[c.flen[f]])
<1>1. PICK p, l, I : p = c.fval[f] /\ l = c.flen[f] /\ I = Len(c.ikind)
  OBVIOUS
<1>2. p \in Nat /\ l \in Nat /\ p + l <= I /\ I \in Nat
  BY <1>1, AlignedNumbers
<1>3. /\ scan \in [0..l -> Nat] /\ scan[0] = cursor
      /\ \A j \in 1..l :
            LeafStep(c, c.ikind[p + j], c.ival[p + j], c.ilen[p + j], scan[j - 1], scan[j])
  BY <1>1 DEF ItemRun
<1>4. Climbs(scan, l)
  BY <1>3 DEF Climbs, LeafStep
<1>5. \A j \in 1..l : p + j \in 1..I
  BY <1>2
<1>6. \A k \in 1..I : c.ival[k] \in Nat /\ c.ilen[k] \in Nat
  BY <1>1, AlignedNumbers
<1> DEFINE item(j) == <<"item", p + j>>
           bytes(j) == (c.ival[p + j] + 1)..(c.ival[p + j] + c.ilen[p + j])
<1>7. \A j \in 1..l : Span(c, item(j)) = bytes(j)
  <2> SUFFICES ASSUME NEW j \in 1..l PROVE Span(c, item(j)) = bytes(j)
    OBVIOUS
  <2>1. item(j)[1] = "item" /\ item(j)[2] = p + j /\ "item" # "field"
    OBVIOUS
  <2> HIDE DEF item
  <2> QED
    BY <2>1 DEF Span
<1>8. ASSUME NEW j \in 1..l
      PROVE  /\ c.ikind[p + j] \in ScalarKinds => bytes(j) = Segment(scan, j)
             /\ c.ikind[p + j] \notin ScalarKinds => Segment(scan, j) = {}
  BY <1>3, <1>5, <1>6, LeafSpan DEF Segment
<1>9. \A x : OfField(c, f, x) <=> \E j \in 1..l : x = item(j) /\ c.ikind[p + j] \in ScalarKinds
  <2>1. \A k \in (p + 1)..(p + l) : k - p \in 1..l /\ p + (k - p) = k
    BY <1>2
  <2>2. \A j \in 1..l : p + j \in (p + 1)..(p + l)
    BY <1>2
  <2>3. ItemIndexes(c, f) = (p + 1)..(p + l) /\ c.fkind[f] \notin ScalarKinds
    BY <1>1 DEF ItemIndexes, ScalarKinds
  <2> QED
    BY <2>1, <2>2, <2>3 DEF OfField
<1>10. \A i, j \in 1..l : item(i) = item(j) => i = j
  BY <1>2
<1> HIDE DEF item, bytes
<1>11. \A b \in (scan[0] + 1)..scan[l] : \E j \in 1..l : b \in Segment(scan, j)
  BY <1>2, <1>4, SegmentFound
<1>12. \A i \in 1..l : \A b \in Segment(scan, i) :
         b \in (scan[0] + 1)..scan[l] /\ \A j \in 1..l : b \in Segment(scan, j) => j = i
  BY <1>2, <1>4, SegmentOnly
<1>13. PICK whole : whole = (cursor + 1)..scan[l]
  OBVIOUS
<1>14. ASSUME NEW x, OfField(c, f, x) PROVE Span(c, x) \subseteq whole
  BY <1>3, <1>7, <1>8, <1>9, <1>12, <1>13, <1>14
<1>15. ASSUME NEW b \in whole PROVE \E x : OfField(c, f, x) /\ b \in Span(c, x)
  <2>1. PICK j \in 1..l : b \in Segment(scan, j)
    BY <1>3, <1>11, <1>13
  <2>2. c.ikind[p + j] \in ScalarKinds /\ b \in Span(c, item(j))
    BY <1>7, <1>8, <2>1
  <2> QED
    BY <1>9, <2>2
<1>16. ASSUME NEW x, NEW y, OfField(c, f, x), OfField(c, f, y), x # y
       PROVE  Span(c, x) \cap Span(c, y) = {}
  <2>1. PICK i \in 1..l : x = item(i) /\ c.ikind[p + i] \in ScalarKinds
    BY <1>9, <1>16
  <2>2. PICK j \in 1..l : y = item(j) /\ c.ikind[p + j] \in ScalarKinds
    BY <1>9, <1>16
  <2>3. i # j
    BY <1>16, <2>1, <2>2
  <2>4. Span(c, x) = Segment(scan, i) /\ Span(c, y) = Segment(scan, j)
    BY <1>7, <1>8, <2>1, <2>2
  <2> QED
    BY <1>12, <2>3, <2>4
<1>17. SharesOut(c, f, whole)
  BY <1>14, <1>15, <1>16 DEF SharesOut
<1> QED
  BY <1>1, <1>13, <1>17

LEMMA FieldShares ==
  ASSUME NEW c, Aligned(c), NEW C, FieldRun(c, C), NEW f \in 1..Len(c.fkind)
  PROVE  SharesOut(c, f, Segment(ByteAt(c, C), f))
<1>1. FieldStep(c, f, C[f - 1], C[f])
  BY DEF FieldRun
<1>2. Segment(ByteAt(c, C), f) = (C[f - 1][2] + 1)..C[f][2]
  BY RunClimbs DEF Segment
<1>3. CASE c.fkind[f] \in {"set", "sequence"}
  <2>1. /\ c.fval[f] = C[f - 1][1] /\ c.fval[f] + c.flen[f] <= Len(c.ikind)
        /\ \E scan : ItemRun(c, c.fval[f], c.flen[f], C[f - 1][2], scan) /\ scan[c.flen[f]] = C[f][2]
    BY <1>1, <1>3 DEF FieldStep
  <2>2. PICK scan : ItemRun(c, c.fval[f], c.flen[f], C[f - 1][2], scan) /\ scan[c.flen[f]] = C[f][2]
    BY <2>1
  <2>3. SharesOut(c, f, (C[f - 1][2] + 1)..scan[c.flen[f]])
    BY <1>3, <2>1, <2>2, CollectionShares
  <2> QED
    BY <1>2, <2>2, <2>3
<1>4. CASE c.fkind[f] \notin {"set", "sequence"}
  <2>1. LeafStep(c, c.fkind[f], c.fval[f], c.flen[f], C[f - 1][2], C[f][2])
    BY <1>1, <1>4 DEF FieldStep
  <2>2. SharesOut(c, f, (C[f - 1][2] + 1)..C[f][2])
    BY <1>4, <2>1, LeafShares
  <2> QED
    BY <1>2, <2>2
<1> QED
  BY <1>3, <1>4

\* Every scalar is in one field.
LEMMA ScalarFields ==
  ASSUME NEW c, Aligned(c), NEW C, FieldRun(c, C)
  PROVE  \A x : x \in Scalars(c) <=> \E f \in 1..Len(c.fkind) : OfField(c, f, x)
<1>1. PICK F : F = Len(c.fkind)
  OBVIOUS
<1>2. DOMAIN c.fkind = 1..F
  BY <1>1, AlignedNumbers
<1> DEFINE part == [f \in CollectionFields(c) |-> ItemIndexes(c, f)]
<1>3. DOMAIN part = CollectionFields(c) /\ \A f \in CollectionFields(c) : part[f] = ItemIndexes(c, f)
  OBVIOUS
<1>4. UNION { part[f] : f \in DOMAIN part } = DOMAIN c.ikind
  BY ItemsPart DEF Partition
<1> HIDE DEF part
<1>5. \A k : k \in DOMAIN c.ikind <=> \E f \in CollectionFields(c) : k \in ItemIndexes(c, f)
  BY <1>3, <1>4
<1>6. \A f : f \in CollectionFields(c) <=> f \in 1..F /\ c.fkind[f] \in {"set", "sequence"}
  BY <1>2 DEF CollectionFields
<1>7. \A x : x \in Scalars(c) <=>
         \/ \E f \in 1..F : x = <<"field", f>> /\ c.fkind[f] \in ScalarKinds
         \/ \E k \in DOMAIN c.ikind : x = <<"item", k>> /\ c.ikind[k] \in ScalarKinds
  BY <1>2 DEF Scalars
<1>8. ASSUME NEW x, x \in Scalars(c) PROVE \E f \in 1..F : OfField(c, f, x)
  <2>1. CASE \E f \in 1..F : x = <<"field", f>> /\ c.fkind[f] \in ScalarKinds
    BY <2>1 DEF OfField
  <2>2. CASE \E k \in DOMAIN c.ikind : x = <<"item", k>> /\ c.ikind[k] \in ScalarKinds
    <3>1. PICK k \in DOMAIN c.ikind : x = <<"item", k>> /\ c.ikind[k] \in ScalarKinds
      BY <2>2
    <3>2. PICK f \in CollectionFields(c) : k \in ItemIndexes(c, f)
      BY <1>5
    <3> QED
      BY <1>6, <3>1, <3>2 DEF OfField
  <2> QED
    BY <1>7, <1>8, <2>1, <2>2
<1>9. ASSUME NEW x, NEW f \in 1..F, OfField(c, f, x) PROVE x \in Scalars(c)
  <2>1. CASE x = <<"field", f>> /\ c.fkind[f] \in ScalarKinds
    BY <1>7, <2>1
  <2>2. CASE /\ c.fkind[f] \in {"set", "sequence"}
             /\ \E k \in ItemIndexes(c, f) : x = <<"item", k>> /\ c.ikind[k] \in ScalarKinds
    BY <1>5, <1>6, <1>7, <2>2
  <2> QED
    BY <1>9, <2>1, <2>2 DEF OfField
<1> QED
  BY <1>1, <1>8, <1>9

\* The byte cursor gives every byte of the arena to one scalar.
LEMMA BytesPart ==
  ASSUME NEW c, Aligned(c), NEW C, FieldRun(c, C)
  PROVE  Partition([x \in Scalars(c) |-> Span(c, x)], DOMAIN c.arena)
<1>1. PICK F, h : F = Len(c.fkind) /\ h = ByteAt(c, C)
  OBVIOUS
<1>2. /\ F \in Nat /\ Climbs(h, F) /\ h[0] = 0 /\ h[F] = Len(c.arena)
      /\ DOMAIN c.arena = 1..Len(c.arena)
  BY <1>1, AlignedNumbers, RunClimbs
<1>3. \A f \in 1..F : SharesOut(c, f, Segment(h, f))
  BY <1>1, FieldShares
<1>4. \A x : x \in Scalars(c) <=> \E f \in 1..F : OfField(c, f, x)
  BY <1>1, ScalarFields
<1>5. DOMAIN c.arena = (h[0] + 1)..h[F]
  BY <1>2
<1> DEFINE part == [x \in Scalars(c) |-> Span(c, x)]
<1>6. DOMAIN part = Scalars(c) /\ \A x \in Scalars(c) : part[x] = Span(c, x)
  OBVIOUS
<1> HIDE DEF part
<1>7. ASSUME NEW b \in DOMAIN c.arena PROVE \E x \in Scalars(c) : b \in part[x]
  <2>1. PICK f \in 1..F : b \in Segment(h, f)
    BY <1>2, <1>5, SegmentFound
  <2>2. PICK x : OfField(c, f, x) /\ b \in Span(c, x)
    BY <1>3, <2>1 DEF SharesOut
  <2> QED
    BY <1>4, <1>6, <2>2
<1>8. ASSUME NEW x \in Scalars(c), NEW b \in part[x]
      PROVE  b \in DOMAIN c.arena /\ \A y \in Scalars(c) : b \in part[y] => y = x
  <2>1. PICK f \in 1..F : OfField(c, f, x)
    BY <1>4
  <2>2. b \in Segment(h, f)
    BY <1>3, <1>6, <2>1 DEF SharesOut
  <2>3. b \in (h[0] + 1)..h[F] /\ \A g \in 1..F : b \in Segment(h, g) => g = f
    BY <1>2, <2>2, SegmentOnly
  <2>4. ASSUME NEW y \in Scalars(c), b \in part[y] PROVE y = x
    <3>1. PICK g \in 1..F : OfField(c, g, y)
      BY <1>4
    <3>2. b \in Segment(h, g)
      BY <1>3, <1>6, <2>4, <3>1 DEF SharesOut
    <3>3. OfField(c, f, y)
      BY <2>3, <3>1, <3>2
    <3>4. b \in Span(c, x) \cap Span(c, y)
      BY <1>6, <2>4
    <3> QED
      BY <1>3, <2>1, <3>3, <3>4 DEF SharesOut
  <2> QED
    BY <1>5, <2>3, <2>4
<1>9. UNION { part[x] : x \in DOMAIN part } = DOMAIN c.arena
  BY <1>6, <1>7, <1>8
<1>10. \A x, y \in DOMAIN part : x # y => part[x] \cap part[y] = {}
  BY <1>6, <1>8
<1>11. Partition(part, DOMAIN c.arena)
  BY <1>9, <1>10 DEF Partition
<1> QED
  BY <1>11 DEF part

\* Every reference is to a node.
LEMMA ReferencesHeld ==
  ASSUME NEW c, Aligned(c), NEW C, FieldRun(c, C)
  PROVE  /\ \A f \in DOMAIN c.fkind : c.fkind[f] = "node" => c.fval[f] \in Nodes(c)
         /\ \A k \in DOMAIN c.ikind : c.ikind[k] = "node" => c.ival[k] \in Nodes(c)
<1>1. DOMAIN c.fkind = 1..Len(c.fkind)
  BY AlignedNumbers
<1>2. \A f \in 1..Len(c.fkind) : FieldStep(c, f, C[f - 1], C[f])
  BY DEF FieldRun
<1>3. ASSUME NEW f \in DOMAIN c.fkind, c.fkind[f] = "node" PROVE c.fval[f] \in Nodes(c)
  <2>1. LeafStep(c, c.fkind[f], c.fval[f], c.flen[f], C[f - 1][2], C[f][2])
    BY <1>1, <1>2, <1>3 DEF FieldStep
  <2> QED
    BY <1>3, <2>1 DEF LeafStep
<1>4. ASSUME NEW k \in DOMAIN c.ikind, c.ikind[k] = "node" PROVE c.ival[k] \in Nodes(c)
  <2> DEFINE part == [f \in CollectionFields(c) |-> ItemIndexes(c, f)]
  <2>1. UNION { part[f] : f \in DOMAIN part } = DOMAIN c.ikind
    BY ItemsPart DEF Partition
  <2>2. PICK f \in CollectionFields(c) : k \in ItemIndexes(c, f)
    BY <2>1
  <2> HIDE DEF part
  <2>3. f \in 1..Len(c.fkind) /\ c.fkind[f] \in {"set", "sequence"}
    BY <1>1 DEF CollectionFields
  <2>4. PICK p, l : p = c.fval[f] /\ l = c.flen[f]
    OBVIOUS
  <2>5. p \in Nat /\ l \in Nat
    BY <2>3, <2>4, AlignedNumbers
  <2>6. PICK scan : ItemRun(c, p, l, C[f - 1][2], scan)
    BY <1>2, <2>3, <2>4 DEF FieldStep
  <2>7. PICK j : j = k - p
    OBVIOUS
  <2>8. j \in 1..l /\ p + j = k
    BY <2>2, <2>4, <2>5, <2>7 DEF ItemIndexes
  <2>9. LeafStep(c, c.ikind[k], c.ival[k], c.ilen[k], scan[j - 1], scan[j])
    BY <2>6, <2>8 DEF ItemRun
  <2> QED
    BY <1>4, <2>9 DEF LeafStep
<1> QED
  BY <1>3, <1>4

LEMMA PartitionFollows ==
  ASSUME SearchInv
  PROVE  GenericPartition
<1>1. SUFFICES ASSUME stage = "nodes", NEW c, c = columns
               PROVE  /\ Partition([n \in Nodes(c) |-> FieldsOf(c, n)], DOMAIN c.fkind)
                      /\ Partition([f \in CollectionFields(c) |-> ItemIndexes(c, f)], DOMAIN c.ikind)
                      /\ Partition([x \in Scalars(c) |-> Span(c, x)], DOMAIN c.arena)
                      /\ \A f \in DOMAIN c.fkind : c.fkind[f] = "node" => c.fval[f] \in Nodes(c)
                      /\ \A k \in DOMAIN c.ikind : c.ikind[k] = "node" => c.ival[k] \in Nodes(c)
  BY DEF GenericPartition
<1>2. Checked
  BY DEF SearchInv
<1>3. IsTable(c) /\ ValidateGeneric(c) = "ok"
  BY <1>1, <1>2, NodeNumbers DEF Checked
<1>4. Aligned(c)
  BY <1>3, GenericAligned
<1>5. CursorsCover(c) = "ok"
  BY <1>3 DEF ValidateGeneric, &&
<1>6. PICK C : FieldRun(c, C)
  BY <1>4, <1>5, FieldsRun
<1> QED
  BY <1>4, <1>6, NodesPart, ItemsPart, BytesPart, ReferencesHeld

\* A table that validate_generic accepts is cut without gap or overlap: every field has
\* one node, every item one collection, every byte one scalar, and no reference dangles.
THEOREM ColumnsPartition == TableSpec => []GenericPartition
BY SearchHolds, PartitionFollows, PTL

=============================================================================
