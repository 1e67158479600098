------------------------ MODULE EncounterIndexProofs ---------------------------
(***************************************************************************)
(* Encounter streaming implements the in-memory reference, for every set   *)
(* of edges, buffer size, check interval and limit, and whatever fails.    *)
(*                                                                         *)
(* The argument goes along the input.  Everything before the edge at hand  *)
(* is settled: the set or the table holds exactly these edges              *)
(* (MembershipExact), so an edge is new to the index iff it is a first     *)
(* encounter of the input.  The number of first encounters so far is the   *)
(* count of the index (FirstsCounted), and with duplicates coalesced it is *)
(* also the number of edges delivered: the next new edge is the one that   *)
(* the reference has at the next place (Delivered).                        *)
(***************************************************************************)
EXTENDS MCEncounterIndex, FiniteSetTheorems, TLAPS

Reading == {"loop", "add", "insert", "yield"}

Places == Reading \cup {"new", "finally", "end", "exit"}

\* How many edges of the input are settled.
Behind == IF pc \in {"add", "insert"} THEN raw_count - 1 ELSE raw_count

\* The edges met in the first n places, and the places of first encounters there.
Met(n) == { input[i] : i \in 1..n }

Firsts(n) == { i \in 1..n : \A j \in 1..(i - 1) : input[j] # input[i] }

Result == Promise!Reference(input, duplicates)

\* The shapes of the call, the generator and the index.
TypeOK ==
  /\ input \in Seq(Edges) /\ duplicates \in {"preserve", "unique"}
  /\ delivered \in Seq(Edges)
  /\ pc \in Places /\ raw_count \in 0..Len(input)
  /\ pc \in {"add", "insert"} => raw_count > 0
  /\ memory \subseteq Edges /\ seen \subseteq Edges /\ connected \in BOOLEAN
  /\ count \in Nat /\ owner \in {"index", "frame", "none"} /\ dir \in BOOLEAN

\* Nothing has happened before the first edge is asked for.
Unstarted ==
  pc = "new" =>
    /\ raw_count = 0 /\ count = 0 /\ memory = {} /\ seen = {} /\ ~connected
    /\ delivered = <<>> /\ owner = "none"

\* The count of the index is the number of first encounters that are settled.
FirstsCounted == pc \in Reading => count = Cardinality(Firsts(Behind))

\* The consumer has received the reference result of the edges that are settled.
Delivered ==
  pc \in Reading =>
    /\ Len(delivered) = IF duplicates = "preserve" THEN Behind ELSE count
    /\ Len(delivered) <= Len(Result)
    /\ \A k \in 1..Len(delivered) : delivered[k] = Result[k]

\* An iterator is about to complete only with everything delivered and counted.
Ending ==
  /\ pc \notin {"end", "exit"} => outcome = "none"
  /\ pc = "finally" =>
       /\ ending \in {"failed", "cancelled", "closed", "complete"}
       /\ ending = "complete" =>
            delivered = Result /\ statistics = Promise!ReferenceStatistics(input)

\* The directory of a table belongs to the index until the iterator ends.
OwnedTable ==
  seen # {} =>
    /\ pc \notin {"end", "exit"} => owner = "index"
    /\ pc \in {"end", "exit"} => owner = "none" /\ (dir => rmtree_failed)

Inv == TypeOK /\ Unstarted /\ MembershipExact /\ FirstsCounted /\ Delivered /\ Ending
       /\ OwnedTable

-----------------------------------------------------------------------------
(* Sets of edges and places                                                *)

\* The elements of a finite sequence are finitely many.
LEMMA MetFinite ==
  ASSUME NEW n \in Nat
  PROVE  IsFiniteSet(Met(n)) /\ IsFiniteSet(Firsts(n)) /\ IsFiniteSet(1..n)
<1>1. IsFiniteSet(1..n)
  BY FS_Interval
<1> DEFINE f == [i \in 1..n |-> input[i]]
<1>2. f \in Surjection(1..n, Met(n))
  BY DEF Surjection, Met
<1>3. IsFiniteSet(Met(n))
  BY <1>1, <1>2, FS_Surjection
<1>4. Firsts(n) \in SUBSET (1..n)
  BY DEF Firsts
<1> QED
  BY <1>1, <1>3, <1>4, FS_Subset

\* One more place: its edge is met, and it is a first encounter iff it was not.
LEMMA OneMore ==
  ASSUME NEW n \in Nat \ {0}
  PROVE  /\ Met(n) = Met(n - 1) \cup {input[n]}
         /\ Cardinality(Met(n)) =
              IF input[n] \in Met(n - 1) THEN Cardinality(Met(n - 1))
              ELSE Cardinality(Met(n - 1)) + 1
         /\ Cardinality(Firsts(n)) =
              IF input[n] \in Met(n - 1) THEN Cardinality(Firsts(n - 1))
              ELSE Cardinality(Firsts(n - 1)) + 1
         /\ n \in Firsts(n) <=> input[n] \notin Met(n - 1)
<1>0. n - 1 \in Nat /\ n \notin 1..(n - 1) /\ \A i : i \in 1..n <=> i \in 1..(n - 1) \/ i = n
  OBVIOUS
<1>1. Met(n) = Met(n - 1) \cup {input[n]}
  BY <1>0 DEF Met
<1>2. input[n] \in Met(n - 1) <=> \E j \in 1..(n - 1) : input[j] = input[n]
  BY DEF Met
<1>3. n \in Firsts(n) <=> input[n] \notin Met(n - 1)
  BY <1>0, <1>2 DEF Firsts
<1>4. Firsts(n) = IF input[n] \in Met(n - 1) THEN Firsts(n - 1) ELSE Firsts(n - 1) \cup {n}
  BY <1>0, <1>2 DEF Firsts
<1>5. n \notin Firsts(n - 1)
  BY <1>0 DEF Firsts
<1>6. IsFiniteSet(Met(n - 1)) /\ IsFiniteSet(Firsts(n - 1))
  BY <1>0, MetFinite
<1>7. Cardinality(Met(n)) =
              IF input[n] \in Met(n - 1) THEN Cardinality(Met(n - 1))
              ELSE Cardinality(Met(n - 1)) + 1
  BY <1>1, <1>6, FS_AddElement
<1>8. Cardinality(Firsts(n - 1) \cup {n}) = Cardinality(Firsts(n - 1)) + 1
  BY <1>5, <1>6, FS_AddElement
<1> QED
  BY <1>1, <1>3, <1>4, <1>7, <1>8

\* The first encounters of a sequence are its elements at the places of Firsts, in
\* order: the one at place n comes after as many as there are before n.
LEMMA NextEncounter ==
  ASSUME NEW S, input \in Seq(S), NEW n \in 1..Len(input), n \in Firsts(n)
  PROVE  /\ Cardinality(Firsts(n - 1)) + 1 \in 1..Len(Promise!FirstEncounters(input))
         /\ Promise!FirstEncounters(input)[Cardinality(Firsts(n - 1)) + 1] = input[n]
<1> DEFINE kept  == { i \in DOMAIN input : \A j \in 1..(i - 1) : input[j] # input[i] }
           upto(i) == { j \in kept : j <= i }
           At(k) == CHOOSE i \in kept : Cardinality(upto(i)) = k
           c     == Cardinality(Firsts(n - 1))
<1>0. Len(input) \in Nat /\ DOMAIN input = 1..Len(input) /\ n \in Nat \ {0} /\ n - 1 \in Nat
  OBVIOUS
<1>1. Promise!FirstEncounters(input) = [k \in 1..Cardinality(kept) |-> input[At(k)]]
  BY DEF Promise!FirstEncounters, Promise!Picked, Promise!Nth, Promise!Cardinality, Cardinality
<1>2. kept = Firsts(Len(input))
  BY <1>0 DEF Firsts
<1>3. \A i \in kept : upto(i) = Firsts(i) /\ i \in upto(i) /\ i \in 1..Len(input)
  BY <1>0, <1>2 DEF Firsts
<1>4. n \in kept
  BY <1>0 DEF Firsts
<1>5. IsFiniteSet(kept) /\ Cardinality(kept) \in Nat
  BY <1>0, <1>2, MetFinite, FS_CardinalityType
<1>6. \A i \in kept : upto(i) \in SUBSET kept /\ IsFiniteSet(upto(i)) /\ Cardinality(upto(i)) \in Nat
  <2>1. ASSUME NEW i \in kept PROVE IsFiniteSet(upto(i)) /\ Cardinality(upto(i)) \in Nat
    <3>1. upto(i) \in SUBSET kept
      OBVIOUS
    <3> HIDE DEF upto, kept
    <3> QED
      BY <1>5, <3>1, FS_Subset, FS_CardinalityType
  <2> QED
    BY <2>1
<1>7. Cardinality(upto(n)) = c + 1 /\ c \in Nat
  <2>1. input[n] \notin Met(n - 1)
    BY <1>0, OneMore
  <2>2. Cardinality(Firsts(n)) = c + 1
    BY <1>0, <2>1, OneMore
  <2>3. c \in Nat
    BY <1>0, MetFinite, FS_CardinalityType
  <2> QED
    BY <1>3, <1>4, <2>2, <2>3
<1>8. ASSUME NEW i \in kept, NEW j \in kept, i < j
      PROVE  Cardinality(upto(i)) # Cardinality(upto(j))
  <2>1. upto(i) \in SUBSET upto(j) /\ j \in upto(j) /\ j \notin upto(i)
    BY <1>3, <1>8
  <2>2. IsFiniteSet(upto(j))
    BY <1>6
  <2>3. upto(i) # upto(j)
    BY <2>1
  <2> HIDE DEF upto
  <2> QED
    BY <2>1, <2>2, <2>3, FS_Subset
<1>9. \A i \in kept : Cardinality(upto(i)) = c + 1 => i = n
  <2> SUFFICES ASSUME NEW i \in kept, Cardinality(upto(i)) = c + 1, i # n PROVE FALSE
    OBVIOUS
  <2>1. i \in Nat /\ n \in Nat
    BY <1>0, <1>3
  <2>2. i < n \/ n < i
    BY <2>1
  <2> HIDE DEF upto, kept, c
  <2> QED
    BY <1>4, <1>7, <1>8, <2>2
<1>10. At(c + 1) = n
  <2> HIDE DEF upto, kept, c
  <2> QED
    BY <1>4, <1>7, <1>9
<1>11. c + 1 \in 1..Cardinality(kept)
  <2>1. Cardinality(upto(n)) <= Cardinality(kept)
    <3>1. upto(n) \in SUBSET kept
      OBVIOUS
    <3> HIDE DEF upto, kept
    <3> QED
      BY <1>5, <3>1, FS_Subset
  <2> HIDE DEF upto, kept, c
  <2> QED
    BY <1>5, <1>7, <2>1
<1> HIDE DEF At, kept, c, upto
<1>12. Len(Promise!FirstEncounters(input)) = Cardinality(kept)
  BY <1>1, <1>5
<1>13. Promise!FirstEncounters(input)[c + 1] = input[At(c + 1)]
  BY <1>1, <1>11
<1> QED
  BY <1>10, <1>11, <1>12, <1>13 DEF c

\* There are as many first encounters as places of Firsts.
LEMMA EncountersCounted ==
  ASSUME NEW S, input \in Seq(S)
  PROVE  /\ Len(Promise!FirstEncounters(input)) = Cardinality(Firsts(Len(input)))
         /\ Cardinality(Firsts(Len(input))) \in Nat
         /\ DOMAIN Promise!FirstEncounters(input) = 1..Len(Promise!FirstEncounters(input))
         /\ Promise!FirstEncounters(input) = [k \in 1..Len(Promise!FirstEncounters(input)) |->
                                                Promise!FirstEncounters(input)[k]]
<1> DEFINE kept  == { i \in DOMAIN input : \A j \in 1..(i - 1) : input[j] # input[i] }
           At(k) == CHOOSE i \in kept : Cardinality({ j \in kept : j <= i }) = k
<1>0. Len(input) \in Nat /\ DOMAIN input = 1..Len(input)
  OBVIOUS
<1>1. Promise!FirstEncounters(input) = [k \in 1..Cardinality(kept) |-> input[At(k)]]
  BY DEF Promise!FirstEncounters, Promise!Picked, Promise!Nth, Promise!Cardinality, Cardinality
<1>2. kept = Firsts(Len(input))
  BY <1>0 DEF Firsts
<1>3. Cardinality(kept) \in Nat
  BY <1>0, <1>2, MetFinite, FS_CardinalityType
<1> HIDE DEF kept, At
<1>4. Len(Promise!FirstEncounters(input)) = Cardinality(kept)
  BY <1>1, <1>3
<1> QED
  BY <1>1, <1>2, <1>3, <1>4

\* The reference result in encounter order.
LEMMA ResultIs ==
  ASSUME input \in Seq(Edges), duplicates \in {"preserve", "unique"}
  PROVE  /\ duplicates = "preserve" => Result = input
         /\ duplicates = "unique" => Result = Promise!FirstEncounters(input)
         /\ Len(Result) \in Nat
<1>1. duplicates = "preserve" => Result = input
  BY DEF Result, Promise!Reference
<1>2. duplicates = "unique" => Result = Promise!FirstEncounters(input)
  BY DEF Result, Promise!Reference
<1>3. Len(Promise!FirstEncounters(input)) \in Nat /\ Len(input) \in Nat
  BY EncountersCounted
<1> QED
  BY <1>1, <1>2, <1>3

-----------------------------------------------------------------------------
(* One edge                                                                *)

\* What is known of the edge at hand.
LEMMA AtHand ==
  ASSUME Inv, pc \in {"add", "insert"}
  PROVE  /\ raw_count \in 1..Len(input) /\ raw_count \in Nat \ {0} /\ edge \in Edges
         /\ Behind = raw_count - 1 /\ Settled = Met(raw_count - 1)
         /\ memory \cup seen = Met(raw_count - 1) /\ (memory = {} \/ seen = {})
         /\ count = Cardinality(Met(raw_count - 1)) /\ count = Cardinality(Firsts(raw_count - 1))
         /\ Cardinality(memory) <= BufferEdges /\ connected = (seen # {})
         /\ IsFiniteSet(memory) /\ IsFiniteSet(Met(raw_count - 1))
<1>1. raw_count \in 1..Len(input) /\ raw_count \in Nat \ {0} /\ raw_count - 1 \in Nat
  BY DEF Inv, TypeOK
<1>2. edge \in Edges
  BY <1>1 DEF Inv, TypeOK, edge
<1>3. Behind = raw_count - 1 /\ Settled = Met(raw_count - 1)
  BY DEF Behind, Settled, Met
<1>4. /\ memory \cup seen = Met(raw_count - 1) /\ (memory = {} \/ seen = {})
      /\ count = Cardinality(Met(raw_count - 1)) /\ count = Cardinality(Firsts(raw_count - 1))
      /\ Cardinality(memory) <= BufferEdges /\ connected = (seen # {})
  BY <1>3 DEF Inv, MembershipExact, FirstsCounted, Reading
<1>5. IsFiniteSet(Met(raw_count - 1))
  BY <1>1, MetFinite
<1>6. memory \in SUBSET Met(raw_count - 1)
  BY <1>4
<1>7. IsFiniteSet(memory)
  BY <1>5, <1>6, FS_Subset
<1> QED
  BY <1>1, <1>2, <1>3, <1>4, <1>5, <1>7

\* An edge that is to be yielded is the next one of the reference result.
LEMMA NextResult ==
  ASSUME Inv, pc \in {"add", "insert"},
         duplicates = "preserve" \/ edge \notin Met(raw_count - 1)
  PROVE  Len(delivered) + 1 \in 1..Len(Result) /\ Result[Len(delivered) + 1] = edge
<1>0. /\ raw_count \in 1..Len(input) /\ raw_count \in Nat \ {0} /\ Behind = raw_count - 1
      /\ count = Cardinality(Firsts(raw_count - 1))
  BY AtHand
<1>1. /\ input \in Seq(Edges) /\ duplicates \in {"preserve", "unique"}
      /\ Len(delivered) = IF duplicates = "preserve" THEN raw_count - 1 ELSE count
  BY <1>0 DEF Inv, TypeOK, Delivered, Reading
<1>2. CASE duplicates = "preserve"
  <2>1. Result = input /\ Len(delivered) = raw_count - 1
    BY <1>1, <1>2, ResultIs
  <2> QED
    BY <1>0, <1>1, <2>1 DEF edge
<1>3. CASE duplicates = "unique"
  <2>1. Result = Promise!FirstEncounters(input) /\ Len(delivered) = count
    BY <1>1, <1>3, ResultIs
  <2>2. raw_count \in Firsts(raw_count)
    BY <1>0, <1>3, OneMore DEF edge
  <2> QED
    BY <1>0, <1>1, <2>1, <2>2, NextEncounter DEF edge
<1> QED
  BY <1>1, <1>2, <1>3

\* The loop passes an edge on or drops it as the reference does.
LEMMA PassKeeps ==
  ASSUME Inv, pc \in {"add", "insert"}, Pass(edge \notin Met(raw_count - 1)),
         UNCHANGED <<input, duplicates, raw_count>>
  PROVE  /\ pc' \in {"yield", "loop"} /\ delivered' \in Seq(Edges) /\ count' \in Nat
         /\ Settled' = Met(raw_count) /\ Met(raw_count) = Met(raw_count - 1) \cup {edge}
         /\ count' = Cardinality(Met(raw_count))
         /\ FirstsCounted' /\ Delivered'
         /\ \/ delivered' = delivered
            \/ /\ Len(delivered) < Len(Result)
               /\ delivered' = Append(delivered, Result[Len(delivered) + 1])
<1> DEFINE n == raw_count
           new == edge \notin Met(n - 1)
<1>0. /\ n \in 1..Len(input) /\ n \in Nat \ {0} /\ edge \in Edges /\ Behind = n - 1
      /\ count = Cardinality(Met(n - 1)) /\ count = Cardinality(Firsts(n - 1))
  BY AtHand
<1>1. /\ input \in Seq(Edges) /\ duplicates \in {"preserve", "unique"} /\ delivered \in Seq(Edges)
      /\ count \in Nat /\ Len(delivered) \in Nat
  BY DEF Inv, TypeOK
<1>2. /\ Met(n) = Met(n - 1) \cup {edge}
      /\ Cardinality(Met(n)) = IF new THEN count + 1 ELSE count
      /\ Cardinality(Firsts(n)) = IF new THEN count + 1 ELSE count
  BY <1>0, OneMore DEF edge
<1>3. /\ count' = IF new THEN count + 1 ELSE count
      /\ IF duplicates = "preserve" \/ new
           THEN delivered' = Append(delivered, edge) /\ pc' = "yield"
           ELSE delivered' = delivered /\ pc' = "loop"
  BY DEF Pass
<1>4. pc' \in {"yield", "loop"} /\ delivered' \in Seq(Edges) /\ count' \in Nat
  <2>1. Append(delivered, edge) \in Seq(Edges)
    BY <1>0, <1>1
  <2>2. pc' \in {"yield", "loop"} /\ delivered' \in Seq(Edges)
    BY <1>1, <1>3, <2>1
  <2>3. count' \in Nat
    BY <1>1, <1>3
  <2> QED
    BY <2>2, <2>3
<1>5. Behind' = n /\ Settled' = Met(n)
  BY <1>4 DEF Behind, Settled, Met
<1>6. Firsts(n)' = Firsts(n) /\ Result' = Result
  BY DEF Firsts, Result, Promise!Reference
<1>7. FirstsCounted'
  BY <1>2, <1>3, <1>5, <1>6 DEF FirstsCounted, Firsts
<1>8. /\ Len(delivered) = IF duplicates = "preserve" THEN n - 1 ELSE count
      /\ Len(delivered) <= Len(Result) /\ \A k \in 1..Len(delivered) : delivered[k] = Result[k]
  BY <1>0 DEF Inv, Delivered, Reading
<1>9. Len(Result) \in Nat
  BY <1>1, ResultIs
<1>10. CASE duplicates = "preserve" \/ new
  <2>1. Len(delivered) + 1 \in 1..Len(Result) /\ Result[Len(delivered) + 1] = edge
    BY <1>10, NextResult
  <2>2. delivered' = Append(delivered, edge)
    BY <1>3, <1>10
  <2>3. /\ Len(delivered') = Len(delivered) + 1
        /\ \A k \in 1..Len(delivered) : delivered'[k] = delivered[k]
        /\ delivered'[Len(delivered) + 1] = edge
    BY <1>0, <1>1, <2>2
  <2>4. Len(delivered') = IF duplicates = "preserve" THEN n ELSE count'
    BY <1>0, <1>1, <1>3, <1>8, <1>10, <2>3
  <2>5. \A k \in 1..Len(delivered') : delivered'[k] = Result[k]
    BY <1>1, <1>8, <2>1, <2>3
  <2>6. Delivered'
    BY <1>5, <1>6, <1>9, <2>1, <2>3, <2>4, <2>5 DEF Delivered
  <2> QED
    BY <1>1, <1>2, <1>3, <1>4, <1>5, <1>7, <1>9, <2>1, <2>2, <2>6
<1>11. CASE ~(duplicates = "preserve" \/ new)
  <2>1. delivered' = delivered /\ count' = count
    BY <1>3, <1>11
  <2>2. Delivered'
    BY <1>5, <1>6, <1>8, <1>11, <2>1 DEF Delivered
  <2> QED
    BY <1>2, <1>3, <1>4, <1>5, <1>7, <2>1, <2>2
<1> QED
  BY <1>10, <1>11

-----------------------------------------------------------------------------
(* One step                                                                *)

\* A step that leaves the loop early.
LEMMA LeaveKeeps ==
  ASSUME Inv, NEW kind \in {"failed", "cancelled", "closed"}, Leave(kind),
         pc \notin {"end", "exit"}, outcome' = outcome, TypeOK', OwnedTable'
  PROVE  Inv'
<1>1. pc' = "finally" /\ ending' = kind /\ outcome' = "none"
  BY DEF Leave, Inv, Ending
<1>2. Unstarted' /\ MembershipExact' /\ FirstsCounted' /\ Delivered' /\ Ending'
  BY <1>1 DEF Unstarted, MembershipExact, FirstsCounted, Delivered, Ending, Reading
<1> QED
  BY <1>2 DEF Inv

\* A step that leaves the loop early and changes nothing but its place.
LEMMA LeaveOnly ==
  ASSUME Inv, NEW kind \in {"failed", "cancelled", "closed"}, Leave(kind),
         pc \notin {"end", "exit"}, outcome' = outcome, raw_count' \in 0..Len(input),
         UNCHANGED <<input, duplicates, delivered, index, store>>
  PROVE  Inv'
<1>1. TypeOK' /\ OwnedTable'
  BY DEF Inv, TypeOK, OwnedTable, Leave, Places, index, store
<1> QED
  BY <1>1, LeaveKeeps

\* A step of the reader that settles no edge.
LEMMA ReadingKept ==
  ASSUME Inv, pc \in Reading, pc' \in Reading, raw_count' \in 0..Len(input),
         pc' \in {"add", "insert"} => raw_count' > 0, Behind' = Behind,
         UNCHANGED <<input, duplicates, delivered, outcome, index, store>>
  PROVE  Inv'
<1>1. TypeOK'
  BY DEF Inv, TypeOK, Places, index, store
<1>2. Settled = Met(Behind) /\ Settled' = Met(Behind) /\ Firsts(Behind)' = Firsts(Behind)
  BY DEF Settled, Met, Behind, Firsts
<1>3. MembershipExact'
  BY <1>2 DEF Inv, MembershipExact, Reading, index
<1>4. FirstsCounted'
  BY <1>2 DEF Inv, FirstsCounted, index, Firsts
<1>5. Result' = Result
  BY DEF Result, Promise!Reference
<1>6. Delivered'
  BY <1>5 DEF Inv, Delivered, index
<1>7. Unstarted' /\ Ending' /\ OwnedTable'
  BY DEF Inv, Unstarted, Ending, OwnedTable, Reading, index, store
<1> QED
  BY <1>1, <1>3, <1>4, <1>6, <1>7 DEF Inv

\* The first request: the loop begins with nothing met.
LEMMA StartStep == ASSUME Inv, Start PROVE Inv'
<1>0. /\ pc = "new" /\ raw_count = 0 /\ count = 0 /\ memory = {} /\ seen = {} /\ ~connected
      /\ delivered = <<>> /\ outcome = "none" /\ owner = "none"
      /\ UNCHANGED <<input, duplicates, delivered, outcome, raw_count, index, store>>
  BY DEF Inv, Unstarted, Ending, Start, call
<1>1. CASE Leave("cancelled")
  BY <1>0, <1>1, LeaveOnly DEF Inv, TypeOK
<1>2. CASE pc' = "loop"
  <2>1. Settled' = {} /\ Behind' = 0 /\ Firsts(0)' = {}
    BY <1>0, <1>2 DEF Settled, Behind, Firsts
  <2>2. Cardinality({}) = 0
    BY FS_EmptySet
  <2>3. TypeOK'
    BY <1>0, <1>2 DEF Inv, TypeOK, Places, Reading, index, store
  <2>4. BufferEdges \in Nat
    BY EncounterAssumption
  <2>a. connected' = (seen' # {})
    <3>1. connected = FALSE /\ connected' = connected /\ seen' = {}
      BY <1>0 DEF Inv, TypeOK, index
    <3> QED
      BY <3>1
  <2>5. MembershipExact'
    BY <1>0, <2>1, <2>2, <2>4, <2>a DEF MembershipExact, index
  <2>6. FirstsCounted'
    BY <1>0, <2>1, <2>2 DEF FirstsCounted, index, Firsts
  <2>7. Len(Result)' \in Nat
    <3>1. Len(Result) \in Nat /\ Result' = Result
      BY <1>0, ResultIs DEF Inv, TypeOK, Result, Promise!Reference
    <3> QED
      BY <3>1
  <2>8. Delivered'
    BY <1>0, <2>1, <2>7 DEF Delivered, index
  <2>9. Unstarted' /\ Ending' /\ OwnedTable'
    BY <1>0, <1>2 DEF Unstarted, Ending, OwnedTable, index, store
  <2> QED
    BY <2>3, <2>5, <2>6, <2>8, <2>9 DEF Inv
<1> QED
  BY <1>1, <1>2 DEF Start

\* The next edge is read.
LEMMA ReadStep == ASSUME Inv, ReadEdge \/ ReadFails PROVE Inv'
<1>0. /\ pc = "loop" /\ raw_count < Len(input) /\ raw_count \in 0..Len(input) /\ Len(input) \in Nat
      /\ UNCHANGED <<input, duplicates, delivered, outcome, index, store>>
  BY DEF ReadEdge, ReadFails, Inv, TypeOK, call
<1>1. CASE ReadFails
  BY <1>0, <1>1, LeaveOnly DEF ReadFails
<1>2. CASE ReadEdge
  <2>1. raw_count' = raw_count + 1 /\ raw_count' \in 0..Len(input) /\ raw_count' > 0
    BY <1>0, <1>2 DEF ReadEdge
  <2>2. CASE \E kind \in {"failed", "cancelled"} : Leave(kind)
    BY <1>0, <2>1, <2>2, LeaveOnly
  <2>3. CASE pc' = "add"
    <3>1. Behind' = Behind
      BY <1>0, <2>1, <2>3 DEF Behind
    <3> QED
      BY <1>0, <2>1, <2>3, <3>1, ReadingKept DEF Reading
  <2> QED
    BY <1>2, <2>2, <2>3 DEF ReadEdge
<1> QED
  BY <1>1, <1>2

\* The edge is looked up in, and added to, the set in memory.
LEMMA AddStep == ASSUME Inv, AddInMemory PROVE Inv'
<1>0. /\ pc \in {"add", "insert"} /\ ~connected /\ UNCHANGED <<input, duplicates, raw_count>>
      /\ memory' = memory \cup {edge} /\ Pass(edge \notin memory)
      /\ edge \in memory \/ Cardinality(memory) < BufferEdges
      /\ UNCHANGED <<outcome, seen, connected, store>>
  BY DEF AddInMemory, call
<1>1. /\ edge \in Edges /\ seen = {} /\ memory = Met(raw_count - 1)
      /\ IsFiniteSet(memory) /\ Cardinality(memory) <= BufferEdges
  BY <1>0, AtHand
<1>2. /\ pc' \in {"yield", "loop"} /\ delivered' \in Seq(Edges) /\ count' \in Nat
      /\ Settled' = Met(raw_count) /\ Met(raw_count) = memory \cup {edge}
      /\ count' = Cardinality(Met(raw_count))
      /\ FirstsCounted' /\ Delivered'
  BY <1>0, <1>1, PassKeeps
<1>3. Cardinality(memory) \in Nat /\ BufferEdges \in Nat
  BY <1>1, FS_CardinalityType, EncounterAssumption
<1>4. Cardinality(memory') <= BufferEdges
  BY <1>0, <1>1, <1>3, FS_AddElement
<1>5. MembershipExact'
  <2>1. connected' = (seen' # {})
    BY <1>0, AtHand
  <2> QED
    BY <1>0, <1>1, <1>2, <1>4, <2>1 DEF MembershipExact
<1>6. TypeOK'
  BY <1>0, <1>1, <1>2 DEF Inv, TypeOK, Places, Reading, store
<1>7. Unstarted' /\ Ending' /\ OwnedTable'
  BY <1>0, <1>1, <1>2 DEF Inv, Unstarted, Ending, OwnedTable, store
<1> QED
  BY <1>2, <1>5, <1>6, <1>7 DEF Inv

\* The set moves into the table.
LEMMA SpillStep == ASSUME Inv, Spill PROVE Inv'
<1>0. /\ pc = "add" /\ ~connected /\ Cardinality(memory) >= BufferEdges
      /\ seen' = memory /\ memory' = {} /\ connected' = TRUE /\ dir' = TRUE /\ owner' = "index"
      /\ UNCHANGED <<input, duplicates, delivered, outcome, raw_count, count>>
      /\ pc' = "insert" \/ Leave("failed")
  BY DEF Spill, Copied, call
<1>1. /\ seen = {} /\ memory = Met(raw_count - 1) /\ IsFiniteSet(memory)
      /\ count = Cardinality(Met(raw_count - 1)) /\ count = Cardinality(Firsts(raw_count - 1))
      /\ raw_count > 0
  <2>1. connected = (seen # {})
    BY <1>0, AtHand
  <2>2. seen = {}
    BY <1>0, <2>1
  <2>3. /\ memory \cup seen = Met(raw_count - 1) /\ IsFiniteSet(memory)
        /\ count = Cardinality(Met(raw_count - 1)) /\ count = Cardinality(Firsts(raw_count - 1))
        /\ raw_count \in Nat \ {0}
    BY <1>0, AtHand
  <2> QED
    BY <2>2, <2>3
<1>2. memory # {} /\ Cardinality({}) <= BufferEdges
  BY <1>0, FS_EmptySet, EncounterAssumption
<1>3. TypeOK'
  BY <1>0 DEF Inv, TypeOK, Places, Reading, Leave
<1>4. OwnedTable'
  BY <1>0 DEF OwnedTable, Leave
<1>5. CASE Leave("failed")
  BY <1>0, <1>3, <1>4, <1>5, LeaveKeeps
<1>6. CASE pc' = "insert"
  <2>1. Settled' = Met(raw_count - 1) /\ Behind' = Behind /\ Behind = raw_count - 1
    BY <1>0, <1>6 DEF Settled, Met, Behind
  <2>2. MembershipExact'
    BY <1>0, <1>1, <1>2, <2>1 DEF MembershipExact
  <2>3. FirstsCounted'
    BY <1>0, <1>1, <2>1 DEF FirstsCounted, Firsts
  <2>4. Result' = Result
    BY <1>0 DEF Result, Promise!Reference
  <2>5. Delivered'
    BY <1>0, <2>1, <2>4 DEF Inv, Delivered, Reading
  <2>6. Unstarted' /\ Ending'
    BY <1>0, <1>6 DEF Inv, Unstarted, Ending
  <2> QED
    BY <1>3, <1>4, <2>2, <2>3, <2>5, <2>6 DEF Inv
<1> QED
  BY <1>0, <1>5, <1>6

\* A spill that fails, cleaned up or not.
LEMMA SpillFailsStep == ASSUME Inv, SpillFails \/ SpillAbandons PROVE Inv'
<1>0. /\ pc = "add" /\ ~connected /\ Leave("failed")
      /\ UNCHANGED <<input, duplicates, delivered, outcome, raw_count, index>>
      /\ \/ UNCHANGED <<dir, owner>>
         \/ dir' = TRUE /\ owner' = "frame"
  BY DEF SpillFails, SpillAbandons, call, store
<1>1. seen = {} /\ raw_count \in 0..Len(input)
  BY <1>0, AtHand DEF Inv, TypeOK
<1>2. TypeOK'
  BY <1>0, <1>1 DEF Inv, TypeOK, Places, Leave, index
<1>3. OwnedTable'
  BY <1>0, <1>1 DEF OwnedTable, index
<1> QED
  BY <1>0, <1>2, <1>3, LeaveKeeps

\* The edge is looked up in, and added to, the table.
LEMMA InsertStep == ASSUME Inv, Insert PROVE Inv'
<1>0. /\ pc \in {"add", "insert"} /\ connected /\ seen' = seen \cup {edge}
      /\ UNCHANGED <<input, duplicates, raw_count, outcome, memory, connected, dir, owner,
                     rmtree_failed>>
      /\ \/ Pass(edge \notin seen)
         \/ /\ Leave("failed") /\ delivered' = delivered
            /\ count' \in {count, count + 1}
  BY DEF Insert, call
<1>1. /\ edge \in Edges /\ memory = {} /\ seen = Met(raw_count - 1) /\ seen # {}
      /\ Cardinality(memory) <= BufferEdges
  BY <1>0, AtHand
<1>2. CASE Pass(edge \notin seen)
  <2>1. /\ pc' \in {"yield", "loop"} /\ delivered' \in Seq(Edges) /\ count' \in Nat
        /\ Settled' = Met(raw_count) /\ Met(raw_count) = seen \cup {edge}
        /\ count' = Cardinality(Met(raw_count))
        /\ FirstsCounted' /\ Delivered'
    BY <1>0, <1>1, <1>2, PassKeeps
  <2>2. MembershipExact'
    BY <1>0, <1>1, <2>1 DEF MembershipExact
  <2>3. TypeOK'
    BY <1>0, <1>1, <2>1 DEF Inv, TypeOK, Places, Reading
  <2>4. Unstarted' /\ Ending' /\ OwnedTable'
    BY <1>0, <1>1, <2>1 DEF Inv, Unstarted, Ending, OwnedTable
  <2> QED
    BY <2>1, <2>2, <2>3, <2>4 DEF Inv
<1>3. CASE Leave("failed") /\ delivered' = delivered /\ count' \in {count, count + 1}
  <2>1. TypeOK'
    BY <1>0, <1>1, <1>3 DEF Inv, TypeOK, Places, Leave
  <2>2. OwnedTable'
    BY <1>0, <1>1, <1>3 DEF Inv, OwnedTable, Leave
  <2> QED
    BY <1>0, <1>3, <2>1, <2>2, LeaveKeeps
<1> QED
  BY <1>0, <1>2, <1>3

\* Everything is settled when the source ends.
LEMMA ExhaustedStep == ASSUME Inv, SourceExhausted PROVE Inv'
<1>0. /\ pc = "loop" /\ raw_count = Len(input)
      /\ UNCHANGED <<input, duplicates, delivered, outcome, raw_count, index, store>>
      /\ \/ Leave("cancelled")
         \/ Leave("complete") /\ statistics' = <<raw_count, count>>
  BY DEF SourceExhausted, call
<1>a. /\ input \in Seq(Edges) /\ duplicates \in {"preserve", "unique"} /\ delivered \in Seq(Edges)
      /\ raw_count \in 0..Len(input) /\ Len(input) \in Nat
  BY DEF Inv, TypeOK
<1>1. CASE Leave("cancelled")
  BY <1>0, <1>a, <1>1, LeaveOnly
<1>2. CASE Leave("complete") /\ statistics' = <<raw_count, count>>
  <2>1. Behind = Len(input) /\ Settled = Met(Len(input))
    BY <1>0 DEF Behind, Settled, Met
  <2>2. count = Cardinality(Met(Len(input))) /\ count = Cardinality(Firsts(Len(input)))
    BY <1>0, <2>1 DEF Inv, MembershipExact, FirstsCounted, Reading
  <2>3. /\ Len(delivered) = IF duplicates = "preserve" THEN Len(input) ELSE count
        /\ \A k \in 1..Len(delivered) : delivered[k] = Result[k]
    BY <1>0, <2>1 DEF Inv, Delivered, Reading
  <2>4. delivered = Result
    <3>1. CASE duplicates = "preserve"
      <4>1. Result = input
        BY <1>a, <3>1, ResultIs
      <4> QED
        BY <1>a, <2>3, <3>1, <4>1
    <3>2. CASE duplicates = "unique"
      <4>1. Result = Promise!FirstEncounters(input)
        BY <1>a, <3>2, ResultIs
      <4>2. Len(Result) = Len(delivered) /\ Result = [k \in 1..Len(Result) |-> Result[k]]
        BY <1>a, <2>2, <2>3, <3>2, <4>1, EncountersCounted
      <4>3. delivered = [k \in 1..Len(delivered) |-> delivered[k]]
        BY <1>a
      <4> QED
        BY <2>3, <4>2, <4>3
    <3> QED
      BY <1>a, <3>1, <3>2
  <2>5. statistics' = Promise!ReferenceStatistics(input)
    <3>1. Promise!ToSet(input) = Met(Len(input))
      BY <1>a DEF Promise!ToSet, Met
    <3>2. Promise!Cardinality(Met(Len(input))) = Cardinality(Met(Len(input)))
      BY DEF Promise!Cardinality, Cardinality
    <3> QED
      BY <1>0, <1>2, <2>2, <3>1, <3>2 DEF Promise!ReferenceStatistics
  <2>6. Result' = Result /\ Promise!ReferenceStatistics(input)' = Promise!ReferenceStatistics(input)
    BY <1>0 DEF Result, Promise!Reference, Promise!ReferenceStatistics
  <2>7. Ending'
    BY <1>0, <1>2, <2>4, <2>5, <2>6 DEF Inv, Ending, Leave
  <2>8. TypeOK' /\ OwnedTable'
    BY <1>0, <1>a, <1>2 DEF Inv, TypeOK, OwnedTable, Places, Leave, index, store
  <2>9. Unstarted' /\ MembershipExact' /\ FirstsCounted' /\ Delivered'
    BY <1>2 DEF Unstarted, MembershipExact, FirstsCounted, Delivered, Reading, Leave
  <2> QED
    BY <2>7, <2>8, <2>9 DEF Inv
<1> QED
  BY <1>0, <1>1, <1>2

\* The iterator is over.
LEMMA Over ==
  ASSUME Inv, pc' \in {"end", "exit"}, TypeOK', OwnedTable'
  PROVE  Inv'
BY DEF Inv, Unstarted, MembershipExact, FirstsCounted, Delivered, Ending, Reading

\* The remaining steps: closing, the finally block, the exit hook, the token.
LEMMA OtherStep ==
  ASSUME Inv, InsertFails \/ Resume \/ Close \/ Finally \/ AtExit \/ Collect \/ CancelToken
  PROVE  Inv'
<1>a. raw_count \in 0..Len(input)
  BY DEF Inv, TypeOK
<1>1. CASE InsertFails
  BY <1>a, <1>1, LeaveOnly DEF InsertFails, call
<1>2. CASE Resume
  <2>1. pc = "yield" /\ pc' = "loop" /\ raw_count' = raw_count
        /\ UNCHANGED <<input, duplicates, delivered, outcome, index, store>>
    BY <1>2 DEF Resume, call
  <2>2. Behind' = Behind
    BY <2>1 DEF Behind
  <2> QED
    BY <1>a, <2>1, <2>2, ReadingKept DEF Reading
<1>3. CASE Close
  <2>1. CASE pc = "yield"
    BY <1>a, <1>3, <2>1, LeaveOnly DEF Close, call
  <2>2. CASE pc = "new"
    <3>1. pc' = "end" /\ UNCHANGED <<input, duplicates, delivered, raw_count, index, store>>
      BY <1>3, <2>2 DEF Close, call
    <3>2. TypeOK' /\ OwnedTable'
      BY <2>2, <3>1 DEF Inv, TypeOK, Unstarted, OwnedTable, Places, index, store
    <3> QED
      BY <3>1, <3>2, Over
  <2> QED
    BY <1>3, <2>1, <2>2 DEF Close
<1>4. CASE Finally
  <2>1. /\ pc = "finally" /\ pc' = "end" /\ connected' = FALSE /\ memory' = {}
        /\ UNCHANGED <<input, duplicates, delivered, raw_count, seen, count>>
        /\ IF owner = "index" THEN RemoveTree ELSE UNCHANGED store
    BY <1>4 DEF Finally, CloseIndex, call
  <2>2. IF owner = "index" THEN owner' = "none" /\ ((dir' = FALSE) \/ (rmtree_failed' = TRUE /\ dir' = dir))
                           ELSE UNCHANGED <<dir, owner, rmtree_failed>>
    BY <2>1 DEF RemoveTree, store
  <2>3. TypeOK' /\ OwnedTable'
    BY <2>1, <2>2 DEF Inv, TypeOK, OwnedTable, Places
  <2> QED
    BY <2>1, <2>3, Over
<1>5. CASE AtExit
  <2>1. /\ pc \in {"yield", "end"} /\ pc' = "exit"
        /\ UNCHANGED <<input, duplicates, delivered, raw_count, index>>
        /\ IF owner = "none" THEN UNCHANGED store ELSE RemoveTree
    BY <1>5 DEF AtExit, call
  <2>2. IF owner = "none" THEN UNCHANGED <<dir, owner, rmtree_failed>>
        ELSE owner' = "none" /\ ((dir' = FALSE) \/ (rmtree_failed' = TRUE /\ dir' = dir))
    BY <2>1 DEF RemoveTree, store
  <2>3. TypeOK' /\ OwnedTable'
    BY <2>1, <2>2 DEF Inv, TypeOK, OwnedTable, Places, index
  <2> QED
    BY <2>1, <2>3, Over
<1>6. CASE Collect
  <2>1. /\ pc = "end" /\ pc' = pc /\ owner' = "none"
        /\ UNCHANGED <<input, duplicates, delivered, raw_count, index, dir, rmtree_failed>>
    BY <1>6 DEF Collect, call
  <2>2. TypeOK' /\ OwnedTable'
    BY <2>1 DEF Inv, TypeOK, OwnedTable, index
  <2> QED
    BY <2>1, <2>2, Over
<1>7. CASE CancelToken
  <2>1. UNCHANGED <<input, duplicates, delivered, outcome, statistics, pc, raw_count, ending,
                    index, store>>
    BY <1>7 DEF CancelToken
  <2>2. Result' = Result /\ Promise!ReferenceStatistics(input)' = Promise!ReferenceStatistics(input)
    BY <2>1 DEF Result, Promise!Reference, Promise!ReferenceStatistics
  <2>3. Settled' = Settled /\ Behind' = Behind /\ Firsts(Behind)' = Firsts(Behind)
    BY <2>1 DEF Settled, Behind, Firsts
  <2>4. MembershipExact' /\ FirstsCounted'
    BY <2>1, <2>3 DEF Inv, MembershipExact, FirstsCounted, index
  <2>5. Delivered' /\ Ending'
    BY <2>1, <2>2, <2>3 DEF Inv, Delivered, Ending, index
  <2>6. TypeOK' /\ Unstarted' /\ OwnedTable'
    BY <2>1 DEF Inv, TypeOK, Unstarted, OwnedTable, index, store
  <2> QED
    BY <2>4, <2>5, <2>6 DEF Inv
<1> QED
  BY <1>1, <1>2, <1>3, <1>4, <1>5, <1>6, <1>7

\* Steps that change nothing.
LEMMA Stuttering == ASSUME Inv, UNCHANGED vars PROVE Inv'
<1>1. UNCHANGED <<input, duplicates, delivered, outcome, statistics, pc, raw_count, ending,
                  index, store>>
  BY DEF vars, call
<1>2. Result' = Result /\ Promise!ReferenceStatistics(input)' = Promise!ReferenceStatistics(input)
  BY <1>1 DEF Result, Promise!Reference, Promise!ReferenceStatistics
<1>3. Settled' = Settled /\ Behind' = Behind /\ Firsts(Behind)' = Firsts(Behind)
  BY <1>1 DEF Settled, Behind, Firsts
<1>4. MembershipExact' /\ FirstsCounted'
  BY <1>1, <1>3 DEF Inv, MembershipExact, FirstsCounted, index
<1>5. Delivered' /\ Ending'
  BY <1>1, <1>2, <1>3 DEF Inv, Delivered, Ending, index
<1>6. TypeOK' /\ Unstarted' /\ OwnedTable'
  BY <1>1 DEF Inv, TypeOK, Unstarted, OwnedTable, index, store
<1> QED
  BY <1>4, <1>5, <1>6 DEF Inv

-----------------------------------------------------------------------------
(* The theorems                                                            *)

\* Nothing has been met at the start.
LEMMA Initially == Init => Inv
<1> SUFFICES ASSUME Init PROVE Inv
  OBVIOUS
<1>1. input \in Seq(Edges)
  <2>1. PICK n \in 0..MaxInput : input \in [1..n -> Edges]
    BY DEF Init
  <2>2. n \in Nat
    BY EncounterAssumption
  <2> QED
    BY <2>1, <2>2
<1>2. TypeOK /\ Unstarted
  <2>1. delivered \in Seq(Edges) /\ raw_count \in 0..Len(input) /\ pc \in Places
    BY <1>1 DEF Init, Places
  <2>2. connected \in BOOLEAN /\ dir \in BOOLEAN /\ ~connected
    BY DEF Init
  <2> QED
    BY <1>1, <2>1, <2>2 DEF Init, TypeOK, Unstarted
<1>3. MembershipExact /\ FirstsCounted /\ Delivered /\ Ending /\ OwnedTable
  BY DEF Init, MembershipExact, FirstsCounted, Delivered, Ending, OwnedTable, Reading
<1> QED
  BY <1>2, <1>3 DEF Inv

\* Inv is inductive.
LEMMA Inductive == Inv /\ [Next]_vars => Inv'
BY StartStep, ReadStep, AddStep, SpillStep, SpillFailsStep, InsertStep, ExhaustedStep, OtherStep,
   Stuttering DEF Next, Generator, Exited

\* Inv holds in every reachable state.
LEMMA Invariance == Spec => []Inv
BY Initially, Inductive, PTL DEF Spec

\* streaming.py, _DistinctIndex: whatever the buffer, the limits and the check
\* interval are, the index knows exactly the edges met, before and after its spill.
THEOREM IndexExact == Spec => []MembershipExact
<1>1. Inv => MembershipExact
  BY DEF Inv
<1> QED
  BY <1>1, Invariance, PTL

\* streaming.py, _DistinctIndex.close: the directory of an index that came into use is
\* removed however the iterator ends, unless removing it fails.
THEOREM DirectoryReleased == Spec => []IndexReleased
<1>1. Inv => IndexReleased
  BY DEF Inv, OwnedTable, IndexReleased
<1> QED
  BY <1>1, Invariance, PTL
-----------------------------------------------------------------------------
(* The refinement                                                          *)

\* The reference sees nothing of a step that delivers no edge and ends nothing.
LEMMA Unseen ==
  ASSUME Inv, UNCHANGED <<input, duplicates, delivered, outcome>>,
         pc \notin {"end", "exit"} \/ statistics' = statistics
  PROVE  UNCHANGED Promise!streamVars
<1>1. outcome # "complete" \/ statistics' = statistics
  BY DEF Inv, Ending
<1> QED
  BY <1>1 DEF Promise!streamVars

\* An edge that passes the index is the next edge of the reference, or none of it.
LEMMA PassSeen ==
  ASSUME Inv, pc \in {"add", "insert"}, Pass(edge \notin Met(raw_count - 1)),
         UNCHANGED <<input, duplicates, raw_count, outcome, statistics>>
  PROVE  Promise!Next \/ UNCHANGED Promise!streamVars
<1>1. outcome = "none"
  BY DEF Inv, Ending
<1>2. CASE delivered' = delivered
  BY <1>2, Unseen
<1>3. CASE /\ Len(delivered) < Len(Result)
           /\ delivered' = Append(delivered, Result[Len(delivered) + 1])
  <2>1. Promise!Yield
    BY <1>1, <1>3 DEF Promise!Yield, Result
  <2> QED
    BY <2>1 DEF Promise!Next
<1> QED
  BY <1>2, <1>3, PassKeeps

\* The finally block ends the iterator as the reference may end.
LEMMA FinallySeen == ASSUME Inv, Finally PROVE Promise!Next
<1>1. /\ pc = "finally" /\ outcome' \in {"failed", ending}
      /\ UNCHANGED <<input, duplicates, delivered, statistics>>
  BY DEF Finally, call
<1>2. /\ outcome = "none" /\ ending \in {"failed", "cancelled", "closed", "complete"}
      /\ ending = "complete" =>
           delivered = Result /\ statistics = Promise!ReferenceStatistics(input)
  BY <1>1 DEF Inv, Ending
<1>3. CASE outcome' = "complete"
  <2>1. ending = "complete"
    BY <1>1, <1>3
  <2>2. Promise!Exhaust
    BY <1>1, <1>2, <1>3, <2>1 DEF Promise!Exhaust, Result
  <2> QED
    BY <2>2 DEF Promise!Next
<1>4. CASE outcome' # "complete"
  <2>1. Promise!Stop
    BY <1>1, <1>2, <1>4 DEF Promise!Stop
  <2> QED
    BY <2>1 DEF Promise!Next
<1> QED
  BY <1>3, <1>4

\* Every step of the generator is a step of the reference or invisible to it.
LEMMA StepSeen ==
  ASSUME Inv, [Next]_vars
  PROVE  [Promise!Next]_(Promise!streamVars)
<1>1. CASE AddInMemory
  <2>1. /\ pc \in {"add", "insert"} /\ ~connected /\ Pass(edge \notin memory)
        /\ UNCHANGED <<input, duplicates, raw_count, outcome, statistics>>
    BY <1>1 DEF AddInMemory, call
  <2>2. memory \cup seen = Met(raw_count - 1) /\ connected = (seen # {})
    BY <2>1, AtHand
  <2>3. memory = Met(raw_count - 1)
    BY <2>1, <2>2
  <2> QED
    BY <2>1, <2>3, PassSeen
<1>2. CASE Insert
  <2>1. /\ pc \in {"add", "insert"} /\ connected
        /\ Pass(edge \notin seen) \/ delivered' = delivered
        /\ UNCHANGED <<input, duplicates, raw_count, outcome, statistics>>
    BY <1>2 DEF Insert, call
  <2>2. /\ memory \cup seen = Met(raw_count - 1) /\ connected = (seen # {})
        /\ memory = {} \/ seen = {}
    BY <2>1, AtHand
  <2>3. seen = Met(raw_count - 1)
    BY <2>1, <2>2
  <2> QED
    BY <2>1, <2>3, PassSeen, Unseen
<1>3. CASE Finally
  BY <1>3, FinallySeen
<1>4. CASE Close
  <2>1. CASE pc = "yield"
    BY <1>4, <2>1, Unseen DEF Close, call
  <2>2. CASE pc = "new"
    <3>1. outcome = "none" /\ outcome' = "closed"
          /\ UNCHANGED <<input, duplicates, delivered, statistics>>
      BY <1>4, <2>2 DEF Inv, Ending, Close, call
    <3>2. Promise!Stop
      BY <3>1 DEF Promise!Stop
    <3> QED
      BY <3>2 DEF Promise!Next
  <2> QED
    BY <1>4, <2>1, <2>2 DEF Close
<1>5. CASE \/ Start \/ ReadEdge \/ ReadFails \/ Spill \/ SpillFails \/ SpillAbandons
           \/ InsertFails \/ SourceExhausted \/ Resume
  <2>1. pc \notin {"end", "exit"} /\ UNCHANGED <<input, duplicates, delivered, outcome>>
    BY <1>5 DEF Start, ReadEdge, ReadFails, Spill, SpillFails, SpillAbandons, InsertFails,
                SourceExhausted, Resume, call
  <2> QED
    BY <2>1, Unseen
<1>6. CASE AtExit \/ Collect \/ CancelToken \/ UNCHANGED vars
  <2>1. UNCHANGED <<input, duplicates, delivered, outcome, statistics>>
    BY <1>6 DEF AtExit, Collect, CancelToken, vars, call
  <2> QED
    BY <2>1, Unseen
<1> QED
  BY <1>1, <1>2, <1>3, <1>4, <1>5, <1>6 DEF Next, Generator, Exited

\* A generator that has not started is an open iterator of the reference.
LEMMA InitSeen == Init => Promise!Init
<1> SUFFICES ASSUME Init PROVE Promise!Init
  OBVIOUS
<1>1. input \in Seq(Edges) /\ Edges \subseteq Nat
  BY Initially, EncounterAssumption DEF Inv, TypeOK
<1>2. input \in Seq(Nat)
  <2>1. Len(input) \in Nat /\ input \in [1..Len(input) -> Edges]
    BY <1>1
  <2>2. input \in [1..Len(input) -> Nat]
    BY <1>1, <2>1
  <2> QED
    BY <2>1, <2>2
<1> QED
  BY <1>2 DEF Init, Promise!Init, Promise!NoStatistics

\* streaming.py, _iter_encounter: for every input, policy, buffer size and limit, and
\* whatever fails or is cancelled, the consumer receives the edges of compiler.py's
\* in-memory loop in its order, up to where the iterator stops, and only an iterator that
\* delivered all of them completes, with the reference's statistics.
THEOREM EncounterRefines == Spec => ImplementsReference
<1>1. Inv /\ [Next]_vars => [Promise!Next]_(Promise!streamVars)
  BY StepSeen
<1> QED
  BY <1>1, InitSeen, Invariance, PTL DEF Spec, ImplementsReference, Promise!Spec

=============================================================================
