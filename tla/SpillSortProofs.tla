---------------------------- MODULE SpillSortProofs ----------------------------
(***************************************************************************)
(* Proofs about SpillSort, for every buffer size, fan-in, limit, record    *)
(* size and input: type correctness, the byte limits, the bound on open    *)
(* files, that nothing is left behind, what lies on disk, and how many     *)
(* merge passes are made (streaming.py, _SpillWorkspace, _iter_canonical). *)
(*                                                                         *)
(* The byte limits alone are not inductive: _grow adds the size of the     *)
(* record that the merge offers next, so its type rests on the heap, the   *)
(* heap on the readers, and the readers on the files of the group.         *)
(* GroupFrame and ReaderFrame state that chain, PlaceFrame that a          *)
(* directory in use is known to whoever has to remove it.                  *)
(***************************************************************************)
EXTENDS SpillSort, SequenceLemmas, TLAPS

\* The program counter and the group of runs being merged.
GroupFrame ==
  /\ pc = "reduce" => current # <<>>
  /\ pc = "pass" => current # <<>> \/ following # <<>>
  /\ pc = "delete" => group # <<>> /\ following # <<>>
  /\ Len(group) <= FanIn

\* The program counter and the open readers of that group.
ReaderFrame ==
  /\ pc \notin {"open", "write", "drain", "yield"} => readers = <<>> /\ heap = {}
  /\ pc = "open" => Len(readers) < Len(group)
  /\ Len(readers) <= Len(group)
  /\ \A i \in 1..Len(readers) : readers[i].run \in DOMAIN files
  /\ \A x \in heap : x[2] \in 1..Len(readers)
  /\ owed # 0 => owed \in 1..Len(readers)

\* The program counter, the directory and the file being written: a directory
\* that is in use is tracked, so the finally block and the exit hook find it.
PlaceFrame ==
  /\ pc \notin {"open", "write"} => writing = 0
  /\ pc = "new" => ~dir /\ DOMAIN files = {}
  /\ pc \notin {"new", "end", "exit"} => dir /\ tracked

Inv == TypeOK /\ GroupFrame /\ ReaderFrame /\ WithinByteLimits
       /\ PlaceFrame /\ NothingLeftBehind

-----------------------------------------------------------------------------
(* Lemmas                                                                  *)

\* A nonempty heap has a least record.
LEMMA TopExists ==
  ASSUME heap \subseteq Nat \X Nat, heap # {}
  PROVE  \E x \in heap : \A y \in heap : x[1] < y[1] \/ (x[1] = y[1] /\ x[2] <= y[2])
<1>1. PICK k \in { x[1] : x \in heap } : \A y \in { x[1] : x \in heap } : k <= y
  <2> { x[1] : x \in heap } \in SUBSET Nat /\ { x[1] : x \in heap } # {}
    OBVIOUS
  <2> QED
    BY NatMinimum
<1> DEFINE I == { x[2] : x \in { z \in heap : z[1] = k } }
<1>2. PICK i \in I : \A y \in I : i <= y
  <2> I \in SUBSET Nat /\ I # {}
    OBVIOUS
  <2> HIDE DEF I
  <2> QED
    BY NatMinimum
<1>3. PICK x \in heap : x[1] = k /\ x[2] = i
  BY <1>2
<1>4. \A y \in heap : x[1] < y[1] \/ (x[1] = y[1] /\ x[2] <= y[2])
  <2> SUFFICES ASSUME NEW y \in heap
               PROVE  x[1] < y[1] \/ (x[1] = y[1] /\ x[2] <= y[2])
    OBVIOUS
  <2>1. k <= y[1] /\ k \in Nat /\ y[1] \in Nat
    BY <1>1
  <2>2. CASE y[1] = k
    BY <1>2, <1>3, <2>2
  <2>3. CASE y[1] # k
    BY <1>3, <2>1, <2>3
  <2> QED
    BY <2>2, <2>3
<1> QED
  BY <1>4

\* heappop of a nonempty heap returns a member of it.
LEMMA TopInHeap ==
  ASSUME heap \subseteq Nat \X Nat, heap # {}
  PROVE  Top \in heap
BY TopExists DEF Top


-----------------------------------------------------------------------------
\* Sequences are closed under the operations the actions apply to them.
LEMMA SeqClosed ==
  ASSUME NEW S, NEW s \in Seq(S)
  PROVE  /\ <<>> \in Seq(S)
         /\ \A e \in S : Append(s, e) \in Seq(S)
         /\ s # <<>> => Tail(s) \in Seq(S) /\ Head(s) \in S
         /\ \A i \in 1..Len(s) : s[i] \in S
         /\ \A i \in 1..Len(s), e \in S :
              /\ [s EXCEPT ![i] = e] \in Seq(S)
              /\ Len([s EXCEPT ![i] = e]) = Len(s)
  OBVIOUS

\* The next record a run is given, or the consumer receives, is an edge.
LEMMA TopType ==
  ASSUME Inv, heap # {}
  PROVE  Top \in heap /\ Top[1] \in Edges /\ Top[2] \in 1..Len(readers) /\ Top[2] \in Nat
<1>1. heap \subseteq Nat \X Nat
  BY SpillAssumption DEF Inv, TypeOK, MergeType
<1>2. Top \in heap
  BY <1>1, TopInHeap
<1> QED
  BY <1>2 DEF Inv, TypeOK, MergeType, ReaderFrame

\* The record that _write_run encodes next is an edge of known size.
LEMMA UpcomingType ==
  ASSUME Inv, ~Exhausted
  PROVE  /\ Upcoming \in Edges
         /\ RecordBytes[Upcoming] \in Nat
         /\ group = <<>> => Tail(todo) \in Seq(Edges)
<1>1. CASE group = <<>>
  <2>1. todo \in Seq(Edges) /\ todo # <<>>
    BY <1>1 DEF Inv, TypeOK, WriteType, Exhausted
  <2> QED
    BY <1>1, <2>1, SpillAssumption DEF Upcoming
<1>2. CASE group # <<>>
  <2>1. heap # {}
    BY <1>2 DEF Exhausted
  <2> QED
    BY <1>2, <2>1, TopType, SpillAssumption DEF Upcoming
<1> QED
  BY <1>1, <1>2

\* An exception that forgets the partial run leaves well-formed files.
LEMMA ForgetFiles ==
  ASSUME FilesType, RaiseResource
  PROVE  FilesType'
<1>1. run_sizes' = run_sizes /\ (files' = files \/ files' = Without(files, writing))
  BY DEF RaiseResource, ForgetPartial, disk
<1>2. /\ DOMAIN files' \subseteq DOMAIN files
      /\ \A f \in DOMAIN files' : files'[f] = files[f]
  BY <1>1 DEF Without
<1> QED
  BY <1>1, <1>2 DEF FilesType

\* Changing one file to a well-formed file leaves well-formed files.
LEMMA FileChanged ==
  ASSUME FilesType, NEW k, NEW v, k \in DOMAIN files => v \in FileRecord,
         files' = [files EXCEPT ![k] = v]
  PROVE  /\ DOMAIN files' \subseteq Nat
         /\ \A f \in DOMAIN files' : files'[f] \in FileRecord
  BY DEF FilesType

\* So does adding one.
LEMMA FileAdded ==
  ASSUME FilesType, NEW k \in Nat, NEW v \in FileRecord, files' = With(files, k, v)
  PROVE  /\ DOMAIN files' \subseteq Nat
         /\ \A f \in DOMAIN files' : files'[f] \in FileRecord
<1>1. /\ DOMAIN files' = DOMAIN files \cup {k}
      /\ files'[k] = v
      /\ \A f \in DOMAIN files : f # k => files'[f] = files[f]
  BY DEF With
<1> QED
  BY <1>1 DEF FilesType

\* cleanup leaves no file, or some of the files there were.
LEMMA RemoveTreeFiles ==
  ASSUME FilesType, RemoveTree
  PROVE  FilesType'
<1>1. run_sizes' = NoRuns
  BY DEF RemoveTree
<1>2. files' = NoFiles \/ \E left \in SUBSET DOMAIN files : files' = [ x \in left |-> files[x] ]
  BY DEF RemoveTree
<1> QED
  BY <1>1, <1>2 DEF FilesType, NoRuns, NoFiles

\* _grow keeps the account within the limits, or leaves it alone.
LEMMA GrowBytes ==
  ASSUME BytesType, WithinByteLimits, NEW n \in Nat, Grow(n)
  PROVE  BytesType' /\ WithinByteLimits'
<1>1. PICK free \in Estimates(n) : n <= free /\ available' = free - n
  BY DEF Grow, Fits
<1>2. free \in Nat
  BY SpillAssumption DEF Estimates, BytesType
<1>3. available' \in Nat
  BY <1>1, <1>2
<1>4. /\ live_bytes' = live_bytes + n
      /\ total_written' = total_written + n
      /\ peak_live_bytes' = IF peak_live_bytes >= live_bytes + n
                              THEN peak_live_bytes ELSE live_bytes + n
  BY DEF Grow, Larger
<1>5. /\ MaxTemporaryBytes # NoLimit => live_bytes + n <= MaxTemporaryBytes
      /\ MaxSpillBytes # NoLimit => total_written + n <= MaxSpillBytes
  BY DEF Grow, OverLimit, Within
<1>6. BytesType'
  BY <1>3, <1>4 DEF BytesType
<1> QED
  BY <1>4, <1>5, <1>6, SpillAssumption DEF BytesType, WithinByteLimits, Within

-----------------------------------------------------------------------------
(* The inductive step, one lemma per part of the invariant, one step per   *)
(* action                                                                  *)

\* The invariant holds before the iterator is first advanced.
LEMMA Initially == Init => Inv
<1> SUFFICES ASSUME Init
             PROVE  Inv
  OBVIOUS
<1> USE SpillAssumption DEF Init
<1>1. input \in Seq(Edges)
  OBVIOUS
<1>2. CallType /\ RunsType
  BY <1>1 DEF CallType, RunsType
<1>3. WriteType /\ MergeType /\ BytesType
  BY DEF WriteType, MergeType, BytesType
<1>4. FilesType
  BY DEF FilesType, NoFiles, NoRuns
<1>7. EnvironmentType
  <2>1. damage \in Nat /\ damage <= MaxDamage
    OBVIOUS
  <2> QED
    BY <2>1, Zenon DEF EnvironmentType
<1>5. GroupFrame /\ ReaderFrame
  BY DEF GroupFrame, ReaderFrame
<1>6. WithinByteLimits
  BY DEF WithinByteLimits, Within
<1>8. PlaceFrame /\ NothingLeftBehind
  BY DEF PlaceFrame, NothingLeftBehind, NoFiles
<1> QED
  BY <1>2, <1>3, <1>4, <1>5, <1>6, <1>7, <1>8 DEF Inv, TypeOK

\* What the call and its consumer see stays well-typed.
LEMMA CallStep == Inv /\ [Next]_vars => CallType'
<1> SUFFICES ASSUME Inv, [Next]_vars
             PROVE  CallType'
  OBVIOUS
<1> USE SpillAssumption DEF Inv, TypeOK, CallType,
        quiet, result, fill, write, merge, bytes, disk, counters
<1>1. CASE Start
  BY <1>1 DEF Start
<1>2. CASE ReadEdge
  <2>1. input[raw_count + 1] \in Edges
    BY <1>2 DEF ReadEdge
  <2>2. buffer' = <<>> \/ buffer' = Append(buffer, input[raw_count + 1])
    BY <1>2 DEF ReadEdge, WriteSortedRun
  <2>3. UNCHANGED <<input, duplicates, delivered, outcome, statistics, distinct_count>>
        /\ raw_count' = raw_count + 1 /\ raw_count < Len(input)
    BY <1>2 DEF ReadEdge
  <2>4. <<>> \in Seq(Edges) /\ Append(buffer, input[raw_count + 1]) \in Seq(Edges)
    BY <2>1, SeqClosed
  <2>5. buffer' \in Seq(Edges)
    BY <2>2, <2>4
  <2> QED
    BY <2>3, <2>5
<1>3. CASE ReadFails
  BY <1>3 DEF ReadFails, RaiseResource, Raise, ForgetPartial, Larger
<1>4. CASE ReadCancelled
  BY <1>4 DEF ReadCancelled, RaiseCancelled, Raise
<1>5. CASE SourceExhausted
  <2>1. statistics' = statistics \/ statistics' = <<0, 0>>
    BY <1>5 DEF SourceExhausted
  <2>2. buffer' = buffer \/ buffer' = <<>>
    BY <1>5 DEF SourceExhausted, WriteSortedRun
  <2>3. outcome' = outcome \/ outcome' = "complete"
    BY <1>5 DEF SourceExhausted
  <2>4. UNCHANGED <<input, duplicates, delivered, raw_count, distinct_count>>
    BY <1>5 DEF SourceExhausted
  <2>5. <<>> \in Seq(Edges)
    BY SeqClosed
  <2>6. statistics' = <<>> \/ statistics' \in Nat \X Nat
    BY <2>1
  <2> QED
    BY <2>2, <2>3, <2>4, <2>5, <2>6
<1>6. CASE CreateRun
  BY <1>6 DEF CreateRun, Grow
<1>7. CASE CreateFails
  BY <1>7 DEF CreateFails, Raise
<1>8. CASE WriteRecord
  BY <1>8 DEF WriteRecord, Advance, Pop, Grow
<1>9. CASE SkipRecord
  BY <1>9 DEF SkipRecord, Advance, Pop
<1>10. CASE WriteFails
  BY <1>10 DEF WriteFails, RaiseResource, Raise, ForgetPartial, Larger
<1>11. CASE WriteCancelled
  BY <1>11 DEF WriteCancelled, RaiseCancelled, Raise
<1>12. CASE FinishRun
  BY <1>12 DEF FinishRun
<1>13. CASE OpenReader
  BY <1>13 DEF OpenReader
<1>14. CASE OpenFails
  BY <1>14 DEF OpenFails, RaiseResource, Raise, ForgetPartial, Larger
<1>15. CASE Successor
  BY <1>15 DEF Successor
<1>16. CASE SuccessorFails
  BY <1>16 DEF SuccessorFails, RaiseResource, Raise, ForgetPartial, Larger
<1>17. CASE StartPass
  BY <1>17 DEF StartPass
<1>18. CASE NextGroup
  BY <1>18 DEF NextGroup
<1>19. CASE EndPass
  BY <1>19 DEF EndPass
<1>20. CASE DeleteInput
  BY <1>20 DEF DeleteInput, ReleaseRun, RunSize, KeepRun
<1>21. CASE StartDrain
  BY <1>21 DEF StartDrain
<1>22. CASE Deliver
  <2>1. Top[1] \in Edges
    BY <1>22, TopType DEF Deliver
  <2>2. delivered' = delivered \/ delivered' = Append(delivered, Top[1])
    BY <1>22 DEF Deliver
  <2>3. delivered' \in Seq(Edges)
    <3>1. Append(delivered, Top[1]) \in Seq(Edges)
      BY <2>1, SeqClosed
    <3> QED
      BY <2>2, <3>1
  <2>4. distinct_count' = distinct_count \/ distinct_count' = distinct_count + 1
    BY <1>22 DEF Deliver
  <2>5. UNCHANGED <<input, duplicates, outcome, statistics, raw_count, buffer>>
    BY <1>22 DEF Deliver
  <2> QED
    BY <2>3, <2>4, <2>5
<1>23. CASE DrainCancelled
  BY <1>23 DEF DrainCancelled, RaiseCancelled, Raise
<1>24. CASE Complete
  BY <1>24 DEF Complete
<1>25. CASE Resume
  BY <1>25 DEF Resume
<1>26. CASE Close
  BY <1>26 DEF Close, Raise
<1>27. CASE Cleanup
  BY <1>27 DEF Cleanup, RemoveTree
<1>28. CASE CancelToken
  BY <1>28 DEF CancelToken
<1>29. CASE Damage
  BY <1>29 DEF Damage
<1>30. CASE Collect
  BY <1>30 DEF Collect
<1>31. CASE AtExit
  BY <1>31 DEF AtExit, RemoveTree
<1>32. CASE Exited
  BY <1>32 DEF Exited, vars
<1>33. CASE UNCHANGED vars
  BY <1>33 DEF vars
<1> QED
  BY <1>1, <1>2, <1>3, <1>4, <1>5, <1>6, <1>7, <1>8, <1>9, <1>10, <1>11, <1>12,
     <1>13, <1>14, <1>15, <1>16, <1>17, <1>18, <1>19, <1>20, <1>21, <1>22, <1>23,
     <1>24, <1>25, <1>26, <1>27, <1>28, <1>29, <1>30, <1>31, <1>32, <1>33
     DEF Next, Generator, Environment

\* The lists of runs that reduce works through stay lists of runs.
LEMMA RunsStep == Inv /\ [Next]_vars => RunsType'
<1> SUFFICES ASSUME Inv, [Next]_vars
             PROVE  RunsType'
  OBVIOUS
<1> USE SpillAssumption DEF Inv, TypeOK, RunsType, WriteType,
        quiet, result, fill, write, merge, bytes, disk, counters
<1>1. CASE Start
  BY <1>1 DEF Start
<1>2. CASE ReadEdge
  BY <1>2 DEF ReadEdge, WriteSortedRun
<1>3. CASE ReadFails
  BY <1>3 DEF ReadFails, RaiseResource, Raise, ForgetPartial, Larger
<1>4. CASE ReadCancelled
  BY <1>4 DEF ReadCancelled, RaiseCancelled, Raise
<1>5. CASE SourceExhausted
  BY <1>5 DEF SourceExhausted, WriteSortedRun
<1>6. CASE CreateRun
  BY <1>6 DEF CreateRun, Grow
<1>7. CASE CreateFails
  BY <1>7 DEF CreateFails, Raise
<1>8. CASE WriteRecord
  BY <1>8 DEF WriteRecord, Advance, Pop, Grow
<1>9. CASE SkipRecord
  BY <1>9 DEF SkipRecord, Advance, Pop
<1>10. CASE WriteFails
  BY <1>10 DEF WriteFails, RaiseResource, Raise, ForgetPartial, Larger
<1>11. CASE WriteCancelled
  BY <1>11 DEF WriteCancelled, RaiseCancelled, Raise
<1>12. CASE FinishRun
  <2>1. current' = current \/ current' = Append(current, writing)
    BY <1>12 DEF FinishRun
  <2>2. following' = following \/ following' = Append(following, writing)
    BY <1>12 DEF FinishRun
  <2>3. pc' \in {"fill", "delete"} /\ group' = group
    BY <1>12 DEF FinishRun
  <2>4. Append(current, writing) \in Seq(Nat) /\ Append(following, writing) \in Seq(Nat)
    BY SeqClosed
  <2> QED
    BY <2>1, <2>2, <2>3, <2>4
<1>13. CASE OpenReader
  BY <1>13 DEF OpenReader
<1>14. CASE OpenFails
  BY <1>14 DEF OpenFails, RaiseResource, Raise, ForgetPartial, Larger
<1>15. CASE Successor
  BY <1>15 DEF Successor
<1>16. CASE SuccessorFails
  BY <1>16 DEF SuccessorFails, RaiseResource, Raise, ForgetPartial, Larger
<1>17. CASE StartPass
  BY <1>17 DEF StartPass
<1>18. CASE NextGroup
  <2>1. GroupSize \in 1..Len(current)
    BY <1>18 DEF NextGroup, GroupSize
  <2>2. SubSeq(current, GroupSize + 1, Len(current)) \in Seq(Nat)
        /\ SubSeq(current, 1, GroupSize) \in Seq(Nat)
    <3>1. PICK n \in 1..Len(current) : n = GroupSize
      BY <2>1
    <3> HIDE DEF GroupSize
    <3>a. \A i \in 1..Len(current) : current[i] \in Nat
      OBVIOUS
    <3>2. n \in Int /\ 1 \in Int /\ n + 1 \in Int /\ Len(current) \in Int
          /\ (\A i \in (n + 1)..Len(current) : current[i] \in Nat)
          /\ \A i \in 1..n : current[i] \in Nat
      BY <3>a
    <3>3. SubSeq(current, n + 1, Len(current)) \in Seq(Nat)
      BY <3>2, SubSeqProperties
    <3>4. SubSeq(current, 1, n) \in Seq(Nat)
      BY <3>2, SubSeqProperties
    <3> QED
      BY <3>1, <3>3, <3>4
  <2>4. Append(following, current[1]) \in Seq(Nat)
    BY <2>1
  <2>5. following' = following \/ following' = Append(following, current[1])
    BY <1>18 DEF NextGroup
  <2>6. group' = group \/ group' = SubSeq(current, 1, GroupSize)
    BY <1>18 DEF NextGroup
  <2>7. current' = SubSeq(current, GroupSize + 1, Len(current)) /\ (pc' = pc \/ pc' = "create")
    BY <1>18 DEF NextGroup
  <2> HIDE DEF GroupSize
  <2> QED
    BY <2>2, <2>4, <2>5, <2>6, <2>7
<1>19. CASE EndPass
  BY <1>19 DEF EndPass
<1>20. CASE DeleteInput
  BY <1>20 DEF DeleteInput, ReleaseRun, RunSize, KeepRun
<1>21. CASE StartDrain
  BY <1>21 DEF StartDrain
<1>22. CASE Deliver
  BY <1>22 DEF Deliver, Pop
<1>23. CASE DrainCancelled
  BY <1>23 DEF DrainCancelled, RaiseCancelled, Raise
<1>24. CASE Complete
  BY <1>24 DEF Complete
<1>25. CASE Resume
  BY <1>25 DEF Resume
<1>26. CASE Close
  BY <1>26 DEF Close, Raise
<1>27. CASE Cleanup
  BY <1>27 DEF Cleanup, RemoveTree
<1>28. CASE CancelToken
  BY <1>28 DEF CancelToken
<1>29. CASE Damage
  BY <1>29 DEF Damage
<1>30. CASE Collect
  BY <1>30 DEF Collect
<1>31. CASE AtExit
  BY <1>31 DEF AtExit, RemoveTree
<1>32. CASE Exited
  BY <1>32 DEF Exited, vars
<1>33. CASE UNCHANGED vars
  BY <1>33 DEF vars
<1> QED
  BY <1>1, <1>2, <1>3, <1>4, <1>5, <1>6, <1>7, <1>8, <1>9, <1>10, <1>11, <1>12,
     <1>13, <1>14, <1>15, <1>16, <1>17, <1>18, <1>19, <1>20, <1>21, <1>22, <1>23,
     <1>24, <1>25, <1>26, <1>27, <1>28, <1>29, <1>30, <1>31, <1>32, <1>33
     DEF Next, Generator, Environment

\* The state of _write_run stays well-typed.
LEMMA WriteStep == Inv /\ [Next]_vars => WriteType'
<1> SUFFICES ASSUME Inv, [Next]_vars
             PROVE  WriteType'
  OBVIOUS
<1> USE SpillAssumption DEF Inv, TypeOK, WriteType,
        quiet, result, fill, write, merge, bytes, disk, counters
<1>1. CASE Start
  BY <1>1 DEF Start
<1>2. CASE ReadEdge
  <2>1. \/ todo' = todo
        \/ \E n \in Nat : todo' \in [1..n -> Edges]
    <3> DEFINE filled == Append(buffer, input[raw_count + 1])
    <3>1. Len(filled) \in Nat
      BY <1>2 DEF ReadEdge, CallType
    <3>2. todo' = todo \/ WriteSortedRun(filled)
      BY <1>2 DEF ReadEdge
    <3> HIDE DEF filled
    <3> QED
      BY <3>1, <3>2 DEF WriteSortedRun
  <2>2. todo' \in Seq(Edges)
    BY <2>1
  <2>3. UNCHANGED <<writing, accounted, digest, runs_created, merge_passes>>
    BY <1>2 DEF ReadEdge
  <2> QED
    BY <2>2, <2>3
<1>3. CASE ReadFails
  BY <1>3 DEF ReadFails, RaiseResource, Raise, ForgetPartial, Larger
<1>4. CASE ReadCancelled
  BY <1>4 DEF ReadCancelled, RaiseCancelled, Raise
<1>5. CASE SourceExhausted
  BY <1>5 DEF SourceExhausted, WriteSortedRun
<1>6. CASE CreateRun
  BY <1>6 DEF CreateRun, Grow
<1>7. CASE CreateFails
  BY <1>7 DEF CreateFails, Raise
<1>8. CASE WriteRecord
  <2>1. ~Exhausted
    BY <1>8 DEF WriteRecord
  <2>2. /\ digest' = Append(digest, Upcoming)
        /\ accounted' = accounted + RecordBytes[Upcoming]
        /\ UNCHANGED <<writing, runs_created, merge_passes>>
    BY <1>8 DEF WriteRecord
  <2>3. todo' = todo \/ (group = <<>> /\ todo' = Tail(todo))
    BY <1>8 DEF WriteRecord, Advance, Pop
  <2>4. Upcoming \in Edges /\ RecordBytes[Upcoming] \in Nat
        /\ (group = <<>> => Tail(todo) \in Seq(Edges))
    BY <2>1, UpcomingType
  <2>5. Append(digest, Upcoming) \in Seq(Edges)
    BY <2>4, SeqClosed
  <2>6. digest' \in Seq(Edges)
    BY <2>2, <2>5
  <2>7. todo' \in Seq(Edges)
    BY <2>3, <2>4
  <2>8. accounted' \in Nat
    BY <2>2, <2>4
  <2> QED
    BY <2>2, <2>6, <2>7, <2>8
<1>9. CASE SkipRecord
  <2>1. ~Exhausted
    BY <1>9 DEF SkipRecord
  <2> QED
    BY <1>9, <2>1, UpcomingType DEF SkipRecord, Advance
<1>10. CASE WriteFails
  BY <1>10 DEF WriteFails, RaiseResource, Raise, ForgetPartial, Larger
<1>11. CASE WriteCancelled
  BY <1>11 DEF WriteCancelled, RaiseCancelled, Raise
<1>12. CASE FinishRun
  BY <1>12 DEF FinishRun
<1>13. CASE OpenReader
  BY <1>13 DEF OpenReader
<1>14. CASE OpenFails
  BY <1>14 DEF OpenFails, RaiseResource, Raise, ForgetPartial, Larger
<1>15. CASE Successor
  BY <1>15 DEF Successor
<1>16. CASE SuccessorFails
  BY <1>16 DEF SuccessorFails, RaiseResource, Raise, ForgetPartial, Larger
<1>17. CASE StartPass
  BY <1>17 DEF StartPass
<1>18. CASE NextGroup
  BY <1>18 DEF NextGroup
<1>19. CASE EndPass
  BY <1>19 DEF EndPass
<1>20. CASE DeleteInput
  BY <1>20 DEF DeleteInput, ReleaseRun, RunSize, KeepRun
<1>21. CASE StartDrain
  BY <1>21 DEF StartDrain
<1>22. CASE Deliver
  BY <1>22 DEF Deliver, Pop
<1>23. CASE DrainCancelled
  BY <1>23 DEF DrainCancelled, RaiseCancelled, Raise
<1>24. CASE Complete
  BY <1>24 DEF Complete
<1>25. CASE Resume
  BY <1>25 DEF Resume
<1>26. CASE Close
  <2>1. CASE pc = "yield" /\ Raise("closed") /\ UNCHANGED disk
    BY <2>1 DEF Raise
  <2>2. CASE pc = "new" /\ UNCHANGED <<write, counters>>
    BY <2>2
  <2> QED
    BY <1>26, <2>1, <2>2 DEF Close
<1>27. CASE Cleanup
  BY <1>27 DEF Cleanup, RemoveTree
<1>28. CASE CancelToken
  BY <1>28 DEF CancelToken
<1>29. CASE Damage
  BY <1>29 DEF Damage
<1>30. CASE Collect
  BY <1>30 DEF Collect
<1>31. CASE AtExit
  BY <1>31 DEF AtExit, RemoveTree
<1>32. CASE Exited
  BY <1>32 DEF Exited, vars
<1>33. CASE UNCHANGED vars
  BY <1>33 DEF vars
<1> QED
  BY <1>1, <1>2, <1>3, <1>4, <1>5, <1>6, <1>7, <1>8, <1>9, <1>10, <1>11, <1>12,
     <1>13, <1>14, <1>15, <1>16, <1>17, <1>18, <1>19, <1>20, <1>21, <1>22, <1>23,
     <1>24, <1>25, <1>26, <1>27, <1>28, <1>29, <1>30, <1>31, <1>32, <1>33
     DEF Next, Generator, Environment

\* The open readers and the heap of merge stay well-typed.
LEMMA MergeStep == Inv /\ [Next]_vars => MergeType'
<1> SUFFICES ASSUME Inv, [Next]_vars
             PROVE  MergeType'
  OBVIOUS
<1> USE SpillAssumption DEF Inv, TypeOK, MergeType,
        quiet, result, fill, write, merge, bytes, disk, counters
<1>1. CASE Start
  BY <1>1 DEF Start
<1>2. CASE ReadEdge
  BY <1>2 DEF ReadEdge, WriteSortedRun
<1>3. CASE ReadFails
  BY <1>3 DEF ReadFails, RaiseResource, Raise, ForgetPartial, Larger
<1>4. CASE ReadCancelled
  BY <1>4 DEF ReadCancelled, RaiseCancelled, Raise
<1>5. CASE SourceExhausted
  BY <1>5 DEF SourceExhausted, WriteSortedRun
<1>6. CASE CreateRun
  BY <1>6 DEF CreateRun, Grow
<1>7. CASE CreateFails
  BY <1>7 DEF CreateFails, Raise
<1>8. CASE WriteRecord
  <2>1. UNCHANGED merge \/ (heap # {} /\ Pop)
    BY <1>8 DEF WriteRecord, Advance, Exhausted
  <2> QED
    BY <2>1, TopType DEF Pop
<1>9. CASE SkipRecord
  <2>1. UNCHANGED merge \/ (heap # {} /\ Pop)
    BY <1>9 DEF SkipRecord, Advance, Exhausted
  <2> QED
    BY <2>1, TopType DEF Pop
<1>10. CASE WriteFails
  BY <1>10 DEF WriteFails, RaiseResource, Raise, ForgetPartial, Larger
<1>11. CASE WriteCancelled
  BY <1>11 DEF WriteCancelled, RaiseCancelled, Raise
<1>12. CASE FinishRun
  BY <1>12 DEF FinishRun
<1>13. CASE OpenReader
  <2> DEFINE run == group[Len(readers) + 1]
             edge == files[run].data[1]
  <2>1. /\ run \in DOMAIN files /\ 1 <= Len(files[run].data)
        /\ readers' = Append(readers, [run |-> run, seen |-> <<edge>>])
        /\ heap' = heap \cup {<<edge, Len(readers) + 1>>}
        /\ UNCHANGED <<owed, emitted>>
    BY <1>13 DEF OpenReader, Openable, Readable
  <2>2. run \in Nat /\ edge \in Edges
    BY <2>1 DEF FilesType, FileRecord
  <2> HIDE DEF run, edge
  <2>3. [run |-> run, seen |-> <<edge>>] \in [run : Nat, seen : Seq(Edges)]
    BY <2>2
  <2> QED
    BY <2>1, <2>2, <2>3
<1>14. CASE OpenFails
  BY <1>14 DEF OpenFails, RaiseResource, Raise, ForgetPartial, Larger
<1>15. CASE Successor
  <2>1. owed \in 1..Len(readers) /\ owed' = 0 /\ emitted' = emitted
    BY <1>15 DEF Successor, ReaderFrame
  <2>2. CASE AtEnd(readers[owed])
    BY <1>15, <2>1, <2>2 DEF Successor
  <2>3. CASE ~AtEnd(readers[owed])
    <3> DEFINE r == readers[owed]
               edge == files[r.run].data[Len(r.seen) + 1]
               moved == [run |-> r.run, seen |-> Append(r.seen, edge)]
    <3>1. /\ Len(r.seen) + 1 <= Len(files[r.run].data)
          /\ readers' = [readers EXCEPT ![owed] = moved]
          /\ heap' = heap \cup {<<edge, owed>>}
      BY <1>15, <2>3 DEF Successor, Readable
    <3>2. r \in [run : Nat, seen : Seq(Edges)] /\ r.run \in DOMAIN files
      BY <2>1, SeqClosed DEF ReaderFrame
    <3>3. files[r.run].data \in Seq(Edges)
      BY <3>2 DEF FilesType, FileRecord
    <3>4. edge \in Edges
      <4>1. Len(r.seen) + 1 \in 1..Len(files[r.run].data)
        BY <3>1, <3>2, <3>3
      <4> QED
        BY <3>3, <4>1, SeqClosed
    <3>5. moved \in [run : Nat, seen : Seq(Edges)]
      BY <3>2, <3>4, SeqClosed
    <3> HIDE DEF moved, edge
    <3>6. readers' \in Seq([run : Nat, seen : Seq(Edges)])
      BY <2>1, <3>1, <3>5, SeqClosed
    <3> QED
      BY <2>1, <3>1, <3>4, <3>6
  <2> QED
    BY <2>2, <2>3
<1>16. CASE SuccessorFails
  BY <1>16 DEF SuccessorFails, RaiseResource, Raise, ForgetPartial, Larger
<1>17. CASE StartPass
  BY <1>17 DEF StartPass
<1>18. CASE NextGroup
  BY <1>18 DEF NextGroup
<1>19. CASE EndPass
  BY <1>19 DEF EndPass
<1>20. CASE DeleteInput
  BY <1>20 DEF DeleteInput, ReleaseRun, RunSize, KeepRun
<1>21. CASE StartDrain
  BY <1>21 DEF StartDrain
<1>22. CASE Deliver
  BY <1>22, TopType DEF Deliver, Pop
<1>23. CASE DrainCancelled
  BY <1>23 DEF DrainCancelled, RaiseCancelled, Raise
<1>24. CASE Complete
  BY <1>24 DEF Complete
<1>25. CASE Resume
  BY <1>25 DEF Resume
<1>26. CASE Close
  <2>1. CASE pc = "yield" /\ Raise("closed") /\ UNCHANGED disk
    BY <2>1 DEF Raise
  <2>2. CASE pc = "new" /\ UNCHANGED <<merge>>
    BY <2>2
  <2> QED
    BY <1>26, <2>1, <2>2 DEF Close
<1>27. CASE Cleanup
  BY <1>27 DEF Cleanup, RemoveTree
<1>28. CASE CancelToken
  BY <1>28 DEF CancelToken
<1>29. CASE Damage
  BY <1>29 DEF Damage
<1>30. CASE Collect
  BY <1>30 DEF Collect
<1>31. CASE AtExit
  BY <1>31 DEF AtExit, RemoveTree
<1>32. CASE Exited
  BY <1>32 DEF Exited, vars
<1>33. CASE UNCHANGED vars
  BY <1>33 DEF vars
<1> QED
  BY <1>1, <1>2, <1>3, <1>4, <1>5, <1>6, <1>7, <1>8, <1>9, <1>10, <1>11, <1>12,
     <1>13, <1>14, <1>15, <1>16, <1>17, <1>18, <1>19, <1>20, <1>21, <1>22, <1>23,
     <1>24, <1>25, <1>26, <1>27, <1>28, <1>29, <1>30, <1>31, <1>32, <1>33
     DEF Next, Generator, Environment

\* Every file keeps a record sequence, a header and a size.
LEMMA FilesStep == Inv /\ [Next]_vars => FilesType'
<1> SUFFICES ASSUME Inv, [Next]_vars
             PROVE  FilesType'
  OBVIOUS
<1> USE SpillAssumption DEF Inv, TypeOK, FilesType, WriteType,
        quiet, result, fill, write, merge, bytes, disk, counters
<1>1. CASE Start
  BY <1>1 DEF Start
<1>2. CASE ReadEdge
  BY <1>2 DEF ReadEdge, WriteSortedRun
<1>3. CASE ReadFails
  BY <1>3, ForgetFiles DEF ReadFails
<1>4. CASE ReadCancelled
  BY <1>4 DEF ReadCancelled, RaiseCancelled, Raise
<1>5. CASE SourceExhausted
  BY <1>5 DEF SourceExhausted, WriteSortedRun
<1>6. CASE CreateRun
  <2> DEFINE fresh == File(<<>>, <<>>, HeaderBytes)
  <2>1. fresh \in FileRecord
    <3>1. <<>> \in Seq(Edges)
      OBVIOUS
    <3> QED
      BY <3>1 DEF File, FileRecord
  <2>2. files' = With(files, runs_created + 1, fresh) /\ run_sizes' = run_sizes
    BY <1>6 DEF CreateRun
  <2> HIDE DEF fresh
  <2>3. runs_created + 1 \in Nat
    OBVIOUS
  <2> QED
    BY <2>1, <2>2, <2>3, FileAdded
<1>7. CASE CreateFails
  <2>1. EmptyFile \in FileRecord
    <3>1. <<>> \in Seq(Edges)
      OBVIOUS
    <3> QED
      BY <3>1 DEF EmptyFile, File, FileRecord
  <2>2. files' = files \/ files' = With(files, runs_created + 1, EmptyFile)
    BY <1>7 DEF CreateFails
  <2>3. run_sizes' = run_sizes
    BY <1>7 DEF CreateFails
  <2>4. runs_created + 1 \in Nat
    OBVIOUS
  <2>5. CASE files' = files
    BY <2>3, <2>5
  <2>6. CASE files' = With(files, runs_created + 1, EmptyFile)
    BY <2>1, <2>3, <2>4, <2>6, FileAdded
  <2> QED
    BY <2>2, <2>5, <2>6
<1>8. CASE WriteRecord
  <2> DEFINE longer == File(Append(files[writing].data, Upcoming), files[writing].head,
                            files[writing].bytes + RecordBytes[Upcoming])
  <2>1. Upcoming \in Edges /\ RecordBytes[Upcoming] \in Nat
    BY <1>8, UpcomingType DEF WriteRecord
  <2>2. files' = [files EXCEPT ![writing] = longer] /\ run_sizes' = run_sizes
    BY <1>8 DEF WriteRecord
  <2>3. ASSUME writing \in DOMAIN files
        PROVE  longer \in FileRecord
    <3>1. files[writing] \in FileRecord
      BY <2>3
    <3>2. Append(files[writing].data, Upcoming) \in Seq(Edges)
      BY <2>1, <3>1, SeqClosed DEF FileRecord
    <3>3. files[writing].bytes + RecordBytes[Upcoming] \in Int
      BY <2>1, <3>1 DEF FileRecord
    <3>4. \A d \in Seq(Edges), size \in Int :
            File(d, files[writing].head, size) \in FileRecord
      BY <3>1 DEF File, FileRecord
    <3> QED
      BY <3>2, <3>3, <3>4, Zenon
  <2> HIDE DEF longer
  <2> QED
    BY <2>2, <2>3, FileChanged
<1>9. CASE SkipRecord
  BY <1>9 DEF SkipRecord, Advance, Pop
<1>10. CASE WriteFails
  BY <1>10, ForgetFiles DEF WriteFails
<1>11. CASE WriteCancelled
  BY <1>11 DEF WriteCancelled, RaiseCancelled, Raise
<1>12. CASE FinishRun
  <2> DEFINE closed == File(files[writing].data, digest, files[writing].bytes)
  <2>1. files' = [files EXCEPT ![writing] = closed]
    BY <1>12 DEF FinishRun
  <2>2. run_sizes' = With(run_sizes, writing, accounted)
    BY <1>12 DEF FinishRun
  <2>3. /\ DOMAIN run_sizes' = DOMAIN run_sizes \cup {writing}
        /\ run_sizes'[writing] = accounted
        /\ \A f \in DOMAIN run_sizes : f # writing => run_sizes'[f] = run_sizes[f]
    BY <2>2 DEF With
  <2>4. \A f \in DOMAIN run_sizes' : run_sizes'[f] \in Nat
    BY <2>3
  <2>5. writing \in DOMAIN files => closed \in FileRecord
    BY DEF File, FileRecord
  <2> HIDE DEF closed
  <2> QED
    BY <2>1, <2>4, <2>5, FileChanged
<1>13. CASE OpenReader
  BY <1>13 DEF OpenReader
<1>14. CASE OpenFails
  BY <1>14, ForgetFiles DEF OpenFails
<1>15. CASE Successor
  BY <1>15 DEF Successor
<1>16. CASE SuccessorFails
  BY <1>16, ForgetFiles DEF SuccessorFails
<1>17. CASE StartPass
  BY <1>17 DEF StartPass
<1>18. CASE NextGroup
  BY <1>18 DEF NextGroup
<1>19. CASE EndPass
  BY <1>19 DEF EndPass
<1>20. CASE DeleteInput
  <2>1. files' = files \/ files' = Without(files, group[1])
    BY <1>20 DEF DeleteInput, KeepRun
  <2>2. run_sizes' = run_sizes \/ run_sizes' = Without(run_sizes, group[1])
    BY <1>20 DEF DeleteInput, KeepRun, ReleaseRun
  <2>3. /\ DOMAIN files' \subseteq DOMAIN files
        /\ \A f \in DOMAIN files' : files'[f] = files[f]
    BY <2>1 DEF Without
  <2>4. /\ DOMAIN run_sizes' \subseteq DOMAIN run_sizes
        /\ \A f \in DOMAIN run_sizes' : run_sizes'[f] = run_sizes[f]
    BY <2>2 DEF Without
  <2> QED
    BY <2>3, <2>4
<1>21. CASE StartDrain
  BY <1>21 DEF StartDrain
<1>22. CASE Deliver
  BY <1>22 DEF Deliver, Pop
<1>23. CASE DrainCancelled
  BY <1>23 DEF DrainCancelled, RaiseCancelled, Raise
<1>24. CASE Complete
  BY <1>24 DEF Complete
<1>25. CASE Resume
  BY <1>25 DEF Resume
<1>26. CASE Close
  BY <1>26 DEF Close, Raise
<1>27. CASE Cleanup
  BY <1>27, RemoveTreeFiles DEF Cleanup
<1>28. CASE CancelToken
  BY <1>28 DEF CancelToken
<1>29. CASE Damage
  <2>1. PICK run \in DOMAIN run_sizes, e \in Edges :
          LET data == files[run].data
          IN  \/ \E i \in DOMAIN data :
                   files' = [files EXCEPT ![run] = File([data EXCEPT ![i] = e], @.head, @.bytes)]
              \/ /\ data # <<>>
                 /\ files' = [files EXCEPT ![run] =
                               File(SubSeq(data, 1, Len(data) - 1), @.head,
                                    @.bytes - RecordBytes[data[Len(data)]])]
    BY <1>29 DEF Damage
  <2> DEFINE data == files[run].data
  <2>2. run_sizes' = run_sizes
    BY <1>29 DEF Damage
  <2>3. ASSUME run \in DOMAIN files
        PROVE  files[run] \in FileRecord /\ data \in Seq(Edges)
    BY <2>3 DEF FileRecord
  <2>4. ASSUME NEW i \in DOMAIN data,
               files' = [files EXCEPT ![run] = File([data EXCEPT ![i] = e], @.head, @.bytes)]
        PROVE  FilesType'
    <3> DEFINE struck == File([data EXCEPT ![i] = e], files[run].head, files[run].bytes)
    <3>1. ASSUME run \in DOMAIN files
          PROVE  struck \in FileRecord
      <4>1. [data EXCEPT ![i] = e] \in Seq(Edges)
        <5>1. i \in 1..Len(data)
          BY <2>3, <3>1
        <5> HIDE DEF data
        <5> QED
          BY <2>3, <3>1, <5>1, SeqClosed
      <4> QED
        BY <2>3, <3>1, <4>1 DEF File, FileRecord
    <3>2. files' = [files EXCEPT ![run] = struck]
      BY <2>4
    <3> HIDE DEF struck
    <3> QED
      BY <2>2, <3>1, <3>2, FileChanged
  <2>5. ASSUME data # <<>>,
               files' = [files EXCEPT ![run] =
                          File(SubSeq(data, 1, Len(data) - 1), @.head,
                               @.bytes - RecordBytes[data[Len(data)]])]
        PROVE  FilesType'
    <3> DEFINE cut == File(SubSeq(data, 1, Len(data) - 1), files[run].head,
                           files[run].bytes - RecordBytes[data[Len(data)]])
    <3>1. ASSUME run \in DOMAIN files
          PROVE  cut \in FileRecord
      <4>1. Len(data) \in 1..Len(data) /\ Len(data) \in Nat
        <5> HIDE DEF data
        <5>1. data \in Seq(Edges) /\ data # <<>>
          BY <2>3, <2>5, <3>1
        <5>2. Len(data) \in Nat /\ Len(data) # 0
          BY <5>1
        <5> QED
          BY <5>2
      <4>2. SubSeq(data, 1, Len(data) - 1) \in Seq(Edges)
        <5> HIDE DEF data
        <5>1. \A k \in 1..(Len(data) - 1) : data[k] \in Edges
          BY <2>3, <3>1, <4>1
        <5> QED
          BY <2>3, <3>1, <4>1, <5>1
      <4>3. data[Len(data)] \in Edges
        <5> HIDE DEF data
        <5> QED
          BY <2>3, <3>1, <4>1
      <4>4. RecordBytes[data[Len(data)]] \in Nat
        BY <4>3
      <4> QED
        BY <2>3, <3>1, <4>2, <4>4 DEF File, FileRecord
    <3>2. files' = [files EXCEPT ![run] = cut]
      BY <2>5
    <3> HIDE DEF cut
    <3> QED
      BY <2>2, <3>1, <3>2, FileChanged
  <2> QED
    BY <2>1, <2>4, <2>5
<1>30. CASE Collect
  BY <1>30 DEF Collect
<1>31. CASE AtExit
  BY <1>31, RemoveTreeFiles DEF AtExit
<1>32. CASE Exited
  BY <1>32 DEF Exited, vars
<1>33. CASE UNCHANGED vars
  BY <1>33 DEF vars
<1> QED
  BY <1>1, <1>2, <1>3, <1>4, <1>5, <1>6, <1>7, <1>8, <1>9, <1>10, <1>11, <1>12,
     <1>13, <1>14, <1>15, <1>16, <1>17, <1>18, <1>19, <1>20, <1>21, <1>22, <1>23,
     <1>24, <1>25, <1>26, <1>27, <1>28, <1>29, <1>30, <1>31, <1>32, <1>33
     DEF Next, Generator, Environment

\* The byte account never becomes negative.
LEMMA BytesStep == Inv /\ [Next]_vars => BytesType'
<1> SUFFICES ASSUME Inv, [Next]_vars
             PROVE  BytesType'
  OBVIOUS
<1> USE SpillAssumption DEF Inv, TypeOK, BytesType, WriteType,
        quiet, result, fill, write, merge, bytes, disk, counters
<1>1. CASE Start
  BY <1>1 DEF Start
<1>2. CASE ReadEdge
  BY <1>2 DEF ReadEdge, WriteSortedRun
<1>3. CASE ReadFails
  BY <1>3 DEF ReadFails, RaiseResource, Raise, ForgetPartial, Larger
<1>4. CASE ReadCancelled
  BY <1>4 DEF ReadCancelled, RaiseCancelled, Raise
<1>5. CASE SourceExhausted
  BY <1>5 DEF SourceExhausted, WriteSortedRun
<1>6. CASE CreateRun
  <2>1. Grow(HeaderBytes)
    BY <1>6 DEF CreateRun
  <2> QED
    BY <2>1, GrowBytes
<1>7. CASE CreateFails
  BY <1>7 DEF CreateFails, Raise
<1>8. CASE WriteRecord
  <2>1. RecordBytes[Upcoming] \in Nat
    BY <1>8, UpcomingType DEF WriteRecord
  <2>2. Grow(RecordBytes[Upcoming])
    BY <1>8 DEF WriteRecord
  <2> QED
    BY <2>1, <2>2, GrowBytes
<1>9. CASE SkipRecord
  BY <1>9 DEF SkipRecord, Advance, Pop
<1>10. CASE WriteFails
  BY <1>10 DEF WriteFails, RaiseResource, Raise, ForgetPartial, Larger
<1>11. CASE WriteCancelled
  BY <1>11 DEF WriteCancelled, RaiseCancelled, Raise
<1>12. CASE FinishRun
  BY <1>12 DEF FinishRun
<1>13. CASE OpenReader
  BY <1>13 DEF OpenReader
<1>14. CASE OpenFails
  BY <1>14 DEF OpenFails, RaiseResource, Raise, ForgetPartial, Larger
<1>15. CASE Successor
  BY <1>15 DEF Successor
<1>16. CASE SuccessorFails
  BY <1>16 DEF SuccessorFails, RaiseResource, Raise, ForgetPartial, Larger
<1>17. CASE StartPass
  BY <1>17 DEF StartPass
<1>18. CASE NextGroup
  BY <1>18 DEF NextGroup
<1>19. CASE EndPass
  BY <1>19 DEF EndPass
<1>20. CASE DeleteInput
  <2>1. RunSize(group[1]) \in Nat
    BY DEF RunSize, FilesType
  <2> HIDE DEF RunSize
  <2> QED
    BY <1>20, <2>1 DEF DeleteInput, ReleaseRun, KeepRun, Larger
<1>21. CASE StartDrain
  BY <1>21 DEF StartDrain
<1>22. CASE Deliver
  BY <1>22 DEF Deliver, Pop
<1>23. CASE DrainCancelled
  BY <1>23 DEF DrainCancelled, RaiseCancelled, Raise
<1>24. CASE Complete
  BY <1>24 DEF Complete
<1>25. CASE Resume
  BY <1>25 DEF Resume
<1>26. CASE Close
  BY <1>26 DEF Close, Raise
<1>27. CASE Cleanup
  BY <1>27 DEF Cleanup, RemoveTree
<1>28. CASE CancelToken
  BY <1>28 DEF CancelToken
<1>29. CASE Damage
  BY <1>29 DEF Damage
<1>30. CASE Collect
  BY <1>30 DEF Collect
<1>31. CASE AtExit
  <2>1. live_bytes' \in {0, live_bytes} /\ UNCHANGED <<peak_live_bytes, total_written, available>>
    BY <1>31 DEF AtExit, RemoveTree
  <2> QED
    BY <2>1
<1>32. CASE Exited
  BY <1>32 DEF Exited, vars
<1>33. CASE UNCHANGED vars
  BY <1>33 DEF vars
<1> QED
  BY <1>1, <1>2, <1>3, <1>4, <1>5, <1>6, <1>7, <1>8, <1>9, <1>10, <1>11, <1>12,
     <1>13, <1>14, <1>15, <1>16, <1>17, <1>18, <1>19, <1>20, <1>21, <1>22, <1>23,
     <1>24, <1>25, <1>26, <1>27, <1>28, <1>29, <1>30, <1>31, <1>32, <1>33
     DEF Next, Generator, Environment

\* Directory, token and damage stay well-typed.
LEMMA EnvironmentStep == Inv /\ [Next]_vars => EnvironmentType'
<1> SUFFICES ASSUME Inv, [Next]_vars
             PROVE  EnvironmentType'
  OBVIOUS
<1> USE SpillAssumption DEF Inv, TypeOK, EnvironmentType,
        quiet, result, fill, write, merge, bytes, disk, counters
<1>1. CASE Start
  BY <1>1 DEF Start
<1>2. CASE ReadEdge
  BY <1>2 DEF ReadEdge, WriteSortedRun
<1>3. CASE ReadFails
  BY <1>3 DEF ReadFails, RaiseResource, Raise, ForgetPartial, Larger
<1>4. CASE ReadCancelled
  BY <1>4 DEF ReadCancelled, RaiseCancelled, Raise
<1>5. CASE SourceExhausted
  BY <1>5 DEF SourceExhausted, WriteSortedRun
<1>6. CASE CreateRun
  BY <1>6 DEF CreateRun, Grow
<1>7. CASE CreateFails
  BY <1>7 DEF CreateFails, Raise
<1>8. CASE WriteRecord
  BY <1>8 DEF WriteRecord, Advance, Pop, Grow
<1>9. CASE SkipRecord
  BY <1>9 DEF SkipRecord, Advance, Pop
<1>10. CASE WriteFails
  BY <1>10 DEF WriteFails, RaiseResource, Raise, ForgetPartial, Larger
<1>11. CASE WriteCancelled
  BY <1>11 DEF WriteCancelled, RaiseCancelled, Raise
<1>12. CASE FinishRun
  BY <1>12 DEF FinishRun
<1>13. CASE OpenReader
  BY <1>13 DEF OpenReader
<1>14. CASE OpenFails
  BY <1>14 DEF OpenFails, RaiseResource, Raise, ForgetPartial, Larger
<1>15. CASE Successor
  BY <1>15 DEF Successor
<1>16. CASE SuccessorFails
  BY <1>16 DEF SuccessorFails, RaiseResource, Raise, ForgetPartial, Larger
<1>17. CASE StartPass
  BY <1>17 DEF StartPass
<1>18. CASE NextGroup
  BY <1>18 DEF NextGroup
<1>19. CASE EndPass
  BY <1>19 DEF EndPass
<1>20. CASE DeleteInput
  BY <1>20 DEF DeleteInput, ReleaseRun, RunSize, KeepRun
<1>21. CASE StartDrain
  BY <1>21 DEF StartDrain
<1>22. CASE Deliver
  BY <1>22 DEF Deliver, Pop
<1>23. CASE DrainCancelled
  BY <1>23 DEF DrainCancelled, RaiseCancelled, Raise
<1>24. CASE Complete
  BY <1>24 DEF Complete
<1>25. CASE Resume
  BY <1>25 DEF Resume
<1>26. CASE Close
  BY <1>26 DEF Close, Raise
<1>27. CASE Cleanup
  BY <1>27 DEF Cleanup, RemoveTree
<1>28. CASE CancelToken
  BY <1>28 DEF CancelToken
<1>29. CASE Damage
  BY <1>29 DEF Damage
<1>30. CASE Collect
  BY <1>30 DEF Collect
<1>31. CASE AtExit
  BY <1>31 DEF AtExit, RemoveTree
<1>32. CASE Exited
  BY <1>32 DEF Exited, vars
<1>33. CASE UNCHANGED vars
  BY <1>33 DEF vars
<1> QED
  BY <1>1, <1>2, <1>3, <1>4, <1>5, <1>6, <1>7, <1>8, <1>9, <1>10, <1>11, <1>12,
     <1>13, <1>14, <1>15, <1>16, <1>17, <1>18, <1>19, <1>20, <1>21, <1>22, <1>23,
     <1>24, <1>25, <1>26, <1>27, <1>28, <1>29, <1>30, <1>31, <1>32, <1>33
     DEF Next, Generator, Environment

\* reduce is never left without runs, and a group never exceeds the fan-in.
LEMMA GroupStep == Inv /\ [Next]_vars => GroupFrame'
<1> SUFFICES ASSUME Inv, [Next]_vars
             PROVE  GroupFrame'
  OBVIOUS
<1> USE SpillAssumption DEF Inv, TypeOK, GroupFrame, RunsType, WriteType,
        quiet, result, fill, write, merge, bytes, disk, counters
<1>1. CASE Start
  BY <1>1 DEF Start
<1>2. CASE ReadEdge
  BY <1>2 DEF ReadEdge, WriteSortedRun
<1>3. CASE ReadFails
  BY <1>3 DEF ReadFails, RaiseResource, Raise, ForgetPartial, Larger
<1>4. CASE ReadCancelled
  BY <1>4 DEF ReadCancelled, RaiseCancelled, Raise
<1>5. CASE SourceExhausted
  BY <1>5 DEF SourceExhausted, WriteSortedRun
<1>6. CASE CreateRun
  BY <1>6 DEF CreateRun, Grow
<1>7. CASE CreateFails
  BY <1>7 DEF CreateFails, Raise
<1>8. CASE WriteRecord
  BY <1>8 DEF WriteRecord, Advance, Pop, Grow
<1>9. CASE SkipRecord
  BY <1>9 DEF SkipRecord, Advance, Pop
<1>10. CASE WriteFails
  BY <1>10 DEF WriteFails, RaiseResource, Raise, ForgetPartial, Larger
<1>11. CASE WriteCancelled
  BY <1>11 DEF WriteCancelled, RaiseCancelled, Raise
<1>12. CASE FinishRun
  BY <1>12 DEF FinishRun
<1>13. CASE OpenReader
  BY <1>13 DEF OpenReader
<1>14. CASE OpenFails
  BY <1>14 DEF OpenFails, RaiseResource, Raise, ForgetPartial, Larger
<1>15. CASE Successor
  BY <1>15 DEF Successor
<1>16. CASE SuccessorFails
  BY <1>16 DEF SuccessorFails, RaiseResource, Raise, ForgetPartial, Larger
<1>17. CASE StartPass
  BY <1>17 DEF StartPass
<1>18. CASE NextGroup
  <2>1. GroupSize \in 1..Len(current) /\ GroupSize <= FanIn
    BY <1>18 DEF NextGroup, GroupSize
  <2>2. Len(SubSeq(current, 1, GroupSize)) = GroupSize
    BY <2>1, SubSeqProperties
  <2>3. Append(following, current[1]) # <<>>
    <3>1. Len(Append(following, current[1])) = Len(following) + 1
      OBVIOUS
    <3>2. Len(following) + 1 # 0
      OBVIOUS
    <3> QED
      BY <3>1, <3>2
  <2>4. \/ /\ pc' = "pass" /\ group' = group
           /\ following' = Append(following, current[1])
        \/ /\ pc' = "create" /\ group' = SubSeq(current, 1, GroupSize)
    BY <1>18 DEF NextGroup
  <2> HIDE DEF GroupSize
  <2> QED
    BY <2>1, <2>2, <2>3, <2>4
<1>19. CASE EndPass
  BY <1>19 DEF EndPass
<1>20. CASE DeleteInput
  <2>1. group # <<>> /\ group' = Tail(group) /\ UNCHANGED <<current, following>>
    BY <1>20 DEF DeleteInput
  <2>2. pc' = (IF Len(group) = 1 THEN "pass" ELSE "delete") /\ pc = "delete"
    BY <1>20 DEF DeleteInput
  <2>3. Len(Tail(group)) = Len(group) - 1
    BY <2>1
  <2>4. Len(group) # 1 => Tail(group) # <<>>
    <3>1. Len(group) # 1 => Len(Tail(group)) # 0
      BY <2>3
    <3>2. Len(<<>>) = 0
      OBVIOUS
    <3> QED
      BY <3>1, <3>2
  <2> QED
    BY SMTT(30), <2>1, <2>2, <2>3, <2>4
<1>21. CASE StartDrain
  <2>1. Len(current) <= FanIn
    BY <1>21 DEF StartDrain, NeedsPass
  <2> QED
    BY <1>21, <2>1 DEF StartDrain
<1>22. CASE Deliver
  BY <1>22 DEF Deliver, Pop
<1>23. CASE DrainCancelled
  BY <1>23 DEF DrainCancelled, RaiseCancelled, Raise
<1>24. CASE Complete
  BY <1>24 DEF Complete
<1>25. CASE Resume
  BY <1>25 DEF Resume
<1>26. CASE Close
  BY <1>26 DEF Close, Raise
<1>27. CASE Cleanup
  BY <1>27 DEF Cleanup, RemoveTree
<1>28. CASE CancelToken
  BY <1>28 DEF CancelToken
<1>29. CASE Damage
  BY <1>29 DEF Damage
<1>30. CASE Collect
  BY <1>30 DEF Collect
<1>31. CASE AtExit
  BY <1>31 DEF AtExit, RemoveTree
<1>32. CASE Exited
  BY <1>32 DEF Exited, vars
<1>33. CASE UNCHANGED vars
  BY <1>33 DEF vars
<1> QED
  BY <1>1, <1>2, <1>3, <1>4, <1>5, <1>6, <1>7, <1>8, <1>9, <1>10, <1>11, <1>12,
     <1>13, <1>14, <1>15, <1>16, <1>17, <1>18, <1>19, <1>20, <1>21, <1>22, <1>23,
     <1>24, <1>25, <1>26, <1>27, <1>28, <1>29, <1>30, <1>31, <1>32, <1>33
     DEF Next, Generator, Environment

\* Readers exist only inside a merge, one for each run of its group at most.
LEMMA ReaderStep == Inv /\ [Next]_vars => ReaderFrame'
<1> SUFFICES ASSUME Inv, [Next]_vars
             PROVE  ReaderFrame'
  OBVIOUS
<1> USE SpillAssumption DEF Inv, TypeOK, ReaderFrame, RunsType, MergeType, GroupFrame,
        quiet, result, fill, write, merge, bytes, disk, counters
<1>1. CASE Start
  BY <1>1 DEF Start
<1>2. CASE ReadEdge
  BY <1>2 DEF ReadEdge, WriteSortedRun
<1>3. CASE ReadFails
  BY <1>3 DEF ReadFails, RaiseResource, Raise, ForgetPartial, Larger
<1>4. CASE ReadCancelled
  BY <1>4 DEF ReadCancelled, RaiseCancelled, Raise
<1>5. CASE SourceExhausted
  BY <1>5 DEF SourceExhausted, WriteSortedRun
<1>6. CASE CreateRun
  BY <1>6 DEF CreateRun, Grow
<1>7. CASE CreateFails
  BY <1>7 DEF CreateFails, Raise
<1>8. CASE WriteRecord
  <2>1. UNCHANGED merge \/ (heap # {} /\ Pop)
    BY <1>8 DEF WriteRecord, Advance, Exhausted
  <2>2. DOMAIN files' = DOMAIN files /\ pc' = pc /\ group' = group /\ pc = "write"
    BY <1>8 DEF WriteRecord
  <2> QED
    BY <2>1, <2>2, TopType DEF Pop
<1>9. CASE SkipRecord
  <2>1. UNCHANGED merge \/ (heap # {} /\ Pop)
    BY <1>9 DEF SkipRecord, Advance, Exhausted
  <2>2. files' = files /\ pc' = pc /\ group' = group /\ pc = "write"
    BY <1>9 DEF SkipRecord
  <2> QED
    BY <2>1, <2>2, TopType DEF Pop
<1>10. CASE WriteFails
  BY <1>10 DEF WriteFails, RaiseResource, Raise, ForgetPartial, Larger
<1>11. CASE WriteCancelled
  BY <1>11 DEF WriteCancelled, RaiseCancelled, Raise
<1>12. CASE FinishRun
  BY <1>12 DEF FinishRun
<1>13. CASE OpenReader
  <2> DEFINE run == group[Len(readers) + 1]
             edge == files[run].data[1]
             opened == [run |-> run, seen |-> <<edge>>]
  <2>1. /\ pc = "open" /\ run \in DOMAIN files
        /\ readers' = Append(readers, opened)
        /\ heap' = heap \cup {<<edge, Len(readers) + 1>>}
        /\ UNCHANGED <<owed, files, group>>
    BY <1>13 DEF OpenReader, Openable
  <2>2. /\ Len(readers) + 1 < Len(group) => pc' = "open"
        /\ ~(Len(readers) + 1 < Len(group)) => pc' \in {"drain", "write"}
    BY <1>13 DEF OpenReader
  <2>3. opened.run = run
    OBVIOUS
  <2> HIDE DEF opened, edge, run
  <2>4. Len(readers') = Len(readers) + 1
    BY <2>1
  <2>5. \A i \in 1..Len(readers') : readers'[i].run \in DOMAIN files
    BY <2>1, <2>3, <2>4
  <2>6. \A x \in heap' : x[2] \in 1..Len(readers')
    BY <2>1, <2>4
  <2> QED
    BY SMTT(30), <2>1, <2>2, <2>4, <2>5, <2>6
<1>14. CASE OpenFails
  BY <1>14 DEF OpenFails, RaiseResource, Raise, ForgetPartial, Larger
<1>15. CASE Successor
  <2>1. /\ pc \in {"write", "drain"} /\ owed \in 1..Len(readers) /\ owed' = 0
        /\ UNCHANGED <<pc, group, files>>
    BY <1>15 DEF Successor
  <2>2. CASE AtEnd(readers[owed])
    BY <1>15, <2>1, <2>2 DEF Successor
  <2>3. CASE ~AtEnd(readers[owed])
    <3> DEFINE r == readers[owed]
               edge == files[r.run].data[Len(r.seen) + 1]
               moved == [run |-> r.run, seen |-> Append(r.seen, edge)]
    <3>1. /\ readers' = [readers EXCEPT ![owed] = moved]
          /\ heap' = heap \cup {<<edge, owed>>}
      BY <1>15, <2>3 DEF Successor
    <3>2. moved.run = readers[owed].run
      OBVIOUS
    <3> HIDE DEF moved, edge
    <3>3. Len(readers') = Len(readers)
      BY <2>1, <3>1
    <3>4. \A i \in 1..Len(readers') : readers'[i].run = readers[i].run
      BY <2>1, <3>1, <3>2, <3>3
    <3>5. \A x \in heap' : x[2] \in 1..Len(readers')
      <4>1. (\A x \in heap' : x \in heap \/ x = <<edge, owed>>) /\ <<edge, owed>>[2] = owed
        BY <3>1
      <4>2. \A x \in heap : x[2] \in 1..Len(readers)
        BY DEF Inv, ReaderFrame
      <4> QED
        BY <2>1, <3>3, <4>1, <4>2
    <3>6. /\ \A i \in 1..Len(readers') : readers'[i].run \in DOMAIN files'
          /\ Len(readers') <= Len(group')
      BY <2>1, <3>3, <3>4
    <3> QED
      BY <2>1, <3>5, <3>6
  <2> QED
    BY <2>2, <2>3
<1>16. CASE SuccessorFails
  BY <1>16 DEF SuccessorFails, RaiseResource, Raise, ForgetPartial, Larger
<1>17. CASE StartPass
  BY <1>17 DEF StartPass
<1>18. CASE NextGroup
  BY <1>18 DEF NextGroup
<1>19. CASE EndPass
  BY <1>19 DEF EndPass
<1>20. CASE DeleteInput
  BY <1>20 DEF DeleteInput, ReleaseRun, RunSize, KeepRun
<1>21. CASE StartDrain
  BY <1>21 DEF StartDrain
<1>22. CASE Deliver
  BY <1>22, TopType DEF Deliver, Pop
<1>23. CASE DrainCancelled
  BY <1>23 DEF DrainCancelled, RaiseCancelled, Raise
<1>24. CASE Complete
  BY <1>24 DEF Complete
<1>25. CASE Resume
  BY <1>25 DEF Resume
<1>26. CASE Close
  BY SMTT(30), <1>26 DEF Close, Raise
<1>27. CASE Cleanup
  BY <1>27 DEF Cleanup, RemoveTree
<1>28. CASE CancelToken
  BY <1>28 DEF CancelToken
<1>29. CASE Damage
  BY <1>29 DEF Damage
<1>30. CASE Collect
  BY <1>30 DEF Collect
<1>31. CASE AtExit
  BY <1>31 DEF AtExit, RemoveTree
<1>32. CASE Exited
  BY <1>32 DEF Exited, vars
<1>33. CASE UNCHANGED vars
  BY <1>33 DEF vars
<1> QED
  BY <1>1, <1>2, <1>3, <1>4, <1>5, <1>6, <1>7, <1>8, <1>9, <1>10, <1>11, <1>12,
     <1>13, <1>14, <1>15, <1>16, <1>17, <1>18, <1>19, <1>20, <1>21, <1>22, <1>23,
     <1>24, <1>25, <1>26, <1>27, <1>28, <1>29, <1>30, <1>31, <1>32, <1>33
     DEF Next, Generator, Environment

\* No step takes the account past a byte limit.
LEMMA LimitStep == Inv /\ [Next]_vars => WithinByteLimits'
<1> SUFFICES ASSUME Inv, [Next]_vars
             PROVE  WithinByteLimits'
  OBVIOUS
<1> USE SpillAssumption DEF Inv, TypeOK, WithinByteLimits, BytesType, WriteType, Within,
        quiet, result, fill, write, merge, bytes, disk, counters
<1>1. CASE Start
  BY <1>1 DEF Start
<1>2. CASE ReadEdge
  BY <1>2 DEF ReadEdge, WriteSortedRun
<1>3. CASE ReadFails
  BY <1>3 DEF ReadFails, RaiseResource, Raise, ForgetPartial, Larger
<1>4. CASE ReadCancelled
  BY <1>4 DEF ReadCancelled, RaiseCancelled, Raise
<1>5. CASE SourceExhausted
  BY <1>5 DEF SourceExhausted, WriteSortedRun
<1>6. CASE CreateRun
  <2>1. Grow(HeaderBytes)
    BY <1>6 DEF CreateRun
  <2> QED
    BY <2>1, GrowBytes
<1>7. CASE CreateFails
  BY <1>7 DEF CreateFails, Raise
<1>8. CASE WriteRecord
  <2>1. RecordBytes[Upcoming] \in Nat
    BY <1>8, UpcomingType DEF WriteRecord
  <2>2. Grow(RecordBytes[Upcoming])
    BY <1>8 DEF WriteRecord
  <2> QED
    BY <2>1, <2>2, GrowBytes
<1>9. CASE SkipRecord
  BY <1>9 DEF SkipRecord, Advance, Pop
<1>10. CASE WriteFails
  BY <1>10 DEF WriteFails, RaiseResource, Raise, ForgetPartial, Larger
<1>11. CASE WriteCancelled
  BY <1>11 DEF WriteCancelled, RaiseCancelled, Raise
<1>12. CASE FinishRun
  BY <1>12 DEF FinishRun
<1>13. CASE OpenReader
  BY <1>13 DEF OpenReader
<1>14. CASE OpenFails
  BY <1>14 DEF OpenFails, RaiseResource, Raise, ForgetPartial, Larger
<1>15. CASE Successor
  BY <1>15 DEF Successor
<1>16. CASE SuccessorFails
  BY <1>16 DEF SuccessorFails, RaiseResource, Raise, ForgetPartial, Larger
<1>17. CASE StartPass
  BY <1>17 DEF StartPass
<1>18. CASE NextGroup
  BY <1>18 DEF NextGroup
<1>19. CASE EndPass
  BY <1>19 DEF EndPass
<1>20. CASE DeleteInput
  <2>1. RunSize(group[1]) \in Nat
    BY DEF RunSize, FilesType
  <2> HIDE DEF RunSize
  <2> QED
    BY <1>20, <2>1 DEF DeleteInput, ReleaseRun, KeepRun, Larger
<1>21. CASE StartDrain
  BY <1>21 DEF StartDrain
<1>22. CASE Deliver
  BY <1>22 DEF Deliver, Pop
<1>23. CASE DrainCancelled
  BY <1>23 DEF DrainCancelled, RaiseCancelled, Raise
<1>24. CASE Complete
  BY <1>24 DEF Complete
<1>25. CASE Resume
  BY <1>25 DEF Resume
<1>26. CASE Close
  BY <1>26 DEF Close, Raise
<1>27. CASE Cleanup
  BY <1>27 DEF Cleanup, RemoveTree
<1>28. CASE CancelToken
  BY <1>28 DEF CancelToken
<1>29. CASE Damage
  BY <1>29 DEF Damage
<1>30. CASE Collect
  BY <1>30 DEF Collect
<1>31. CASE AtExit
  <2>1. live_bytes' \in {0, live_bytes} /\ UNCHANGED <<peak_live_bytes, total_written>>
    BY <1>31 DEF AtExit, RemoveTree
  <2> QED
    BY <2>1
<1>32. CASE Exited
  BY <1>32 DEF Exited, vars
<1>33. CASE UNCHANGED vars
  BY <1>33 DEF vars
<1> QED
  BY <1>1, <1>2, <1>3, <1>4, <1>5, <1>6, <1>7, <1>8, <1>9, <1>10, <1>11, <1>12,
     <1>13, <1>14, <1>15, <1>16, <1>17, <1>18, <1>19, <1>20, <1>21, <1>22, <1>23,
     <1>24, <1>25, <1>26, <1>27, <1>28, <1>29, <1>30, <1>31, <1>32, <1>33
     DEF Next, Generator, Environment

\* A directory in use is tracked, and a file is written only between its creation
\* and its end.
LEMMA PlaceStep == Inv /\ [Next]_vars => PlaceFrame'
<1> SUFFICES ASSUME Inv, [Next]_vars
             PROVE  PlaceFrame'
  OBVIOUS
<1> USE SpillAssumption DEF Inv, TypeOK, EnvironmentType, PlaceFrame,
        quiet, result, fill, write, merge, bytes, disk, counters
<1>1. CASE Start
  BY <1>1 DEF Start
<1>2. CASE ReadEdge
  BY <1>2 DEF ReadEdge, WriteSortedRun
<1>3. CASE ReadFails
  BY <1>3 DEF ReadFails, RaiseResource, Raise, ForgetPartial, Larger
<1>4. CASE ReadCancelled
  BY <1>4 DEF ReadCancelled, RaiseCancelled, Raise
<1>5. CASE SourceExhausted
  BY <1>5 DEF SourceExhausted, WriteSortedRun
<1>6. CASE CreateRun
  BY <1>6 DEF CreateRun, Grow
<1>7. CASE CreateFails
  BY <1>7 DEF CreateFails, Raise
<1>8. CASE WriteRecord
  BY <1>8 DEF WriteRecord, Advance, Pop, Grow
<1>9. CASE SkipRecord
  BY <1>9 DEF SkipRecord, Advance, Pop
<1>10. CASE WriteFails
  BY <1>10 DEF WriteFails, RaiseResource, Raise, ForgetPartial, Larger
<1>11. CASE WriteCancelled
  BY <1>11 DEF WriteCancelled, RaiseCancelled, Raise
<1>12. CASE FinishRun
  BY <1>12 DEF FinishRun
<1>13. CASE OpenReader
  BY <1>13 DEF OpenReader
<1>14. CASE OpenFails
  BY <1>14 DEF OpenFails, RaiseResource, Raise, ForgetPartial, Larger
<1>15. CASE Successor
  BY <1>15 DEF Successor
<1>16. CASE SuccessorFails
  BY <1>16 DEF SuccessorFails, RaiseResource, Raise, ForgetPartial, Larger
<1>17. CASE StartPass
  BY <1>17 DEF StartPass
<1>18. CASE NextGroup
  BY <1>18 DEF NextGroup
<1>19. CASE EndPass
  BY <1>19 DEF EndPass
<1>20. CASE DeleteInput
  BY <1>20 DEF DeleteInput, ReleaseRun, RunSize, KeepRun
<1>21. CASE StartDrain
  BY <1>21 DEF StartDrain
<1>22. CASE Deliver
  BY <1>22 DEF Deliver, Pop
<1>23. CASE DrainCancelled
  BY <1>23 DEF DrainCancelled, RaiseCancelled, Raise
<1>24. CASE Complete
  BY <1>24 DEF Complete
<1>25. CASE Resume
  BY <1>25 DEF Resume
<1>26. CASE Close
  BY <1>26 DEF Close, Raise
<1>27. CASE Cleanup
  BY <1>27 DEF Cleanup, RemoveTree
<1>28. CASE CancelToken
  BY <1>28 DEF CancelToken
<1>29. CASE Damage
  BY <1>29 DEF Damage
<1>30. CASE Collect
  BY <1>30 DEF Collect
<1>31. CASE AtExit
  BY <1>31 DEF AtExit, RemoveTree
<1>32. CASE Exited
  BY <1>32 DEF Exited, vars
<1>33. CASE UNCHANGED vars
  BY <1>33 DEF vars
<1> QED
  BY <1>1, <1>2, <1>3, <1>4, <1>5, <1>6, <1>7, <1>8, <1>9, <1>10, <1>11, <1>12,
     <1>13, <1>14, <1>15, <1>16, <1>17, <1>18, <1>19, <1>20, <1>21, <1>22, <1>23,
     <1>24, <1>25, <1>26, <1>27, <1>28, <1>29, <1>30, <1>31, <1>32, <1>33
     DEF Next, Generator, Environment

\* Removing the tree leaves nothing, or says that it failed.
LEMMA RemovedTree ==
  ASSUME RemoveTree, DOMAIN files # {} => dir
  PROVE  /\ removal' = "ok" => ~dir' /\ DOMAIN files' = {}
         /\ DOMAIN files' # {} => dir'
<1>1. CASE dir' = FALSE /\ files' = NoFiles
  BY <1>1 DEF NoFiles
<1>2. CASE removal' = "failed" /\ dir' = dir
           /\ \E left \in SUBSET DOMAIN files : files' = [ x \in left |-> files[x] ]
  BY <1>2
<1> QED
  BY <1>1, <1>2 DEF RemoveTree

\* Whichever step ends the iterator, or the interpreter, leaves nothing behind.
LEMMA LeftStep == Inv /\ [Next]_vars => NothingLeftBehind'
<1> SUFFICES ASSUME Inv, [Next]_vars, pc' \in {"end", "exit"}
             PROVE  NothingLeftBehind'
  BY DEF NothingLeftBehind
<1>0. readers' = <<>> /\ writing' = 0
  BY ReaderStep, PlaceStep DEF ReaderFrame, PlaceFrame
<1>a. OpenFiles' = 0
  BY <1>0 DEF OpenFiles
<1>1. CASE Start
  <2>1. /\ files' = files /\ DOMAIN files = {} /\ ~dir
        /\ (dir' = dir /\ removal' = removal) \/ removal' \in {"skipped", "failed"}
    BY <1>1 DEF Start, Inv, PlaceFrame
  <2> QED
    BY <1>a, <2>1 DEF NothingLeftBehind
<1>2. CASE Close
  <2>1. pc = "new" /\ UNCHANGED <<dir, files>>
    BY <1>2 DEF Close, Raise, disk, quiet
  <2> QED
    BY <1>a, <2>1 DEF NothingLeftBehind, Inv, PlaceFrame
<1>3. CASE Cleanup
  <2>1. RemoveTree /\ dir
    BY <1>3 DEF Cleanup, Inv, PlaceFrame
  <2> QED
    BY <1>a, <2>1, RemovedTree DEF NothingLeftBehind
<1>4. CASE AtExit
  <2>1. CASE tracked
    <3>1. RemoveTree /\ (DOMAIN files # {} => dir)
      BY <1>4, <2>1 DEF AtExit, Inv, PlaceFrame, NothingLeftBehind
    <3> QED
      BY <1>a, <3>1, RemovedTree DEF NothingLeftBehind
  <2>2. CASE ~tracked
    <3>1. pc = "end" /\ UNCHANGED <<dir, files, removal>>
      BY <1>4, <2>2 DEF AtExit, Inv, PlaceFrame
    <3> QED
      BY <1>a, <3>1 DEF Inv, NothingLeftBehind
  <2> QED
    BY <2>1, <2>2
<1>5. CASE Collect \/ Exited \/ UNCHANGED vars
  <2>1. pc' = pc /\ UNCHANGED <<dir, files, removal>>
    BY <1>5 DEF Collect, Exited, vars, quiet, disk
  <2> QED
    BY <1>a, <2>1 DEF Inv, NothingLeftBehind
<1>6. CASE CancelToken \/ Damage
  BY <1>6 DEF CancelToken, Damage
<1>7. CASE \/ ReadEdge \/ ReadFails \/ ReadCancelled \/ SourceExhausted \/ CreateRun \/ CreateFails
           \/ WriteRecord \/ SkipRecord \/ WriteFails \/ WriteCancelled \/ FinishRun
           \/ OpenReader \/ OpenFails \/ Successor \/ SuccessorFails \/ StartPass \/ NextGroup
           \/ EndPass \/ DeleteInput \/ StartDrain \/ Deliver \/ DrainCancelled \/ Complete \/ Resume
  <2>1. pc' \notin {"end", "exit"}
    <3>1. CASE \/ ReadFails \/ ReadCancelled \/ CreateFails \/ WriteFails \/ WriteCancelled
               \/ OpenFails \/ SuccessorFails \/ DrainCancelled
      BY <3>1 DEF ReadFails, ReadCancelled, CreateFails, WriteFails, WriteCancelled, OpenFails,
                  SuccessorFails, DrainCancelled, RaiseResource, RaiseCancelled, Raise
    <3>2. CASE ReadEdge \/ SourceExhausted \/ CreateRun \/ WriteRecord \/ SkipRecord \/ FinishRun
      BY <3>2 DEF ReadEdge, SourceExhausted, WriteSortedRun, CreateRun, WriteRecord, SkipRecord,
                  FinishRun
    <3>3. CASE OpenReader \/ Successor \/ StartPass \/ NextGroup \/ EndPass \/ DeleteInput
      BY <3>3 DEF OpenReader, Successor, StartPass, NextGroup, EndPass, DeleteInput
    <3>4. CASE StartDrain \/ Deliver \/ Complete \/ Resume
      BY <3>4 DEF StartDrain, Deliver, Complete, Resume
    <3> QED
      BY <1>7, <3>1, <3>2, <3>3, <3>4
  <2> QED
    BY <2>1
<1> QED
  BY <1>1, <1>2, <1>3, <1>4, <1>5, <1>6, <1>7 DEF Next, Generator, Environment

\* Every step of the generator and of its environment preserves the invariant.
LEMMA Inductive == Inv /\ [Next]_vars => Inv'
  BY CallStep, RunsStep, WriteStep, MergeStep, FilesStep, BytesStep, EnvironmentStep,
     GroupStep, ReaderStep, LimitStep, PlaceStep, LeftStep
     DEF Inv, TypeOK

\* The conjunction is invariant.
LEMMA Invariance == Spec => []Inv
  BY Initially, Inductive, PTL DEF Spec

-----------------------------------------------------------------------------
(* The theorems                                                            *)

\* Type correctness of _iter_canonical, its workspace and its readers; in
\* particular the account (live_bytes, available) is never negative, and the
\* heap never names a reader that is not open.
THEOREM TypeCorrect == Spec => []TypeOK
<1>1. Inv => TypeOK
  BY DEF Inv
<1> QED
  BY <1>1, Invariance, PTL

\* _grow enforces max_temporary_bytes and max_spill_bytes on every path: no
\* interleaving of writes, merge passes, failed unlinks, cancellation and
\* cleanup takes live, peak or total bytes past a limit.
THEOREM ByteLimits == Spec => []WithinByteLimits
<1>1. Inv => WithinByteLimits
  BY DEF Inv
<1> QED
  BY <1>1, Invariance, PTL

\* StreamingLimits.__post_init__ requires merge_fan_in + 1 <= max_open_files;
\* that is enough: the readers of a group and the run being written are never
\* more than max_open_files handles.
THEOREM OpenFilesLimit == Spec => []OpenFilesBounded
<1>1. Inv => OpenFilesBounded
  <2> SUFFICES ASSUME Inv
               PROVE  OpenFilesBounded
    OBVIOUS
  <2>1. Len(readers) \in Nat /\ Len(group) \in Nat
    BY DEF Inv, TypeOK, MergeType, RunsType
  <2>2. Len(readers) <= FanIn
    BY <2>1, SpillAssumption DEF Inv, GroupFrame, ReaderFrame
  <2> QED
    BY <2>1, <2>2, SpillAssumption DEF OpenFilesBounded, OpenFiles
<1> QED
  BY <1>1, Invariance, PTL

\* _SpillWorkspace.cleanup, the finally block of _iter_canonical and the exit hook: no
\* handle, file or directory survives the iterator, for every way it may end, unless
\* removing the tree failed or the constructor gave up on its directory.
THEOREM NothingSurvives == Spec => []NothingLeftBehind
<1>1. Inv => NothingLeftBehind
  BY DEF Inv
<1> QED
  BY <1>1, Invariance, PTL

-----------------------------------------------------------------------------
(* The bytes on disk.                                                      *)
(*                                                                         *)
(* The account of the workspace is not what lies on disk: damage shrinks a *)
(* file, a failed unlink keeps one the account has forgotten, a cancelled  *)
(* write is never taken off.  The argument gives every file an allowance,  *)
(* what _grow has accounted for it.  While the sort runs, live_bytes is    *)
(* the sum of the allowances (AccountFrame), and no file outgrows its own; *)
(* once it has stopped nothing grows any more, and what is left keeps the  *)
(* allowance it had (Budgeted).                                            *)
(*                                                                         *)
(* Sums over finite functions come first.  They are defined by recursion   *)
(* over sets, and facts about them are proved by a smallest                *)
(* counterexample: a nonempty set of naturals has a least element.         *)

Pick(S) == CHOOSE x \in S : TRUE

\* The recursive function behind SumOf, and the equation it satisfies.
Total(f) ==
  LET sum[S \in SUBSET DOMAIN f] ==
        IF S = {} THEN 0 ELSE LET x == CHOOSE x \in S : TRUE IN f[x] + sum[S \ {x}]
  IN  sum

IsTotal(t, f) ==
  t = [ S \in SUBSET DOMAIN f |-> IF S = {} THEN 0 ELSE f[Pick(S)] + t[S \ {Pick(S)}] ]

\* The files of a running sort are its registered runs and the one being written,
\* none is larger than what was accounted for it, and the account is their sum.
AccountFrame ==
  /\ IsFiniteSet(DOMAIN files) /\ IsFiniteSet(DOMAIN run_sizes)
  /\ \A f \in DOMAIN run_sizes : f \in 1..runs_created
  /\ IF writing = 0 THEN accounted = 0 ELSE writing = runs_created + 1
  /\ pc = "write" => writing # 0
  /\ pc = "new" => DOMAIN run_sizes = {} /\ live_bytes = 0
  /\ Running =>
       /\ DOMAIN files = DOMAIN run_sizes \cup (IF writing = 0 THEN {} ELSE {writing})
       /\ \A f \in DOMAIN run_sizes : files[f].bytes <= run_sizes[f]
       /\ writing # 0 => files[writing].bytes <= accounted
       /\ live_bytes = SumOf(run_sizes) + accounted

\* Every file has an allowance, and the allowances fit max_temporary_bytes.
Budgeted ==
  \E a \in [DOMAIN files -> Nat] :
    /\ \A f \in DOMAIN files : files[f].bytes <= a[f]
    /\ Within(SumOf(a), MaxTemporaryBytes)

DiskInv == Inv /\ AccountFrame /\ (~Running => Budgeted)

-----------------------------------------------------------------------------
(* Sums over finite functions                                              *)

\* A nonempty set of subsets of a finite set has a member none of whose proper
\* subsets is a member.
LEMMA Smallest ==
  ASSUME NEW D, IsFiniteSet(D), NEW B \in SUBSET (SUBSET D), B # {}
  PROVE  \E S \in B : \A T \in SUBSET S : T # S => T \notin B
<1>1. \A S \in SUBSET D : IsFiniteSet(S) /\ Cardinality(S) \in Nat
  BY FS_Subset, FS_CardinalityType
<1> DEFINE N == { Cardinality(S) : S \in B }
<1>2. N \in SUBSET Nat /\ N # {}
  BY <1>1
<1>3. PICK n \in N : \A m \in N : n <= m
  <2> HIDE DEF N
  <2> QED
    BY <1>2, NatMinimum
<1>4. PICK S \in B : Cardinality(S) = n
  BY <1>3
<1>5. ASSUME NEW T \in SUBSET S, T # S, T \in B
      PROVE  FALSE
  <2>1. IsFiniteSet(S)
    BY <1>1
  <2>2. Cardinality(T) < Cardinality(S)
    BY <1>1, <1>5, <2>1, FS_Subset
  <2>3. n <= Cardinality(T) /\ n \in Nat /\ Cardinality(T) \in Nat
    BY <1>1, <1>2, <1>3, <1>5
  <2> QED
    BY <1>4, <2>2, <2>3
<1> QED
  BY <1>5

\* Taking an element away.
LEMMA OneLess ==
  ASSUME NEW S, IsFiniteSet(S), S # {}
  PROVE  /\ Pick(S) \in S
         /\ \A x \in S : /\ Cardinality(S \ {x}) = Cardinality(S) - 1
                         /\ Cardinality(S) \in Nat \ {0} /\ IsFiniteSet(S \ {x})
<1>1. Pick(S) \in S
  BY DEF Pick
<1>2. ASSUME NEW x \in S
      PROVE  /\ Cardinality(S \ {x}) = Cardinality(S) - 1
             /\ Cardinality(S) \in Nat \ {0} /\ IsFiniteSet(S \ {x})
  <2>1. Cardinality(S) \in Nat /\ Cardinality(S) # 0
    BY FS_CardinalityType, FS_EmptySet
  <2> QED
    BY <2>1, FS_RemoveElement
<1> QED
  BY <1>1, <1>2

\* The equation has a solution, so the recursive function satisfies it.
LEMMA TotalDefined ==
  ASSUME NEW f, IsFiniteSet(DOMAIN f), \A x \in DOMAIN f : f[x] \in Int
  PROVE  IsTotal(Total(f), f) /\ Total(f) \in [SUBSET DOMAIN f -> Int]
<1> DEFINE D == DOMAIN f
           Upto(n) == { S \in SUBSET D : Cardinality(S) <= n }
           Sums(g, n) == \A S \in Upto(n) :
                           g[S] = IF S = {} THEN 0 ELSE f[Pick(S)] + g[S \ {Pick(S)}]
           Solved(n) == \E g \in [Upto(n) -> Int] : Sums(g, n)
<1>0. \A S \in SUBSET D : IsFiniteSet(S) /\ Cardinality(S) \in Nat
  BY FS_Subset, FS_CardinalityType
<1>1. Solved(0)
  <2> DEFINE g == [S \in Upto(0) |-> 0]
  <2>1. ASSUME NEW S \in Upto(0) PROVE S = {}
    <3>1. Cardinality(S) = 0 /\ IsFiniteSet(S)
      BY <1>0
    <3> QED
      BY <3>1, FS_EmptySet
  <2>2. g \in [Upto(0) -> Int]
    OBVIOUS
  <2>3. Sums(g, 0)
    BY <2>1
  <2> QED
    BY <2>2, <2>3
<1>2. ASSUME NEW n \in Nat \ {0}, Solved(n - 1)
      PROVE  Solved(n)
  <2>1. PICK g \in [Upto(n - 1) -> Int] : Sums(g, n - 1)
    BY <1>2
  <2> DEFINE h == [S \in Upto(n) |-> IF Cardinality(S) <= n - 1 THEN g[S]
                                     ELSE f[Pick(S)] + g[S \ {Pick(S)}]]
  <2>2. ASSUME NEW S \in Upto(n), S # {}
        PROVE  /\ Pick(S) \in D /\ S \ {Pick(S)} \in Upto(n - 1)
               /\ S \ {Pick(S)} \in Upto(n)
               /\ h[S \ {Pick(S)}] = g[S \ {Pick(S)}]
    <3>1. Pick(S) \in S /\ Cardinality(S \ {Pick(S)}) = Cardinality(S) - 1 /\ Cardinality(S) \in Nat
      BY <1>0, <2>2, OneLess
    <3>2. Cardinality(S \ {Pick(S)}) <= n - 1 /\ Cardinality(S \ {Pick(S)}) <= n
      BY <3>1
    <3>3. S \ {Pick(S)} \in SUBSET D
      OBVIOUS
    <3> QED
      BY <3>1, <3>2, <3>3
  <2>3. ASSUME NEW S \in Upto(n)
        PROVE  h[S] \in Int /\ h[S] = IF S = {} THEN 0 ELSE f[Pick(S)] + h[S \ {Pick(S)}]
    <3>1. CASE Cardinality(S) <= n - 1
      <4>1. S \in Upto(n - 1) /\ h[S] = g[S] /\ g[S] \in Int
        BY <2>1, <3>1
      <4>2. g[S] = IF S = {} THEN 0 ELSE f[Pick(S)] + g[S \ {Pick(S)}]
        BY <2>1, <4>1
      <4> HIDE DEF h
      <4> QED
        BY <2>2, <4>1, <4>2
    <3>2. CASE ~(Cardinality(S) <= n - 1)
      <4>1. S # {}
        <5>1. Cardinality({}) = 0
          BY FS_EmptySet
        <5> QED
          BY <3>2, <5>1
      <4>2. h[S] = f[Pick(S)] + g[S \ {Pick(S)}]
        BY <3>2
      <4>3. f[Pick(S)] \in Int /\ g[S \ {Pick(S)}] \in Int
        BY <2>1, <2>2, <4>1
      <4> HIDE DEF h
      <4> QED
        BY <2>2, <4>1, <4>2, <4>3
    <3> QED
      BY <3>1, <3>2
  <2>4. h \in [Upto(n) -> Int]
    <3>1. h = [S \in Upto(n) |-> h[S]]
      OBVIOUS
    <3> HIDE DEF h
    <3> QED
      BY <2>3, <3>1
  <2>5. Sums(h, n)
    BY <2>3
  <2> HIDE DEF h
  <2> QED
    BY <2>4, <2>5
<1>3. \A n \in Nat : Solved(n)
  <2> HIDE DEF Solved
  <2> SUFFICES ASSUME \E n \in Nat : ~Solved(n) PROVE FALSE
    OBVIOUS
  <2> DEFINE M == { n \in Nat : ~Solved(n) }
  <2>1. M \in SUBSET Nat /\ M # {}
    OBVIOUS
  <2>2. PICK n \in M : \A m \in M : n <= m
    <3> HIDE DEF M
    <3> QED
      BY <2>1, NatMinimum
  <2>3. n \in Nat /\ ~Solved(n) /\ n # 0
    BY <1>1, <2>2
  <2>4. n - 1 \in Nat /\ Solved(n - 1)
    BY <2>2, <2>3
  <2> QED
    BY <1>2, <2>3, <2>4
<1>4. PICK t \in [SUBSET D -> Int] :
        \A S \in SUBSET D : t[S] = IF S = {} THEN 0 ELSE f[Pick(S)] + t[S \ {Pick(S)}]
  <2>1. Cardinality(D) \in Nat
    BY FS_CardinalityType
  <2>2. Upto(Cardinality(D)) = SUBSET D
    BY FS_Subset
  <2>3. Solved(Cardinality(D))
    BY <1>3, <2>1
  <2> QED
    BY <2>2, <2>3
<1>5. IsTotal(t, f)
  BY <1>4 DEF IsTotal
<1>6. Total(f) = CHOOSE u : IsTotal(u, f)
  BY DEF Total, IsTotal, Pick
<1>7. IsTotal(Total(f), f)
  BY <1>5, <1>6
<1> QED
  <2> DEFINE u == Total(f)
             Bad == { S \in SUBSET D : u[S] \notin Int }
  <2>1. ASSUME Bad # {} PROVE FALSE
    <3>1. PICK S \in Bad : \A T \in SUBSET S : T # S => T \notin Bad
      <4>1. Bad \in SUBSET (SUBSET D)
        OBVIOUS
      <4> HIDE DEF Bad
      <4> QED
        BY <2>1, <4>1, Smallest
    <3>2. u[S] = IF S = {} THEN 0 ELSE f[Pick(S)] + u[S \ {Pick(S)}]
      BY <1>7, <3>1 DEF IsTotal
    <3>3. S # {} => Pick(S) \in S
      BY DEF Pick
    <3>4. S # {} => u[S \ {Pick(S)}] \in Int /\ f[Pick(S)] \in Int
      BY <3>1, <3>3
    <3> QED
      BY <3>1, <3>2, <3>4
  <2>2. \A S \in SUBSET D : u[S] \in Int
    BY <2>1
  <2>3. u = [S \in SUBSET D |-> u[S]]
    BY <1>7 DEF IsTotal
  <2> QED
    BY <1>7, <2>2, <2>3
\* The sum of the empty function; the sum over a set; one element more.
LEMMA TotalSteps ==
  ASSUME NEW f, IsFiniteSet(DOMAIN f), \A x \in DOMAIN f : f[x] \in Int
  PROVE  /\ SumOf(f) = Total(f)[DOMAIN f] /\ SumOf(f) \in Int
         /\ Total(f)[{}] = 0
         /\ \A S \in SUBSET DOMAIN f : \A x \in S :
              Total(f)[S] = f[x] + Total(f)[S \ {x}]
<1> DEFINE D == DOMAIN f
           t == Total(f)
           Bad == { S \in SUBSET D : \E x \in S : t[S] # f[x] + t[S \ {x}] }
<1>1. t \in [SUBSET D -> Int] /\ IsTotal(t, f)
  BY TotalDefined
<1>2. SumOf(f) = t[D]
  BY DEF SumOf, Total
<1>3. t[{}] = 0
  BY <1>1 DEF IsTotal
<1>4. ASSUME NEW S \in SUBSET D, S # {}
      PROVE  Pick(S) \in S /\ t[S] = f[Pick(S)] + t[S \ {Pick(S)}]
  BY <1>1, <1>4 DEF IsTotal, Pick
<1>5. ASSUME Bad # {} PROVE FALSE
  <2>1. PICK S \in Bad : \A T \in SUBSET S : T # S => T \notin Bad
    <3>1. Bad \in SUBSET (SUBSET D)
      OBVIOUS
    <3> HIDE DEF Bad
    <3> QED
      BY <1>5, <3>1, Smallest
  <2>2. PICK x \in S : t[S] # f[x] + t[S \ {x}]
    BY <2>1
  <2> DEFINE y == Pick(S)
             R == S \ {x, y}
  <2>3. y \in S /\ t[S] = f[y] + t[S \ {y}] /\ S \in SUBSET D
    BY <1>4, <2>1, <2>2
  <2> HIDE DEF y
  <2>4. x # y
    BY <2>2, <2>3
  <2>5. t[S \ {y}] = f[x] + t[R]
    <3>1. S \ {y} \notin Bad /\ S \ {y} \in SUBSET D /\ x \in S \ {y} /\ (S \ {y}) \ {x} = R
      BY <2>1, <2>2, <2>3, <2>4
    <3> HIDE DEF R
    <3> QED
      BY <3>1
  <2>6. t[S \ {x}] = f[y] + t[R]
    <3>1. S \ {x} \notin Bad /\ S \ {x} \in SUBSET D /\ y \in S \ {x} /\ (S \ {x}) \ {y} = R
      BY <2>1, <2>2, <2>3, <2>4
    <3> HIDE DEF R
    <3> QED
      BY <3>1
  <2>7. t[R] \in Int /\ f[x] \in Int /\ f[y] \in Int
    BY <1>1, <2>2, <2>3
  <2> HIDE DEF R, Bad, t
  <2> QED
    BY <2>2, <2>3, <2>5, <2>6, <2>7
<1> QED
  BY <1>1, <1>2, <1>3, <1>5

\* Two functions are compared place by place.
LEMMA SumMonotone ==
  ASSUME NEW f, NEW g, IsFiniteSet(DOMAIN f), DOMAIN g = DOMAIN f,
         \A x \in DOMAIN f : f[x] \in Int /\ g[x] \in Int /\ f[x] <= g[x]
  PROVE  SumOf(f) <= SumOf(g)
<1> DEFINE D == DOMAIN f
           Bad == { S \in SUBSET D : ~(Total(f)[S] <= Total(g)[S]) }
<1>1. /\ Total(f)[{}] = 0 /\ SumOf(f) = Total(f)[D] /\ Total(f) \in [SUBSET D -> Int]
      /\ \A S \in SUBSET D : \A x \in S : Total(f)[S] = f[x] + Total(f)[S \ {x}]
  BY TotalSteps, TotalDefined
<1>2. /\ Total(g)[{}] = 0 /\ SumOf(g) = Total(g)[D] /\ Total(g) \in [SUBSET D -> Int]
      /\ \A S \in SUBSET D : \A x \in S : Total(g)[S] = g[x] + Total(g)[S \ {x}]
  BY TotalSteps, TotalDefined
<1>3. ASSUME Bad # {} PROVE FALSE
  <2>1. PICK S \in Bad : \A T \in SUBSET S : T # S => T \notin Bad
    <3>1. Bad \in SUBSET (SUBSET D)
      OBVIOUS
    <3> HIDE DEF Bad
    <3> QED
      BY <1>3, <3>1, Smallest
  <2>2. S # {}
    <3>1. Total(f)[{}] <= Total(g)[{}]
      BY <1>1, <1>2
    <3> QED
      BY <2>1, <3>1
  <2>3. PICK x \in S : TRUE
    BY <2>2
  <2>4. Total(f)[S \ {x}] <= Total(g)[S \ {x}] /\ x \in D /\ S \in SUBSET D
    BY <2>1, <2>3
  <2>5. Total(f)[S] = f[x] + Total(f)[S \ {x}] /\ Total(g)[S] = g[x] + Total(g)[S \ {x}]
    BY <1>1, <1>2, <2>3, <2>4
  <2>6. Total(f)[S \ {x}] \in Int /\ Total(g)[S \ {x}] \in Int /\ ~(Total(f)[S] <= Total(g)[S])
    BY <1>1, <1>2, <2>1, <2>4
  <2> QED
    BY <2>4, <2>5, <2>6
<1> QED
  BY <1>1, <1>2, <1>3

\* Functions that agree have the same sums over what they share.
LEMMA TotalAgrees ==
  ASSUME NEW f, NEW g, IsFiniteSet(DOMAIN g), DOMAIN f \in SUBSET DOMAIN g,
         \A x \in DOMAIN g : g[x] \in Int, \A x \in DOMAIN f : f[x] = g[x]
  PROVE  SumOf(f) = Total(g)[DOMAIN f] /\ IsFiniteSet(DOMAIN f)
<1> DEFINE D == DOMAIN f
           Bad == { S \in SUBSET D : Total(f)[S] # Total(g)[S] }
<1>0. IsFiniteSet(D)
  BY FS_Subset
<1>1. /\ Total(f)[{}] = 0 /\ SumOf(f) = Total(f)[D]
      /\ \A S \in SUBSET D : \A x \in S : Total(f)[S] = f[x] + Total(f)[S \ {x}]
  BY <1>0, TotalSteps
<1>2. /\ Total(g)[{}] = 0
      /\ \A S \in SUBSET D : \A x \in S : Total(g)[S] = g[x] + Total(g)[S \ {x}]
  BY TotalSteps
<1>3. ASSUME Bad # {} PROVE FALSE
  <2>1. PICK S \in Bad : \A T \in SUBSET S : T # S => T \notin Bad
    <3>1. Bad \in SUBSET (SUBSET D)
      OBVIOUS
    <3> HIDE DEF Bad
    <3> QED
      BY <1>0, <1>3, <3>1, Smallest
  <2>2. S # {}
    BY <1>1, <1>2, <2>1
  <2>3. PICK x \in S : TRUE
    BY <2>2
  <2>4. Total(f)[S \ {x}] = Total(g)[S \ {x}] /\ x \in D /\ S \in SUBSET D
    BY <2>1, <2>3
  <2> QED
    BY <1>1, <1>2, <2>1, <2>3, <2>4
<1> QED
  BY <1>0, <1>1, <1>3

\* One key more, one key less.
LEMMA SumWith ==
  ASSUME NEW f, IsFiniteSet(DOMAIN f), \A x \in DOMAIN f : f[x] \in Int,
         NEW k, k \notin DOMAIN f, NEW v \in Int
  PROVE  SumOf(With(f, k, v)) = SumOf(f) + v /\ IsFiniteSet(DOMAIN With(f, k, v))
<1> DEFINE g == With(f, k, v)
<1>1. /\ DOMAIN g = DOMAIN f \cup {k} /\ g[k] = v
      /\ \A x \in DOMAIN f : g[x] = f[x]
      /\ \A x \in DOMAIN g : g[x] \in Int
      /\ DOMAIN g \ {k} = DOMAIN f
  BY DEF With
<1> HIDE DEF g
<1>2. IsFiniteSet(DOMAIN g)
  BY <1>1, FS_AddElement
<1>3. SumOf(g) = Total(g)[DOMAIN g] /\ Total(g)[DOMAIN g] = v + Total(g)[DOMAIN f]
  BY <1>1, <1>2, TotalSteps
<1>4. SumOf(f) = Total(g)[DOMAIN f]
  BY <1>1, <1>2, TotalAgrees
<1>5. SumOf(f) \in Int
  BY TotalSteps
<1> QED
  BY <1>2, <1>3, <1>4, <1>5 DEF g

\* The sum over a function is the sum without one argument, and that value.
LEMMA SumWithout ==
  ASSUME NEW f, IsFiniteSet(DOMAIN f), \A x \in DOMAIN f : f[x] \in Int,
         NEW k \in DOMAIN f
  PROVE  SumOf(f) = SumOf(Without(f, k)) + f[k]
<1> DEFINE g == Without(f, k)
<1>1. /\ DOMAIN g = DOMAIN f \ {k} /\ \A x \in DOMAIN g : g[x] = f[x]
  BY DEF Without
<1> HIDE DEF g
<1>2. SumOf(f) = Total(f)[DOMAIN f] /\ Total(f)[DOMAIN f] = f[k] + Total(f)[DOMAIN f \ {k}]
  BY TotalSteps
<1>3. SumOf(g) = Total(f)[DOMAIN g] /\ IsFiniteSet(DOMAIN g)
  BY <1>1, TotalAgrees
<1>4. SumOf(g) \in Int
  BY <1>1, <1>3, TotalSteps
<1> QED
  BY <1>1, <1>2, <1>3, <1>4 DEF g

\* Dropping naturals makes no sum larger.
LEMMA SumSubset ==
  ASSUME NEW f, IsFiniteSet(DOMAIN f), \A x \in DOMAIN f : f[x] \in Nat,
         NEW T \in SUBSET DOMAIN f
  PROVE  SumOf([x \in T |-> f[x]]) <= SumOf(f) /\ SumOf([x \in T |-> f[x]]) \in Int /\ SumOf(f) \in Int
<1> DEFINE D == DOMAIN f
           g == [x \in T |-> f[x]]
           Bad == { S \in SUBSET D : T \subseteq S /\ ~(Total(f)[T] <= Total(f)[S]) }
<1>0. \A x \in D : f[x] \in Int
  OBVIOUS
<1>1. SumOf(g) = Total(f)[T]
  <2>1. DOMAIN g = T /\ \A x \in DOMAIN g : g[x] = f[x]
    OBVIOUS
  <2> HIDE DEF g
  <2> QED
    BY <1>0, <2>1, TotalAgrees
<1>2. /\ SumOf(f) = Total(f)[D] /\ Total(f) \in [SUBSET D -> Int]
      /\ \A S \in SUBSET D : \A x \in S : Total(f)[S] = f[x] + Total(f)[S \ {x}]
  BY <1>0, TotalSteps, TotalDefined
<1>3. ASSUME Bad # {} PROVE FALSE
  <2>1. PICK S \in Bad : \A R \in SUBSET S : R # S => R \notin Bad
    <3>1. Bad \in SUBSET (SUBSET D)
      OBVIOUS
    <3> HIDE DEF Bad
    <3> QED
      BY <1>3, <3>1, Smallest
  <2>2. S \in SUBSET D /\ T \subseteq S /\ ~(Total(f)[T] <= Total(f)[S]) /\ Total(f)[T] \in Int
    BY <1>2, <2>1
  <2>3. PICK x \in S : x \notin T
    <3>1. Total(f)[S] \in Int
      BY <1>2, <2>2
    <3>2. S # T
      BY <2>2, <3>1
    <3> QED
      BY <2>2, <3>2
  <2>4. Total(f)[T] <= Total(f)[S \ {x}] /\ S \ {x} \in SUBSET D
    BY <2>1, <2>2, <2>3
  <2>5. Total(f)[S] = f[x] + Total(f)[S \ {x}] /\ f[x] \in Nat /\ Total(f)[S \ {x}] \in Int
    BY <1>2, <2>2, <2>3, <2>4
  <2> QED
    BY <2>2, <2>4, <2>5
<1>4. Total(f)[T] <= Total(f)[D] /\ Total(f)[T] \in Int /\ Total(f)[D] \in Int
  BY <1>2, <1>3
<1> HIDE DEF g
<1> QED
  BY <1>1, <1>2, <1>4 DEF g

\* A sum of naturals is a natural; a sum of nothing is 0.
LEMMA SumNatural ==
  ASSUME NEW f, IsFiniteSet(DOMAIN f), \A x \in DOMAIN f : f[x] \in Nat
  PROVE  SumOf(f) \in Nat /\ (DOMAIN f = {} => SumOf(f) = 0)
<1> DEFINE g == [x \in {} |-> f[x]]
<1>0. \A x \in DOMAIN f : f[x] \in Int
  OBVIOUS
<1>1. DOMAIN g = {} /\ IsFiniteSet({}) /\ \A x \in DOMAIN g : g[x] \in Int
  BY FS_EmptySet
<1>2. SumOf(g) <= SumOf(f) /\ SumOf(f) \in Int
  BY SumSubset
<1> HIDE DEF g
<1>3. SumOf(g) = 0
  BY <1>1, TotalSteps
<1>4. DOMAIN f = {} => SumOf(f) = 0
  BY <1>0, TotalSteps
<1> QED
  BY <1>2, <1>3, <1>4

-----------------------------------------------------------------------------
(* The account                                                             *)

\* The types the account is made of.
LEMMA AccountTypes ==
  ASSUME Inv, AccountFrame
  PROVE  /\ \A f \in DOMAIN files : files[f].bytes \in Int
         /\ \A f \in DOMAIN run_sizes : run_sizes[f] \in Nat /\ run_sizes[f] \in Int
         /\ accounted \in Nat /\ live_bytes \in Nat /\ runs_created \in Nat
         /\ SumOf(run_sizes) \in Nat
<1>1. \A f \in DOMAIN files : files[f].bytes \in Int
  BY DEF Inv, TypeOK, FilesType, FileRecord
<1>2. \A f \in DOMAIN run_sizes : run_sizes[f] \in Nat /\ run_sizes[f] \in Int
  BY DEF Inv, TypeOK, FilesType
<1>3. accounted \in Nat /\ live_bytes \in Nat /\ runs_created \in Nat
  BY DEF Inv, TypeOK, WriteType, BytesType
<1>4. SumOf(run_sizes) \in Nat
  BY <1>2, SumNatural DEF AccountFrame
<1> QED
  BY <1>1, <1>2, <1>3, <1>4

\* While the sort runs, the account covers what is on disk.
LEMMA RunningBudgeted ==
  ASSUME Inv, AccountFrame, Running
  PROVE  Budgeted
<1>0. /\ \A f \in DOMAIN run_sizes : run_sizes[f] \in Nat /\ run_sizes[f] \in Int
      /\ accounted \in Nat /\ live_bytes \in Nat /\ runs_created \in Nat /\ SumOf(run_sizes) \in Nat
  BY AccountTypes
<1>1. /\ IsFiniteSet(DOMAIN run_sizes) /\ \A f \in DOMAIN run_sizes : f \in 1..runs_created
      /\ DOMAIN files = DOMAIN run_sizes \cup (IF writing = 0 THEN {} ELSE {writing})
      /\ \A f \in DOMAIN run_sizes : files[f].bytes <= run_sizes[f]
      /\ writing # 0 => files[writing].bytes <= accounted /\ writing = runs_created + 1
      /\ writing = 0 => accounted = 0
      /\ live_bytes = SumOf(run_sizes) + accounted
  BY DEF AccountFrame
<1>2. Within(live_bytes, MaxTemporaryBytes)
  BY DEF Inv, WithinByteLimits
<1>3. CASE writing = 0
  <2> DEFINE a == [f \in DOMAIN files |-> run_sizes[f]]
  <2>1. DOMAIN a = DOMAIN run_sizes /\ \A x \in DOMAIN a : a[x] = run_sizes[x]
    BY <1>1, <1>3
  <2>2. a \in [DOMAIN files -> Nat] /\ \A f \in DOMAIN files : files[f].bytes <= a[f]
    BY <1>0, <1>1, <1>3
  <2> HIDE DEF a
  <2>3. SumOf(a) = Total(run_sizes)[DOMAIN a] /\ SumOf(run_sizes) = Total(run_sizes)[DOMAIN run_sizes]
    BY <1>0, <1>1, <2>1, TotalAgrees, TotalSteps
  <2>4. SumOf(a) = live_bytes
    BY <1>0, <1>1, <1>3, <2>1, <2>3
  <2> QED
    BY <1>2, <2>2, <2>4 DEF Budgeted
<1>4. CASE writing # 0
  <2> DEFINE a == With(run_sizes, writing, accounted)
  <2>1. writing \notin DOMAIN run_sizes
    BY <1>0, <1>1, <1>4
  <2>2. SumOf(a) = SumOf(run_sizes) + accounted
    BY <1>0, <1>1, <2>1, SumWith
  <2>3. /\ a = [x \in DOMAIN files |-> a[x]] /\ a[writing] = accounted
        /\ \A x \in DOMAIN run_sizes : a[x] = run_sizes[x]
    BY <1>1, <1>4, <2>1 DEF With
  <2> HIDE DEF a
  <2>4. \A f \in DOMAIN files : a[f] \in Nat /\ files[f].bytes <= a[f]
    BY <1>0, <1>1, <1>4, <2>3
  <2>5. a \in [DOMAIN files -> Nat]
    BY <2>3, <2>4
  <2>6. Within(SumOf(a), MaxTemporaryBytes)
    BY <1>1, <1>2, <2>2
  <2> QED
    BY <2>4, <2>5, <2>6 DEF Budgeted
<1> QED
  BY <1>3, <1>4

\* A step that touches neither files nor account.
LEMMA AccountSame ==
  ASSUME Inv, AccountFrame, Running' => Running, pc' = "new" => pc = "new",
         pc' = "write" => writing # 0,
         UNCHANGED <<files, run_sizes, live_bytes, runs_created, writing, accounted>>
  PROVE  AccountFrame'
<1>1. SumOf(run_sizes)' = SumOf(run_sizes)
  BY DEF SumOf
<1> QED
  BY <1>1 DEF AccountFrame

\* A step after which nothing is written any more.
LEMMA AccountStopped ==
  ASSUME Inv, AccountFrame, pc' \in {"finally", "end", "exit"}, writing' = 0, accounted' = 0,
         runs_created' = runs_created, run_sizes' = run_sizes \/ run_sizes' = NoRuns,
         IsFiniteSet(DOMAIN files')
  PROVE  AccountFrame'
<1>1. ~Running' /\ pc' # "new" /\ pc' # "write"
  BY DEF Running
<1>2. IsFiniteSet(DOMAIN run_sizes') /\ \A f \in DOMAIN run_sizes' : f \in 1..runs_created
  BY FS_EmptySet DEF AccountFrame, NoRuns
<1> QED
  BY <1>1, <1>2 DEF AccountFrame

\* An exception: a file less, or the files there were.
LEMMA RaisedFiles ==
  ASSUME Inv, AccountFrame, RaiseResource \/ RaiseCancelled \/ (Raise("closed") /\ UNCHANGED disk)
  PROVE  /\ AccountFrame' /\ ~Running'
         /\ \/ files' = files
            \/ \E T \in SUBSET DOMAIN files : files' = [x \in T |-> files[x]]
<1>1. /\ pc' = "finally" /\ writing' = 0 /\ accounted' = 0 /\ runs_created' = runs_created
      /\ run_sizes' = run_sizes
      /\ files' = files \/ files' = Without(files, writing)
  BY DEF RaiseResource, RaiseCancelled, Raise, ForgetPartial, disk, counters
<1>2. \/ files' = files
      \/ \E T \in SUBSET DOMAIN files : files' = [x \in T |-> files[x]]
  BY <1>1 DEF Without
<1>3. IsFiniteSet(DOMAIN files')
  <2>1. DOMAIN files' \in SUBSET DOMAIN files
    BY <1>2
  <2> QED
    BY <2>1, FS_Subset DEF AccountFrame
<1> QED
  BY <1>1, <1>2, <1>3, AccountStopped DEF Running

\* What is left of a budgeted set of files is budgeted.
LEMMA FewerFiles ==
  ASSUME Budgeted, IsFiniteSet(DOMAIN files), NEW T \in SUBSET DOMAIN files,
         files' = [x \in T |-> files[x]]
  PROVE  Budgeted'
<1>1. PICK a \in [DOMAIN files -> Nat] : /\ \A f \in DOMAIN files : files[f].bytes <= a[f]
                                         /\ Within(SumOf(a), MaxTemporaryBytes)
  BY DEF Budgeted
<1> DEFINE b == [x \in T |-> a[x]]
<1>2. b \in [DOMAIN files' -> Nat] /\ \A f \in DOMAIN files' : files'[f].bytes <= b[f]
  BY <1>1
<1>3. DOMAIN a = DOMAIN files /\ \A x \in DOMAIN a : a[x] \in Nat
  BY <1>1
<1>4. SumOf(b) <= SumOf(a) /\ SumOf(a) \in Int /\ SumOf(b) \in Int
  BY <1>3, SumSubset
<1> HIDE DEF b
<1>5. Within(SumOf(b), MaxTemporaryBytes)
  BY <1>1, <1>4, SpillAssumption DEF Within
<1> QED
  BY <1>2, <1>5 DEF Budgeted

\* Files that do not change keep within their allowances.
LEMMA SameFiles == ASSUME Budgeted, files' = files PROVE Budgeted'
  BY DEF Budgeted

-----------------------------------------------------------------------------
(* One step                                                                *)

\* The steps that register, shrink or release a file.
LEMMA FileStep ==
  ASSUME Inv, AccountFrame, CreateRun \/ WriteRecord \/ FinishRun \/ DeleteInput \/ Damage
  PROVE  AccountFrame'
<1>0. /\ \A f \in DOMAIN files : files[f].bytes \in Int
      /\ \A f \in DOMAIN run_sizes : run_sizes[f] \in Nat /\ run_sizes[f] \in Int
      /\ accounted \in Nat /\ live_bytes \in Nat /\ runs_created \in Nat
      /\ SumOf(run_sizes) \in Nat
  BY AccountTypes
<1>1. /\ IsFiniteSet(DOMAIN files) /\ IsFiniteSet(DOMAIN run_sizes)
      /\ \A f \in DOMAIN run_sizes : f \in 1..runs_created
      /\ runs_created + 1 \notin DOMAIN run_sizes
  BY <1>0 DEF AccountFrame
<1>2. CASE CreateRun
  <2>1. /\ pc = "create" /\ writing' = runs_created + 1 /\ accounted' = HeaderBytes
        /\ files' = With(files, runs_created + 1, File(<<>>, <<>>, HeaderBytes))
        /\ live_bytes' = live_bytes + HeaderBytes /\ UNCHANGED <<run_sizes, runs_created>>
        /\ pc' \in {"write", "open"}
    BY <1>2 DEF CreateRun, Grow, counters
  <2>2. writing = 0 /\ Running
    BY <2>1 DEF Inv, PlaceFrame, Running
  <2>3. accounted = 0 /\ DOMAIN files = DOMAIN run_sizes /\ live_bytes = SumOf(run_sizes)
        /\ \A f \in DOMAIN run_sizes : files[f].bytes <= run_sizes[f]
    BY <1>0, <2>2 DEF AccountFrame
  <2>4. /\ DOMAIN files' = DOMAIN run_sizes \cup {runs_created + 1}
        /\ files'[runs_created + 1].bytes = HeaderBytes
        /\ \A f \in DOMAIN run_sizes : files'[f] = files[f]
    BY <1>1, <2>1, <2>3 DEF With, File
  <2>5. IsFiniteSet(DOMAIN files')
    BY <1>1, <2>4, FS_AddElement
  <2>6. HeaderBytes \in Nat /\ runs_created + 1 # 0 /\ pc' # "new"
    BY <1>0, <2>1, SpillAssumption
  <2>7. SumOf(run_sizes)' = SumOf(run_sizes)
    BY <2>1
  <2> QED
    BY <1>0, <1>1, <2>1, <2>3, <2>4, <2>5, <2>6, <2>7 DEF AccountFrame
<1>3. CASE WriteRecord
  <2> DEFINE r == RecordBytes[Upcoming]
  <2>1. /\ pc = "write" /\ pc' = pc /\ accounted' = accounted + r
        /\ files' = [files EXCEPT ![writing] =
                       File(Append(@.data, Upcoming), @.head, @.bytes + r)]
        /\ live_bytes' = live_bytes + r /\ UNCHANGED <<run_sizes, runs_created, writing>>
        /\ ~Exhausted
    BY <1>3 DEF WriteRecord, Grow, counters
  <2>2. r \in Nat
    BY <2>1, UpcomingType
  <2> HIDE DEF r
  <2>3. Running /\ writing # 0 /\ writing = runs_created + 1
    BY <2>1 DEF Running, AccountFrame
  <2>4. /\ DOMAIN files = DOMAIN run_sizes \cup {writing}
        /\ \A f \in DOMAIN run_sizes : files[f].bytes <= run_sizes[f]
        /\ files[writing].bytes <= accounted /\ live_bytes = SumOf(run_sizes) + accounted
    BY <2>3 DEF AccountFrame
  <2>5. /\ DOMAIN files' = DOMAIN files /\ files'[writing].bytes = files[writing].bytes + r
        /\ \A f \in DOMAIN run_sizes : files'[f] = files[f]
    BY <1>1, <2>1, <2>3, <2>4 DEF File
  <2>6. files'[writing].bytes <= accounted' /\ live_bytes' = SumOf(run_sizes) + accounted'
    BY <1>0, <2>1, <2>2, <2>4, <2>5
  <2>7. SumOf(run_sizes)' = SumOf(run_sizes)
    BY <2>1
  <2> QED
    BY <1>1, <2>1, <2>3, <2>4, <2>5, <2>6, <2>7 DEF AccountFrame
<1>4. CASE FinishRun
  <2>1. /\ pc = "write" /\ pc' \in {"fill", "delete"} /\ accounted' = 0 /\ writing' = 0
        /\ files' = [files EXCEPT ![writing] = File(@.data, digest, @.bytes)]
        /\ run_sizes' = With(run_sizes, writing, accounted) /\ runs_created' = runs_created + 1
        /\ live_bytes' = live_bytes
    BY <1>4 DEF FinishRun, bytes
  <2>3. Running /\ writing # 0 /\ writing = runs_created + 1
    BY <2>1 DEF Running, AccountFrame
  <2>4. /\ DOMAIN files = DOMAIN run_sizes \cup {writing}
        /\ \A f \in DOMAIN run_sizes : files[f].bytes <= run_sizes[f]
        /\ files[writing].bytes <= accounted /\ live_bytes = SumOf(run_sizes) + accounted
    BY <2>3 DEF AccountFrame
  <2>5. /\ DOMAIN files' = DOMAIN files /\ files'[writing].bytes = files[writing].bytes
        /\ \A f \in DOMAIN run_sizes : files'[f] = files[f]
    BY <1>1, <2>1, <2>3, <2>4 DEF File
  <2>6. /\ DOMAIN run_sizes' = DOMAIN files /\ run_sizes'[writing] = accounted
        /\ \A f \in DOMAIN run_sizes : run_sizes'[f] = run_sizes[f]
    BY <1>1, <2>1, <2>3, <2>4 DEF With
  <2>7. SumOf(run_sizes') = SumOf(run_sizes) + accounted /\ IsFiniteSet(DOMAIN run_sizes')
    BY <1>0, <1>1, <2>1, <2>3, SumWith
  <2>8. \A f \in DOMAIN run_sizes' : f \in 1..runs_created' /\ files'[f].bytes <= run_sizes'[f]
    BY <1>0, <1>1, <2>1, <2>3, <2>4, <2>5, <2>6
  <2>9. live_bytes' = SumOf(run_sizes') + accounted'
    BY <1>0, <2>1, <2>4, <2>7
  <2> QED
    BY <1>1, <2>1, <2>4, <2>5, <2>6, <2>7, <2>8, <2>9 DEF AccountFrame
<1>5. CASE DeleteInput
  <2> DEFINE run == group[1]
  <2>1. /\ pc = "delete" /\ pc' \in {"pass", "delete"} /\ UNCHANGED <<accounted, writing, runs_created>>
        /\ \/ files' = Without(files, run) /\ ReleaseRun(run)
           \/ UNCHANGED <<files, run_sizes, live_bytes>>
    BY <1>5 DEF DeleteInput, KeepRun, write, counters
  <2> HIDE DEF run
  <2>2. writing = 0 /\ Running /\ Running'
    BY <2>1 DEF Inv, PlaceFrame, Running
  <2>3. accounted = 0 /\ DOMAIN files = DOMAIN run_sizes /\ live_bytes = SumOf(run_sizes)
        /\ \A f \in DOMAIN run_sizes : files[f].bytes <= run_sizes[f]
    BY <1>0, <2>2 DEF AccountFrame
  <2>4. CASE UNCHANGED <<files, run_sizes, live_bytes>>
    BY <2>1, <2>2, <2>4, AccountSame
  <2>5. CASE files' = Without(files, run) /\ ReleaseRun(run)
    <3>1. /\ DOMAIN files' = DOMAIN run_sizes \ {run} /\ DOMAIN run_sizes' = DOMAIN run_sizes \ {run}
          /\ \A f \in DOMAIN run_sizes' : files'[f] = files[f] /\ run_sizes'[f] = run_sizes[f]
          /\ run_sizes' = Without(run_sizes, run)
          /\ live_bytes' = Larger(0, live_bytes - RunSize(run))
      BY <2>3, <2>5 DEF Without, ReleaseRun
    <3>2. DOMAIN run_sizes' \in SUBSET DOMAIN run_sizes
      BY <3>1
    <3>3. IsFiniteSet(DOMAIN run_sizes') /\ IsFiniteSet(DOMAIN files')
      BY <1>1, <3>1, <3>2, FS_Subset
    <3>4. live_bytes' = SumOf(run_sizes')
      <4>1. SumOf(run_sizes') \in Nat
        BY <1>0, <3>1, <3>2, <3>3, SumNatural
      <4>2. CASE run \in DOMAIN run_sizes
        <5>1. SumOf(run_sizes) = SumOf(run_sizes') + run_sizes[run] /\ RunSize(run) = run_sizes[run]
          BY <1>0, <1>1, <3>1, <4>2, SumWithout DEF RunSize
        <5> QED
          BY <1>0, <2>3, <3>1, <4>1, <4>2, <5>1 DEF Larger
      <4>3. CASE run \notin DOMAIN run_sizes
        <5>1. DOMAIN run_sizes' = DOMAIN run_sizes /\ RunSize(run) = 0
          BY <3>1, <4>3 DEF RunSize
        <5>2. SumOf(run_sizes') = Total(run_sizes)[DOMAIN run_sizes']
          BY <1>0, <1>1, <3>1, <3>2, TotalAgrees
        <5>3. SumOf(run_sizes) = Total(run_sizes)[DOMAIN run_sizes]
          BY <1>0, <1>1, TotalSteps
        <5> QED
          BY <1>0, <2>3, <3>1, <5>1, <5>2, <5>3 DEF Larger
      <4> QED
        BY <4>2, <4>3
    <3>5. SumOf(run_sizes)' = SumOf(run_sizes') /\ SumOf(run_sizes') \in Nat
      BY <1>0, <3>1, <3>2, <3>3, SumNatural
    <3>6. live_bytes' = SumOf(run_sizes') + accounted'
      BY <2>1, <2>3, <3>4, <3>5
    <3> QED
      BY <1>1, <2>1, <2>2, <2>3, <3>1, <3>2, <3>3, <3>6 DEF AccountFrame
  <2> QED
    BY <2>1, <2>4, <2>5
<1>6. CASE Damage
  <2>1. PICK run \in DOMAIN run_sizes, e \in Edges :
          LET data == files[run].data
          IN  /\ data # <<>>
              /\ \/ \E i \in DOMAIN data :
                      /\ files' = [files EXCEPT ![run] = File([data EXCEPT ![i] = e], @.head, @.bytes)]
                 \/ files' = [files EXCEPT ![run] =
                                File(SubSeq(data, 1, Len(data) - 1), @.head,
                                     @.bytes - RecordBytes[data[Len(data)]])]
    BY <1>6 DEF Damage
  <2>2. /\ pc' = pc /\ pc \notin {"finally", "end", "exit"}
        /\ UNCHANGED <<run_sizes, live_bytes, runs_created, writing, accounted>>
    BY <1>6 DEF Damage, write, bytes, counters
  <2>3. pc # "new" /\ Running
    BY <2>1, <2>2 DEF AccountFrame, Running
  <2>4. /\ DOMAIN files = DOMAIN run_sizes \cup (IF writing = 0 THEN {} ELSE {writing})
        /\ \A f \in DOMAIN run_sizes : files[f].bytes <= run_sizes[f]
        /\ writing # 0 => files[writing].bytes <= accounted /\ writing = runs_created + 1
        /\ live_bytes = SumOf(run_sizes) + accounted
    BY <2>3 DEF AccountFrame
  <2>5. files[run] \in FileRecord /\ run \in DOMAIN files
    BY <2>1, <2>4 DEF Inv, TypeOK, FilesType
  <2>6. DOMAIN files' = DOMAIN files /\ (\A f \in DOMAIN files : f # run => files'[f] = files[f])
        /\ files'[run].bytes <= files[run].bytes /\ files'[run].bytes \in Int
    <3> DEFINE data == files[run].data
    <3>0. data \in Seq(Edges) /\ data # <<>> /\ files[run].bytes \in Int
      BY <2>1, <2>5 DEF FileRecord
    <3>a. RecordBytes[data[Len(data)]] \in Nat
      <4>1. data[Len(data)] \in Edges
        BY <3>0
      <4> QED
        BY <4>1, SpillAssumption
    <3>1. CASE \E i \in DOMAIN data :
                 files' = [files EXCEPT ![run] = File([data EXCEPT ![i] = e], @.head, @.bytes)]
      BY <2>5, <3>0, <3>1 DEF File
    <3>2. CASE files' = [files EXCEPT ![run] = File(SubSeq(data, 1, Len(data) - 1), @.head,
                                                    @.bytes - RecordBytes[data[Len(data)]])]
      <4> HIDE DEF data
      <4>1. DOMAIN files' = DOMAIN files /\ (\A f \in DOMAIN files : f # run => files'[f] = files[f])
            /\ files'[run].bytes = files[run].bytes - RecordBytes[data[Len(data)]]
        BY <2>5, <3>2 DEF File
      <4> QED
        BY <3>0, <3>a, <4>1
    <3> QED
      BY <2>1, <3>1, <3>2
  <2>7. \A f \in DOMAIN run_sizes : files'[f].bytes <= run_sizes[f]
    BY <1>0, <2>1, <2>4, <2>6
  <2>8. run # runs_created + 1
    BY <1>1
  <2>9. writing # 0 => files'[writing] = files[writing]
    BY <2>4, <2>6, <2>8
  <2>10. SumOf(run_sizes)' = SumOf(run_sizes)
    BY <2>2
  <2> QED
    BY <1>1, <2>2, <2>3, <2>4, <2>6, <2>7, <2>9, <2>10 DEF AccountFrame
<1> QED
  BY <1>2, <1>3, <1>4, <1>5, <1>6

\* cleanup leaves some of the files, or none.
LEMMA RemovedFiles ==
  ASSUME RemoveTree
  PROVE  run_sizes' = NoRuns /\ \E T \in SUBSET DOMAIN files : files' = [x \in T |-> files[x]]
<1>1. files' = NoFiles => files' = [x \in {} |-> files[x]]
  BY DEF NoFiles
<1> QED
  BY <1>1 DEF RemoveTree

\* The first request creates the directory, or fails before there is a file.
LEMMA StartStep == ASSUME DiskInv, Start PROVE AccountFrame' /\ (~Running' => Budgeted')
<1>0. Inv /\ AccountFrame /\ pc = "new"
  BY DEF DiskInv, Start
<1>1. /\ UNCHANGED <<files, run_sizes, live_bytes, runs_created, writing, accounted>>
      /\ pc' \in {"finally", "fill", "end"}
  BY DEF Start, write, counters
<1>2. /\ writing = 0 /\ accounted = 0 /\ DOMAIN files = {} /\ DOMAIN run_sizes = {} /\ live_bytes = 0
      /\ IsFiniteSet(DOMAIN run_sizes)
  BY <1>0 DEF Inv, PlaceFrame, AccountFrame
<1>3. SumOf(run_sizes) = 0
  BY <1>2, SumNatural
<1>4. SumOf(run_sizes)' = SumOf(run_sizes)
  BY <1>1
<1>5. AccountFrame'
  BY <1>0, <1>1, <1>2, <1>3, <1>4 DEF AccountFrame
<1>6. Budgeted'
  BY <1>0, <1>1, SameFiles DEF DiskInv, Running
<1> QED
  BY <1>5, <1>6

\* Every step keeps the account, and what a stopped sort leaves is budgeted.
LEMMA DiskStep == ASSUME DiskInv, [Next]_vars PROVE AccountFrame' /\ (~Running' => Budgeted')
<1>0. Inv /\ AccountFrame /\ Budgeted /\ IsFiniteSet(DOMAIN files)
  BY RunningBudgeted DEF DiskInv, AccountFrame
<1>1. CASE Start
  BY <1>1, StartStep
<1>2. CASE CreateRun \/ WriteRecord \/ FinishRun \/ DeleteInput \/ Damage
  <2>1. AccountFrame'
    BY <1>0, <1>2, FileStep
  <2>2. Running'
    <3>1. CASE CreateRun \/ WriteRecord \/ FinishRun \/ DeleteInput
      BY <3>1 DEF CreateRun, WriteRecord, FinishRun, DeleteInput, Running
    <3>2. CASE Damage
      <4>1. DOMAIN run_sizes # {} /\ pc' = pc /\ pc \notin {"finally", "end", "exit"}
        BY <3>2 DEF Damage
      <4> QED
        BY <1>0, <4>1 DEF AccountFrame, Running
    <3> QED
      BY <1>2, <3>1, <3>2
  <2> QED
    BY <2>1, <2>2
<1>3. CASE \/ ReadFails \/ ReadCancelled \/ WriteFails \/ WriteCancelled \/ OpenFails
           \/ SuccessorFails \/ DrainCancelled \/ (pc = "yield" /\ Close)
  <2>1. RaiseResource \/ RaiseCancelled \/ (Raise("closed") /\ UNCHANGED disk)
    BY <1>3 DEF ReadFails, ReadCancelled, WriteFails, WriteCancelled, OpenFails, SuccessorFails,
                DrainCancelled, Close
  <2>2. /\ AccountFrame'
        /\ \/ files' = files
           \/ \E T \in SUBSET DOMAIN files : files' = [x \in T |-> files[x]]
    BY <1>0, <2>1, RaisedFiles
  <2> QED
    BY <1>0, <2>2, SameFiles, FewerFiles
<1>4. CASE CreateFails
  <2>1. /\ pc = "create" /\ pc' = "finally" /\ writing' = 0 /\ accounted' = 0
        /\ UNCHANGED <<runs_created, run_sizes>>
        /\ files' = files \/ files' = With(files, runs_created + 1, EmptyFile)
    BY <1>4 DEF CreateFails, Raise, counters
  <2>2. CASE files' = files
    BY <1>0, <2>1, <2>2, AccountStopped, SameFiles
  <2>3. CASE files' = With(files, runs_created + 1, EmptyFile)
    <3>1. writing = 0 /\ Running
      BY <1>0, <2>1 DEF Inv, PlaceFrame, Running
    <3>2. runs_created + 1 \notin DOMAIN files
      <4>1. DOMAIN files = DOMAIN run_sizes /\ runs_created \in Nat
        BY <1>0, <3>1, AccountTypes DEF AccountFrame
      <4> QED
        BY <1>0, <4>1 DEF AccountFrame
    <3>3. /\ DOMAIN files' = DOMAIN files \cup {runs_created + 1}
          /\ files'[runs_created + 1].bytes = 0
          /\ \A f \in DOMAIN files : files'[f] = files[f]
      BY <2>3, <3>2 DEF With, EmptyFile, File
    <3>4. IsFiniteSet(DOMAIN files')
      BY <1>0, <3>3, FS_AddElement
    <3>5. AccountFrame'
      BY <1>0, <2>1, <3>4, AccountStopped
    <3>6. PICK a \in [DOMAIN files -> Nat] : /\ \A f \in DOMAIN files : files[f].bytes <= a[f]
                                             /\ Within(SumOf(a), MaxTemporaryBytes)
      BY <1>0 DEF Budgeted
    <3> DEFINE b == With(a, runs_created + 1, 0)
    <3>7. DOMAIN a = DOMAIN files /\ \A x \in DOMAIN a : a[x] \in Int
      BY <3>6
    <3>8. SumOf(b) = SumOf(a) + 0 /\ SumOf(a) \in Int
      BY <1>0, <3>2, <3>7, SumWith, TotalSteps
    <3>9. /\ b = [x \in DOMAIN files' |-> b[x]] /\ b[runs_created + 1] = 0
          /\ \A x \in DOMAIN files : b[x] = a[x]
      BY <3>2, <3>3, <3>7 DEF With
    <3> HIDE DEF b
    <3>10. \A f \in DOMAIN files' : b[f] \in Nat /\ files'[f].bytes <= b[f]
      BY <3>3, <3>6, <3>9
    <3>11. b \in [DOMAIN files' -> Nat] /\ Within(SumOf(b), MaxTemporaryBytes)
      BY <3>6, <3>8, <3>9, <3>10
    <3> QED
      BY <3>5, <3>10, <3>11 DEF Budgeted
  <2> QED
    BY <2>1, <2>2, <2>3
<1>5. CASE \/ ReadEdge \/ SourceExhausted \/ SkipRecord \/ OpenReader \/ Successor
           \/ StartPass \/ NextGroup \/ EndPass \/ StartDrain \/ Deliver \/ Complete \/ Resume
           \/ Collect \/ CancelToken \/ UNCHANGED vars \/ (pc = "new" /\ Close)
  <2>1. UNCHANGED <<files, run_sizes, live_bytes, runs_created, writing, accounted>>
    <3>1. CASE ReadEdge \/ SourceExhausted \/ SkipRecord \/ OpenReader \/ Successor
      BY <3>1 DEF ReadEdge, SourceExhausted, SkipRecord, OpenReader, Successor, disk, bytes,
                  counters, write
    <3>2. CASE StartPass \/ NextGroup \/ EndPass \/ StartDrain
      BY <3>2 DEF StartPass, NextGroup, EndPass, StartDrain, disk, bytes, counters, write
    <3>3. CASE Deliver \/ Complete \/ Resume \/ Collect \/ CancelToken
      BY <3>3 DEF Deliver, Complete, Resume, Collect, CancelToken, disk, bytes, counters, write
    <3>4. CASE UNCHANGED vars \/ (pc = "new" /\ Close)
      BY <3>4 DEF Close, vars, disk, bytes, counters, write
    <3> QED
      BY <1>5, <3>1, <3>2, <3>3, <3>4
  <2>2. (Running' => Running) /\ (pc' = "new" => pc = "new") /\ (pc' = "write" => writing # 0)
    <3>1. CASE ReadEdge \/ SourceExhausted \/ SkipRecord \/ Successor \/ OpenReader
      BY <1>0, <3>1 DEF ReadEdge, SourceExhausted, WriteSortedRun, SkipRecord, Successor,
                        OpenReader, Running, AccountFrame
    <3>2. CASE StartPass \/ NextGroup \/ EndPass \/ StartDrain
      BY <3>2 DEF StartPass, NextGroup, EndPass, StartDrain, Running
    <3>3. CASE Deliver \/ Complete \/ Resume \/ Collect \/ CancelToken
      BY <1>0, <3>3 DEF Deliver, Complete, Resume, Collect, CancelToken, Running, AccountFrame
    <3>4. CASE UNCHANGED vars \/ (pc = "new" /\ Close)
      BY <1>0, <3>4 DEF Close, vars, Running, AccountFrame
    <3> QED
      BY <1>5, <3>1, <3>2, <3>3, <3>4
  <2>3. AccountFrame'
    BY <1>0, <2>1, <2>2, AccountSame
  <2> QED
    BY <1>0, <2>1, <2>3, SameFiles
<1>6. CASE Cleanup \/ AtExit
  <2>1. /\ pc \in {"finally", "yield", "end"} /\ pc' \in {"end", "exit"}
        /\ RemoveTree \/ UNCHANGED <<files, run_sizes>>
        /\ UNCHANGED <<runs_created, writing, accounted>>
    BY <1>6 DEF Cleanup, AtExit, write, counters
  <2>2. writing = 0 /\ accounted = 0
    BY <1>0, <2>1 DEF Inv, PlaceFrame, AccountFrame
  <2>3. /\ run_sizes' = run_sizes \/ run_sizes' = NoRuns
        /\ files' = files \/ \E T \in SUBSET DOMAIN files : files' = [x \in T |-> files[x]]
    BY <2>1, RemovedFiles
  <2>4. IsFiniteSet(DOMAIN files')
    <3>1. DOMAIN files' \in SUBSET DOMAIN files
      BY <2>3
    <3> QED
      BY <1>0, <3>1, FS_Subset
  <2>5. AccountFrame'
    BY <1>0, <2>1, <2>2, <2>3, <2>4, AccountStopped
  <2> QED
    BY <1>0, <2>3, <2>5, SameFiles, FewerFiles
<1>7. Close => pc = "yield" \/ pc = "new"
  BY DEF Close
<1> QED
  BY <1>1, <1>2, <1>3, <1>4, <1>5, <1>6, <1>7 DEF Next, Generator, Environment, Exited

\* The account is in order before the first request.
LEMMA DiskInitially == Init => DiskInv
<1> SUFFICES ASSUME Init PROVE DiskInv
  OBVIOUS
<1>1. Inv
  BY Initially
<1>2. /\ DOMAIN files = {} /\ DOMAIN run_sizes = {} /\ writing = 0 /\ accounted = 0
      /\ live_bytes = 0 /\ pc = "new"
  BY DEF Init, NoFiles, NoRuns
<1>3. IsFiniteSet({})
  BY FS_EmptySet
<1>4. AccountFrame
  BY <1>2, <1>3 DEF AccountFrame, Running
<1>5. Budgeted
  <2> DEFINE a == [f \in {} |-> 0]
  <2>1. a \in [{} -> Nat] /\ DOMAIN a = {} /\ \A x \in DOMAIN a : a[x] \in Nat
    OBVIOUS
  <2> HIDE DEF a
  <2>2. SumOf(a) = 0
    BY <1>3, <2>1, SumNatural
  <2>3. Within(SumOf(a), MaxTemporaryBytes)
    BY <2>2, SpillAssumption DEF Within
  <2> QED
    BY <1>2, <2>1, <2>3 DEF Budgeted
<1> QED
  BY <1>1, <1>4, <1>5 DEF DiskInv

\* streaming.py, _SpillWorkspace._grow: the bytes really on disk stay within
\* max_temporary_bytes in every state, for every limit, record size, fan-in and input, and
\* whatever fails, is damaged or is cancelled.
THEOREM DiskLimit == Spec => []DiskWithinLimit
<1>1. DiskInv /\ [Next]_vars => DiskInv'
  <2> SUFFICES ASSUME DiskInv, [Next]_vars PROVE DiskInv'
    OBVIOUS
  <2>1. Inv'
    BY Inductive DEF DiskInv
  <2> QED
    BY <2>1, DiskStep DEF DiskInv
<1>2. DiskInv => DiskWithinLimit
  <2> SUFFICES ASSUME DiskInv PROVE DiskWithinLimit
    OBVIOUS
  <2>1. Inv /\ AccountFrame /\ Budgeted /\ IsFiniteSet(DOMAIN files)
    BY RunningBudgeted DEF DiskInv, AccountFrame
  <2>2. PICK a \in [DOMAIN files -> Nat] : /\ \A f \in DOMAIN files : files[f].bytes <= a[f]
                                           /\ Within(SumOf(a), MaxTemporaryBytes)
    BY <2>1 DEF Budgeted
  <2> DEFINE size == [f \in DOMAIN files |-> files[f].bytes]
  <2>3. /\ DOMAIN size = DOMAIN files /\ DOMAIN a = DOMAIN size
        /\ \A x \in DOMAIN size : size[x] \in Int /\ a[x] \in Int /\ size[x] <= a[x]
    BY <2>1, <2>2, AccountTypes
  <2>4. DiskBytes = SumOf(size)
    BY DEF DiskBytes
  <2> HIDE DEF size
  <2>5. SumOf(size) <= SumOf(a) /\ SumOf(size) \in Int /\ SumOf(a) \in Int
    BY <2>1, <2>3, SumMonotone, TotalSteps
  <2> QED
    BY <2>2, <2>4, <2>5, SpillAssumption DEF DiskWithinLimit, Within
<1> QED
  BY <1>1, <1>2, DiskInitially, PTL DEF Spec

-----------------------------------------------------------------------------
(* The number of merge passes                                              *)

IsCapacity(f, k) == f = [i \in 0..k |-> IF i = 0 THEN BufferEdges ELSE FanIn * f[i - 1]]

LEMMA CapacityExists ==
  ASSUME NEW k \in Nat
  PROVE  \E f : IsCapacity(f, k)
<1> DEFINE Bad == { n \in Nat : ~ \E f : IsCapacity(f, n) }
<1>1. SUFFICES ASSUME Bad # {} PROVE FALSE
  OBVIOUS
<1>2. PICK n \in Bad : \A m \in Bad : n <= m
  <2>1. Bad \in SUBSET Nat
    OBVIOUS
  <2> HIDE DEF Bad
  <2> QED
    BY <1>1, <2>1, NatMinimum
<1>3. n # 0
  <2>1. IsCapacity([i \in 0..0 |-> BufferEdges], 0)
    BY DEF IsCapacity
  <2> QED
    BY <2>1
<1>4. n \in Nat /\ n - 1 \in Nat /\ n - 1 \notin Bad
  BY <1>2, <1>3
<1>5. PICK f : IsCapacity(f, n - 1)
  BY <1>4
<1> DEFINE g == [i \in 0..n |-> IF i = n THEN FanIn * f[n - 1] ELSE f[i]]
<1>6. ASSUME NEW i \in 0..n PROVE g[i] = IF i = 0 THEN BufferEdges ELSE FanIn * g[i - 1]
  <2>1. CASE i = n
    BY <1>3, <1>4, <2>1
  <2>2. CASE i # n
    <3>1. i \in 0..(n - 1) /\ (i # 0 => i - 1 \in 0..n /\ i - 1 # n)
      BY <1>4, <2>2
    <3>2. f[i] = IF i = 0 THEN BufferEdges ELSE FanIn * f[i - 1]
      BY <1>5, <3>1 DEF IsCapacity
    <3> QED
      BY <2>2, <3>1, <3>2
  <2> QED
    BY <2>1, <2>2
<1>7. g = [i \in 0..n |-> IF i = 0 THEN BufferEdges ELSE FanIn * g[i - 1]]
  <2>1. DOMAIN g = 0..n /\ g = [i \in 0..n |-> g[i]]
    OBVIOUS
  <2> HIDE DEF g
  <2> QED
    BY <1>6, <2>1
<1>8. IsCapacity(g, n)
  BY <1>7 DEF IsCapacity
<1> QED
  BY <1>2, <1>8

\* Two tables of capacities agree as far as both go.
LEMMA CapacityAgrees ==
  ASSUME NEW f, NEW g, NEW k \in Nat, NEW m \in Nat, k <= m, IsCapacity(f, k), IsCapacity(g, m)
  PROVE  \A i \in 0..k : f[i] = g[i] /\ f[i] \in Nat \ {0}
<1> DEFINE Bad == { i \in 0..k : ~(f[i] = g[i] /\ f[i] \in Nat \ {0}) }
<1>1. SUFFICES ASSUME Bad # {} PROVE FALSE
  OBVIOUS
<1>2. PICK i \in Bad : \A j \in Bad : i <= j
  <2>1. Bad \in SUBSET Nat
    OBVIOUS
  <2> HIDE DEF Bad
  <2> QED
    BY <1>1, <2>1, NatMinimum
<1>3. i \in 0..k /\ i \in 0..m
  BY <1>2
<1>4. /\ f[i] = IF i = 0 THEN BufferEdges ELSE FanIn * f[i - 1]
      /\ g[i] = IF i = 0 THEN BufferEdges ELSE FanIn * g[i - 1]
  BY <1>3 DEF IsCapacity
<1>5. CASE i = 0
  BY <1>2, <1>4, <1>5, SpillAssumption
<1>6. CASE i # 0
  <2>1. i - 1 \in 0..k /\ i - 1 \notin Bad
    BY <1>2, <1>3, <1>6
  <2>2. f[i - 1] = g[i - 1] /\ f[i - 1] \in Nat \ {0}
    BY <2>1
  <2>3. FanIn * f[i - 1] \in Nat \ {0}
    BY <2>2, SpillAssumption
  <2> QED
    BY <1>2, <1>4, <1>6, <2>2, <2>3
<1> QED
  BY <1>5, <1>6

LEMMA CapacityChosen ==
  ASSUME NEW k \in Nat
  PROVE  \E f : IsCapacity(f, k) /\ RunCapacity(k) = f[k]
<1> DEFINE c == CHOOSE f : IsCapacity(f, k)
<1>1. IsCapacity(c, k)
  BY CapacityExists
<1>2. RunCapacity(k) = c[k]
  BY DEF RunCapacity, IsCapacity
<1> QED
  BY <1>1, <1>2

\* Every pass multiplies what a run can hold by the fan-in.
LEMMA CapacityStep ==
  ASSUME NEW k \in Nat
  PROVE  /\ RunCapacity(0) = BufferEdges /\ RunCapacity(k) \in Nat \ {0}
         /\ RunCapacity(k + 1) = FanIn * RunCapacity(k)
<1>1. PICK f : IsCapacity(f, k) /\ RunCapacity(k) = f[k]
  BY CapacityChosen
<1>2. PICK g : IsCapacity(g, k + 1) /\ RunCapacity(k + 1) = g[k + 1]
  BY CapacityChosen
<1>3. PICK h : IsCapacity(h, 0) /\ RunCapacity(0) = h[0]
  BY CapacityChosen
<1>4. f[k] = g[k] /\ f[k] \in Nat \ {0}
  <2>1. k + 1 \in Nat /\ k <= k + 1 /\ k \in 0..k
    OBVIOUS
  <2> QED
    BY <1>1, <1>2, <2>1, CapacityAgrees
<1>5. g[k + 1] = FanIn * g[k]
  <2>1. k + 1 \in 0..(k + 1) /\ k + 1 # 0 /\ (k + 1) - 1 = k
    OBVIOUS
  <2> QED
    BY <1>2, <2>1 DEF IsCapacity
<1>6. h[0] = BufferEdges
  BY <1>3 DEF IsCapacity
<1> QED
  BY <1>1, <1>2, <1>3, <1>4, <1>5, <1>6

\* The fill loop with the runs it writes, a merge pass, and the final merge.
Filling == pc = "fill" \/ (pc \in {"create", "write"} /\ group = <<>>)

Passing ==
  \/ pc \in {"pass", "delete"} \/ (pc \in {"create", "write"} /\ group # <<>>)
  \/ (pc = "open" /\ writing # 0)

Draining == pc \in {"drain", "yield"} \/ (pc = "open" /\ writing = 0)

\* The run being written counts as made.
Making == IF pc \in {"create", "write", "open"} THEN 1 ELSE 0

\* As many runs of u edges as the input needs.
Needs(u, runs) == u * (runs - 1) < raw_count /\ raw_count <= u * runs

NewCount ==
  pc = "new" => /\ raw_count = 0 /\ buffer = <<>> /\ current = <<>> /\ following = <<>>
                /\ group = <<>> /\ merge_passes = 0

\* Every run but the last takes a full buffer.
FillCount ==
  Filling =>
    /\ group = <<>> /\ following = <<>> /\ merge_passes = 0
    /\ \E runs \in Nat :
         /\ runs = Len(current) + Making
         /\ raw_count <= BufferEdges * runs + Len(buffer)
         /\ runs > 0 => BufferEdges * (runs - 1) < raw_count - Len(buffer)
         /\ raw_count < Len(input) \/ buffer # <<>> => raw_count = BufferEdges * runs + Len(buffer)
         /\ Len(buffer) < BufferEdges

\* Between two passes there are as many runs as the input needs.
ReduceCount ==
  pc = "reduce" =>
    /\ following = <<>> /\ current # <<>>
    /\ Needs(RunCapacity(merge_passes), Len(current))
    /\ merge_passes > 0 => Len(current) >= 2

\* In a pass every group but the last takes as many runs as the fan-in.
PassCount ==
  Passing =>
    /\ merge_passes > 0
    /\ \E runs \in Nat, made \in Nat :
         /\ runs > FanIn /\ Needs(RunCapacity(merge_passes - 1), runs)
         /\ made = Len(following) + Making
         /\ current # <<>> => runs = FanIn * made + Len(current)
         /\ current = <<>> => FanIn * (made - 1) < runs /\ runs <= FanIn * made

DrainCount ==
  Draining =>
    /\ raw_count <= RunCapacity(merge_passes + 1)
    /\ merge_passes > 0 => raw_count > RunCapacity(merge_passes)

PassInv == NewCount /\ FillCount /\ ReduceCount /\ PassCount /\ DrainCount

\* A step that goes on in the same phase.
LEMMA SamePhase ==
  ASSUME PassInv,
         input' = input, raw_count' = raw_count, buffer' = buffer, current' = current,
         following' = following, group' = group, merge_passes' = merge_passes,
         pc' = "new" => pc = "new", Filling' => Filling, pc' = "reduce" => pc = "reduce",
         Passing' => Passing, Draining' => Draining, Making' = Making
  PROVE  PassInv'
<1>1. NewCount'
  BY DEF PassInv, NewCount
<1>2. FillCount'
  BY DEF PassInv, FillCount
<1>3. ReduceCount'
  BY DEF PassInv, ReduceCount, Needs
<1>4. PassCount'
  BY DEF PassInv, PassCount, Needs
<1>5. DrainCount'
  BY DEF PassInv, DrainCount
<1> QED
  BY <1>1, <1>2, <1>3, <1>4, <1>5 DEF PassInv

\* A step that ends the iterator.
LEMMA PhasesOver ==
  ASSUME pc' \in {"finally", "end", "exit"}
  PROVE  PassInv'
BY DEF PassInv, NewCount, FillCount, ReduceCount, PassCount, DrainCount, Filling, Passing, Draining

\* The types the phases rest on.
LEMMA PhaseTypes ==
  ASSUME Inv
  PROVE  /\ raw_count \in Nat /\ Len(input) \in Nat /\ Len(buffer) \in Nat /\ (buffer = <<>> <=> Len(buffer) = 0)
         /\ Len(current) \in Nat /\ (current = <<>> <=> Len(current) = 0)
         /\ Len(following) \in Nat /\ (following = <<>> <=> Len(following) = 0)
         /\ (group = <<>> <=> Len(group) = 0) /\ Len(group) \in Nat
         /\ merge_passes \in Nat /\ writing \in Nat /\ runs_created \in Nat
         /\ current \in Seq(Nat) /\ following \in Seq(Nat) /\ group \in Seq(Nat) /\ buffer \in Seq(Edges)
         /\ input \in Seq(Edges)
<1>1. /\ current \in Seq(Nat) /\ following \in Seq(Nat) /\ group \in Seq(Nat) /\ buffer \in Seq(Edges)
      /\ input \in Seq(Edges)
  BY DEF Inv, TypeOK, CallType, RunsType
<1>2. raw_count \in Nat /\ merge_passes \in Nat /\ writing \in Nat /\ runs_created \in Nat
  BY DEF Inv, TypeOK, CallType, WriteType
<1> QED
  BY <1>1, <1>2, EmptySeq

LEMMA ReadPhase ==
  ASSUME Inv, PassInv, ReadEdge
  PROVE  PassInv'
<1> DEFINE filled == Append(buffer, input[raw_count + 1])
<1>1. /\ pc = "fill" /\ raw_count < Len(input) /\ raw_count' = raw_count + 1
      /\ input' = input /\ current' = current /\ following' = following /\ group' = group
      /\ merge_passes' = merge_passes /\ writing' = writing
      /\ \/ Len(filled) = BufferEdges /\ buffer' = <<>> /\ pc' = "create"
         \/ Len(filled) # BufferEdges /\ buffer' = filled /\ pc' = pc
  BY DEF ReadEdge, WriteSortedRun, quiet, result, counters
<1>2. Len(filled) = Len(buffer) + 1 /\ Len(buffer) \in Nat /\ raw_count \in Nat /\ Len(input) \in Nat
  <2>1. raw_count + 1 \in 1..Len(input) /\ input \in Seq(Edges) /\ buffer \in Seq(Edges)
    BY <1>1, PhaseTypes
  <2> QED
    BY <2>1, PhaseTypes
<1>3. PICK runs \in Nat :
         /\ runs = Len(current) /\ raw_count = BufferEdges * runs + Len(buffer) /\ Len(buffer) < BufferEdges
         /\ group = <<>> /\ following = <<>> /\ merge_passes = 0
  <2>1. FillCount /\ Filling /\ Making = 0 /\ Len(current) \in Nat
    BY <1>1, PhaseTypes DEF PassInv, Filling, Making
  <2> QED
    BY <1>1, <2>1 DEF FillCount
<1> HIDE DEF filled
<1>4. CASE Len(filled) = BufferEdges
  <2>1. pc' = "create" /\ buffer' = <<>> /\ Len(buffer') = 0 /\ Making' = 1
    BY <1>1, <1>4 DEF Making
  <2>2. runs + 1 = Len(current') + Making' /\ runs + 1 \in Nat
    BY <1>1, <1>3, <2>1
  <2>3. raw_count' = BufferEdges * runs + BufferEdges
    BY <1>1, <1>2, <1>3, <1>4, SpillAssumption
  <2>4. raw_count' = BufferEdges * (runs + 1) /\ BufferEdges * ((runs + 1) - 1) < raw_count'
    BY <2>3, SpillAssumption
  <2>5. FillCount'
    BY <1>1, <1>2, <1>3, <2>1, <2>2, <2>4, SpillAssumption DEF FillCount
  <2> QED
    BY <1>1, <1>3, <2>1, <2>5
       DEF PassInv, NewCount, ReduceCount, PassCount, DrainCount, Passing, Draining
<1>5. CASE Len(filled) # BufferEdges
  <2>1. pc' = "fill" /\ buffer' = filled /\ Making' = 0 /\ Len(buffer') = Len(buffer) + 1
    BY <1>1, <1>2, <1>5 DEF Making
  <2>2. runs = Len(current') + Making' /\ Len(buffer') < BufferEdges
    BY <1>1, <1>2, <1>3, <1>5, <2>1, SpillAssumption
  <2>3. raw_count' = BufferEdges * runs + Len(buffer')
    BY <1>1, <1>2, <1>3, <2>1, SpillAssumption
  <2>4. runs > 0 => BufferEdges * (runs - 1) < raw_count' - Len(buffer')
    <3>1. BufferEdges * (runs - 1) = BufferEdges * runs - BufferEdges /\ BufferEdges * runs \in Nat
      BY SpillAssumption
    <3> QED
      BY <1>2, <2>1, <2>3, <3>1, SpillAssumption
  <2>5. raw_count' <= BufferEdges * runs + Len(buffer')
    <3>1. BufferEdges * runs + Len(buffer') \in Nat
      BY <1>2, <2>1, SpillAssumption
    <3> QED
      BY <2>3, <3>1
  <2>6. group' = <<>> /\ following' = <<>> /\ merge_passes' = 0
    BY <1>1, <1>3
  <2>7. FillCount'
    BY <2>2, <2>3, <2>4, <2>5, <2>6 DEF FillCount
  <2> QED
    BY <1>1, <2>1, <2>7
       DEF PassInv, NewCount, ReduceCount, PassCount, DrainCount, Passing, Draining
<1> QED
  BY <1>4, <1>5

LEMMA SourcePhase ==
  ASSUME Inv, PassInv, SourceExhausted
  PROVE  PassInv'
<1>1. /\ pc = "fill" /\ raw_count = Len(input) /\ raw_count' = raw_count
      /\ input' = input /\ current' = current /\ following' = following /\ group' = group
      /\ merge_passes' = merge_passes /\ writing' = writing
  BY DEF SourceExhausted, quiet, counters
<1>2. Len(buffer) \in Nat /\ raw_count \in Nat /\ Len(input) \in Nat /\ Len(current) \in Nat
  BY PhaseTypes
<1>3. PICK runs \in Nat :
         /\ runs = Len(current) /\ Len(buffer) < BufferEdges
         /\ raw_count <= BufferEdges * runs + Len(buffer)
         /\ runs > 0 => BufferEdges * (runs - 1) < raw_count - Len(buffer)
         /\ buffer # <<>> => raw_count = BufferEdges * runs + Len(buffer)
         /\ group = <<>> /\ following = <<>> /\ merge_passes = 0
  <2>1. FillCount /\ Filling /\ Making = 0
    BY <1>1 DEF PassInv, Filling, Making
  <2> QED
    BY <1>2, <2>1 DEF FillCount
<1>4. CASE buffer # <<>> /\ buffer' = <<>> /\ pc' = "create"
  <2>1. Making' = 1 /\ Len(buffer') = 0 /\ Len(buffer) > 0
    BY <1>4, PhaseTypes DEF Making
  <2>2. runs + 1 = Len(current') + Making' /\ runs + 1 \in Nat
    BY <1>1, <1>3, <2>1
  <2>3. BufferEdges * (runs + 1) = BufferEdges * runs + BufferEdges /\ BufferEdges * runs \in Nat
        /\ (runs + 1) - 1 = runs
    BY SpillAssumption
  <2>4. raw_count' = BufferEdges * runs + Len(buffer)
    BY <1>1, <1>3, <1>4
  <2>5. raw_count' <= BufferEdges * (runs + 1) + Len(buffer')
    BY <1>2, <1>3, <2>1, <2>3, <2>4, SpillAssumption
  <2>6. BufferEdges * ((runs + 1) - 1) < raw_count' - Len(buffer')
    BY <1>2, <1>3, <2>1, <2>3, <2>4, SpillAssumption
  <2>7. ~(raw_count' < Len(input') \/ buffer' # <<>>) /\ Len(buffer') < BufferEdges
    BY <1>1, <1>2, <1>4, <2>1, SpillAssumption
  <2>8. group' = <<>> /\ following' = <<>> /\ merge_passes' = 0
    BY <1>1, <1>3
  <2>9. FillCount'
    BY <2>2, <2>5, <2>6, <2>7, <2>8 DEF FillCount
  <2> QED
    BY <1>4, <2>8, <2>9
       DEF PassInv, NewCount, ReduceCount, PassCount, DrainCount, Passing, Draining
<1>5. CASE buffer = <<>> /\ current # <<>> /\ pc' = "reduce"
  <2>1. Len(buffer) = 0 /\ Len(current) > 0
    BY <1>5, PhaseTypes
  <2>2. RunCapacity(0) = BufferEdges
    BY CapacityStep
  <2>3. Needs(BufferEdges, runs)
    <3>1. raw_count <= BufferEdges * runs
      <4>1. BufferEdges * runs \in Nat
        BY SpillAssumption
      <4> QED
        BY <1>3, <2>1, <4>1
    <3>2. BufferEdges * (runs - 1) < raw_count
      BY <1>2, <1>3, <2>1
    <3> QED
      BY <3>1, <3>2 DEF Needs
  <2>4. ReduceCount'
    BY <1>1, <1>3, <1>5, <2>2, <2>3 DEF ReduceCount, Needs
  <2> QED
    BY <1>5, <2>4
       DEF PassInv, NewCount, FillCount, PassCount, DrainCount, Filling, Passing, Draining
<1>6. CASE pc' = "finally"
  BY <1>6, PhasesOver
<1> QED
  BY <1>4, <1>5, <1>6 DEF SourceExhausted, WriteSortedRun

\* A run written from the buffer, or one merged from a group.
LEMMA FinishPhase ==
  ASSUME Inv, PassInv, FinishRun
  PROVE  PassInv'
<1>1. /\ pc = "write" /\ raw_count' = raw_count /\ buffer' = buffer
      /\ input' = input /\ group' = group /\ merge_passes' = merge_passes
      /\ Making = 1
      /\ \/ group = <<>> /\ current' = Append(current, writing) /\ pc' = "fill" /\ following' = following
         \/ group # <<>> /\ following' = Append(following, writing) /\ pc' = "delete" /\ current' = current
  BY DEF FinishRun, quiet, Making
<1>2. /\ Len(buffer) \in Nat /\ raw_count \in Nat /\ Len(input) \in Nat /\ Len(current) \in Nat
      /\ Len(following) \in Nat /\ current \in Seq(Nat) /\ following \in Seq(Nat) /\ writing \in Nat
  BY PhaseTypes
<1>3. CASE group = <<>>
  <2>1. Len(current') = Len(current) + 1 /\ pc' = "fill" /\ following' = following /\ Making' = 0
    BY <1>1, <1>2, <1>3 DEF Making
  <2>2. Filling
    BY <1>1, <1>3 DEF Filling
  <2>3. FillCount'
    <3>1. Len(current') + Making' = Len(current) + Making
      BY <1>1, <1>2, <2>1
    <3> QED
      BY <1>1, <2>1, <2>2, <3>1 DEF PassInv, FillCount
  <2> QED
    BY <1>1, <2>1, <2>3 DEF PassInv, NewCount, ReduceCount, PassCount, DrainCount, Passing, Draining
<1>4. CASE group # <<>>
  <2>1. Len(following') = Len(following) + 1 /\ pc' = "delete" /\ current' = current /\ Making' = 0
    BY <1>1, <1>2, <1>4 DEF Making
  <2>2. Passing
    BY <1>1, <1>4 DEF Passing
  <2>3. PassCount'
    <3>1. Len(following') + Making' = Len(following) + Making
      BY <1>1, <1>2, <2>1
    <3> QED
      BY <1>1, <2>1, <2>2, <3>1 DEF PassInv, PassCount, Needs
  <2> QED
    BY <1>1, <2>1, <2>3 DEF PassInv, NewCount, ReduceCount, FillCount, DrainCount, Filling, Draining
<1> QED
  BY <1>3, <1>4

\* A pass starts with more runs than one merge can read.
LEMMA StartPassPhase ==
  ASSUME Inv, PassInv, StartPass
  PROVE  PassInv'
<1>1. /\ pc = "reduce" /\ pc' = "pass" /\ merge_passes' = merge_passes + 1 /\ Len(current) > FanIn
      /\ raw_count' = raw_count /\ current' = current /\ following' = following
  BY DEF StartPass, NeedsPass, fill
<1>2. following = <<>> /\ Needs(RunCapacity(merge_passes), Len(current))
  BY <1>1 DEF PassInv, ReduceCount
<1>3. merge_passes \in Nat /\ Len(current) \in Nat /\ current # <<>>
  BY <1>1, PhaseTypes, SpillAssumption
<1>4. merge_passes' > 0 /\ merge_passes' - 1 = merge_passes
  BY <1>1, <1>3
<1>5. PICK runs \in Nat : runs = Len(current)
  BY <1>3
<1>6. PICK passes \in Nat : passes = merge_passes
  BY <1>3
<1>7. Needs(RunCapacity(merge_passes - 1), runs)'
  BY <1>1, <1>2, <1>4, <1>5 DEF Needs
<1>8. 0 = Len(following') + Making'
  BY <1>1, <1>2 DEF Making
<1>9. current' # <<>> /\ Len(current') = runs /\ runs = FanIn * 0 + Len(current') /\ runs > FanIn
  BY <1>1, <1>3, <1>5, SpillAssumption
<1>10. PassCount'
  <2>1. 0 \in Nat
    OBVIOUS
  <2> QED
    BY <1>4, <1>7, <1>8, <1>9, <2>1 DEF PassCount
<1>11. ~Filling' /\ ~Draining' /\ pc' # "new" /\ pc' # "reduce"
  BY <1>1 DEF Filling, Draining
<1> QED
  BY <1>10, <1>11 DEF PassInv, NewCount, ReduceCount, FillCount, DrainCount

\* One group leaves the runs to come and adds one run to those made.
LEMMA GroupArithmetic ==
  ASSUME NEW runs \in Nat, NEW made \in Nat, NEW left \in Nat, left > 0, runs = FanIn * made + left
  PROVE  /\ left > FanIn => runs = FanIn * (made + 1) + (left - FanIn)
         /\ left <= FanIn => FanIn * ((made + 1) - 1) < runs /\ runs <= FanIn * (made + 1)
<1>1. FanIn * (made + 1) = FanIn * made + FanIn /\ FanIn * made \in Nat /\ (made + 1) - 1 = made
      /\ FanIn \in Nat
  BY SpillAssumption
<1> QED
  BY <1>1

LEMMA NextGroupPhase ==
  ASSUME Inv, PassInv, NextGroup
  PROVE  PassInv'
<1>1. /\ pc = "pass" /\ current # <<>> /\ merge_passes' = merge_passes /\ raw_count' = raw_count
      /\ current' = SubSeq(current, GroupSize + 1, Len(current))
      /\ \/ following' = Append(following, current[1]) /\ group' = group /\ pc' = "pass"
         \/ GroupSize # 1 /\ group' = SubSeq(current, 1, GroupSize) /\ pc' = "create"
            /\ following' = following
  BY DEF NextGroup, counters
<1>2. PICK left \in Nat : left = Len(current) /\ left > 0
  BY <1>1, PhaseTypes
<1>3. PICK size \in Nat : size = GroupSize /\ size > 0 /\ size <= left
                          /\ size = (IF left < FanIn THEN left ELSE FanIn)
  BY <1>2, SpillAssumption DEF GroupSize
<1>4. current \in Seq(Nat) /\ following \in Seq(Nat) /\ Len(following) \in Nat
  BY PhaseTypes
<1>5. Len(current') = left - size /\ (current' = <<>> <=> left = size)
  <2>1. current' = SubSeq(current, size + 1, left)
    BY <1>1, <1>2, <1>3
  <2>2. CASE left = size
    BY <1>2, <1>3, <1>4, <2>1, <2>2, SubSeqProperties
  <2>3. CASE left # size
    <3>1. size + 1 \in 1..(left + 1) /\ size + 1 <= left
      BY <1>3, <2>3
    <3>2. Len(SubSeq(current, size + 1, left)) = left - (size + 1) + 1
      BY <1>2, <1>4, <3>1, SubSeqProperties
    <3>3. Len(current') = left - size /\ left - size # 0
      BY <1>3, <2>1, <2>3, <3>2
    <3>4. current' # <<>>
      BY <3>3
    <3> QED
      BY <2>3, <3>3, <3>4
  <2> QED
    BY <2>2, <2>3
<1>6. PICK runs \in Nat, made \in Nat :
         /\ runs > FanIn /\ Needs(RunCapacity(merge_passes - 1), runs)
         /\ made = Len(following) + Making
         /\ runs = FanIn * made + left
  <2>1. PassCount /\ Passing
    BY <1>1 DEF PassInv, Passing
  <2> QED
    BY <1>1, <1>2, <2>1 DEF PassCount
<1>7. made = Len(following)
  BY <1>1, <1>4, <1>6 DEF Making
<1>8. made + 1 = Len(following') + Making'
  <2>1. CASE following' = Append(following, current[1]) /\ pc' = "pass"
    <3>1. current[1] \in Nat
      BY <1>2, <1>4
    <3>2. Len(following') = Len(following) + 1 /\ Making' = 0
      BY <1>4, <2>1, <3>1 DEF Making
    <3> QED
      BY <1>4, <1>7, <3>2
  <2>2. CASE following' = following /\ pc' = "create"
    BY <1>4, <1>7, <2>2 DEF Making
  <2> QED
    BY <1>1, <2>1, <2>2
<1>9. /\ left > FanIn => runs = FanIn * (made + 1) + (left - FanIn)
      /\ left <= FanIn => FanIn * ((made + 1) - 1) < runs /\ runs <= FanIn * (made + 1)
  BY <1>2, <1>6, GroupArithmetic
<1>10. /\ current' # <<>> => runs = FanIn * (made + 1) + Len(current')
       /\ current' = <<>> => FanIn * ((made + 1) - 1) < runs /\ runs <= FanIn * (made + 1)
  <2>1. FanIn \in Nat
    BY SpillAssumption
  <2>2. CASE left > FanIn
    <3>1. size = FanIn /\ left # size
      BY <1>3, <2>1, <2>2
    <3> QED
      BY <1>5, <1>9, <2>2, <3>1
  <2>3. CASE left <= FanIn
    <3>1. left = size
      BY <1>3, <2>1, <2>3
    <3> QED
      BY <1>5, <1>9, <2>3, <3>1
  <2> QED
    BY <2>1, <2>2, <2>3
<1>11. merge_passes' > 0
  BY <1>1 DEF PassInv, PassCount, Passing
<1>12. Needs(RunCapacity(merge_passes - 1), runs)'
  BY <1>1, <1>6 DEF Needs
<1>13. PassCount'
  <2>1. made + 1 \in Nat
    OBVIOUS
  <2> QED
    BY <1>6, <1>8, <1>10, <1>11, <1>12, <2>1 DEF PassCount
<1>14. pc' = "pass" \/ (pc' = "create" /\ group' # <<>>)
  <2>1. CASE pc' = "create" /\ group' = SubSeq(current, 1, GroupSize)
    <3>1. group' = SubSeq(current, 1, size)
      BY <1>3, <2>1
    <3>2. 1 \in Int /\ size \in Int /\ 1 <= size
      BY <1>3
    <3>3. Len(SubSeq(current, 1, size)) = size - 1 + 1
      BY <1>2, <1>3, <1>4, <3>2, SubSeqProperties
    <3>4. Len(group') # 0
      BY <1>3, <3>1, <3>3
    <3> QED
      BY <2>1, <3>4
  <2> QED
    BY <1>1, <2>1
<1>15. ~Filling' /\ ~Draining' /\ pc' # "new" /\ pc' # "reduce"
  BY <1>14 DEF Filling, Draining
<1> QED
  BY <1>13, <1>15 DEF PassInv, NewCount, ReduceCount, FillCount, DrainCount

LEMMA Times ==
  ASSUME NEW v \in Nat, NEW a \in Int, NEW b \in Int, a <= b
  PROVE  v * a <= v * b
<1>1. PICK d \in Nat : b = a + d
  <2>1. b - a \in Nat /\ b = a + (b - a)
    OBVIOUS
  <2> QED
    BY <2>1
<1>2. v * b = v * a + v * d /\ v * d \in Nat /\ v * a \in Int
  BY <1>1
<1> QED
  BY <1>2

\* What a pass makes of as many runs as needed is as many as needed.
LEMMA PassArithmetic ==
  ASSUME NEW v \in Nat, NEW runs \in Nat, NEW made \in Nat, raw_count \in Nat,
         Needs(v, runs), FanIn * (made - 1) < runs, runs <= FanIn * made, runs > FanIn
  PROVE  Needs(FanIn * v, made) /\ made >= 2
<1>1. FanIn \in Nat /\ FanIn * made \in Nat /\ FanIn * (made - 1) \in Int /\ v * runs \in Nat
      /\ v * (runs - 1) \in Int
  BY SpillAssumption
<1>2. v * runs <= v * (FanIn * made)
  BY <1>1, Times
<1>3. v * (FanIn * (made - 1)) <= v * (runs - 1)
  <2>1. FanIn * (made - 1) <= runs - 1 /\ runs - 1 \in Int
    BY <1>1
  <2> QED
    BY <1>1, <2>1, Times
<1>4. v * (FanIn * made) = (FanIn * v) * made /\ v * (FanIn * (made - 1)) = (FanIn * v) * (made - 1)
      /\ (FanIn * v) * made \in Nat /\ (FanIn * v) * (made - 1) \in Int
  BY <1>1
<1>5. v * (runs - 1) < raw_count /\ raw_count <= v * runs
  BY DEF Needs
<1>6. raw_count <= (FanIn * v) * made
  BY <1>1, <1>2, <1>4, <1>5
<1>7. (FanIn * v) * (made - 1) < raw_count
  BY <1>1, <1>3, <1>4, <1>5
<1>8. made >= 2
  <2>1. made = 0 => FanIn * made = 0
    BY <1>1
  <2>2. made = 1 => FanIn * made = FanIn
    BY <1>1
  <2> QED
    BY <1>1, <2>1, <2>2
<1> QED
  BY <1>6, <1>7, <1>8 DEF Needs

LEMMA EndPassPhase ==
  ASSUME Inv, PassInv, EndPass
  PROVE  PassInv'
<1>1. /\ pc = "pass" /\ current = <<>> /\ current' = following /\ following' = <<>> /\ pc' = "reduce"
      /\ merge_passes' = merge_passes /\ raw_count' = raw_count
  BY DEF EndPass, counters
<1>2. Passing /\ PassCount
  BY <1>1 DEF PassInv, Passing
<1>3. PICK made \in Nat : made = Len(following)
  BY PhaseTypes
<1>4. merge_passes > 0 /\ merge_passes \in Nat /\ merge_passes - 1 \in Nat
  BY <1>2, PhaseTypes DEF PassCount
<1>5. PICK runs \in Nat :
         /\ runs > FanIn /\ Needs(RunCapacity(merge_passes - 1), runs)
         /\ FanIn * (made - 1) < runs /\ runs <= FanIn * made
  BY <1>1, <1>2, <1>3 DEF PassCount, Making
<1>6. PICK before \in Nat : before = merge_passes - 1
  BY <1>4
<1>7. RunCapacity(merge_passes) = FanIn * RunCapacity(before) /\ RunCapacity(before) \in Nat
  <2>1. merge_passes = before + 1
    BY <1>4, <1>6
  <2> QED
    BY <2>1, CapacityStep
<1>8. Needs(FanIn * RunCapacity(before), made) /\ made >= 2
  <2>1. Needs(RunCapacity(before), runs)
    BY <1>5, <1>6
  <2> QED
    BY <1>5, <1>7, <2>1, PassArithmetic, PhaseTypes
<1>9. Needs(RunCapacity(merge_passes), made)
  BY <1>7, <1>8
<1>10. Needs(RunCapacity(merge_passes), made)'
  BY <1>1, <1>9 DEF Needs
<1>11. Len(current') = made /\ current' # <<>>
  BY <1>1, <1>3, <1>8
<1>12. ReduceCount'
  BY <1>1, <1>8, <1>10, <1>11 DEF ReduceCount
<1> QED
  BY <1>1, <1>12 DEF PassInv, NewCount, PassCount, FillCount, DrainCount, Filling, Passing, Draining

\* The runs left by the last pass fit one merge, and a pass less would have
\* left too many.
LEMMA StartDrainPhase ==
  ASSUME Inv, PassInv, StartDrain
  PROVE  PassInv'
<1>1. /\ pc = "reduce" /\ ~(Len(current) > FanIn) /\ pc' = "open" /\ merge_passes' = merge_passes
      /\ raw_count' = raw_count /\ writing' = writing
  BY DEF StartDrain, NeedsPass, counters, write
<1>2. writing = 0
  BY <1>1 DEF Inv, PlaceFrame
<1>3. ReduceCount
  BY DEF PassInv
<1>4. PICK runs \in Nat : runs = Len(current)
  BY PhaseTypes
<1>5. PICK passes \in Nat : passes = merge_passes
  BY PhaseTypes
<1>6. Needs(RunCapacity(passes), runs) /\ (passes > 0 => runs >= 2)
  BY <1>1, <1>3, <1>4, <1>5 DEF ReduceCount
<1>7. RunCapacity(passes) \in Nat \ {0} /\ RunCapacity(passes + 1) = FanIn * RunCapacity(passes)
  BY CapacityStep
<1>8. runs <= FanIn /\ FanIn \in Nat /\ raw_count \in Nat
  BY <1>1, <1>4, PhaseTypes, SpillAssumption
<1>9. raw_count <= RunCapacity(passes + 1)
  <2>1. RunCapacity(passes) * runs <= RunCapacity(passes) * FanIn
    BY <1>7, <1>8, Times
  <2>2. RunCapacity(passes) * runs \in Nat /\ RunCapacity(passes) * FanIn \in Nat
        /\ RunCapacity(passes) * FanIn = FanIn * RunCapacity(passes)
    BY <1>7, <1>8
  <2> QED
    BY <1>6, <1>7, <1>8, <2>1, <2>2 DEF Needs
<1>10. passes > 0 => raw_count > RunCapacity(passes)
  <2>1. SUFFICES ASSUME passes > 0 PROVE raw_count > RunCapacity(passes)
    OBVIOUS
  <2>2. 1 <= runs - 1 /\ runs - 1 \in Int /\ 1 \in Int /\ RunCapacity(passes) \in Nat
    BY <1>6, <1>7, <2>1
  <2>3. RunCapacity(passes) * 1 <= RunCapacity(passes) * (runs - 1)
    BY <2>2, Times
  <2>4. RunCapacity(passes) * 1 = RunCapacity(passes) /\ RunCapacity(passes) * (runs - 1) \in Int
    BY <2>2
  <2> QED
    BY <1>6, <1>8, <2>2, <2>3, <2>4 DEF Needs
<1>11. DrainCount'
  BY <1>1, <1>5, <1>9, <1>10 DEF DrainCount
<1> QED
  BY <1>1, <1>2, <1>11 DEF PassInv, NewCount, ReduceCount, PassCount, FillCount, Filling, Passing

LEMMA StartPhase ==
  ASSUME Inv, PassInv, Start
  PROVE  PassInv'
<1>1. CASE pc' \in {"finally", "end"}
  BY <1>1, PhasesOver
<1>2. CASE pc' = "fill"
  <2>1. /\ raw_count' = 0 /\ buffer' = <<>> /\ current' = <<>> /\ following' = <<>>
        /\ group' = <<>> /\ merge_passes' = 0
    BY DEF Start, fill, counters, PassInv, NewCount
  <2>2. 0 = Len(current') + Making' /\ Len(buffer') = 0
    BY <1>2, <2>1 DEF Making
  <2>3. BufferEdges * 0 + 0 = 0 /\ 0 < BufferEdges /\ 0 \in Nat
    BY SpillAssumption
  <2>4. FillCount'
    BY <2>1, <2>2, <2>3 DEF FillCount
  <2> QED
    BY <1>2, <2>4 DEF PassInv, NewCount, ReduceCount, PassCount, DrainCount, Passing, Draining
<1> QED
  BY <1>1, <1>2 DEF Start

LEMMA CreatePhase ==
  ASSUME Inv, PassInv, CreateRun
  PROVE  PassInv'
<1>1. /\ pc = "create" /\ pc' = (IF group = <<>> THEN "write" ELSE "open")
      /\ writing' = runs_created + 1
      /\ input' = input /\ raw_count' = raw_count /\ buffer' = buffer /\ current' = current
      /\ following' = following /\ group' = group /\ merge_passes' = merge_passes
  BY DEF CreateRun, quiet, fill, counters
<1>2. writing' # 0
  BY <1>1, PhaseTypes
<1>3. Making' = Making /\ (Filling' => Filling) /\ (Passing' => Passing) /\ (Draining' => Draining)
  BY <1>1, <1>2 DEF Making, Filling, Passing, Draining
<1> QED
  BY <1>1, <1>3, SamePhase

LEMMA OpenPhase ==
  ASSUME Inv, PassInv, OpenReader
  PROVE  PassInv'
<1>1. /\ pc = "open" /\ writing' = writing
      /\ input' = input /\ raw_count' = raw_count /\ buffer' = buffer /\ current' = current
      /\ following' = following /\ group' = group /\ merge_passes' = merge_passes
      /\ pc' = "open" \/ (writing = 0 /\ pc' = "drain") \/ (writing # 0 /\ pc' = "write")
  BY DEF OpenReader, quiet, fill, write, counters
<1>2. group # <<>>
  BY <1>1, PhaseTypes DEF Inv, ReaderFrame, TypeOK, MergeType
<1>3. CASE pc' = "open" \/ (writing # 0 /\ pc' = "write")
  <2>1. Making' = Making /\ (Filling' => Filling) /\ (Passing' => Passing) /\ (Draining' => Draining)
    BY <1>1, <1>2, <1>3 DEF Making, Filling, Passing, Draining
  <2> QED
    BY <1>1, <1>3, <2>1, SamePhase
<1>4. CASE writing = 0 /\ pc' = "drain"
  <2>1. Draining /\ ~Filling' /\ ~Passing'
    BY <1>1, <1>4 DEF Draining, Filling, Passing
  <2>2. DrainCount'
    BY <1>1, <2>1 DEF PassInv, DrainCount
  <2> QED
    BY <1>4, <2>1, <2>2 DEF PassInv, NewCount, ReduceCount, PassCount, FillCount
<1> QED
  BY <1>1, <1>3, <1>4

LEMMA DeletePhase ==
  ASSUME Inv, PassInv, DeleteInput
  PROVE  PassInv'
<1>1. /\ pc = "delete" /\ pc' \in {"pass", "delete"}
      /\ raw_count' = raw_count /\ current' = current
      /\ following' = following /\ merge_passes' = merge_passes
  BY DEF DeleteInput, counters
<1>2. Passing /\ Making' = Making /\ ~Filling' /\ ~Draining'
  BY <1>1 DEF Passing, Making, Filling, Draining
<1>3. PassCount'
  BY <1>1, <1>2 DEF PassInv, PassCount, Needs
<1> QED
  BY <1>1, <1>2, <1>3 DEF PassInv, NewCount, ReduceCount, FillCount, DrainCount

\* A delivery, and the consumer's answer.
LEMMA DeliverPhase ==
  ASSUME PassInv, Deliver \/ Resume
  PROVE  PassInv'
<1>1. /\ pc \in {"drain", "yield"} /\ pc' \in {"drain", "yield"}
      /\ input' = input /\ raw_count' = raw_count /\ buffer' = buffer /\ current' = current
      /\ following' = following /\ group' = group /\ merge_passes' = merge_passes
  BY DEF Deliver, Resume, quiet, fill, counters
<1>2. Making' = Making /\ (Filling' => Filling) /\ (Passing' => Passing) /\ (Draining' => Draining)
  BY <1>1 DEF Making, Filling, Passing, Draining
<1> QED
  BY <1>1, <1>2, SamePhase

\* A step that leaves the frame of the generator alone.
LEMMA QuietPhase ==
  ASSUME PassInv,
         \/ WriteRecord \/ SkipRecord \/ Successor \/ CancelToken \/ Damage \/ Collect \/ Exited
         \/ UNCHANGED vars
  PROVE  PassInv'
<1>1. /\ pc' = pc /\ writing' = writing
      /\ input' = input /\ raw_count' = raw_count /\ buffer' = buffer /\ current' = current
      /\ following' = following /\ group' = group /\ merge_passes' = merge_passes
  BY DEF WriteRecord, SkipRecord, Successor, CancelToken, Damage, Collect, Exited, vars,
         quiet, fill, write, counters
<1>2. Making' = Making /\ (Filling' => Filling) /\ (Passing' => Passing) /\ (Draining' => Draining)
  BY <1>1 DEF Making, Filling, Passing, Draining
<1> QED
  BY <1>1, <1>2, SamePhase

\* A step after which no run is written or read any more.
LEMMA LeavingPhase ==
  ASSUME \/ ReadFails \/ ReadCancelled \/ CreateFails \/ WriteFails \/ WriteCancelled \/ OpenFails
         \/ SuccessorFails \/ DrainCancelled \/ Complete \/ Close \/ Cleanup \/ AtExit
  PROVE  PassInv'
<1>1. pc' \in {"finally", "end", "exit"}
  BY DEF ReadFails, ReadCancelled, CreateFails, WriteFails, WriteCancelled, OpenFails, SuccessorFails,
         DrainCancelled, Complete, Close, Cleanup, AtExit, RaiseResource, RaiseCancelled, Raise
<1> QED
  BY <1>1, PhasesOver

LEMMA PassStep == Inv /\ PassInv /\ [Next]_vars => PassInv'
<1> SUFFICES ASSUME Inv, PassInv, [Next]_vars
             PROVE  PassInv'
  OBVIOUS
<1>1. CASE Start \/ ReadEdge \/ SourceExhausted \/ FinishRun
  BY <1>1, StartPhase, ReadPhase, SourcePhase, FinishPhase
<1>2. CASE CreateRun \/ OpenReader \/ StartPass \/ NextGroup \/ EndPass \/ DeleteInput \/ StartDrain
  BY <1>2, CreatePhase, OpenPhase, StartPassPhase, NextGroupPhase, EndPassPhase, DeletePhase,
     StartDrainPhase
<1>3. CASE Deliver \/ Resume
  BY <1>3, DeliverPhase
<1>4. CASE \/ WriteRecord \/ SkipRecord \/ Successor \/ CancelToken \/ Damage \/ Collect \/ Exited
           \/ UNCHANGED vars
  BY <1>4, QuietPhase
<1>5. CASE \/ ReadFails \/ ReadCancelled \/ CreateFails \/ WriteFails \/ WriteCancelled \/ OpenFails
           \/ SuccessorFails \/ DrainCancelled \/ Complete \/ Close \/ Cleanup \/ AtExit
  BY <1>5, LeavingPhase
<1> QED
  BY <1>1, <1>2, <1>3, <1>4, <1>5 DEF Next, Generator, Environment

\* reduce in _iter_canonical makes no pass too many and none too few: when the
\* final merge begins, one merge can read what merge_passes passes leave, and
\* one pass less would have left more runs than it can.  A short last run, a
\* group of one that is passed on as it is, and unlinks that fail do not matter.
THEOREM FewestPasses == Spec => []MinimalPasses
<1>1. Init => PassInv
  BY DEF Init, PassInv, NewCount, ReduceCount, PassCount, FillCount, DrainCount, Filling, Passing,
         Draining
<1>2. PassInv => MinimalPasses
  BY DEF PassInv, DrainCount, Draining, MinimalPasses
<1>3. Inv /\ PassInv /\ [Next]_vars => PassInv'
  BY PassStep
<1> QED
  BY <1>1, <1>2, <1>3, Invariance, PTL DEF Spec

=============================================================================
