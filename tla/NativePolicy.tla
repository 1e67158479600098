----------------------------- MODULE NativePolicy ------------------------------
(***************************************************************************)
(* The native edge processor (native/src/lib.rs, EdgeEngine behind         *)
(* EdgeBatchProcessor) and the generators of native.py that drive it:      *)
(* iter_native_policy, which leaves order and duplicates to one processor, *)
(* and iter_native_passthrough, which gives every batch a processor of its *)
(* own and only moves edges through native memory.                         *)
(*                                                                         *)
(* Edges are the ranks of their canonical keys (see EdgeStream).           *)
(***************************************************************************)
EXTENDS EdgeOrder

CONSTANTS
  Edges,
  MaxInput,      \* bound: raw edges of the compilation
  BatchEdges     \* batch_edges

ASSUME PolicyAssumption ==
  Edges \subseteq Nat /\ MaxInput \in Nat /\ BatchEdges \in Nat \ {0}

VARIABLES
  input, order, duplicates, \* the raw edges and the policy
  passthrough,              \* iter_native_passthrough rather than iter_native_policy
  pc, position, batch,      \* the generator: place, edges read, edges collected
  values,                   \* tuples that native code returned and are to be yielded
  engine,                   \* EdgeEngine
  delivered, outcome, statistics

call     == <<input, order, duplicates, passthrough>>

consumer == <<delivered, outcome, statistics>>

vars == <<call, pc, position, batch, values, engine, consumer>>

-----------------------------------------------------------------------------
(* EdgeEngine                                                              *)

NewEngine ==
  [seen |-> {}, canonical |-> <<>>, raw_edges |-> 0, duplicate_edges |-> 0,
   finished |-> FALSE, cancelled |-> FALSE]

\* seen.insert: the first of its kind in the batch and in the engine.
IsNew(b, i) == b[i] \notin engine.seen /\ \A j \in 1..(i - 1) : b[j] # b[i]

\* The edges of a batch that the duplicate policy keeps.
Kept(b) ==
  Picked(b, { i \in DOMAIN b : duplicates = "preserve" \/ IsNew(b, i) })

\* push, for a processor that is neither finished nor cancelled.
Pushed(b) ==
  [engine EXCEPT
     !.seen = @ \cup ToSet(b),
     !.raw_edges = @ + Len(b),
     !.duplicate_edges = @ + Cardinality({ i \in DOMAIN b : ~IsNew(b, i) }),
     !.canonical = IF order = "canonical" THEN @ \o Kept(b) ELSE @]

\* Mutant: the sorted vector is not reversed before it is popped from its end.
FinishedUnreversed ==
  [engine EXCEPT !.finished = TRUE, !.canonical = Sorted(@)]

\* finish: sort_unstable, then reverse because drain pops from the end.
Finished == [engine EXCEPT !.finished = TRUE, !.canonical = Reverse(Sorted(@))]

\* drain: max_items pops.
DrainAmount == IF BatchEdges < Len(engine.canonical) THEN BatchEdges
                                                    ELSE Len(engine.canonical)

Popped == [i \in 1..DrainAmount |-> engine.canonical[Len(engine.canonical) + 1 - i]]

Drained ==
  [engine EXCEPT !.canonical = SubSeq(@, 1, Len(@) - DrainAmount)]

\* Mutant: only the flag is set.
CancelledFlagOnly == [engine EXCEPT !.cancelled = TRUE]

\* cancel: the flag, and both containers cleared.
Cancelled == [engine EXCEPT !.cancelled = TRUE, !.canonical = <<>>, !.seen = {}]

-----------------------------------------------------------------------------
(* The generator                                                           *)

\* Mutant: the first batch of a passthrough is as large as the others.
BatchLimitUniform == BatchEdges

\* "A one-edge first batch preserves low time-to-first-edge."
BatchLimit == IF passthrough /\ delivered = <<>> THEN 1 ELSE BatchEdges

ReadEdge ==
  /\ pc = "read" /\ position < Len(input) /\ Len(batch) < BatchLimit
  /\ batch' = Append(batch, input[position + 1])
  /\ position' = position + 1
  /\ UNCHANGED <<call, pc, values, engine, consumer>>

\* _push of a full batch, or of what is left when the source ends.
PushBatch ==
  /\ pc = "read"
  /\ Len(batch) = BatchLimit \/ (position = Len(input) /\ batch # <<>>)
  /\ engine' = Pushed(batch)
  /\ values' = IF order = "encounter" THEN Kept(batch) ELSE <<>>
  /\ batch' = <<>>
  /\ pc' = "push"
  /\ UNCHANGED <<call, position, consumer>>

\* yield Edge( *value)
Yield(place, suspended) ==
  /\ pc = place /\ values # <<>>
  /\ delivered' = Append(delivered, Head(values))
  /\ values' = Tail(values)
  /\ pc' = suspended
  /\ UNCHANGED <<call, position, batch, engine, outcome, statistics>>

YieldPushed  == Yield("push", "push-yield")

YieldDrained == Yield("drain", "drain-yield")

\* The consumer asks for the next edge.
Resume ==
  /\ pc \in {"push-yield", "drain-yield"}
  /\ pc' = IF pc = "push-yield" THEN "push" ELSE "drain"
  /\ UNCHANGED <<call, position, batch, values, engine, consumer>>

\* A passthrough finishes its processor after one batch (nothing to drain in
\* encounter order) and drops it; otherwise the processor lives on.
PushDone ==
  /\ pc = "push" /\ values = <<>>
  /\ engine' = IF passthrough THEN NewEngine ELSE engine
  /\ pc' = "read"
  /\ UNCHANGED <<call, position, batch, values, consumer>>

\* processor.finish()
Finish ==
  /\ pc = "read" /\ position = Len(input) /\ batch = <<>> /\ ~passthrough
  /\ engine' = Finished
  /\ pc' = "drain"
  /\ UNCHANGED <<call, position, batch, values, consumer>>

\* while not processor.drained: processor.drain_batch(batch_edges)
DrainBatch ==
  /\ pc = "drain" /\ values = <<>> /\ engine.canonical # <<>>
  /\ values' = Popped
  /\ engine' = Drained
  /\ UNCHANGED <<call, pc, position, batch, consumer>>

\* _copy_statistics: raw edges, distinct edges.
Complete ==
  /\ pc = "drain" /\ values = <<>> /\ engine.canonical = <<>>
  /\ statistics' = <<engine.raw_edges, Cardinality(engine.seen)>>
  /\ outcome' = "complete" /\ pc' = "end"
  /\ UNCHANGED <<call, position, batch, values, engine, delivered>>

\* The source of a passthrough ends; no statistics were asked for.
CompletePassthrough ==
  /\ pc = "read" /\ position = Len(input) /\ batch = <<>> /\ passthrough
  /\ outcome' = "complete" /\ pc' = "end"
  /\ UNCHANGED <<call, position, batch, values, engine, delivered, statistics>>

\* The finally block of a generator that did not complete.  A passthrough drops
\* the processor of its current batch as well.
Abandon(how) ==
  /\ engine' = IF passthrough THEN NewEngine ELSE Cancelled
  /\ outcome' = how /\ pc' = "end"
  /\ UNCHANGED <<call, position, batch, values, delivered, statistics>>

\* An exception of the source or of a native call (allocation, panic): push may
\* have taken part of its batch, which cancel throws away.
Fails == pc \in {"read", "push", "drain"} /\ Abandon("failed")

\* close() of a suspended generator.
Close == pc \in {"push-yield", "drain-yield"} /\ Abandon("closed")

Init ==
  /\ input \in UNION { [1..n -> Edges] : n \in 0..MaxInput }
  /\ order \in {"canonical", "encounter"} /\ duplicates \in {"preserve", "unique"}
  /\ passthrough \in BOOLEAN
  /\ passthrough => order = "encounter" /\ duplicates = "preserve"
  /\ pc = "read" /\ position = 0 /\ batch = <<>> /\ values = <<>> /\ engine = NewEngine
  /\ delivered = <<>> /\ outcome = "none" /\ statistics = <<>>

Next ==
  \/ ReadEdge \/ PushBatch \/ YieldPushed \/ YieldDrained \/ Resume \/ PushDone
  \/ Finish \/ DrainBatch \/ Complete \/ CompletePassthrough \/ Fails \/ Close

Spec == Init /\ [][Next]_vars

-----------------------------------------------------------------------------
(* Properties                                                              *)

\* Nothing of the edges stays in native memory behind a generator that failed or
\* was closed (a passthrough has dropped its processor instead of cancelling it),
\* and the counts of a live processor agree with what it has seen.
Cleared ==
  /\ outcome \in {"failed", "closed"} =>
       (engine.cancelled \/ passthrough) /\ engine.seen = {} /\ engine.canonical = <<>>
  /\ ~engine.cancelled =>
       engine.raw_edges = Cardinality(engine.seen) + engine.duplicate_edges

\* iter_native_passthrough transfers raw edges unchanged and in order, across
\* the small first batch, full batches and a partial last one, and "every native
\* processor is limited to one bounded batch".
PassesThrough ==
  passthrough =>
    /\ IsPrefix(delivered, input) /\ (outcome = "complete" => delivered = input)
    /\ engine.raw_edges <= BatchEdges
    /\ Len(delivered) = 1 => position = 1 \/ pc # "push-yield"

=============================================================================
