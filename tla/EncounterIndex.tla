---------------------------- MODULE EncounterIndex -----------------------------
(***************************************************************************)
(* order="encounter": streaming.py, _iter_encounter with _DistinctIndex.   *)
(*                                                                         *)
(* Edges are yielded as they are met.  Which of them were met before is    *)
(* remembered exactly, in a set of at most buffer_edges keys and, beyond   *)
(* that, in a private SQLite table.  The table's file is not accounted     *)
(* byte by byte as the sorted runs are: its size is looked at now and      *)
(* then, and once more when the iterator ends.                             *)
(*                                                                         *)
(* SQLite is external: the table is a set of keys, and its file holds some *)
(* number of bytes between what it held before and what all keys need,     *)
(* because uncommitted pages stay in the cache until it overflows.         *)
(***************************************************************************)
EXTENDS Integers, Sequences, FiniteSets

CONSTANTS
  Edges,              \* the edges the compiler may produce
  Oversized,          \* the edges whose key _encode_edge refuses
  MaxInput,           \* bound: the longest raw edge stream explored
  BufferEdges,        \* memory_edges = buffer_edges
  CheckInterval,      \* StreamingLimits.cancellation_check_interval
  MaxTotalEdges,      \* StreamingLimits.max_total_edges, or NoLimit
  MaxBytes,           \* the smaller of max_temporary_bytes and max_spill_bytes
  NoLimit,            \* None
  RowBytes,           \* what one key adds to the file, at most
  IOFaults            \* may SQLite, the operating system and allocation fail?

\* StreamingLimits.__post_init__ and the argument checks of iter_edge_policy.
ASSUME EncounterAssumption ==
  /\ Edges \subseteq Nat /\ Oversized \subseteq Edges
  /\ MaxInput \in Nat
  /\ BufferEdges \in Nat \ {0}
  /\ CheckInterval \in Nat \ {0}
  /\ NoLimit \notin Nat
  /\ {MaxTotalEdges, MaxBytes} \subseteq Nat \cup {NoLimit}
  /\ RowBytes \in Nat \ {0}
  /\ IOFaults \in BOOLEAN

VARIABLES
  \* the call
  input, duplicates, delivered, outcome, statistics,
  \* the generator frame of _iter_encounter; how the try block was left
  pc, raw_count, ending,
  \* _DistinctIndex: memory, the table, whether self.connection is set, count
  memory, seen, connected, count, peak_bytes,
  \* the workspace directory, the file in it, who still knows of it: "index"
  \* (self.workspace), "frame" (only the frame of a failed _spill), or "none"
  dir, size, owner,
  \* the token; did removing the directory fail?
  cancelled, rmtree_failed

call  == <<input, duplicates, cancelled>>
index == <<memory, seen, connected, count, peak_bytes>>
store == <<dir, size, owner, rmtree_failed>>

vars == <<call, delivered, outcome, statistics, pc, raw_count, ending, index, store>>

-----------------------------------------------------------------------------
(* Helpers                                                                 *)

Within(n, limit) == limit # NoLimit => n <= limit

CancelDue(n) == cancelled /\ n % CheckInterval = 0

edge == input[raw_count]

\* An exception, or the end of the loop, leads to the finally block.
Leave(kind) == pc' = "finally" /\ ending' = kind

\* _check_size: the file is measured and compared with both byte limits.
CheckSize(bytes) == Within(bytes, MaxBytes)

\* SQLite: what the table's file may measure once the table holds the given keys.
FileSizes(keys) == size..(RowBytes * Cardinality(keys))

-----------------------------------------------------------------------------
(* The loop of _iter_encounter                                             *)

Start ==
  /\ pc = "new"
  /\ IF cancelled THEN Leave("cancelled") ELSE pc' = "loop" /\ UNCHANGED ending
  /\ UNCHANGED <<call, delivered, outcome, statistics, raw_count, index, store>>

ReadEdge ==
  /\ pc = "loop" /\ raw_count < Len(input)
  /\ raw_count' = raw_count + 1
  /\ IF ~Within(raw_count + 1, MaxTotalEdges) THEN Leave("failed")
     ELSE IF CancelDue(raw_count + 1) THEN Leave("cancelled")
     ELSE pc' = "add" /\ UNCHANGED ending
  /\ UNCHANGED <<call, delivered, outcome, statistics, index, store>>

\* The compiler raises instead of yielding.
ReadFails ==
  /\ pc = "loop" /\ raw_count < Len(input) /\ IOFaults
  /\ Leave("failed")
  /\ UNCHANGED <<call, delivered, outcome, statistics, raw_count, index, store>>

\* Mutant: a repeated edge is yielded under either policy.
PassAlways(inserted) ==
  /\ count' = IF inserted THEN count + 1 ELSE count
  /\ delivered' = Append(delivered, edge) /\ pc' = "yield"

\* duplicate = not distinct.add(edge), and the yield that depends on it.
Pass(inserted) ==
  /\ count' = IF inserted THEN count + 1 ELSE count
  /\ IF duplicates = "preserve" \/ inserted
       THEN delivered' = Append(delivered, edge) /\ pc' = "yield"
       ELSE UNCHANGED delivered /\ pc' = "loop"

AddInMemory ==
  /\ pc = "add" /\ ~connected
  /\ edge \in memory \/ Cardinality(memory) < BufferEdges
  /\ memory' = memory \cup {edge}
  /\ Pass(edge \notin memory)
  /\ UNCHANGED <<call, outcome, statistics, raw_count, ending, seen, connected,
                 peak_bytes, store>>

\* Mutant: the keys held so far are not moved into the table.
CopiedNothing == {}

\* executemany: every key of the memory set becomes a row.
Copied == memory

\* _spill, its own size check included, when every call succeeds.
Spill ==
  /\ pc = "add" /\ ~connected
  /\ edge \notin memory /\ Cardinality(memory) >= BufferEdges
  /\ memory \cap Oversized = {}
  /\ seen' = Copied
  /\ memory' = {}
  /\ connected' = TRUE
  /\ dir' = TRUE /\ owner' = "index"
  /\ size' \in FileSizes(memory)
  /\ peak_bytes' = size'
  /\ IF CheckSize(size') THEN pc' = "insert" /\ UNCHANGED ending ELSE Leave("failed")
  /\ UNCHANGED <<call, delivered, outcome, statistics, raw_count, count, rmtree_failed>>

\* The constructor, mkstemp or SQLite fails: cleaned up here, unless removing
\* the directory fails too.
SpillFails ==
  /\ pc = "add" /\ ~connected /\ IOFaults
  /\ edge \notin memory /\ Cardinality(memory) >= BufferEdges
  /\ Leave("failed")
  /\ \/ UNCHANGED store
     \/ dir' = TRUE /\ owner' = "frame" /\ rmtree_failed' = TRUE /\ UNCHANGED size
  /\ UNCHANGED <<call, delivered, outcome, statistics, raw_count, index>>

\* _encode_edge refuses a key, or memory is exhausted: _spill catches neither,
\* and self.workspace is not set yet.  (Nor does anybody know a directory whose
\* chmod failed in the constructor.)
SpillAbandons ==
  /\ pc = "add" /\ ~connected
  /\ edge \notin memory /\ Cardinality(memory) >= BufferEdges
  /\ memory \cap Oversized # {} \/ IOFaults
  /\ Leave("failed")
  /\ dir' = TRUE /\ owner' = "frame"
  /\ UNCHANGED <<call, delivered, outcome, statistics, raw_count, index, size,
                 rmtree_failed>>

\* INSERT OR IGNORE.
Insert ==
  /\ pc \in {"add", "insert"} /\ connected
  /\ edge \notin Oversized
  /\ LET inserted == edge \notin seen
         n        == IF inserted THEN count + 1 ELSE count
     IN  /\ seen' = seen \cup {edge}
         /\ size' \in FileSizes(seen')
         /\ IF n % CheckInterval = 0
              THEN /\ peak_bytes' = IF size' > peak_bytes THEN size' ELSE peak_bytes
                   /\ IF CheckSize(size')
                        THEN Pass(inserted) /\ UNCHANGED ending
                        ELSE Leave("failed") /\ count' = n /\ UNCHANGED delivered
              ELSE Pass(inserted) /\ UNCHANGED <<ending, peak_bytes>>
  /\ UNCHANGED <<call, outcome, statistics, raw_count, memory, connected, dir, owner,
                 rmtree_failed>>

InsertFails ==
  /\ pc \in {"add", "insert"} /\ connected
  /\ edge \in Oversized \/ IOFaults
  /\ Leave("failed")
  /\ UNCHANGED <<call, delivered, outcome, statistics, raw_count, index, store>>

SourceExhausted ==
  /\ pc = "loop" /\ raw_count = Len(input)
  /\ IF cancelled
       THEN Leave("cancelled") /\ UNCHANGED statistics
       ELSE Leave("complete") /\ statistics' = <<raw_count, count>>
  /\ UNCHANGED <<call, delivered, outcome, raw_count, index, store>>

Resume ==
  /\ pc = "yield" /\ pc' = "loop"
  /\ UNCHANGED <<call, delivered, outcome, statistics, raw_count, ending, index, store>>

\* close() or a dropped iterator.
Close ==
  \/ /\ pc = "yield" /\ Leave("closed")
     /\ UNCHANGED <<call, delivered, outcome, statistics, raw_count, index, store>>
  \/ /\ pc = "new" /\ pc' = "end" /\ outcome' = "closed"
     /\ UNCHANGED <<call, delivered, statistics, raw_count, ending, index, store>>

-----------------------------------------------------------------------------
(* The finally block: metrics, then close                                  *)

\* metrics measures the file once more; a limit exceeded by now, or a stat that
\* fails, replaces whatever the try block was about to return or raise.
MetricsFail == connected /\ ~CheckSize(size)

RemoveTree ==
  \/ dir' = FALSE /\ size' = 0 /\ owner' = "none" /\ UNCHANGED rmtree_failed
  \/ IOFaults /\ rmtree_failed' = TRUE /\ owner' = "none" /\ UNCHANGED <<dir, size>>

\* Mutant: a failed measurement keeps close from being reached.
CloseIndexIfMeasured ==
  IF owner = "index" /\ ~MetricsFail THEN RemoveTree ELSE UNCHANGED store

\* distinct.close: it also runs when metrics raised.
CloseIndex == IF owner = "index" THEN RemoveTree ELSE UNCHANGED store

Finally ==
  /\ pc = "finally"
  /\ \/ /\ outcome' = IF MetricsFail THEN "failed" ELSE ending
        /\ peak_bytes' = IF connected /\ size > peak_bytes THEN size ELSE peak_bytes
     \/ /\ connected /\ IOFaults                  \* stat fails
        /\ outcome' = "failed"
        /\ UNCHANGED peak_bytes
  /\ CloseIndex
  /\ connected' = FALSE /\ memory' = {}
  /\ pc' = "end"
  /\ UNCHANGED <<call, delivered, statistics, raw_count, ending, seen, count>>

\* The exit hook walks the workspaces that are still referenced ...
AtExit ==
  /\ pc \in {"yield", "end"}
  /\ IF owner = "none" THEN UNCHANGED store ELSE RemoveTree
  /\ pc' = "exit"
  /\ UNCHANGED <<call, delivered, outcome, statistics, raw_count, ending, index>>

\* ... and forgets one whose frame (or traceback) has been collected.
Collect ==
  /\ pc = "end" /\ owner = "frame"
  /\ owner' = "none"
  /\ UNCHANGED <<call, delivered, outcome, statistics, pc, raw_count, ending, index,
                 dir, size, rmtree_failed>>

CancelToken ==
  /\ ~cancelled /\ pc \notin {"finally", "end", "exit"}
  /\ cancelled' = TRUE
  /\ UNCHANGED <<input, duplicates, delivered, outcome, statistics, pc, raw_count,
                 ending, index, store>>

-----------------------------------------------------------------------------
Init ==
  /\ input \in UNION { [1..n -> Edges] : n \in 0..MaxInput }
  /\ duplicates \in {"preserve", "unique"}
  /\ delivered = <<>> /\ outcome = "none" /\ statistics = <<>>
  /\ pc = "new" /\ raw_count = 0 /\ ending = "none"
  /\ memory = {} /\ seen = {} /\ connected = FALSE /\ count = 0 /\ peak_bytes = 0
  /\ dir = FALSE /\ size = 0 /\ owner = "none"
  /\ cancelled = FALSE /\ rmtree_failed = FALSE

Generator ==
  \/ Start \/ ReadEdge \/ ReadFails \/ AddInMemory \/ Spill \/ SpillFails
  \/ SpillAbandons \/ Insert \/ InsertFails \/ SourceExhausted \/ Resume \/ Close
  \/ Finally

\* After interpreter exit nothing happens.
Exited == pc = "exit" /\ UNCHANGED vars

Next == Generator \/ AtExit \/ Collect \/ CancelToken \/ Exited

Spec == Init /\ [][Next]_vars

-----------------------------------------------------------------------------
(* Properties                                                              *)

\* The edges whose membership is settled.
Settled == { input[i] : i \in 1..(IF pc \in {"add", "insert"} THEN raw_count - 1 ELSE raw_count) }

\* Membership is exact on both sides of the spill: whenever the loop is about
\* to ask for an edge, the set or the table (never both) holds exactly the
\* edges met so far, count is their number, and the set stays within
\* buffer_edges.
MembershipExact ==
  pc \in {"loop", "add", "insert", "yield"} =>
    /\ memory \cup seen = Settled
    /\ memory = {} \/ seen = {}
    /\ count = Cardinality(Settled)
    /\ Cardinality(memory) <= BufferEdges
    /\ connected = (seen # {})

\* However the iterator ends (also when measuring the file raises inside the
\* finally block), the directory of an index that came into use is gone, unless
\* removing it failed.
IndexReleased ==
  pc \in {"end", "exit"} /\ ~rmtree_failed /\ seen # {} => ~dir

=============================================================================
