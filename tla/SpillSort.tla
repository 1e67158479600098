------------------------------- MODULE SpillSort -------------------------------
(***************************************************************************)
(* The bounded external merge sort behind order="canonical":               *)
(* streaming.py, _iter_canonical with its _SpillWorkspace and _RunReaders. *)
(*                                                                         *)
(* One generator fills a buffer from the compiler, writes sorted runs into *)
(* a private directory, merges groups of runs until one merge can read     *)
(* them all, and delivers the final merge to its consumer.  Every byte is  *)
(* accounted before it is written.  Around the generator, another thread   *)
(* may cancel the token, the operating system may fail any call, the disk  *)
(* may damage a run, and the consumer may stop at any yield.               *)
(*                                                                         *)
(* A file is the sequence of records it holds; its header holds the        *)
(* sequence that was written, which is what the SHA-256 digest stands for. *)
(* Edges are the ranks of their canonical keys (see EdgeStream).           *)
(***************************************************************************)
EXTENDS Integers, Sequences, FiniteSets

CONSTANTS
  Edges,              \* the edges the compiler may produce
  MaxInput,           \* bound: the longest raw edge stream explored
  BufferEdges,        \* buffer_edges
  FanIn,              \* StreamingLimits.merge_fan_in
  MaxOpenFiles,       \* StreamingLimits.max_open_files
  CheckInterval,      \* StreamingLimits.cancellation_check_interval
  MaxTotalEdges,      \* StreamingLimits.max_total_edges, or NoLimit
  MaxSpillBytes,      \* StreamingLimits.max_spill_bytes, or NoLimit
  MaxTemporaryBytes,  \* StreamingLimits.max_temporary_bytes, or NoLimit
  NoLimit,            \* None
  HeaderBytes,        \* _RUN_HEADER.size
  RecordBytes,        \* RecordBytes[e] = len(_encode_edge(e))
  DiskFree,           \* the answers shutil.disk_usage may give
  IOFaults,           \* may operating-system calls and the compiler fail?
  MaxDamage           \* bound: how often the disk damages a run

\* StreamingLimits.__post_init__ and the argument checks of iter_edge_policy.
ASSUME SpillAssumption ==
  /\ Edges \subseteq Nat
  /\ MaxInput \in Nat
  /\ BufferEdges \in Nat \ {0}
  /\ FanIn \in Nat /\ FanIn >= 2
  /\ MaxOpenFiles \in Nat /\ FanIn + 1 <= MaxOpenFiles
  /\ CheckInterval \in Nat \ {0}
  /\ NoLimit \notin Nat
  /\ {MaxTotalEdges, MaxSpillBytes, MaxTemporaryBytes} \subseteq Nat \cup {NoLimit}
  /\ HeaderBytes \in Nat \ {0}
  /\ RecordBytes \in [Edges -> Nat \ {0}]
  /\ DiskFree \subseteq Nat
  /\ IOFaults \in BOOLEAN
  /\ MaxDamage \in Nat

VARIABLES
  \* the call
  input, duplicates, delivered, outcome, statistics,
  \* the generator frame of _iter_canonical and reduce
  pc, raw_count, buffer, current, following, distinct_count,
  \* _write_run: the file being written (0: none), its bytes, its digest
  writing, accounted, digest, todo,
  \* merge: the group, its open readers, the heap and the reader that owes
  \* a successor (0: none)
  group, readers, heap, owed, emitted,
  \* _SpillWorkspace
  dir, files, run_sizes, live_bytes, peak_live_bytes, total_written,
  runs_created, merge_passes, available, tracked,
  \* how removing the directory went: "ok", "failed", or "skipped" where the
  \* code does not try
  removal,
  \* the environment
  cancelled, damage

quiet    == <<input, duplicates, dir, tracked, removal, cancelled, damage>>
result   == <<delivered, outcome, statistics>>
fill     == <<raw_count, buffer, current, following, group>>
write    == <<writing, accounted, digest, todo>>
merge    == <<readers, heap, owed, emitted>>
bytes    == <<live_bytes, peak_live_bytes, total_written, available>>
disk     == <<bytes, files, run_sizes>>
counters == <<distinct_count, runs_created, merge_passes>>

vars == <<quiet, result, pc, fill, write, merge, disk, counters>>

-----------------------------------------------------------------------------
(* Helpers                                                                 *)

Within(n, limit) == limit # NoLimit => n <= limit

\* "%" guards of the cancellation checkpoints.
CancelDue(n) == cancelled /\ n % CheckInterval = 0

Occurrences(e, s) == Cardinality({ i \in DOMAIN s : s[i] = e })

\* list.sort(key=Edge.canonical_key): t is s rearranged in canonical order.
IsSortOf(t, s) ==
  /\ \A i \in 1..(Len(t) - 1) : t[i] <= t[i + 1]
  /\ \A e \in Edges : Occurrences(e, t) = Occurrences(e, s)

Without(f, k) == [ x \in DOMAIN f \ {k} |-> f[x] ]

With(f, k, v) == [ x \in DOMAIN f \cup {k} |-> IF x = k THEN v ELSE f[x] ]

Larger(a, b) == IF a >= b THEN a ELSE b

Payload(s) ==
  LET sum[i \in 0..Len(s)] == IF i = 0 THEN 0 ELSE sum[i - 1] + RecordBytes[s[i]]
  IN  sum[Len(s)]

File(data, head, size) == [data |-> data, head |-> head, bytes |-> size]

\* A file mkstemp just made: no byte, no record, a header of zeros to come.
EmptyFile == File(<<>>, <<>>, 0)

NoFiles == [ x \in {} |-> EmptyFile ]

NoRuns == [ x \in {} |-> 0 ]

OpenFiles == Len(readers) + (IF writing = 0 THEN 0 ELSE 1)

-----------------------------------------------------------------------------
(* _grow, _forget_partial and the way an exception leaves the generator    *)

\* Mutant: the limits are compared with what was already there.
OverLimitStale(n) ==
  \/ ~Within(live_bytes, MaxTemporaryBytes)
  \/ ~Within(total_written, MaxSpillBytes)

OverLimit(n) ==
  \/ ~Within(live_bytes + n, MaxTemporaryBytes)
  \/ ~Within(total_written + n, MaxSpillBytes)

\* The free-space estimate is refreshed only when it looks too small.
Estimates(n) == IF n > available THEN DiskFree ELSE {available}

\* Mutant: the estimate is consumed without being compared.
FitsBlindly(n, free) == TRUE

Fits(n, free) == n <= free

Grow(n) ==
  /\ ~OverLimit(n)
  /\ \E free \in Estimates(n) : Fits(n, free) /\ available' = free - n
  /\ live_bytes' = live_bytes + n
  /\ total_written' = total_written + n
  /\ peak_live_bytes' = Larger(peak_live_bytes, live_bytes + n)

GrowRefused(n) ==
  \/ OverLimit(n)
  \/ \E free \in Estimates(n) : ~Fits(n, free)
  \/ IOFaults

\* The written bytes leave the account whether or not the unlink succeeds.
ForgetPartial ==
  /\ live_bytes' = Larger(0, live_bytes - accounted)
  /\ available' = available + accounted
  /\ \/ files' = Without(files, writing)
     \/ IOFaults /\ UNCHANGED files
  /\ UNCHANGED <<peak_live_bytes, total_written, run_sizes>>

\* An exception runs the finally blocks of merge (readers closed), _write_run
\* (stream closed) and _iter_canonical (Cleanup, the next step).
Raise(kind) ==
  /\ outcome' = kind
  /\ pc' = "finally"
  /\ writing' = 0
  /\ accounted' = 0
  /\ digest' = <<>>
  /\ todo' = <<>>
  /\ readers' = <<>>
  /\ heap' = {}
  /\ owed' = 0
  /\ emitted' = 0
  /\ UNCHANGED <<quiet, fill, counters, delivered, statistics>>

\* ProjectionResourceError, OSError, MemoryError: a partial run is forgotten.
\* (A free-space estimate refreshed by a refused _grow is not kept: after an
\* exception no step reads it.)
RaiseResource ==
  /\ Raise("failed")
  /\ IF writing = 0 THEN UNCHANGED disk ELSE ForgetPartial

\* The token's exception is caught by nobody: a partial run stays on disk.
RaiseCancelled ==
  /\ Raise("cancelled")
  /\ UNCHANGED disk

-----------------------------------------------------------------------------
(* _SpillWorkspace.__init__ and the fill loop of _iter_canonical           *)

Start ==
  /\ pc = "new"
  /\ \/ /\ dir' = TRUE
        /\ tracked' = TRUE
        /\ available' \in DiskFree
        /\ IF cancelled
             THEN pc' = "finally" /\ outcome' = "cancelled"
             ELSE pc' = "fill" /\ UNCHANGED outcome
        /\ UNCHANGED removal
     \/ /\ IOFaults
        /\ pc' = "end"
        /\ outcome' = "failed"
        /\ \/ UNCHANGED <<dir, removal>>                \* mkdtemp fails, or nothing stays
           \/ dir' = TRUE /\ removal' = "skipped"      \* chmod fails
           \/ dir' = TRUE /\ removal' = "failed"       \* disk_usage and rmtree fail
        /\ UNCHANGED <<tracked, available>>
  /\ UNCHANGED <<fill, write, merge, counters, input, duplicates, delivered,
                 statistics, live_bytes, peak_live_bytes, total_written, files,
                 run_sizes, cancelled, damage>>

\* A full buffer, or the remainder at the end of the source, becomes a run.
WriteSortedRun(edges) ==
  /\ \E t \in [1..Len(edges) -> Edges] : IsSortOf(t, edges) /\ todo' = t
  /\ buffer' = <<>>
  /\ pc' = "create"

ReadEdge ==
  /\ pc = "fill"
  /\ raw_count < Len(input)
  /\ Within(raw_count + 1, MaxTotalEdges)
  /\ ~CancelDue(raw_count + 1)
  /\ raw_count' = raw_count + 1
  /\ LET filled == Append(buffer, input[raw_count + 1])
     IN  IF Len(filled) = BufferEdges
           THEN WriteSortedRun(filled)
           ELSE buffer' = filled /\ UNCHANGED <<todo, pc>>
  /\ UNCHANGED <<quiet, result, merge, disk, counters, current, following, writing,
                 accounted, digest, group>>

\* max_total_edges is exceeded, or the compiler raises instead of yielding.
ReadFails ==
  /\ pc = "fill"
  /\ raw_count < Len(input)
  /\ ~Within(raw_count + 1, MaxTotalEdges) \/ IOFaults
  /\ RaiseResource

ReadCancelled ==
  /\ pc = "fill"
  /\ raw_count < Len(input)
  /\ Within(raw_count + 1, MaxTotalEdges)
  /\ CancelDue(raw_count + 1)
  /\ RaiseCancelled

SourceExhausted ==
  /\ pc = "fill"
  /\ raw_count = Len(input)
  /\ \/ buffer # <<>> /\ WriteSortedRun(buffer) /\ UNCHANGED <<outcome, statistics>>
     \/ /\ buffer = <<>> /\ current # <<>>
        /\ pc' = "reduce"
        /\ UNCHANGED <<todo, buffer, outcome, statistics>>
     \/ /\ buffer = <<>> /\ current = <<>>
        /\ pc' = "finally" /\ outcome' = "complete" /\ statistics' = <<0, 0>>
        /\ UNCHANGED <<todo, buffer>>
  /\ UNCHANGED <<quiet, merge, disk, counters, delivered, raw_count, current,
                 following, writing, accounted, digest, group>>

-----------------------------------------------------------------------------
(* _write_run, fed by the sorted buffer (group empty) or by a merge        *)

\* mkstemp, then the header is accounted and written as zeros.
CreateRun ==
  /\ pc = "create"
  /\ Grow(HeaderBytes)
  /\ writing' = runs_created + 1
  /\ accounted' = HeaderBytes
  /\ files' = With(files, runs_created + 1, File(<<>>, <<>>, HeaderBytes))
  /\ pc' = IF group = <<>> THEN "write" ELSE "open"
  /\ UNCHANGED <<quiet, result, fill, merge, counters, digest, todo, run_sizes>>

\* The header alone is refused (or mkstemp fails): the empty file is unlinked.
CreateFails ==
  /\ pc = "create"
  /\ GrowRefused(HeaderBytes)
  /\ Raise("failed")
  /\ UNCHANGED <<bytes, run_sizes>>
  /\ \/ UNCHANGED files
     \/ /\ IOFaults               \* created, refused, and the unlink fails too
        /\ files' = With(files, runs_created + 1, EmptyFile)

Exhausted == IF group = <<>> THEN todo = <<>> ELSE heap = {}

\* Mutant: the readers are drained one after the other.
TopByReader == CHOOSE x \in heap : \A y \in heap : x[2] <= y[2]

\* heappop: the least (canonical_key, reader index).
Top == CHOOSE x \in heap :
         \A y \in heap : x[1] < y[1] \/ (x[1] = y[1] /\ x[2] <= y[2])

Upcoming == IF group = <<>> THEN Head(todo) ELSE Top[1]

\* merge checks the token before each pop, on its own counter.
MergeCancelDue == group # <<>> /\ CancelDue(emitted)

\* _coalesce_sorted: equal to the last edge passed on.
Coalesced == duplicates = "unique" /\ digest # <<>> /\ Upcoming = digest[Len(digest)]

Pop ==
  /\ heap' = heap \ {Top}
  /\ owed' = Top[2]
  /\ emitted' = emitted + 1
  /\ UNCHANGED readers

Advance ==
  IF group = <<>>
    THEN todo' = Tail(todo) /\ UNCHANGED merge
    ELSE Pop /\ UNCHANGED todo

WriteRecord ==
  /\ pc = "write" /\ owed = 0 /\ ~Exhausted
  /\ ~MergeCancelDue /\ ~Coalesced /\ ~CancelDue(Len(digest))
  /\ Grow(RecordBytes[Upcoming])
  /\ accounted' = accounted + RecordBytes[Upcoming]
  /\ files' = [files EXCEPT ![writing] =
                File(Append(@.data, Upcoming), @.head, @.bytes + RecordBytes[Upcoming])]
  /\ digest' = Append(digest, Upcoming)
  /\ Advance
  /\ UNCHANGED <<quiet, result, fill, counters, pc, writing, run_sizes>>

\* Mutant: the coalescer does not move past an equal edge.
SkipRecordStuck ==
  /\ pc = "write" /\ owed = 0 /\ ~Exhausted
  /\ ~MergeCancelDue /\ Coalesced
  /\ UNCHANGED vars

SkipRecord ==
  /\ pc = "write" /\ owed = 0 /\ ~Exhausted
  /\ ~MergeCancelDue /\ Coalesced
  /\ Advance
  /\ UNCHANGED <<quiet, result, fill, disk, counters, pc, writing, accounted, digest>>

\* A limit, no space, or an OSError on a record, on the header or on close.
WriteFails ==
  /\ pc = "write" /\ owed = 0
  /\ \/ ~Exhausted /\ ~MergeCancelDue /\ ~Coalesced /\ ~CancelDue(Len(digest))
        /\ GrowRefused(RecordBytes[Upcoming])
     \/ Exhausted /\ ~cancelled /\ IOFaults
  /\ RaiseResource

WriteCancelled ==
  /\ pc = "write" /\ owed = 0 /\ cancelled
  /\ \/ Exhausted
     \/ MergeCancelDue
     \/ ~Exhausted /\ ~Coalesced /\ CancelDue(Len(digest))
  /\ RaiseCancelled

\* The real header is written, the file closed and the run registered.
FinishRun ==
  /\ pc = "write" /\ owed = 0 /\ Exhausted /\ ~cancelled
  /\ files' = [files EXCEPT ![writing] = File(@.data, digest, @.bytes)]
  /\ run_sizes' = With(run_sizes, writing, accounted)
  /\ runs_created' = runs_created + 1
  /\ IF group = <<>>
       THEN current' = Append(current, writing) /\ pc' = "fill" /\ UNCHANGED following
       ELSE following' = Append(following, writing) /\ pc' = "delete" /\ UNCHANGED current
  /\ writing' = 0 /\ accounted' = 0 /\ digest' = <<>>
  /\ readers' = <<>> /\ heap' = {} /\ emitted' = 0
  /\ UNCHANGED <<quiet, result, bytes, raw_count, buffer, distinct_count, todo, group,
                 owed, merge_passes>>

-----------------------------------------------------------------------------
(* merge and _RunReader                                                    *)

\* _RunReader.__init__: the file opens, its header and its size are right.
Openable(run) ==
  /\ run \in DOMAIN files
  /\ files[run].head # <<>>
  /\ files[run].bytes = HeaderBytes + Payload(files[run].head)

\* A record can be read at the reader's position, within the declared payload.
Readable(run, position) == position <= Len(files[run].data)

\* Open the next reader and prime the heap with its first record.
OpenReader ==
  /\ pc = "open"
  /\ LET index == Len(readers) + 1
         run   == group[index]
     IN  /\ Openable(run) /\ Readable(run, 1)
         /\ readers' = Append(readers, [run |-> run, seen |-> <<files[run].data[1]>>])
         /\ heap' = heap \cup {<<files[run].data[1], index>>}
         /\ IF index < Len(group)
              THEN UNCHANGED pc
              ELSE pc' = IF writing = 0 THEN "drain" ELSE "write"
  /\ UNCHANGED <<quiet, result, fill, write, disk, counters, owed, emitted>>

OpenFails ==
  /\ pc = "open"
  /\ LET run == group[Len(readers) + 1]
     IN  ~(Openable(run) /\ Readable(run, 1)) \/ IOFaults
  /\ RaiseResource

\* Mutant: only the number of records is compared.
VerifiedByCount(r) == Len(r.seen) = Len(files[r.run].head)

\* next(readers[index]): the record count has been reached and the digest of
\* what this reader saw is the digest in the header.
Verified(r) == r.seen = files[r.run].head

AtEnd(r) == Len(r.seen) = Len(files[r.run].head)

Successor ==
  /\ pc \in {"write", "drain"} /\ owed # 0
  /\ LET r == readers[owed]
         position == Len(r.seen) + 1
     IN  IF AtEnd(r)
           THEN Verified(r) /\ UNCHANGED <<readers, heap>>
           ELSE /\ Readable(r.run, position)
                /\ readers' = [readers EXCEPT ![owed] =
                     [run |-> r.run, seen |-> Append(r.seen, files[r.run].data[position])]]
                /\ heap' = heap \cup {<<files[r.run].data[position], owed>>}
  /\ owed' = 0
  /\ UNCHANGED <<quiet, result, fill, write, disk, counters, pc, emitted>>

SuccessorFails ==
  /\ pc \in {"write", "drain"} /\ owed # 0
  /\ LET r == readers[owed]
     IN  \/ AtEnd(r) /\ ~Verified(r)
         \/ ~AtEnd(r) /\ ~Readable(r.run, Len(r.seen) + 1)
         \/ IOFaults
  /\ RaiseResource

-----------------------------------------------------------------------------
(* reduce: merge passes until one merge can read every run                 *)

\* Mutant: a pass is made although one merge could read every run.
NeedsPassEarly == Len(current) >= FanIn

NeedsPass == Len(current) > FanIn

\* Mutant: the slice takes one run too many.
GroupSizePlusOne == IF Len(current) < FanIn + 1 THEN Len(current) ELSE FanIn + 1

GroupSize == IF Len(current) < FanIn THEN Len(current) ELSE FanIn

StartPass ==
  /\ pc = "reduce" /\ NeedsPass
  /\ merge_passes' = merge_passes + 1
  /\ pc' = "pass"
  /\ UNCHANGED <<quiet, result, fill, write, merge, disk, distinct_count,
                 runs_created>>

NextGroup ==
  /\ pc = "pass" /\ current # <<>>
  /\ current' = SubSeq(current, GroupSize + 1, Len(current))
  /\ IF GroupSize = 1
       THEN following' = Append(following, current[1]) /\ UNCHANGED <<group, pc>>
       ELSE group' = SubSeq(current, 1, GroupSize) /\ pc' = "create" /\ UNCHANGED following
  /\ UNCHANGED <<quiet, result, write, merge, disk, counters, raw_count, buffer>>

EndPass ==
  /\ pc = "pass" /\ current = <<>>
  /\ current' = following
  /\ following' = <<>>
  /\ pc' = "reduce"
  /\ UNCHANGED <<quiet, result, write, merge, disk, counters, raw_count, buffer,
                 group>>

\* _runs.pop(run.path, 0)
RunSize(run) == IF run \in DOMAIN run_sizes THEN run_sizes[run] ELSE 0

ReleaseRun(run) ==
  /\ run_sizes' = Without(run_sizes, run)
  /\ live_bytes' = Larger(0, live_bytes - RunSize(run))
  /\ available' = available + RunSize(run)

\* Mutant: the account forgets a run that could not be unlinked.
KeepRunUnaccounted(run) == ReleaseRun(run) /\ UNCHANGED files

\* An unlink that fails leaves the run registered and accounted.
KeepRun(run) == UNCHANGED <<files, run_sizes, live_bytes, available>>

DeleteInput ==
  /\ pc = "delete" /\ group # <<>>
  /\ \/ files' = Without(files, group[1]) /\ ReleaseRun(group[1])
     \/ IOFaults /\ KeepRun(group[1])
  /\ group' = Tail(group)
  /\ pc' = IF Len(group) = 1 THEN "pass" ELSE "delete"
  /\ UNCHANGED <<quiet, result, write, merge, counters, raw_count, buffer, current,
                 following, peak_live_bytes, total_written>>

StartDrain ==
  /\ pc = "reduce" /\ ~NeedsPass
  /\ group' = current
  /\ pc' = "open"
  /\ UNCHANGED <<quiet, result, write, merge, disk, counters, raw_count, buffer,
                 current, following>>

-----------------------------------------------------------------------------
(* The final merge, as the consumer sees it                                *)

Deliver ==
  /\ pc = "drain" /\ owed = 0 /\ heap # {} /\ ~CancelDue(emitted)
  /\ LET edge == Top[1]
         is_distinct == delivered = <<>> \/ edge # delivered[Len(delivered)]
     IN  /\ distinct_count' = IF is_distinct THEN distinct_count + 1 ELSE distinct_count
         /\ IF duplicates = "preserve" \/ is_distinct
              THEN delivered' = Append(delivered, edge) /\ pc' = "yield"
              ELSE UNCHANGED <<delivered, pc>>
  /\ Pop
  /\ UNCHANGED <<quiet, fill, write, disk, outcome, statistics, runs_created,
                 merge_passes>>

DrainCancelled ==
  /\ pc = "drain" /\ owed = 0 /\ cancelled
  /\ heap = {} \/ CancelDue(emitted)
  /\ RaiseCancelled

Complete ==
  /\ pc = "drain" /\ owed = 0 /\ heap = {} /\ ~cancelled
  /\ outcome' = "complete"
  /\ statistics' = <<raw_count, distinct_count>>
  /\ pc' = "finally"
  /\ readers' = <<>> /\ emitted' = 0
  /\ UNCHANGED <<quiet, fill, write, disk, counters, delivered, heap, owed>>

\* The consumer asks for the next edge ...
Resume ==
  /\ pc = "yield"
  /\ pc' = "drain"
  /\ UNCHANGED <<quiet, result, fill, write, merge, disk, counters>>

\* ... or closes (or drops) the iterator: GeneratorExit at the yield.
Close ==
  \/ /\ pc = "yield"
     /\ Raise("closed")
     /\ UNCHANGED disk
  \/ /\ pc = "new"
     /\ pc' = "end" /\ outcome' = "closed"
     /\ UNCHANGED <<quiet, fill, write, merge, disk, counters, delivered, statistics>>

-----------------------------------------------------------------------------
(* cleanup, from the finally block and again at interpreter exit           *)

\* Mutant: only registered runs are unlinked, then an empty directory removed.
RemoveRegistered ==
  /\ run_sizes' = NoRuns
  /\ live_bytes' = 0
  /\ files' = [ x \in DOMAIN files \ DOMAIN run_sizes |-> files[x] ]
  /\ dir' = (DOMAIN files' # {})
  /\ tracked' = dir'
  /\ UNCHANGED removal

\* Registered runs are unlinked and the tree removed; a directory that
\* survives keeps the workspace in the set that the exit hook walks.
RemoveTree ==
  /\ run_sizes' = NoRuns
  /\ live_bytes' = 0
  /\ \/ /\ dir' = FALSE
        /\ files' = NoFiles
        /\ tracked' = FALSE
        /\ UNCHANGED removal
     \/ /\ IOFaults
        /\ \E left \in SUBSET DOMAIN files : files' = [ x \in left |-> files[x] ]
        /\ removal' = "failed"
        /\ UNCHANGED <<dir, tracked>>

Cleanup ==
  /\ pc = "finally"
  /\ RemoveTree
  /\ pc' = "end"
  /\ UNCHANGED <<result, fill, write, merge, counters, input, duplicates,
                 peak_live_bytes, total_written, available, cancelled, damage>>

\* The WeakSet forgets a workspace whose generator frame is collected.
Collect ==
  /\ pc = "end" /\ tracked
  /\ tracked' = FALSE
  /\ UNCHANGED <<result, fill, write, merge, disk, counters, input, duplicates, pc,
                 dir, cancelled, damage, removal>>

\* atexit: _cleanup_workspaces, also while an iterator is still suspended.
AtExit ==
  /\ pc \in {"yield", "end"}
  /\ IF tracked THEN RemoveTree
     ELSE UNCHANGED <<dir, tracked, files, run_sizes, live_bytes, removal>>
  /\ readers' = <<>> /\ heap' = {} /\ owed' = 0
  /\ pc' = "exit"
  /\ UNCHANGED <<result, fill, write, counters, input, duplicates, emitted,
                 peak_live_bytes, total_written, available, cancelled, damage>>

-----------------------------------------------------------------------------
(* The environment                                                         *)

\* Another thread cancels the token.
CancelToken ==
  /\ ~cancelled /\ pc \notin {"finally", "end", "exit"}
  /\ cancelled' = TRUE
  /\ UNCHANGED <<result, fill, write, merge, disk, counters, input, duplicates, pc,
                 dir, tracked, damage, removal>>

\* The disk changes one record of a finished run, or loses its last record.
Damage ==
  /\ damage < MaxDamage /\ pc \notin {"finally", "end", "exit"}
  /\ \E run \in DOMAIN run_sizes, e \in Edges :
       LET data == files[run].data
       IN  /\ data # <<>>
           /\ \/ \E i \in DOMAIN data :
                   /\ RecordBytes[data[i]] = RecordBytes[e]
                   /\ e # data[i]
                   /\ files' = [files EXCEPT ![run] =
                                  File([data EXCEPT ![i] = e], @.head, @.bytes)]
              \/ files' = [files EXCEPT ![run] =
                             File(SubSeq(data, 1, Len(data) - 1), @.head,
                                  @.bytes - RecordBytes[data[Len(data)]])]
  /\ damage' = damage + 1
  /\ UNCHANGED <<result, fill, write, merge, bytes, counters, input, duplicates, pc,
                 dir, tracked, run_sizes, cancelled, removal>>

-----------------------------------------------------------------------------
Init ==
  /\ input \in UNION { [1..n -> Edges] : n \in 0..MaxInput }
  /\ duplicates \in {"preserve", "unique"}
  /\ delivered = <<>> /\ outcome = "none" /\ statistics = <<>>
  /\ pc = "new" /\ raw_count = 0 /\ buffer = <<>> /\ current = <<>> /\ following = <<>>
  /\ distinct_count = 0
  /\ writing = 0 /\ accounted = 0 /\ digest = <<>> /\ todo = <<>>
  /\ group = <<>> /\ readers = <<>> /\ heap = {} /\ owed = 0 /\ emitted = 0
  /\ dir = FALSE /\ files = NoFiles /\ run_sizes = NoRuns
  /\ live_bytes = 0 /\ peak_live_bytes = 0 /\ total_written = 0
  /\ runs_created = 0 /\ merge_passes = 0 /\ available = 0 /\ tracked = FALSE
  /\ cancelled = FALSE /\ damage = 0 /\ removal = "ok"

\* The steps of the generator itself: it never waits for anything but its
\* consumer, who resumes or closes it.
Generator ==
  \/ Start \/ ReadEdge \/ ReadFails \/ ReadCancelled \/ SourceExhausted
  \/ CreateRun \/ CreateFails \/ WriteRecord \/ SkipRecord \/ WriteFails
  \/ WriteCancelled \/ FinishRun \/ OpenReader \/ OpenFails \/ Successor
  \/ SuccessorFails \/ StartPass \/ NextGroup \/ EndPass \/ DeleteInput
  \/ StartDrain \/ Deliver \/ DrainCancelled \/ Complete \/ Resume \/ Close
  \/ Cleanup

Environment == CancelToken \/ Damage \/ Collect \/ AtExit

\* After interpreter exit nothing happens.
Exited == pc = "exit" /\ UNCHANGED vars

Next == Generator \/ Environment \/ Exited

Spec == Init /\ [][Next]_vars

\* A consumer keeps asking until the iterator ends, or drops it.
FairSpec == Spec /\ WF_vars(Generator)

-----------------------------------------------------------------------------
(* Properties                                                              *)

Running == pc \notin {"new", "finally", "end", "exit"}

SumOf(f) ==
  LET sum[S \in SUBSET DOMAIN f] ==
        IF S = {} THEN 0 ELSE LET x == CHOOSE x \in S : TRUE IN f[x] + sum[S \ {x}]
  IN  sum[DOMAIN f]

DiskBytes == SumOf([ f \in DOMAIN files |-> files[f].bytes ])

CallType ==
  /\ input \in Seq(Edges) /\ duplicates \in {"preserve", "unique"}
  /\ delivered \in Seq(Edges)
  /\ outcome \in {"none", "complete", "failed", "cancelled", "closed"}
  /\ statistics = <<>> \/ statistics \in Nat \X Nat
  /\ raw_count \in Nat /\ raw_count <= Len(input) /\ buffer \in Seq(Edges)
  /\ distinct_count \in Nat

RunsType ==
  /\ pc \in {"new", "fill", "create", "write", "open", "delete", "reduce", "pass",
             "drain", "yield", "finally", "end", "exit"}
  /\ current \in Seq(Nat) /\ following \in Seq(Nat) /\ group \in Seq(Nat)

WriteType ==
  /\ writing \in Nat /\ accounted \in Nat /\ runs_created \in Nat /\ merge_passes \in Nat
  /\ digest \in Seq(Edges) /\ todo \in Seq(Edges)

MergeType ==
  /\ readers \in Seq([run : Nat, seen : Seq(Edges)])
  /\ heap \subseteq Edges \X Nat
  /\ owed \in Nat /\ emitted \in Nat

FileRecord == [data : Seq(Edges), head : Seq(Edges), bytes : Int]

FilesType ==
  /\ DOMAIN files \subseteq Nat
  /\ \A f \in DOMAIN files : files[f] \in FileRecord
  /\ \A f \in DOMAIN run_sizes : run_sizes[f] \in Nat

BytesType ==
  /\ live_bytes \in Nat /\ peak_live_bytes \in Nat /\ total_written \in Nat
  /\ available \in Nat

EnvironmentType ==
  /\ dir \in BOOLEAN /\ tracked \in BOOLEAN /\ cancelled \in BOOLEAN
  /\ removal \in {"ok", "failed", "skipped"} /\ damage \in Nat /\ damage <= MaxDamage

\* Type correctness of the call, the generator frame, the workspace and its
\* files.
TypeOK ==
  /\ CallType /\ RunsType /\ WriteType /\ MergeType
  /\ FilesType /\ BytesType /\ EnvironmentType

\* StreamingLimits: live bytes stay within max_temporary_bytes and all bytes
\* written within max_spill_bytes, merge passes and abandoned files included,
\* and the reported peak bounds what was ever live.
WithinByteLimits ==
  /\ Within(live_bytes, MaxTemporaryBytes)
  /\ Within(peak_live_bytes, MaxTemporaryBytes)
  /\ Within(total_written, MaxSpillBytes)
  /\ live_bytes <= peak_live_bytes /\ peak_live_bytes <= total_written

\* The bytes really on disk never pass max_temporary_bytes, in no state: not
\* after a failed unlink, a cancelled write or a failed cleanup either.
DiskWithinLimit == Within(DiskBytes, MaxTemporaryBytes)

\* merge opens at most fan_in readers beside the one run being written, so
\* max_open_files is never exceeded.
OpenFilesBounded == OpenFiles <= MaxOpenFiles

\* BufferEdges * FanIn^k: what a run can hold after k passes.
RunCapacity(k) ==
  LET capacity[i \in 0..k] == IF i = 0 THEN BufferEdges ELSE FanIn * capacity[i - 1]
  IN  capacity[k]

\* reduce does the least number of passes: k passes are made exactly when one
\* merge can read n edges in runs of pass k, but not in runs of pass k - 1.
MinimalPasses ==
  pc \in {"drain", "yield"} =>
    /\ raw_count <= RunCapacity(merge_passes + 1)
    /\ merge_passes > 0 => raw_count > RunCapacity(merge_passes)

\* Closing, exhausting, failing, cancelling: whichever way the iterator ends,
\* no file, directory or open handle of it survives, unless removing the tree
\* itself failed or the constructor gave up on its directory.
NothingLeftBehind ==
  pc \in {"end", "exit"} =>
    /\ OpenFiles = 0
    /\ removal = "ok" => ~dir /\ DOMAIN files = {}
    /\ DOMAIN files # {} => dir

\* Every iterator that is consumed, closed or dropped comes to its end.
Terminates == <>(pc \in {"end", "exit"})

=============================================================================
