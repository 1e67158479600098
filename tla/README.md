# A TLA+ verification project for pyOwl2Vec-Star-projector

The program projects an ontology view onto a stream of labelled edges. Python code
(`src/src/pyowl2vec_star_projector/`) validates the view, chooses a compiler, applies the output policy
(order, duplicates) under resource limits, and writes reports and artifacts; a Rust extension
(`src/native/src/`) can compile encoded views natively. Two things are hard about it. One is what surrounds the
edge rules: lazy generators that may be abandoned at any yield, an external sort with exact byte accounting, a
SQLite-backed index, one `Projector` object shared by threads, two copies of a mutable role map, and native sessions
that are cancelled from other threads. The other is the native compiler itself: it validates flat column tables,
merges several of them by their canonical bytes, announces every counter before the first edge exists, and produces
the edges in restartable batches from cursors, while promising exactly the edges of a plain traversal.

## 1. Inventory

| Component | Source | State | Operations | Hard behaviour |
|---|---|---|---|---|
| External sort (`order="canonical"`) | `streaming.py`: `_iter_canonical`, `_SpillWorkspace`, `_RunReader` | buffer, runs on disk, byte account, heap and readers, free-space estimate | fill, write run, merge pass, delete, final merge, cleanup | failure of any call at any point, limits, cancellation between any two records, late checksum verification, cleanup that fails |
| Encounter streaming (`order="encounter"`) | `streaming.py`: `_iter_encounter`, `_DistinctIndex` | memory set, SQLite table and file, counts | add, spill, insert, measure, close | the move from memory to disk, limits looked at only now and then, exceptions inside `finally` |
| Projector calls | `api.py`: `Projector` | scala lock, role maps (Python and native), `last_*` fields, invocation count | generate, taxonomy, sink, report | concurrent calls, fallback between compilers, abandoned iterators |
| Native session | `native/src/lib.rs`: `EncodedDirectCompiler`, `DirectBatchOutput`, `RetainedRoleState`; `native.py` | session state, batch output, role claim | prepare, compile, next batch, close, cancel | cancel from another thread while Rust runs without the GIL, one-shot transitions, error restore |
| Edge engine | `native/src/lib.rs`: `EdgeEngine`, `EdgeBatchProcessor` | seen set, canonical vector, counts, flags | push, finish, drain, cancel | failure in the middle of a batch, batch boundaries |
| Artifact writer | `artifact.py` | temporary payload, destination, digest | collect, write, replace, verify | partial writes, atomic replacement, limits over payload and spill files |
| Compiler | `compiler.py` | role maps, statistics, diagnostics | edge rules, role preparation, traversal | order dependence, 32-bit Java hash order |
| Encoded views | `encoded.py`, `encoded_compiler.py` | leases, segments, cursors | negotiate, retain, release, compile | lifetime of leases, canonical merge of segments |
| Native direct compiler | `native/src/encoded_direct.rs` | column tables, walk stacks and colours, root plan, role state in hash order, merge cursors and budget, emission cursor, owned deltas | validate, plan, merge, prepare (one table or a composite), next batch, commit | cycles against sharing, byte order across tables, scope maps, counts announced before the edges, a batch given up half-way |
| Backend selection, conformance, provenance | `backend.py`, `conformance.py`, `provenance.py` | warn-once flag | select, validate, digest | shared flag |

How they interact: a `Projector` method returns a generator (`generate` in `_iter_view`). When its first edge is
asked for, it takes the scala lock if it is stateful, negotiates a compiler, prepares role maps, and feeds the raw
edges of that compiler into `iter_edge_policy`, which is one of the two streaming components. When the policy
iterator is exhausted a report is published in `last_report`, from where the calling method reads it. A native
compilation is a session in Rust from which batches are pulled; it is closed by whoever ends the stream.

What makes the parts correct:

- streaming: the consumer gets exactly what the in-memory reference policy (`iter_projected_edges`) gives, or a
  prefix of it and an exception; limits hold at every step; nothing is left on disk however the iterator ends;
- calls: stateful calls exclude one another and hand their role maps on without loss; a caller gets its own report;
- native session: an edge is emitted at most once, a cancelled session emits nothing more, a role claim is always
  returned;
- artifact: the destination is either the old or the complete new artifact;
- compilers: a table is accepted exactly when it is well-formed; the edges of a composite are those of the one table
  that holds every selected root once, in order, with exact counters and exact refusals.

## 2. Plan

1. `SpillSort` with `EdgeStream`, the promise of every edge iterator (done, with proofs).
2. `EncounterIndex`, the second implementation of `EdgeStream` (done).
3. `ProjectorCalls`, concurrent calls on one Projector (done, with proofs).
4. `NativeSession`: session states, cancellation, `next_batch` with its take-and-restore of the stream, role claims
   (done, with proofs), and `NativePolicy`, the edge engine as the third implementation of `EdgeStream` (done).
5. The native direct compiler, from the table up (done): `DirectColumns`, `NodeGrammar`, `TableValidation`; `RoleRules`,
   `RootPlan`; `CanonicalBytes`, `CanonicalMerge`; `DirectPreparation`, `CompositePreparation`, `DirectEmission`; and
   `ClosureProjection`, the promise the emission is compared with.
6. The refinements of `EdgeStream` and the invariants of the Python components and of the native session as theorems
   (done for all three iterators, section 6), and the walks and the columns of the preflight (done).
7. Left: `prepare_two_table_batches_uncommitted`; `Artifact` (payload limits, replacement of the
   destination); the leases of the encoded views.

Abstract specifications: `EdgeStream` for the iterators, `OwlSignature` for the tables, `ClosureProjection` for the
native compiler.

## 3. Modules

### EdgeOrder and EdgeStream
`EdgeOrder` is selecting and sorting: the edges at some places of a sequence (`Picked`), and the ascending
rearrangement (`Sorted`), which says which edge is at the k-th place by counting the smaller ones. `EdgeStream` is
what an edge iterator promises, from `iter_projected_edges` in `compiler.py`: edges of `Reference(input,
duplicates)` in order (`Yield`), statistics only at the end (`Exhaust`), an early stop at any time (`Stop`). An
edge is the rank of its canonical key: the key is injective, so a number stands for the whole edge.

### SpillSort
One generator of `_iter_canonical`. `pc` names the place in the code:

| `pc` | Code | Actions |
|---|---|---|
| `new` | `_SpillWorkspace.__init__` | `Start`, `Close` |
| `fill` | the loop over the source | `ReadEdge`, `ReadFails`, `ReadCancelled`, `SourceExhausted` |
| `create`, `write` | `_write_run` with `_grow` | `CreateRun`, `CreateFails`, `WriteRecord`, `SkipRecord` (`_coalesce_sorted`), `WriteFails`, `WriteCancelled`, `FinishRun` |
| `open` | `merge` opens its readers and primes the heap | `OpenReader`, `OpenFails` |
| `write`/`drain` with `owed # 0` | `next(readers[index])` after a yield of `merge` | `Successor`, `SuccessorFails` |
| `reduce`, `pass`, `delete` | `reduce`, `write_merged_run`, `delete` | `StartPass`, `NextGroup`, `EndPass`, `DeleteInput`, `StartDrain` |
| `drain`, `yield` | the final merge | `Deliver`, `DrainCancelled`, `Complete`, `Resume`, `Close` |
| `finally`, `end`, `exit` | `cleanup`, the weak set, `atexit` | `Cleanup`, `Collect`, `AtExit` |

A file holds its records (`data`), the sequence its header vouches for (`head`, what the SHA-256 digest stands for)
and its size. `_grow` is `Grow`/`GrowRefused`; an exception is `RaiseResource` (the partial run is forgotten) or
`RaiseCancelled` (no handler of `_write_run` catches the token's exception). The environment cancels the token
(`CancelToken`), damages finished runs (`Damage`), and fails any operating-system call when `IOFaults`. Left out:
the bytes of records other than their number, wording of errors, permissions.

### EncounterIndex
One generator of `_iter_encounter`. SQLite is external: a table is a set of keys and its file has some size between
what it had and what all keys need, because uncommitted pages stay in the cache. `owner` says who still knows the
workspace: the index, only the frame of a failed `_spill`, or nobody. `Finally` is the whole `finally` block,
including a measurement that raises and replaces the result.

### ProjectorCalls
Any number of calls on one Projector. Each call is at a place of `generate` (`pc`), ends in some way (`ended`), may
have a native session, and remembers the role state it compiled with (`used`). A role state is the sequence of
calls whose role axioms were applied, since the maps are a function of that sequence. Backend selection and
negotiation are a choice (`SelectScalar`, `SelectNative`); `NativeCompile` is `compile_batches`, which commits the
native maps, `NativeAccept` the snapshot into the scalar shadow, `NativeReject` the whole-call fallback after it,
`PrepareFails` an exception in between. `Drop` is the moment a frame is cleared: only then does a policy iterator
that was closed from outside run its own `finally`, and `__del__` close a session nobody closed.
`last_encoded_counters` is left out: `prepare_encoded_subset_compilation` is always reached with a scalar
negotiation, so the field is always `None`.

### NativeSession
Threads that use one-shot `EncodedDirectCompiler`s and one shared `RetainedRoleState`. What is one step is decided
by the GIL: Rust code that holds it is atomic; it is given up in `py.detach` (preparation, generation of a batch)
and wherever Python code can run (construction of result objects with their probes and finalizers). `gil` names a
thread that blocks on the role mutex without giving the GIL up (`ReadRoles`): then only detached threads move.

| `pc` | Code | Actions |
|---|---|---|
| `idle` | outside | `Begin`, `BeginBusy` (role state in use), `BeginUnplanned`, `NextBatch`, `NextUnplanned` (the composite plan cannot be allocated), `ReadRoles` |
| `prepare` | detached part of `prepare_batches_owned` / `compile_batch`, role mutex held | `Prepare`, `CompileFails` |
| `chunk` | the chunk loop of the coarse `compile_batch` | `AppendChunk`, `LastChunk`, `CompileFails` |
| `construct` | statistics and iterator objects | `Publish`, `PublishCancelled`, `CompileFails` |
| `failing` | an error on its way to `finish_result` | `Fail` |
| `drain`, `build` | `next_batch` after it took the stream: generation, final tuple | `Drain`, `DrainFails`, `Commit`, `Discard` |
| `restore` | its error path | `Restore` |
| `post` | `__next__` after the native call | `CountBatch` |
| `read` | waits for the role mutex | `ReadReturns` |

`Close`, `Cancel` and `StopEmpty` may come from any thread. The edges of a compilation are the numbers 1..n and a
cursor is how many were emitted; `handed` is what callers received. A role state is the sequence of compilers applied
to it. One iterator has one consumer (as the generators of `native.py` use it). Left out: peak and boundary-call
counters, and panics: one that poisons a mutex (the code then refuses every later use of that object), and one that
`guarded` contains in `next_batch` (`lib.rs:2554`) after the stream was taken. The stream is then gone for good; the
retry that `FailedDrainsRetryable` promises is one after an error, which is what `DrainFails` stands for.

### NativePolicy
`iter_native_policy` over one `EdgeEngine`, and `iter_native_passthrough` with an engine per batch (`passthrough`).
`order`, `duplicates` and `passthrough` are chosen once, in `Init`, as the caller chooses them.
The engine is a record of its fields; `Finished` sorts and reverses, `Popped` takes from the end, as the code does.
A failure anywhere (source, allocation, panic) and `close()` lead to the `finally` block (`Abandon`). The engine's
own `max_edges` is left out: these generators never set it.

### The native direct compiler
Modules of operators for the pure parts, and one small state machine for each loop that can be interrupted,
charged or cancelled.

| Module | Code (`encoded_direct.rs`) | Content |
|---|---|---|
| `DirectColumns` | `DirectColumns`, `validate_generic` | the eleven columns, field and item access, root postings, scope maps, the cursors that must cover every column without gap or overlap |
| `NodeGrammar` | the `validate_*` methods and the tag classes | one verdict per constructor, checks in the order of the code |
| `TableValidation` | `validate_supported_nodes` and the three graph walks | the preflight as a machine: stage, colours, stack of enter/exit events, work |
| `RoleRules` | hashes, `role_axiom_row`, `RoleState`, the heap sort | 32-bit Java hash codes as two halves, the iteration order of a Java `HashSet`, the role maps that order gives |
| `RootPlan` | `ROOT_RULES`, `classify`, `plan_root_shape`, `plan_equivalent_shape`, `populate_selected_root_rule_plan` | the rule of every root, its planned shape, operands of aggregates in shared arenas |
| `CanonicalBytes` | `mod canonical_merge`: components, lengths, `CanonicalByteCursor`, `structurally_equal_node` | the encoding as the cursor spells it, byte by byte |
| `CanonicalMerge` | `CanonicalBudget`, `CanonicalTable::build`, `CanonicalKWayRootMerger` | the merge as a machine: length walk, order check, for a mapped table once more built without its maps (`BuildOriginal`), groups, anonymous positions; every step charged to the budget, cancellable |
| `DirectPreparation` | `prepare_direct` and the counting methods | edge counts and statistics from the plan, anonymous identifiers, ROOT annotations |
| `CompositePreparation` | `prepare_dynamic_composite_batches_with_root_uncommitted`, `own_composite_tail_projection`, the local domain/range index | members, ROOT tables and scope-mapped members; tail roots as deltas with an insertion position |
| `DirectEmission` | `DirectEmissionCursor::next_edge`, `PendingExpansion`, `PreparedDirectBatches` | the emission as a machine: one `Iterate` per round of the loop, `StartBatch` copies the cursor, `CommitBatch` replaces it, `GiveUpBatch` drops it |

A table is a record of columns; node numbers are one-based and offsets zero-based, as in the code. An arena cell is one
letter of `Alphabet` and stands for one byte, its place in the alphabet; a code unit of an IRI in `RoleRules` is the
number `CodeUnits` gives it, so that the hash arithmetic overflows as it does in the program. A verdict is `"ok"` or the
kind of `KernelError` (`malformed`, `unsupported`, `resource`, `cancelled`, `reference_failure`), without its wording.
UTF-8 validity is a predicate on cells.

`OwlSignature` states the grammar a second time as one table of signatures, and `ClosureProjection` the projection a
second time on the single table that holds the closure: no plan, arena, cursor, delta or insertion position, roles
read off the ordered rows instead of being built up, identifiers by position. Both are references; shapes of single
axioms, the hash of a row and the per-constructor counters are shared with the model. `SampleTables` and `TermTables`
build tables for TLC, by mutation of well-formed ones or from terms in canonical order.

### MC modules and proofs
`MCSpillSort`, `MCEncounterIndex` and `MCNativePolicy` give record sizes and the refinement (`Promise == INSTANCE EdgeStream`). In
the encounter case `statistics` counts only for a completed stream, because `_report` is not reached otherwise.
`MCProjectorCalls` joins two calls of every kind with three stateful ones, `MCTableValidation`, `MCCanonicalMerge` and
`MCClosureProjection` list the tables and jobs of their runs. `NativeSession` is checked directly.

| Proof module | About | Theorems |
|---|---|---|
| `SequenceLemmas` | `EdgeOrder`, prefixes | `SortedExact`, and the lemmas the others share |
| `SpillSortProofs` | `SpillSort` | types, byte limits, open files, nothing left behind; bytes really on disk; the number of merge passes |
| `SpillOrderProofs` | `MCSpillSort` | what completes is exact, damage or not; without damage, refinement of `EdgeStream` |
| `EncounterIndexProofs` | `MCEncounterIndex` | exact membership, release, refinement of `EdgeStream` |
| `TableValidationProofs` | `TableValidation` | walks reject exactly the cycles, and their work is bounded; accepted columns are partitioned |
| `NativePolicyProofs` | `MCNativePolicy` | cleared engine, exact passthrough, refinement of `EdgeStream` |
| `ProjectorCallsProofs` | `ProjectorCalls` | exclusion, role maps, order, reports, sessions |
| `NativeSessionProofs` | `NativeSession` | claim, role maps, exact delivery, failures, retries, cancellation |

## 4. Runs

| Run | Bounds | What it shows |
|---|---|---|
| `spill_reference` | 3 edges, up to 6 raw edges (5 allowed), buffer of 1, fan-in 2: up to 5 runs and 2 passes, odd groups included | refinement of `EdgeStream`, fewest passes, termination |
| `spill_faults` | 3 edges of two sizes, up to 4 raw edges, buffer of 1, byte limits that fall inside a first and a second merge, free space of 1 or 2 bytes at every look, every call may fail, one record altered or lost at any time | limits in memory and on disk, open files, nothing left behind, a completed stream was exact |
| `encounter` | 4 edges (one cannot be encoded), up to 5 raw edges, one key in memory, size checked every 2 keys, limit between 2 and 3 keys | exact membership, refinement, release of the index |
| `calls` | 2 calls of every mode and kind, or 3 stateful calls, fair threads | exclusion, reports, sessions, the lock is given up; role maps handed on in order and never cut back |
| `calls_report` | 2 isolated calls | finding: another call's report |
| `session` | 3 threads, 2 compilers (one with composite members) on one role state, 0 or 3 edges, batches and chunks of 2 (one full, one partial), fair threads | exact delivery through failed, retried and overtaken drains, nothing published by failures, claim and role maps, finality of cancellation; failed drains of direct sessions can be repeated; every call returns although readers hold the GIL |
| `session_retry` | 1 thread, 1 compiler with composite members | finding: a stream lost by a failed plan |
| `policy` | 3 edges, up to 5 raw edges, batches of 2, both orders, both duplicate policies, and the passthrough | refinement of `EdgeStream`, nothing left in an abandoned engine; a passthrough leaves raw edges unchanged, delivers the first before the second is read and holds one bounded batch at a time |
| `tables` | some 5000 tables: every constructor with each of its fields replaced by every other kind, all graphs of three nested annotations, class expressions or data ranges, single cells of every column changed, root selections; cancelled anywhere | `CyclesExact`, `GenericPartition`, `NodesExact`, `WorkBounded`: accepted exactly when well-formed by `OwlSignature` and acyclic, each node entered once, columns partitioned |
| `canonical` | 18 merges of two to four tables: overlap, postings, scope maps that keep or change the order, damaged order, cycles, workspace that suffices exactly and by one byte not, limits exceeded in each phase | `CursorsSpell`, `WorkspaceExact`, `VerdictExact`, `ResultExact`, `BytesDecideStructure` |
| `compile` | 25 jobs: one table or up to three members with ROOT tables and scope maps, all option modes, retained roles, tight edge limits, refused closures; batches of 2 and 5, one batch given up anywhere | `OutputExact`, `StatisticsExact`, `RefusalExact` against `ClosureProjection` |
| `scopes` | one closure with two mapped members | finding: an identifier outside the closure's numbering |

The bounds let every interesting case happen: several passes with a single left-over run, limits that fall inside a
merge before and after files were deleted, a spill at the second distinct edge with hits and misses on both sides, three
stateful calls so that a native, a scalar and a failed one can follow each other in every order; three threads so that
one prepares, one drains and one closes, cancels or reads at the same time. Three nodes are enough for the walks: a
cycle through a sibling, a shared child under two parents and a node queued twice all fit, and the walk never looks
further than one edge. The jobs of `compile` contain every root rule, every shape of subclass and equivalence, a
property with several domains and ranges, roles with sub-roles and inverses, and roots of later members that fall
before, between and after those of the base. Their number, not their size, is what TLC's time limits; a hidden
dependence on larger tables (say, more than three members) would not be seen.

Fairness: `SpillSort.FairSpec` assumes that the generator is run, that is, its consumer keeps asking or drops it;
nothing else is waited for. `ProjectorCalls.FairSpec` assumes only that a thread inside a call goes on; nobody has
to start a call, and a consumer may hold an unfinished iterator for ever, which is why `LockReleased` exempts that
place. `NativeSession.FairSpec` assumes that a thread inside a native call runs on when it can (weak fairness of
`Continue(t)`); a thread that waits for the GIL gets it, since the interpreter's switching is fair to waiters and the
holder either returns, detaches or waits for a mutex whose owner is detached. Nobody has to make a call. The modules
of the native compiler state no fairness: their loops are bounded by counters that `WorkBounded` and `OutputExact`
check, and any of them may be abandoned, which is also why those configurations switch the deadlock check off.

## 5. Findings

- `calls_report`: concurrent isolated calls may receive each other's report, or an error (`api.py:135`).
- `session_retry`: `next_batch` takes the stream and then builds the composite plan with `?`; when that allocation
  fails the stream is gone and the session answers "already draining" for ever (`lib.rs:2608`).

- `scopes`: a tail fact of a scope-mapped member is named by the rank of the member among all mapped members, also
  those whose individual is only in a rule or an ontology annotation; such individuals are not in the numbering of the
  closure's axioms, so the edge carries an identifier that nothing else in the closure has (`encoded_direct.rs:12013`,
  positions from line 13194; a member in a generic group, and the scalar compiler, use the closure-wide position).

## 6. Proofs

All assumptions are those of the modules: `SpillAssumption` (what `StreamingLimits.__post_init__` enforces, positive
record and header sizes), `EncounterAssumption` and `PolicyAssumption` (edges are ranks, positive buffers, intervals
and batches), `TableAssumption` (a table is a view of typed arrays: offsets, values and lengths are unsigned, tags and
kinds are codes; nothing else is assumed of a table), `ProjectorAssumption` (`None` is not a call nor a role state, a call is not one of the words `received`
may hold) and `SessionAssumption` (positive batch sizes and a `None` that is nothing else).

**The external sort.** `SpillSortProofs`: `TypeCorrect`, `ByteLimits`, `OpenFilesLimit`, `NothingSurvives`. The byte
limits are not inductive alone: `_grow` adds the size of the record that the merge offers next, whose type rests on the
heap, the heap on the readers and the readers on the files of the group being merged. `Inv` adds `GroupFrame` (a group
never exceeds the fan-in, which also bounds the open files), `ReaderFrame` (readers and heap entries refer to existing
files and readers) and `PlaceFrame` (a directory in use is known to the `finally` block or the exit hook, which gives
`NothingSurvives`). One lemma per part of the type invariant and per frame, one step per action, then `Inductive` and
`Invariance`.

The same module: `DiskLimit`, that the bytes really on disk stay within the limit. They are not the account: damage
shrinks a file, a failed unlink keeps one that the account has forgotten, a write that was cancelled is never taken
off. Every file gets an allowance, what `_grow` has accounted for it. While the sort runs, `live_bytes` is the sum of
the allowances and no file outgrows its own (`AccountFrame`); afterwards nothing grows (`Budgeted`). The lemmas on sums
over finite functions (`SumWithout`, `SumSubset` and others) come first.

The same module: `FewestPasses`, that the final merge begins after exactly as many passes as the input needs. `PassInv`
counts the runs, phase by phase. A run of pass k holds at most `RunCapacity(k)` edges, and between two passes there are as
many runs as the input needs of that size: one run less could not hold it (`Needs`). While the buffer is being filled the
last run alone may be short (`FillCount`); within a pass all groups taken so far had as many runs as the fan-in,
except for the last (`PassCount`), so the runs made are again as many as needed (`PassArithmetic`). The step to
`DrainCount` uses both sides of `reduce`'s condition: at most fan-in runs are left, and after a pass at least two.

`SpillOrderProofs`: `CompletesExact`, that a stream which completes has delivered the reference result and its
statistics, for every buffer size, fan-in and number of passes, and with any amount of damage. The argument counts.
Every edge read is in the buffer, in what is still to be written of it, in the run being written or in what the header
of a live run vouches for, equally often, or up to duplicates where they are coalesced (`Content`, over the live runs
that `RunsFrame` keeps apart; `Tally` counts an edge in a family of sequences). What came out of a merge is what its
readers have passed on (`MergeContent`), and each reader either has its last record in the heap, or owes the next one,
or has compared all it saw with its header (`HeapFrame`). What came out ascends provided that what the readers
saw does (`MergeOrder`): during a merge damage may make that false, but once the heap is empty every reader has
been verified against a header that ascends (`MergeDone`, `RunsOrder`). An ascending sequence with the edges of the input
is the reference (`ReferenceMet`, from `AscendsUnique`). `OrderInv` is the conjunction, inductive relative to `Inv`.

The same module: `SpillRefines`, that without damage (`MaxDamage = 0`) every step of the sort is one of `EdgeStream`. What
is missing for that is the middle of the final merge: that what was delivered so far is the start of the reference. The
readers have seen starts of the runs they read (`Faithful`), so what came out ascends at once and not only in the end; every
edge still to come is no earlier than the last one delivered, because it is in a reader's run behind its latest record
(`StillToCome`); and an ascending sequence whose elements another has as often, apart from later ones, is a start of it
(`StartsByCounts`, hence `InStep`). The theorem excludes damage because it has to: a damaged record may be delivered before the
digest of its run is compared. Then only `CompletesExact` holds.

**The encounter index.** `EncounterIndexProofs`: `IndexExact`, `DirectoryReleased` and `EncounterRefines`, that
`Spec` implements `EdgeStream`. `Inv` says that memory and table together hold what was met, that the number of distinct
edges is the number of first encounters so far, and that what was delivered is the selection up to the current place;
a new edge then is the next of the reference (`NextEncounter`). Every action maps to a `Yield`, an `Exhaust`, a `Stop` or
a stutter (`StepSeen`).

**The edge engine.** `NativePolicyProofs`: `EngineCleared`, `PassthroughExact` and `PolicyRefines`, in both orders and
with both duplicate policies. The argument goes along the batches: what was delivered and is held, or in canonical order
what the engine collects, is the selection of what was pushed (`Progress`), and a batch adds its own selection behind
it (`PushSelection`, from `PickedConcat`), because the edges the engine has seen are those met there. After `finish` the
vector read from its end is what is still to come of the reference (`StepFinish`, `PoppedFirst`). For the exact counts, a
batch adds as many edges to the set as it has that are new (`PushCounts`).

**Calls.** `ProjectorCallsProofs`: `TypeCorrect`, `MutualExclusion`, `RoleHistory`, `InvocationOrder`, `ReportsNotStale`,
`NoSessionLeft`. The shadow only grows because as long as the native copy is in use the shadow is a prefix of it
(`ShadowPrefix`), a stateful call that chose the native compiler finds that copy in use until it is done (`NativeChosen`,
which needs exclusion), and before there is a copy no stateful call was compiled (`ShadowEmpty`). The order of the calls
needs in addition that what a numbered call compiled with still begins the shadow (`NumberFrame`), and that a call
between compilation and number has added exactly itself (`CompileFrame`). Reports: `last_report` is the last
publication, and who is about to read it has published (`ReportFrame`).

**Native sessions.** `NativeSessionProofs`: `TypeCorrect`, `ClaimExclusive`, `RolesNeverLost`, `DeliveredOnce`,
`FailuresLeaveNothing`, `FailedDrainsRetryable`, `CancellationFinal`, for any number of threads, compilers and edges.
`ClaimOwned` is inductive by itself. The role maps only grow because the copy a claimed compilation started from is
still what the role state holds (`BaseCurrent`). Exact delivery needs to know where the cursor of a session is: a
waiting stream belongs to an active session and has edges left (`StreamFrame`); otherwise exactly one thread has it,
with the number of edges handed out as its value (`DrainFrame`); and nothing of a compiler is visible before it has
finished (`AbsentFrame`), so that publication starts from zero. `SettledFrame` says what is visible of a compiler that was
cancelled. One lemma per conjunct, one step per action or per group of actions that leave the conjunct's variables
alone.

**The walks of the preflight.** `TableValidationProofs`: `WalksExact` and `WalksBounded`, for every table, however damaged. `SearchInv`
says of a walk that the entered nodes are those of the exit events, one event for each (`Entered`); that every event but
the first is for a child of the nearest exit event under it (`Path`), so that a reference to an entered node closes a
cycle (`RejectedCyclic`); that the children of a node that was left were left before it (`Complete`), so that the nodes
that were left have no cycle (`LeftAcyclic`), nor has the walk once it ends (`EndedAcyclic`); and that every event was paid
for, once, by a start, an entered node or one of its references (`WorkPaid`). That no reference at all is on a
cycle needs the grammar as well: the checks of the nodes, all forty of them, make every reference that is on no
walk go down to a lower kind of constructor (`Height`, `Descent`), so the lowest nodes of a cycle are on one walk
(`NoCycleAtAll`). "Acyclic" is what TLC evaluates, taking away nodes without successors (`NoCycle`); the proof works with
sets that have no sink (`SinksPeel`, `SinklessKept`).

**The columns of a checked table.** `ColumnsPartition`, in the same module: `validate_generic` never looks at two fields
together, it moves an item cursor and a byte cursor over them, yet afterwards every field belongs to one node, every item to
one collection and every byte to one scalar, and every reference is to a node, which is what the accessors of
`DirectColumns` rely on. The proof reads the loop off the check as a run of both cursors (`FieldRun`, from `HalvingPath` and
`ScanChosen`: the recursions are defined and yield what a loop computes), with one step per field (`FieldStep`) and one per
item of a collection (`ItemRun`). A cursor that climbs cuts what it passes (`CutsIntoParts`); nodes, collections and scalars
are three uses of that lemma, the last one twice: the fields cut the arena, and the items of a collection cut the bytes
of their field (`SharesOut`).

**Sorting.** `SortedExact` in `SequenceLemmas`: `Sorted` yields an ascending sequence with every edge as often as before,
so the canonical order of the promise is what it is called. `EdgeOrder` defines selection and sorting by counting
places, which the prover can expand, where the operators of the community modules recurse.

Induction over data is not available to these provers. Where a fact needs induction over a number (counts, sums, the
place of a selected edge), it is proved by the smallest counterexample, which `NatMinimum` provides.

Only model-checked: liveness (`Terminates`, `LockReleased`, `CallsReturn`), and the rest of the native compiler: `NodesExact`
and the properties of the canonical merge and of the compiler compare two recursive readings of a whole table, which needs
induction over data.

## 7. Known disagreements without a run, and what is not modelled

In the model, but forbidden by no property because the code does it:

- `chmod` fails after `mkdtemp` and the directory stays with nobody (`streaming.py:140`); `NothingLeftBehind` speaks of
  registered workspaces.
- `_spill` keeps its workspace in a local variable and cleans up only for `OSError` and `sqlite3.Error`, so a key that
  `_encode_edge` refuses leaves the directory to nobody (`streaming.py:560`, `SpillAbandons`). `IndexReleased` therefore
  speaks of indexes that came into use.
- The index file is measured only every `cancellation_check_interval` keys and may pass its limit in between
  (`streaming.py:507`).
- Cancellation right after `compile_batches` leaves the native role maps ahead of the scalar shadow
  (`native.py:1448`), so the edges of the next stateful call can depend on its backend.

Not modelled:

- `prepare_two_table_batches_uncommitted` (`encoded_direct.rs:13916-15005`), the older path for a base and one overlay:
  it repeats the composite preparation with rules of its own.
- `LocalOverlayWorkspace`, the byte account of owned deltas: a pure upper bound on allocations, checked in the code by a
  single comparison per allocation.
- Which classes select annotations differs between the two preparations: one table asks all its nodes, a composite
  those reachable from its representatives. Both are modelled as they are; the jobs keep only reachable nodes, as the
  encoder does, so the difference is not visible in `compile`.
- In `CanonicalMerge`, the finer part of the work account. A step of the walk, of the order check or of a cursor costs
  one unit (and one per child); the length of a scalar that is read again, the fields passed between two sets and the
  postings passed are not added. The merge of the groups compares its roots in one step and charges a unit per open
  table, without the bytes compared and without growth of the cursors there, so a limit is met somewhat later than in
  the code. Which phase exceeds it, that a refused merge is dropped whole and that every claim has its release are in the
  model; no property says how much work a merge takes. Allocations get exactly the capacity they ask for.
- In `CanonicalBytes.Component`, the checks of UTF-8, enum and minimal integer of `canonical_component`: the preflight
  has made them for every table of a merge (`encoded_direct.rs:13106-13130`).
- `ProjectorCalls` over `NativeSession`: the two are checked apart, joined by what `NativeSession` guarantees.
- Artifacts, encoded views and leases, backend selection, the Python compiler itself (its rules appear through their
  Rust form). They are file-system or buffer-protocol work around the modelled parts.
- Formatting of errors and reports, digests and provenance records, packaging, benchmarks and release evidence, which
  have no state of their own.
