---------------------------- MODULE NativeSession -----------------------------
(***************************************************************************)
(* Native compilation sessions: EncodedDirectCompiler, DirectBatchOutput   *)
(* and RetainedRoleState of native/src/lib.rs, with the Python iterator    *)
(* that drains a session (native.py, NativeEncodedDirectBatchIterator).    *)
(*                                                                         *)
(* Threads call one-shot compilers which may share one retained role       *)
(* state.  Rust code that holds the GIL is one step; it gives the GIL up   *)
(* when it detaches (preparation, the generation of a batch) and wherever  *)
(* Python code can run (the construction of result objects, with probes    *)
(* and finalizers).  A thread that blocks on the role mutex keeps the GIL, *)
(* and then only detached threads run.                                     *)
(*                                                                         *)
(* The edges of a compilation are 1..n and its cursor is the number of     *)
(* edges emitted.  The role maps are a function of the compilations        *)
(* applied to them, so a role state is a sequence of compilers.            *)
(***************************************************************************)
EXTENDS Integers, Sequences, FiniteSets, SequencesExt

CONSTANTS
  Threads, Compilers,
  Stateful,      \* compilers that are called with the shared role state
  Asserted,      \* compilers called with asserted_taxonomy_only
  Composite,     \* compilers with composite members: building their plan allocates
  Counts,        \* possible numbers of edges of a compilation
  Batch, Chunk,  \* batch_edges, COARSE_OUTPUT_CHUNK_EDGES
  Nothing        \* None

ASSUME SessionAssumption ==
  /\ Stateful \cup Asserted \cup Composite \subseteq Compilers
  /\ Counts \subseteq Nat /\ {Batch, Chunk} \subseteq Nat \ {0}
  /\ Nothing \notin Nat \cup Threads \cup Compilers

VARIABLES
  state,                                    \* EncodedDirectCompiler.state
  session, stream, draining, batches, edges,  \* DirectBatchOutput
  opened, yielded,                          \* the iterator: _compiler, _yielded_edges
  roles, in_use,                            \* RetainedRoleState
  gil,                                      \* the thread that blocks with the GIL
  pc, work,                                 \* per thread: its place and its locals
  handed                                    \* history: the edges callers received

output   == <<session, stream, draining, batches, edges>>
iterator == <<opened, yielded>>
retained == <<roles, in_use>>

vars == <<state, output, iterator, retained, gil, pc, work, handed>>

-----------------------------------------------------------------------------
NoWork ==
  [compiler |-> Nothing, kind |-> "none", edges |-> 0, cursor |-> 0, base |-> <<>>,
   amount |-> 0]

Attached == gil = Nothing

\* The places of a thread inside compile_batch or compile_batches.
Compiling == {"prepare", "chunk", "construct", "failing"}

\* The places of a thread that has taken the stream in next_batch.
Draining == {"drain", "build", "restore"}

Places == Compiling \cup Draining \cup {"idle", "post", "read"}

Locals ==
  [compiler : Compilers \cup {Nothing}, kind : {"none", "stream", "coarse"},
   edges : Nat, cursor : Nat, base : Seq(Compilers), amount : Nat]

Goto(t, place) == pc' = [pc EXCEPT ![t] = place]

Return(t) == Goto(t, "idle") /\ work' = [work EXCEPT ![t] = NoWork]

Smaller(a, b) == IF a < b THEN a ELSE b

\* Drop of RetainedRoleUse.
Unclaimed(t) == IF in_use = t THEN Nothing ELSE in_use

\* The roles mutex is held from the start of a detached preparation to its end.
RolesLocked == \E t \in Threads : pc[t] = "prepare" /\ work[t].compiler \in Stateful

-----------------------------------------------------------------------------
(* begin, claim and the detached preparation                               *)

\* Mutant: the role state is used without asking who has it.
ClaimableAlways(k) == TRUE

\* compare_exchange of in_use.
Claimable(k) == k \in Stateful => in_use = Nothing

Begin(t, k, kind) ==
  /\ pc[t] = "idle" /\ Attached /\ state[k] = "idle" /\ Claimable(k)
  /\ state' = [state EXCEPT ![k] = "running"]
  /\ in_use' = IF k \in Stateful THEN t ELSE in_use
  /\ Goto(t, "prepare")
  /\ work' = [work EXCEPT ![t] = [NoWork EXCEPT !.compiler = k, !.kind = kind]]
  /\ UNCHANGED <<output, iterator, roles, gil, handed>>

\* dynamic_composite_columns fails: the error leaves without finish_result.
BeginUnplanned(t, k) ==
  /\ pc[t] = "idle" /\ Attached /\ state[k] = "idle" /\ k \in Composite
  /\ state' = [state EXCEPT ![k] = "running"]
  /\ UNCHANGED <<output, iterator, retained, gil, pc, work, handed>>

\* "encoded direct role state is already in use"
BeginBusy(t, k) ==
  /\ pc[t] = "idle" /\ Attached /\ state[k] = "idle" /\ ~Claimable(k)
  /\ state' = [state EXCEPT ![k] = "failed"]
  /\ UNCHANGED <<output, iterator, retained, gil, pc, work, handed>>

\* Mutant: the role mutex is released only once the GIL is back.
PreparableAttached(t) == pc[t] = "prepare" /\ Attached

Preparable(t) == pc[t] = "prepare"

\* py.detach: validation, exact counts, the next role maps; the retained maps
\* are read under their mutex.
Prepare(t) ==
  /\ Preparable(t)
  /\ \E n \in Counts :
       /\ work' = [work EXCEPT ![t].edges = n, ![t].base = roles]
       /\ Goto(t, IF work[t].kind = "coarse" THEN "chunk" ELSE "construct")
  /\ UNCHANGED <<state, output, iterator, retained, gil, handed>>

\* compile_batch: one chunk is generated, its Edge objects appended to the list
\* that only this call knows, and the cursor of the private stream moved.
AppendChunk(t) ==
  /\ pc[t] = "chunk" /\ work[t].cursor < work[t].edges
  /\ work' = [work EXCEPT ![t].cursor = Smaller(@ + Chunk, work[t].edges)]
  /\ UNCHANGED <<state, output, iterator, retained, gil, pc, handed>>

LastChunk(t) ==
  /\ pc[t] = "chunk" /\ work[t].cursor = work[t].edges
  /\ Goto(t, "construct")
  /\ UNCHANGED <<state, output, iterator, retained, gil, work, handed>>

\* Malformed or unsupported input, a limit, a noticed cancellation, a panic, a
\* failed allocation or validation of a result object.
CompileFails(t) ==
  /\ Preparable(t) \/ pc[t] \in {"chunk", "construct"}
  /\ Goto(t, "failing")
  /\ UNCHANGED <<state, output, iterator, retained, gil, work, handed>>

\* Mutant: an error forgets to return the claim.
UnclaimedNever(t) == in_use

\* The claim of a compilation that failed.
UnclaimedOnError(t) == Unclaimed(t)

\* finish_result(Err(error))
Fail(t) ==
  LET k == work[t].compiler IN
  /\ pc[t] = "failing" /\ Attached
  /\ state' = [state EXCEPT ![k] = IF @ = "running" THEN "failed" ELSE @]
  /\ in_use' = UnclaimedOnError(t)
  /\ Return(t)
  /\ UNCHANGED <<output, iterator, roles, gil, handed>>

-----------------------------------------------------------------------------
(* Publication: the statistics and the iterator exist and are validated    *)

CommitsRoles(k) == k \in Stateful \ Asserted

\* DirectBatchOutput::install
Install(k, n) ==
  /\ session' = [session EXCEPT ![k] = IF n = 0 THEN "exhausted" ELSE "active"]
  /\ stream' = [stream EXCEPT ![k] = IF n = 0 THEN Nothing ELSE 0]
  /\ edges' = [edges EXCEPT ![k] = n]
  /\ batches' = [batches EXCEPT ![k] = 0]
  /\ draining' = [draining EXCEPT ![k] = FALSE]
  /\ opened' = [opened EXCEPT ![k] = TRUE]
  /\ yielded' = [yielded EXCEPT ![k] = 0]

\* finish_result(Ok(())): the compare_exchange from RUNNING succeeds.
Finishable(k) == state[k] = "running"

\* finish_result, install and the commit of the role maps, with both mutexes.
Publish(t) ==
  LET k == work[t].compiler IN
  /\ pc[t] = "construct" /\ Attached /\ Finishable(k)
  /\ state' = [state EXCEPT ![k] = "finished"]
  /\ IF work[t].kind = "coarse"
       THEN /\ handed' = [handed EXCEPT ![k] = [i \in 1..work[t].edges |-> i]]
            /\ UNCHANGED <<output, iterator>>
       ELSE Install(k, work[t].edges) /\ UNCHANGED handed
  /\ roles' = IF CommitsRoles(k) THEN Append(work[t].base, k) ELSE roles
  /\ in_use' = Unclaimed(t)
  /\ Return(t)
  /\ UNCHANGED gil

\* Mutant: the role maps are written before the state is settled.
DiscardedRolesCommitted(t) ==
  IF CommitsRoles(work[t].compiler) THEN Append(work[t].base, work[t].compiler) ELSE roles

\* finish_result returned before *roles = next_role_state.
DiscardedRoles(t) == roles

\* "A racing successful result is discarded."
PublishCancelled(t) ==
  /\ pc[t] = "construct" /\ Attached /\ ~Finishable(work[t].compiler)
  /\ roles' = DiscardedRoles(t) /\ in_use' = Unclaimed(t)
  /\ Return(t)
  /\ UNCHANGED <<state, output, iterator, gil, handed>>

-----------------------------------------------------------------------------
(* next_batch and __next__                                                 *)

\* A session has one consumer.  A second call can only come from Python code
\* that runs while a batch is built, and that one finds no stream.
NextReady(k) ==
  /\ opened[k] /\ yielded[k] # edges[k]
  /\ session[k] = "active" /\ ~draining[k] /\ stream[k] # Nothing
  /\ \A t \in Threads : ~(pc[t] = "post" /\ work[t].compiler = k)

TakeStream(k) ==
  /\ stream' = [stream EXCEPT ![k] = Nothing]
  /\ draining' = [draining EXCEPT ![k] = TRUE]

NextBatch(t, k) ==
  /\ pc[t] = "idle" /\ Attached /\ NextReady(k)
  /\ TakeStream(k)
  /\ Goto(t, "drain")
  /\ work' = [work EXCEPT ![t] =
                [NoWork EXCEPT !.compiler = k, !.edges = edges[k], !.cursor = stream[k]]]
  /\ UNCHANGED <<state, session, batches, edges, iterator, retained, gil, handed>>

\* dynamic_composite_columns fails after the stream was taken.
NextUnplanned(t, k) ==
  /\ pc[t] = "idle" /\ Attached /\ NextReady(k) /\ k \in Composite
  /\ TakeStream(k)
  /\ UNCHANGED <<state, session, batches, edges, iterator, retained, gil, pc, work, handed>>

\* self.remaining_edges().min(batch_edges)
BatchAmount(t) == Smaller(work[t].edges - work[t].cursor, Batch)

\* prepare_next_batch, detached and without the output mutex.
Drain(t) ==
  /\ pc[t] = "drain"
  /\ work' = [work EXCEPT ![t].amount = BatchAmount(t)]
  /\ Goto(t, "build")
  /\ UNCHANGED <<state, output, iterator, retained, gil, handed>>

\* Generation, allocation or validation of the batch fails.
DrainFails(t) ==
  /\ pc[t] \in {"drain", "build"}
  /\ Goto(t, "restore")
  /\ UNCHANGED <<state, output, iterator, retained, gil, work, handed>>

\* Mutant: the cursor that comes back is the one after the failed batch.
RestoredCursorMoved(t) == work[t].cursor + work[t].amount

\* The unchanged stream: its cursor was cloned.
RestoredCursor(t) == work[t].cursor

\* Mutant: an error path returns before the stream is put back.
RestoredNever(t) == Nothing

Restored(t) ==
  LET k == work[t].compiler
  IN  IF session[k] = "cancelled" THEN stream[k] ELSE RestoredCursor(t)

Restore(t) ==
  LET k == work[t].compiler IN
  /\ pc[t] = "restore" /\ Attached
  /\ draining' = [draining EXCEPT ![k] = FALSE]
  /\ stream' = [stream EXCEPT ![k] = Restored(t)]
  /\ Return(t)
  /\ UNCHANGED <<state, session, batches, edges, iterator, retained, gil, handed>>

\* Mutant: the batch of a drain that a close overtook is still handed out.
OvertakenNever(k) == FALSE

\* output.cancelled, seen under the mutex when the batch is complete.
Overtaken(k) == session[k] = "cancelled"

\* The final tuple exists: cursor and counters move.
Commit(t) ==
  LET k    == work[t].compiler
      next == work[t].cursor + work[t].amount
      done == next >= work[t].edges
  IN
  /\ pc[t] = "build" /\ Attached /\ ~Overtaken(k)
  /\ draining' = [draining EXCEPT ![k] = FALSE]
  /\ stream' = [stream EXCEPT ![k] = IF done THEN Nothing ELSE next]
  /\ session' = [session EXCEPT ![k] = IF done THEN "exhausted" ELSE @]
  /\ batches' = [batches EXCEPT ![k] = @ + 1]
  /\ handed' = [handed EXCEPT ![k] = @ \o [i \in 1..work[t].amount |-> work[t].cursor + i]]
  /\ Goto(t, "post")
  /\ UNCHANGED <<state, edges, iterator, retained, gil, work>>

\* "a raced close discards the unpublished bounded batch"
Discard(t) ==
  LET k == work[t].compiler IN
  /\ pc[t] = "build" /\ Attached /\ Overtaken(k)
  /\ draining' = [draining EXCEPT ![k] = FALSE]
  /\ Return(t)
  /\ UNCHANGED <<state, session, stream, batches, edges, iterator, retained, gil, handed>>

\* __next__ after the native call: the count, and _finish_exhausted at the end.
CountBatch(t) ==
  LET k     == work[t].compiler
      total == yielded[k] + work[t].amount
  IN
  /\ pc[t] = "post" /\ Attached
  /\ yielded' = [yielded EXCEPT ![k] = total]
  /\ opened' = [opened EXCEPT ![k] = @ /\ total # edges[k]]
  /\ Return(t)
  /\ UNCHANGED <<state, output, retained, gil, handed>>

\* __next__ of an iterator whose session never had an edge.
StopEmpty(k) ==
  /\ Attached /\ opened[k] /\ yielded[k] = edges[k] /\ session[k] = "exhausted"
  /\ opened' = [opened EXCEPT ![k] = FALSE]
  /\ UNCHANGED <<state, output, yielded, retained, gil, pc, work, handed>>

-----------------------------------------------------------------------------
(* Calls any thread may make at any time                                   *)

\* cancel_batch_output: nothing happens to a session that is exhausted or cancelled.
CancelOutput(k) ==
  IF session[k] = "active"
    THEN /\ session' = [session EXCEPT ![k] = "cancelled"]
         /\ stream' = [stream EXCEPT ![k] = Nothing]
         /\ state' = [state EXCEPT ![k] = "cancelled"]
    ELSE UNCHANGED <<session, stream, state>>

\* close() or __del__ of the iterator.
Close(k) ==
  /\ Attached /\ opened[k]
  /\ opened' = [opened EXCEPT ![k] = FALSE]
  /\ CancelOutput(k)
  /\ UNCHANGED <<draining, batches, edges, yielded, retained, gil, pc, work, handed>>

\* cancel(): idle or running only; a finished compiler returns false.
Cancel(k) ==
  /\ Attached /\ state[k] \in {"idle", "running"}
  /\ state' = [state EXCEPT ![k] = "cancelled"]
  /\ UNCHANGED <<output, iterator, retained, gil, pc, work, handed>>

\* snapshot, subrole_property_count, inverse_property_count: they lock the role
\* maps with the GIL held.  A free mutex makes them one step that changes nothing.
ReadRoles(t) ==
  /\ pc[t] = "idle" /\ Attached /\ RolesLocked
  /\ gil' = t
  /\ Goto(t, "read")
  /\ UNCHANGED <<state, output, iterator, retained, work, handed>>

ReadReturns(t) ==
  /\ pc[t] = "read" /\ ~RolesLocked
  /\ gil' = Nothing
  /\ Goto(t, "idle")
  /\ UNCHANGED <<state, output, iterator, retained, work, handed>>

-----------------------------------------------------------------------------
Init ==
  /\ state = [k \in Compilers |-> "idle"]
  /\ session = [k \in Compilers |-> "absent"] /\ stream = [k \in Compilers |-> Nothing]
  /\ draining = [k \in Compilers |-> FALSE] /\ batches = [k \in Compilers |-> 0]
  /\ edges = [k \in Compilers |-> 0]
  /\ opened = [k \in Compilers |-> FALSE] /\ yielded = [k \in Compilers |-> 0]
  /\ roles = <<>> /\ in_use = Nothing /\ gil = Nothing
  /\ pc = [t \in Threads |-> "idle"] /\ work = [t \in Threads |-> NoWork]
  /\ handed = [k \in Compilers |-> <<>>]

Start(t) ==
  \E k \in Compilers :
    \/ \E kind \in {"stream", "coarse"} : Begin(t, k, kind)
    \/ BeginUnplanned(t, k) \/ BeginBusy(t, k)
    \/ NextBatch(t, k) \/ NextUnplanned(t, k)

Continue(t) ==
  \/ Prepare(t) \/ AppendChunk(t) \/ LastChunk(t) \/ CompileFails(t) \/ Fail(t)
  \/ Publish(t) \/ PublishCancelled(t)
  \/ Drain(t) \/ DrainFails(t) \/ Restore(t) \/ Commit(t) \/ Discard(t) \/ CountBatch(t)
  \/ ReadReturns(t)

\* Every compiler was used and every iterator is finished.
Quiet ==
  /\ \A t \in Threads : pc[t] = "idle"
  /\ \A k \in Compilers : state[k] \notin {"idle", "running"} /\ ~opened[k]
  /\ UNCHANGED vars

Next ==
  \/ \E t \in Threads : Start(t) \/ Continue(t) \/ ReadRoles(t)
  \/ \E k \in Compilers : StopEmpty(k) \/ Close(k) \/ Cancel(k)
  \/ Quiet

Spec == Init /\ [][Next]_vars

\* A thread inside a native call runs on; nobody has to make a call.
FairSpec == Spec /\ \A t \in Threads : WF_vars(Continue(t))

-----------------------------------------------------------------------------
(* Properties                                                              *)

\* Type correctness of compilers, sessions, role state and threads.
TypeOK ==
  /\ state \in [Compilers -> {"idle", "running", "finished", "cancelled", "failed"}]
  /\ session \in [Compilers -> {"absent", "active", "exhausted", "cancelled"}]
  /\ stream \in [Compilers -> Nat \cup {Nothing}]
  /\ draining \in [Compilers -> BOOLEAN] /\ opened \in [Compilers -> BOOLEAN]
  /\ batches \in [Compilers -> Nat] /\ edges \in [Compilers -> Nat]
  /\ yielded \in [Compilers -> Nat] /\ handed \in [Compilers -> Seq(Nat)]
  /\ roles \in Seq(Compilers) /\ in_use \in Threads \cup {Nothing}
  /\ gil \in Threads \cup {Nothing}
  /\ pc \in [Threads -> Places] /\ work \in [Threads -> Locals]

\* specs/contracts.md: a failed drain is "exactly retryable" and commits nothing.
\* Whatever batches failed, were retried or were overtaken by a close, the edges
\* that callers received are 1, 2, ..., none lost and none twice, and the stream
\* that waits for the next call stands right behind them.  An exhausted session
\* has delivered all.
ExactlyOnce ==
  \A k \in Compilers :
    /\ handed[k] = [i \in 1..Len(handed[k]) |-> i]
    /\ stream[k] # Nothing => stream[k] = Len(handed[k])
    /\ session[k] = "exhausted" => Len(handed[k]) = edges[k]

\* specs/contracts.md: a failed or cancelled compilation has the "absent-session,
\* zero-counter, and unchanged-role outcome", also when the cancellation arrives
\* after every result object was built.
FailureAtomic ==
  \A k \in Compilers :
    state[k] # "finished" /\ session[k] # "cancelled" =>
      /\ session[k] = "absent" /\ batches[k] = 0 /\ handed[k] = <<>>
      /\ k \notin ToSet(roles)

\* The shared role maps lose no update: a compilation publishes maps it derived
\* from a copy read long before, and nobody else published in between.
RolesGrow == [][IsPrefix(roles, roles')]_vars

\* specs/contracts.md: failures "must release role use".  The claim is held
\* exactly by the thread that compiles with the role state.
ClaimOwned ==
  \A t \in Threads :
    in_use = t <=> (pc[t] \in Compiling /\ work[t].compiler \in Stateful)

\* A cancelled or closed compiler is dead: its state never changes again, no
\* edge of it is handed out and its role maps are never published, although a
\* preparation or a drain of it may still be running without the GIL.
CancelFinal ==
  [][\A k \in Compilers : state[k] = "cancelled" =>
       /\ state'[k] = "cancelled" /\ handed'[k] = handed[k]
       /\ (k \in ToSet(roles') => k \in ToSet(roles))]_vars

\* The session of k holds its stream, or a call of next_batch does.
HoldsStream(k) ==
  session[k] = "active" =>
    \/ stream[k] # Nothing /\ ~draining[k]
    \/ \E t \in Threads : pc[t] \in Draining /\ work[t].compiler = k

\* specs/contracts.md: "Bounded failures must remain exactly retryable": between
\* two calls of next_batch an active session holds its stream.  So it is for
\* compilers without composite members.
DirectRetryable == \A k \in Compilers \ Composite : HoldsStream(k)

\* The same of every compiler, as the contract says it.
Retryable == \A k \in Compilers : HoldsStream(k)

\* Nobody waits for ever: a reader that blocks on the role mutex with the GIL in
\* hand does not wait for a thread that needs the GIL.
CallsReturn == \A t \in Threads : pc[t] # "idle" ~> pc[t] = "idle"

=============================================================================
