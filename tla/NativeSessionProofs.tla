------------------------- MODULE NativeSessionProofs --------------------------
(***************************************************************************)
(* Native sessions for any number of threads and compilers: the claim on   *)
(* the role state is exclusive, no published role map is lost, every edge  *)
(* of a session reaches its caller once and in order, failures leave       *)
(* nothing behind, failed drains can be repeated, and cancellation is      *)
(* final.                                                                  *)
(*                                                                         *)
(* The claim is inductive by itself. That the role maps only grow needs    *)
(* BaseCurrent: the copy from which a claimed compilation derives its maps *)
(* is still what the role state holds. Exact delivery needs to know where  *)
(* the one cursor of a session is: in its output or with the one thread    *)
(* that drains it (StreamFrame, DrainFrame), and that nothing of a         *)
(* compiler is visible before it has finished (AbsentFrame). SettledFrame  *)
(* adds what a compiler that ended without a result may show, and          *)
(* DirectRetryable that an active session without composite members never  *)
(* lets go of its stream.                                                  *)
(***************************************************************************)
EXTENDS NativeSession, SequenceLemmas, TLAPS

\* A thread inside a call works for a compiler.
WorkFrame ==
  \A t \in Threads :
    pc[t] \in Compiling \cup Draining \cup {"post"} => work[t].compiler \in Compilers

\* The copy of the role maps that a claimed compilation started from is current.
BaseCurrent ==
  \A t \in Threads :
    pc[t] \in {"chunk", "construct"} /\ work[t].compiler \in Stateful =>
      work[t].base = roles

\* Nothing of a compiler is visible before it has finished.
AbsentFrame ==
  \A k \in Compilers :
    /\ state[k] \in {"idle", "running", "failed"} => session[k] = "absent"
    /\ session[k] = "absent" =>
         ~opened[k] /\ (state[k] # "finished" => handed[k] = <<>>)

\* A waiting stream belongs to an active session and has edges left.
StreamFrame ==
  \A k \in Compilers :
    stream[k] # Nothing =>
      session[k] = "active" /\ ~draining[k] /\ stream[k] < edges[k]

\* What a thread knows that has taken the stream of a session.
HoldsCursor(t) ==
  LET k == work[t].compiler IN
  /\ session[k] \in {"active", "cancelled"} /\ draining[k] /\ stream[k] = Nothing
  /\ work[t].edges = edges[k] /\ work[t].cursor = Len(handed[k])
  /\ work[t].cursor < work[t].edges
  /\ pc[t] = "build" => work[t].amount = BatchAmount(t)

\* A drain has the only cursor of its session.
DrainFrame ==
  /\ \A t \in Threads : pc[t] \in Draining => HoldsCursor(t)
  /\ \A t, u \in Threads :
       pc[t] \in Draining /\ pc[u] \in Draining /\ work[t].compiler = work[u].compiler => t = u

\* What a compilation leaves behind.  A cancelled compiler has no session or a
\* cancelled one, and role maps come only from compilers that have finished.
SettledFrame ==
  \A k \in Compilers :
    /\ session[k] = "absent" => batches[k] = 0
    /\ state[k] = "cancelled" => session[k] \in {"absent", "cancelled"}
    /\ k \in ToSet(roles) => state[k] = "finished" \/ session[k] = "cancelled"

Inv == TypeOK /\ WorkFrame /\ ClaimOwned /\ BaseCurrent /\ AbsentFrame /\ StreamFrame
       /\ DrainFrame /\ ExactlyOnce /\ SettledFrame /\ DirectRetryable

-----------------------------------------------------------------------------
\* The edges of a complete compilation, as a coarse call returns them.
LEMMA Counting ==
  ASSUME NEW n \in Nat
  PROVE  /\ [i \in 1..n |-> i] \in Seq(Nat) /\ Len([i \in 1..n |-> i]) = n
         /\ [i \in 1..n |-> i] = [i \in 1..Len([i \in 1..n |-> i]) |-> i]
OBVIOUS

\* A batch that starts behind what was handed out continues it.
LEMMA CountOn ==
  ASSUME NEW s \in Seq(Nat), NEW a \in Nat, s = [i \in 1..Len(s) |-> i]
  PROVE  LET t == s \o [i \in 1..a |-> Len(s) + i]
         IN  t \in Seq(Nat) /\ Len(t) = Len(s) + a /\ t = [i \in 1..Len(t) |-> i]
<1> DEFINE r == [i \in 1..a |-> Len(s) + i]
           t == s \o r
<1>1. r \in Seq(Nat) /\ Len(r) = a /\ Len(s) \in Nat
  OBVIOUS
<1>2. \A i \in 1..a : r[i] = Len(s) + i
  OBVIOUS
<1> HIDE DEF r
<1>3. t \in Seq(Nat) /\ Len(t) = Len(s) + a
  BY <1>1
<1>4. \A i \in 1..Len(s) : t[i] = s[i] /\ s[i] = i
  BY <1>1
<1>5. ASSUME NEW i \in 1..Len(t), ~(i <= Len(s)) PROVE t[i] = i
  <2>1. t[i] = r[i - Len(s)] /\ i - Len(s) \in 1..a
    BY <1>1, <1>3, <1>5
  <2> QED
    BY <1>1, <1>2, <2>1, <1>3
<1>6. \A i \in 1..Len(t) : t[i] = i
  BY <1>1, <1>3, <1>4, <1>5
<1> HIDE DEF t
<1>7. t = [i \in 1..Len(t) |-> i]
  BY <1>3, <1>6
<1> QED
  BY <1>3, <1>7 DEF t, r

(* What the steps do to the locals of threads                              *)

\* A thread without a call has well-typed locals.
LEMMA NoWorkType == NoWork \in Locals /\ NoWork.compiler = Nothing
BY DEF NoWork, Locals

\* The locals of a compilation.
LEMMA CompileLocals ==
  ASSUME NEW w \in Locals, NEW k \in Compilers, NEW kind \in {"stream", "coarse"}
  PROVE  /\ [w EXCEPT !.compiler = k, !.kind = kind] \in Locals
         /\ [w EXCEPT !.compiler = k, !.kind = kind].compiler = k
BY DEF Locals

\* The locals of one thread are replaced.
LEMMA LocalsReplaced ==
  ASSUME work \in [Threads -> Locals], NEW t \in Threads, NEW w \in Locals,
         work' = [work EXCEPT ![t] = w]
  PROVE  /\ work' \in [Threads -> Locals] /\ work'[t] = w
         /\ \A u \in Threads : u # t => work'[u] = work[u]
OBVIOUS

\* A coarse compilation moves its cursor.
LEMMA LocalsAdvanced ==
  ASSUME work \in [Threads -> Locals], NEW t \in Threads, NEW n \in Nat,
         work' = [work EXCEPT ![t].cursor = n]
  PROVE  /\ work' \in [Threads -> Locals]
         /\ work'[t].cursor = n /\ work'[t].edges = work[t].edges
         /\ work'[t].compiler = work[t].compiler /\ work'[t].base = work[t].base
         /\ \A u \in Threads : u # t => work'[u] = work[u]
BY DEF Locals

\* A drain learns the size of its batch.
LEMMA LocalsSized ==
  ASSUME work \in [Threads -> Locals], NEW t \in Threads, NEW n \in Nat,
         work' = [work EXCEPT ![t].amount = n]
  PROVE  /\ work' \in [Threads -> Locals]
         /\ work'[t].amount = n /\ work'[t].edges = work[t].edges
         /\ work'[t].cursor = work[t].cursor
         /\ work'[t].compiler = work[t].compiler /\ work'[t].base = work[t].base
         /\ \A u \in Threads : u # t => work'[u] = work[u]
BY DEF Locals

\* Begin: the thread compiles.
LEMMA BeginLocals ==
  ASSUME TypeOK, NEW t \in Threads, NEW k \in Compilers, NEW kind \in {"stream", "coarse"}, Begin(t, k, kind)
  PROVE  /\ pc' \in [Threads -> Places] /\ work' \in [Threads -> Locals]
         /\ pc'[t] = "prepare" /\ work'[t].compiler = k
         /\ \A u \in Threads : u # t => pc'[u] = pc[u] /\ work'[u] = work[u]
<1> DEFINE w == [NoWork EXCEPT !.compiler = k, !.kind = kind]
<1>0. work \in [Threads -> Locals] /\ pc \in [Threads -> Places]
  BY DEF TypeOK
<1>1. w \in Locals /\ w.compiler = k
  BY NoWorkType, CompileLocals
<1>2. work' = [work EXCEPT ![t] = w] /\ pc' = [pc EXCEPT ![t] = "prepare"]
  BY DEF Begin, Goto
<1> HIDE DEF w
<1> QED
  BY <1>0, <1>1, <1>2, LocalsReplaced DEF Places, Compiling

\* NextBatch: the thread holds the stream.
LEMMA NextBatchLocals ==
  ASSUME TypeOK, NEW t \in Threads, NEW k \in Compilers, NextBatch(t, k)
  PROVE  /\ pc' \in [Threads -> Places] /\ work' \in [Threads -> Locals]
         /\ pc'[t] = "drain" /\ work'[t].compiler = k
         /\ work'[t].edges = edges[k] /\ work'[t].cursor = stream[k]
         /\ \A u \in Threads : u # t => pc'[u] = pc[u] /\ work'[u] = work[u]
<1> DEFINE w == [NoWork EXCEPT !.compiler = k, !.edges = edges[k], !.cursor = stream[k]]
<1>0. work \in [Threads -> Locals] /\ pc \in [Threads -> Places]
  BY DEF TypeOK
<1>1. edges[k] \in Nat /\ stream[k] \in Nat
  BY DEF TypeOK, NextBatch, NextReady
<1>2. w \in Locals /\ w.compiler = k /\ w.edges = edges[k] /\ w.cursor = stream[k]
  <2>1. \A n, c \in Nat :
          LET x == [NoWork EXCEPT !.compiler = k, !.edges = n, !.cursor = c]
          IN  x \in Locals /\ x.compiler = k /\ x.edges = n /\ x.cursor = c
    BY NoWorkType DEF Locals
  <2> QED
    BY <1>1, <2>1
<1>3. work' = [work EXCEPT ![t] = w] /\ pc' = [pc EXCEPT ![t] = "drain"]
  BY DEF NextBatch, Goto
<1> HIDE DEF w
<1> QED
  BY <1>0, <1>2, <1>3, LocalsReplaced DEF Places, Draining

\* The calls that return leave idle threads without locals.
LEMMA ReturnLocals ==
  ASSUME TypeOK, NEW t \in Threads,
         Fail(t) \/ Publish(t) \/ PublishCancelled(t) \/ Restore(t) \/ Discard(t) \/ CountBatch(t)
  PROVE  /\ pc' \in [Threads -> Places] /\ work' \in [Threads -> Locals]
         /\ pc'[t] = "idle"
         /\ \A u \in Threads : u # t => pc'[u] = pc[u] /\ work'[u] = work[u]
<1>0. work \in [Threads -> Locals] /\ pc \in [Threads -> Places]
  BY DEF TypeOK
<1>1. work' = [work EXCEPT ![t] = NoWork] /\ pc' = [pc EXCEPT ![t] = "idle"]
  BY DEF Fail, Publish, PublishCancelled, Restore, Discard, CountBatch, Return, Goto
<1> QED
  BY <1>0, <1>1, NoWorkType, LocalsReplaced DEF Places

\* LastChunk: the thread moves on with the same locals.
LEMMA LastChunkLocals ==
  ASSUME TypeOK, NEW t \in Threads, LastChunk(t)
  PROVE  /\ pc' \in [Threads -> Places] /\ work' \in [Threads -> Locals]
         /\ pc'[t] = "construct" /\ work' = work
         /\ \A u \in Threads : u # t => pc'[u] = pc[u] /\ work'[u] = work[u]
<1>0. work \in [Threads -> Locals] /\ pc \in [Threads -> Places]
  BY DEF TypeOK
<1>1. work' = work /\ pc' = [pc EXCEPT ![t] = "construct"]
  BY DEF LastChunk, Goto
<1> QED
  BY <1>0, <1>1 DEF Places, Compiling, Draining

\* CompileFails: the thread moves on with the same locals.
LEMMA CompileFailsLocals ==
  ASSUME TypeOK, NEW t \in Threads, CompileFails(t)
  PROVE  /\ pc' \in [Threads -> Places] /\ work' \in [Threads -> Locals]
         /\ pc'[t] = "failing" /\ work' = work
         /\ \A u \in Threads : u # t => pc'[u] = pc[u] /\ work'[u] = work[u]
<1>0. work \in [Threads -> Locals] /\ pc \in [Threads -> Places]
  BY DEF TypeOK
<1>1. work' = work /\ pc' = [pc EXCEPT ![t] = "failing"]
  BY DEF CompileFails, Goto
<1> QED
  BY <1>0, <1>1 DEF Places, Compiling, Draining

\* DrainFails: the thread moves on with the same locals.
LEMMA DrainFailsLocals ==
  ASSUME TypeOK, NEW t \in Threads, DrainFails(t)
  PROVE  /\ pc' \in [Threads -> Places] /\ work' \in [Threads -> Locals]
         /\ pc'[t] = "restore" /\ work' = work
         /\ \A u \in Threads : u # t => pc'[u] = pc[u] /\ work'[u] = work[u]
<1>0. work \in [Threads -> Locals] /\ pc \in [Threads -> Places]
  BY DEF TypeOK
<1>1. work' = work /\ pc' = [pc EXCEPT ![t] = "restore"]
  BY DEF DrainFails, Goto
<1> QED
  BY <1>0, <1>1 DEF Places, Compiling, Draining

\* Commit: the thread moves on with the same locals.
LEMMA CommitLocals ==
  ASSUME TypeOK, NEW t \in Threads, Commit(t)
  PROVE  /\ pc' \in [Threads -> Places] /\ work' \in [Threads -> Locals]
         /\ pc'[t] = "post" /\ work' = work
         /\ \A u \in Threads : u # t => pc'[u] = pc[u] /\ work'[u] = work[u]
<1>0. work \in [Threads -> Locals] /\ pc \in [Threads -> Places]
  BY DEF TypeOK
<1>1. work' = work /\ pc' = [pc EXCEPT ![t] = "post"]
  BY DEF Commit, Goto
<1> QED
  BY <1>0, <1>1 DEF Places, Compiling, Draining

\* ReadReturns: the thread moves on with the same locals.
LEMMA ReadReturnsLocals ==
  ASSUME TypeOK, NEW t \in Threads, ReadReturns(t)
  PROVE  /\ pc' \in [Threads -> Places] /\ work' \in [Threads -> Locals]
         /\ pc'[t] = "idle" /\ work' = work
         /\ \A u \in Threads : u # t => pc'[u] = pc[u] /\ work'[u] = work[u]
<1>0. work \in [Threads -> Locals] /\ pc \in [Threads -> Places]
  BY DEF TypeOK
<1>1. work' = work /\ pc' = [pc EXCEPT ![t] = "idle"]
  BY DEF ReadReturns, Goto
<1> QED
  BY <1>0, <1>1 DEF Places, Compiling, Draining

\* ReadRoles: the thread moves on with the same locals.
LEMMA ReadRolesLocals ==
  ASSUME TypeOK, NEW t \in Threads, ReadRoles(t)
  PROVE  /\ pc' \in [Threads -> Places] /\ work' \in [Threads -> Locals]
         /\ pc'[t] = "read" /\ work' = work
         /\ \A u \in Threads : u # t => pc'[u] = pc[u] /\ work'[u] = work[u]
<1>0. work \in [Threads -> Locals] /\ pc \in [Threads -> Places]
  BY DEF TypeOK
<1>1. work' = work /\ pc' = [pc EXCEPT ![t] = "read"]
  BY DEF ReadRoles, Goto
<1> QED
  BY <1>0, <1>1 DEF Places, Compiling, Draining

\* Prepare: the locals know the counts and the role maps.
LEMMA PrepareLocals ==
  ASSUME TypeOK, NEW t \in Threads, Prepare(t)
  PROVE  /\ pc' \in [Threads -> Places] /\ work' \in [Threads -> Locals]
         /\ pc'[t] \in {"chunk", "construct"}
         /\ work'[t].compiler = work[t].compiler /\ work'[t].base = roles
         /\ work'[t].edges \in Nat /\ work'[t].cursor = work[t].cursor
         /\ \A u \in Threads : u # t => pc'[u] = pc[u] /\ work'[u] = work[u]
<1>0. work \in [Threads -> Locals] /\ pc \in [Threads -> Places] /\ roles \in Seq(Compilers)
  BY DEF TypeOK
<1>1. PICK n \in Counts : work' = [work EXCEPT ![t].edges = n, ![t].base = roles]
  BY DEF Prepare
<1>2. n \in Nat
  BY SessionAssumption
<1>3. PICK place \in {"chunk", "construct"} : pc' = [pc EXCEPT ![t] = place]
  BY DEF Prepare, Goto
<1>4. pc' \in [Threads -> Places] /\ pc'[t] = place /\ \A u \in Threads : u # t => pc'[u] = pc[u]
  BY <1>0, <1>3 DEF Places, Compiling
<1>5. PICK r \in Seq(Compilers) : r = roles
  BY <1>0
<1>6. work' = [work EXCEPT ![t].edges = n, ![t].base = r]
  BY <1>1, <1>5
<1>7. /\ work' \in [Threads -> Locals] /\ work'[t].edges = n /\ work'[t].base = r
      /\ work'[t].compiler = work[t].compiler /\ work'[t].cursor = work[t].cursor
      /\ \A u \in Threads : u # t => work'[u] = work[u]
  BY <1>0, <1>2, <1>6 DEF Locals
<1> QED
  BY <1>2, <1>4, <1>5, <1>7

\* AppendChunk: the cursor stays within the edges.
LEMMA AppendChunkLocals ==
  ASSUME TypeOK, NEW t \in Threads, AppendChunk(t)
  PROVE  /\ pc' = pc /\ work' \in [Threads -> Locals]
         /\ work'[t].compiler = work[t].compiler /\ work'[t].base = work[t].base
         /\ work'[t].cursor <= work'[t].edges
         /\ \A u \in Threads : u # t => work'[u] = work[u]
<1> DEFINE n == Smaller(work[t].cursor + Chunk, work[t].edges)
<1>0. work \in [Threads -> Locals]
  BY DEF TypeOK
<1>1. work[t].cursor \in Nat /\ work[t].edges \in Nat
  BY <1>0 DEF Locals
<1>2. n \in Nat /\ n <= work[t].edges
  BY <1>1, SessionAssumption DEF Smaller
<1>3. pc' = pc /\ work' = [work EXCEPT ![t].cursor = n]
  BY <1>0 DEF AppendChunk
<1> HIDE DEF n
<1> QED
  BY <1>0, <1>2, <1>3, LocalsAdvanced

\* Drain: the batch is not larger than what is left.
LEMMA DrainLocals ==
  ASSUME TypeOK, DrainFrame, NEW t \in Threads, Drain(t)
  PROVE  /\ pc' \in [Threads -> Places] /\ work' \in [Threads -> Locals]
         /\ pc'[t] = "build" /\ work'[t].amount = BatchAmount(t)
         /\ work'[t].edges = work[t].edges /\ work'[t].cursor = work[t].cursor
         /\ work'[t].compiler = work[t].compiler
         /\ \A u \in Threads : u # t => pc'[u] = pc[u] /\ work'[u] = work[u]
<1>0. work \in [Threads -> Locals] /\ pc \in [Threads -> Places]
  BY DEF TypeOK
<1>1. work[t].cursor \in Nat /\ work[t].edges \in Nat
  BY <1>0 DEF Locals
<1>2. work[t].cursor < work[t].edges
  BY DEF Drain, DrainFrame, HoldsCursor, Draining
<1>3. BatchAmount(t) \in Nat
  BY <1>1, <1>2, SessionAssumption DEF BatchAmount, Smaller
<1>4. work' = [work EXCEPT ![t].amount = BatchAmount(t)] /\ pc' = [pc EXCEPT ![t] = "build"]
  BY DEF Drain, Goto
<1>5. pc' \in [Threads -> Places] /\ pc'[t] = "build" /\ \A u \in Threads : u # t => pc'[u] = pc[u]
  BY <1>0, <1>4 DEF Places, Draining
<1> QED
  BY <1>0, <1>3, <1>4, <1>5, LocalsSized

-----------------------------------------------------------------------------
(* One step                                                                *)

\* Every step keeps the locals of the threads meaningful.
LEMMA WorkStep ==
  ASSUME Inv, [Next]_vars
  PROVE  WorkFrame'
<1>0. TypeOK /\ WorkFrame /\ DrainFrame
  BY DEF Inv
<1>a. /\ pc \in [Threads -> Places] /\ work \in [Threads -> Locals]
  BY <1>0 DEF TypeOK
<1> USE SessionAssumption DEF WorkFrame, Compiling, Draining
<1>1. ASSUME NEW t \in Threads, NEW k \in Compilers, NEW kind \in {"stream", "coarse"}, Begin(t, k, kind)
      PROVE  WorkFrame'
  <2>1. pc[t] = "idle"
    BY <1>1 DEF Begin
  <2> QED
    BY <1>0, <1>a, <1>1, <2>1, BeginLocals
<1>2. ASSUME NEW t \in Threads, NEW k \in Compilers, BeginUnplanned(t, k)
      PROVE  WorkFrame'
  <2>1. UNCHANGED <<pc, work>>
    BY <1>2 DEF BeginUnplanned
  <2> QED
    BY <1>0, <1>a, <1>2, <2>1
<1>3. ASSUME NEW t \in Threads, NEW k \in Compilers, BeginBusy(t, k)
      PROVE  WorkFrame'
  <2>1. UNCHANGED <<pc, work>>
    BY <1>3 DEF BeginBusy
  <2> QED
    BY <1>0, <1>a, <1>3, <2>1
<1>4. ASSUME NEW t \in Threads, NEW k \in Compilers, NextBatch(t, k)
      PROVE  WorkFrame'
  <2>1. pc[t] = "idle"
    BY <1>4 DEF NextBatch
  <2> QED
    BY <1>0, <1>a, <1>4, <2>1, NextBatchLocals
<1>5. ASSUME NEW t \in Threads, NEW k \in Compilers, NextUnplanned(t, k)
      PROVE  WorkFrame'
  <2>1. UNCHANGED <<pc, work>>
    BY <1>5 DEF NextUnplanned
  <2> QED
    BY <1>0, <1>a, <1>5, <2>1
<1>6. ASSUME NEW t \in Threads, Prepare(t)
      PROVE  WorkFrame'
  <2>1. pc[t] = "prepare"
    BY <1>6 DEF Prepare, Preparable
  <2> QED
    BY <1>0, <1>a, <1>6, <2>1, PrepareLocals
<1>7. ASSUME NEW t \in Threads, AppendChunk(t)
      PROVE  WorkFrame'
  <2>1. pc[t] = "chunk"
    BY <1>7 DEF AppendChunk
  <2> QED
    BY <1>0, <1>a, <1>7, <2>1, AppendChunkLocals
<1>8. ASSUME NEW t \in Threads, LastChunk(t)
      PROVE  WorkFrame'
  <2>1. pc[t] = "chunk"
    BY <1>8 DEF LastChunk
  <2> QED
    BY <1>0, <1>a, <1>8, <2>1, LastChunkLocals
<1>9. ASSUME NEW t \in Threads, CompileFails(t)
      PROVE  WorkFrame'
  <2>1. pc[t] \in {"prepare", "chunk", "construct"}
    BY <1>9 DEF CompileFails, Preparable
  <2> QED
    BY <1>0, <1>a, <1>9, <2>1, CompileFailsLocals
<1>10. ASSUME NEW t \in Threads, Fail(t)
      PROVE  WorkFrame'
  <2>1. pc[t] = "failing"
    BY <1>10 DEF Fail
  <2> QED
    BY <1>0, <1>a, <1>10, <2>1, ReturnLocals
<1>11. ASSUME NEW t \in Threads, Publish(t)
      PROVE  WorkFrame'
  <2>1. pc[t] = "construct"
    BY <1>11 DEF Publish
  <2> QED
    BY <1>0, <1>a, <1>11, <2>1, ReturnLocals
<1>12. ASSUME NEW t \in Threads, PublishCancelled(t)
      PROVE  WorkFrame'
  <2>1. pc[t] = "construct"
    BY <1>12 DEF PublishCancelled
  <2> QED
    BY <1>0, <1>a, <1>12, <2>1, ReturnLocals
<1>13. ASSUME NEW t \in Threads, Drain(t)
      PROVE  WorkFrame'
  <2>1. pc[t] = "drain"
    BY <1>13 DEF Drain
  <2> QED
    BY <1>0, <1>a, <1>13, <2>1, DrainLocals
<1>14. ASSUME NEW t \in Threads, DrainFails(t)
      PROVE  WorkFrame'
  <2>1. pc[t] \in {"drain", "build"}
    BY <1>14 DEF DrainFails
  <2> QED
    BY <1>0, <1>a, <1>14, <2>1, DrainFailsLocals
<1>15. ASSUME NEW t \in Threads, Restore(t)
      PROVE  WorkFrame'
  <2>1. pc[t] = "restore"
    BY <1>15 DEF Restore
  <2> QED
    BY <1>0, <1>a, <1>15, <2>1, ReturnLocals
<1>16. ASSUME NEW t \in Threads, Commit(t)
      PROVE  WorkFrame'
  <2>1. pc[t] = "build"
    BY <1>16 DEF Commit
  <2> QED
    BY <1>0, <1>a, <1>16, <2>1, CommitLocals
<1>17. ASSUME NEW t \in Threads, Discard(t)
      PROVE  WorkFrame'
  <2>1. pc[t] = "build"
    BY <1>17 DEF Discard
  <2> QED
    BY <1>0, <1>a, <1>17, <2>1, ReturnLocals
<1>18. ASSUME NEW t \in Threads, CountBatch(t)
      PROVE  WorkFrame'
  <2>1. pc[t] = "post"
    BY <1>18 DEF CountBatch
  <2> QED
    BY <1>0, <1>a, <1>18, <2>1, ReturnLocals
<1>19. ASSUME NEW t \in Threads, ReadReturns(t)
      PROVE  WorkFrame'
  <2>1. pc[t] = "read"
    BY <1>19 DEF ReadReturns
  <2> QED
    BY <1>0, <1>a, <1>19, <2>1, ReadReturnsLocals
<1>20. ASSUME NEW t \in Threads, ReadRoles(t)
      PROVE  WorkFrame'
  <2>1. pc[t] = "idle"
    BY <1>20 DEF ReadRoles
  <2> QED
    BY <1>0, <1>a, <1>20, <2>1, ReadRolesLocals
<1>21. ASSUME NEW k \in Compilers, StopEmpty(k)
      PROVE  WorkFrame'
  <2>1. UNCHANGED <<pc, work>>
    BY <1>21 DEF StopEmpty
  <2> QED
    BY <1>0, <1>a, <1>21, <2>1
<1>22. ASSUME NEW k \in Compilers, Close(k)
      PROVE  WorkFrame'
  <2>1. UNCHANGED <<pc, work>>
    BY <1>22 DEF Close, CancelOutput
  <2> QED
    BY <1>0, <1>a, <1>22, <2>1
<1>23. ASSUME NEW k \in Compilers, Cancel(k)
      PROVE  WorkFrame'
  <2>1. UNCHANGED <<pc, work>>
    BY <1>23 DEF Cancel
  <2> QED
    BY <1>0, <1>a, <1>23, <2>1
<1>24. ASSUME UNCHANGED vars
      PROVE  WorkFrame'
  BY <1>0, <1>a, <1>24 DEF vars
<1> QED
  BY <1>1, <1>2, <1>3, <1>4, <1>5, <1>6, <1>7, <1>8, <1>9, <1>10, <1>11, <1>12, <1>13, <1>14, <1>15, <1>16, <1>17, <1>18, <1>19, <1>20, <1>21, <1>22, <1>23, <1>24 DEF Next, Start, Continue, Quiet

\* Every step leaves the claim with the thread that compiles with it.
LEMMA ClaimStep ==
  ASSUME Inv, [Next]_vars
  PROVE  ClaimOwned'
<1>0. TypeOK /\ ClaimOwned /\ DrainFrame
  BY DEF Inv
<1>a. /\ pc \in [Threads -> Places] /\ work \in [Threads -> Locals] /\ in_use \in Threads \cup {Nothing}
  BY <1>0 DEF TypeOK
<1> USE SessionAssumption DEF ClaimOwned, Compiling, Draining
<1>1. ASSUME NEW t \in Threads, NEW k \in Compilers, NEW kind \in {"stream", "coarse"}, Begin(t, k, kind)
      PROVE  ClaimOwned'
  <2>1. pc[t] = "idle" /\ (k \in Stateful => in_use = Nothing)
        /\ in_use' = IF k \in Stateful THEN t ELSE in_use
    BY <1>1 DEF Begin, Claimable
  <2> QED
    BY <1>0, <1>a, <1>1, <2>1, BeginLocals
<1>2. ASSUME NEW t \in Threads, NEW k \in Compilers, BeginUnplanned(t, k)
      PROVE  ClaimOwned'
  <2>1. UNCHANGED <<pc, work>> /\ UNCHANGED in_use
    BY <1>2 DEF BeginUnplanned, retained
  <2> QED
    BY <1>0, <1>a, <1>2, <2>1
<1>3. ASSUME NEW t \in Threads, NEW k \in Compilers, BeginBusy(t, k)
      PROVE  ClaimOwned'
  <2>1. UNCHANGED <<pc, work>> /\ UNCHANGED in_use
    BY <1>3 DEF BeginBusy, retained
  <2> QED
    BY <1>0, <1>a, <1>3, <2>1
<1>4. ASSUME NEW t \in Threads, NEW k \in Compilers, NextBatch(t, k)
      PROVE  ClaimOwned'
  <2>1. pc[t] = "idle" /\ UNCHANGED in_use
    BY <1>4 DEF NextBatch, retained
  <2> QED
    BY <1>0, <1>a, <1>4, <2>1, NextBatchLocals
<1>5. ASSUME NEW t \in Threads, NEW k \in Compilers, NextUnplanned(t, k)
      PROVE  ClaimOwned'
  <2>1. UNCHANGED <<pc, work>> /\ UNCHANGED in_use
    BY <1>5 DEF NextUnplanned, retained
  <2> QED
    BY <1>0, <1>a, <1>5, <2>1
<1>6. ASSUME NEW t \in Threads, Prepare(t)
      PROVE  ClaimOwned'
  <2>1. pc[t] = "prepare" /\ UNCHANGED in_use
    BY <1>6 DEF Prepare, Preparable, retained
  <2> QED
    BY <1>0, <1>a, <1>6, <2>1, PrepareLocals
<1>7. ASSUME NEW t \in Threads, AppendChunk(t)
      PROVE  ClaimOwned'
  <2>1. pc[t] = "chunk" /\ UNCHANGED in_use
    BY <1>7 DEF AppendChunk, retained
  <2> QED
    BY <1>0, <1>a, <1>7, <2>1, AppendChunkLocals
<1>8. ASSUME NEW t \in Threads, LastChunk(t)
      PROVE  ClaimOwned'
  <2>1. pc[t] = "chunk" /\ UNCHANGED in_use
    BY <1>8 DEF LastChunk, retained
  <2> QED
    BY <1>0, <1>a, <1>8, <2>1, LastChunkLocals
<1>9. ASSUME NEW t \in Threads, CompileFails(t)
      PROVE  ClaimOwned'
  <2>1. pc[t] \in {"prepare", "chunk", "construct"} /\ UNCHANGED in_use
    BY <1>9 DEF CompileFails, Preparable, retained
  <2> QED
    BY <1>0, <1>a, <1>9, <2>1, CompileFailsLocals
<1>10. ASSUME NEW t \in Threads, Fail(t)
      PROVE  ClaimOwned'
  <2>1. pc[t] = "failing" /\ in_use' = IF in_use = t THEN Nothing ELSE in_use
    BY <1>10 DEF Fail, UnclaimedOnError, Unclaimed
  <2> QED
    BY <1>0, <1>a, <1>10, <2>1, ReturnLocals
<1>11. ASSUME NEW t \in Threads, Publish(t)
      PROVE  ClaimOwned'
  <2>1. pc[t] = "construct" /\ in_use' = IF in_use = t THEN Nothing ELSE in_use
    BY <1>11 DEF Publish, Unclaimed
  <2> QED
    BY <1>0, <1>a, <1>11, <2>1, ReturnLocals
<1>12. ASSUME NEW t \in Threads, PublishCancelled(t)
      PROVE  ClaimOwned'
  <2>1. pc[t] = "construct" /\ in_use' = IF in_use = t THEN Nothing ELSE in_use
    BY <1>12 DEF PublishCancelled, Unclaimed
  <2> QED
    BY <1>0, <1>a, <1>12, <2>1, ReturnLocals
<1>13. ASSUME NEW t \in Threads, Drain(t)
      PROVE  ClaimOwned'
  <2>1. pc[t] = "drain" /\ UNCHANGED in_use
    BY <1>13 DEF Drain, retained
  <2> QED
    BY <1>0, <1>a, <1>13, <2>1, DrainLocals
<1>14. ASSUME NEW t \in Threads, DrainFails(t)
      PROVE  ClaimOwned'
  <2>1. pc[t] \in {"drain", "build"} /\ UNCHANGED in_use
    BY <1>14 DEF DrainFails, retained
  <2> QED
    BY <1>0, <1>a, <1>14, <2>1, DrainFailsLocals
<1>15. ASSUME NEW t \in Threads, Restore(t)
      PROVE  ClaimOwned'
  <2>1. pc[t] = "restore" /\ UNCHANGED in_use
    BY <1>15 DEF Restore, retained
  <2> QED
    BY <1>0, <1>a, <1>15, <2>1, ReturnLocals
<1>16. ASSUME NEW t \in Threads, Commit(t)
      PROVE  ClaimOwned'
  <2>1. pc[t] = "build" /\ UNCHANGED in_use
    BY <1>16 DEF Commit, retained
  <2> QED
    BY <1>0, <1>a, <1>16, <2>1, CommitLocals
<1>17. ASSUME NEW t \in Threads, Discard(t)
      PROVE  ClaimOwned'
  <2>1. pc[t] = "build" /\ UNCHANGED in_use
    BY <1>17 DEF Discard, retained
  <2> QED
    BY <1>0, <1>a, <1>17, <2>1, ReturnLocals
<1>18. ASSUME NEW t \in Threads, CountBatch(t)
      PROVE  ClaimOwned'
  <2>1. pc[t] = "post" /\ UNCHANGED in_use
    BY <1>18 DEF CountBatch, retained
  <2> QED
    BY <1>0, <1>a, <1>18, <2>1, ReturnLocals
<1>19. ASSUME NEW t \in Threads, ReadReturns(t)
      PROVE  ClaimOwned'
  <2>1. pc[t] = "read" /\ UNCHANGED in_use
    BY <1>19 DEF ReadReturns, retained
  <2> QED
    BY <1>0, <1>a, <1>19, <2>1, ReadReturnsLocals
<1>20. ASSUME NEW t \in Threads, ReadRoles(t)
      PROVE  ClaimOwned'
  <2>1. pc[t] = "idle" /\ UNCHANGED in_use
    BY <1>20 DEF ReadRoles, retained
  <2> QED
    BY <1>0, <1>a, <1>20, <2>1, ReadRolesLocals
<1>21. ASSUME NEW k \in Compilers, StopEmpty(k)
      PROVE  ClaimOwned'
  <2>1. UNCHANGED <<pc, work>> /\ UNCHANGED in_use
    BY <1>21 DEF StopEmpty, retained
  <2> QED
    BY <1>0, <1>a, <1>21, <2>1
<1>22. ASSUME NEW k \in Compilers, Close(k)
      PROVE  ClaimOwned'
  <2>1. UNCHANGED <<pc, work>> /\ UNCHANGED in_use
    BY <1>22 DEF Close, CancelOutput, retained
  <2> QED
    BY <1>0, <1>a, <1>22, <2>1
<1>23. ASSUME NEW k \in Compilers, Cancel(k)
      PROVE  ClaimOwned'
  <2>1. UNCHANGED <<pc, work>> /\ UNCHANGED in_use
    BY <1>23 DEF Cancel, retained
  <2> QED
    BY <1>0, <1>a, <1>23, <2>1
<1>24. ASSUME UNCHANGED vars
      PROVE  ClaimOwned'
  BY <1>0, <1>a, <1>24 DEF vars, retained
<1> QED
  BY <1>1, <1>2, <1>3, <1>4, <1>5, <1>6, <1>7, <1>8, <1>9, <1>10, <1>11, <1>12, <1>13, <1>14, <1>15, <1>16, <1>17, <1>18, <1>19, <1>20, <1>21, <1>22, <1>23, <1>24 DEF Next, Start, Continue, Quiet

\* No step publishes role maps behind the back of a claimed compilation.
LEMMA BaseStep ==
  ASSUME Inv, [Next]_vars
  PROVE  BaseCurrent'
<1>0. TypeOK /\ ClaimOwned /\ BaseCurrent /\ DrainFrame
  BY DEF Inv
<1>a. /\ pc \in [Threads -> Places] /\ work \in [Threads -> Locals]
  BY <1>0 DEF TypeOK
<1> USE SessionAssumption DEF ClaimOwned, BaseCurrent, Compiling, Draining
<1>1. ASSUME NEW t \in Threads, NEW k \in Compilers, NEW kind \in {"stream", "coarse"}, Begin(t, k, kind)
      PROVE  BaseCurrent'
  <2>1. pc[t] = "idle" /\ UNCHANGED roles
    BY <1>1 DEF Begin, retained
  <2> QED
    BY <1>0, <1>a, <1>1, <2>1, BeginLocals
<1>2. ASSUME NEW t \in Threads, NEW k \in Compilers, BeginUnplanned(t, k)
      PROVE  BaseCurrent'
  <2>1. UNCHANGED <<pc, work>> /\ UNCHANGED roles
    BY <1>2 DEF BeginUnplanned, retained
  <2> QED
    BY <1>0, <1>a, <1>2, <2>1
<1>3. ASSUME NEW t \in Threads, NEW k \in Compilers, BeginBusy(t, k)
      PROVE  BaseCurrent'
  <2>1. UNCHANGED <<pc, work>> /\ UNCHANGED roles
    BY <1>3 DEF BeginBusy, retained
  <2> QED
    BY <1>0, <1>a, <1>3, <2>1
<1>4. ASSUME NEW t \in Threads, NEW k \in Compilers, NextBatch(t, k)
      PROVE  BaseCurrent'
  <2>1. pc[t] = "idle" /\ UNCHANGED roles
    BY <1>4 DEF NextBatch, retained
  <2> QED
    BY <1>0, <1>a, <1>4, <2>1, NextBatchLocals
<1>5. ASSUME NEW t \in Threads, NEW k \in Compilers, NextUnplanned(t, k)
      PROVE  BaseCurrent'
  <2>1. UNCHANGED <<pc, work>> /\ UNCHANGED roles
    BY <1>5 DEF NextUnplanned, retained
  <2> QED
    BY <1>0, <1>a, <1>5, <2>1
<1>6. ASSUME NEW t \in Threads, Prepare(t)
      PROVE  BaseCurrent'
  <2>1. pc[t] = "prepare" /\ UNCHANGED roles
    BY <1>6 DEF Prepare, Preparable, retained
  <2> QED
    BY <1>0, <1>a, <1>6, <2>1, PrepareLocals
<1>7. ASSUME NEW t \in Threads, AppendChunk(t)
      PROVE  BaseCurrent'
  <2>1. pc[t] = "chunk" /\ UNCHANGED roles
    BY <1>7 DEF AppendChunk, retained
  <2> QED
    BY <1>0, <1>a, <1>7, <2>1, AppendChunkLocals
<1>8. ASSUME NEW t \in Threads, LastChunk(t)
      PROVE  BaseCurrent'
  <2>1. pc[t] = "chunk" /\ UNCHANGED roles
    BY <1>8 DEF LastChunk, retained
  <2> QED
    BY <1>0, <1>a, <1>8, <2>1, LastChunkLocals
<1>9. ASSUME NEW t \in Threads, CompileFails(t)
      PROVE  BaseCurrent'
  <2>1. pc[t] \in {"prepare", "chunk", "construct"} /\ UNCHANGED roles
    BY <1>9 DEF CompileFails, Preparable, retained
  <2> QED
    BY <1>0, <1>a, <1>9, <2>1, CompileFailsLocals
<1>10. ASSUME NEW t \in Threads, Fail(t)
      PROVE  BaseCurrent'
  <2>1. pc[t] = "failing" /\ UNCHANGED roles
    BY <1>10 DEF Fail, retained
  <2> QED
    BY <1>0, <1>a, <1>10, <2>1, ReturnLocals
<1>11. ASSUME NEW t \in Threads, Publish(t)
      PROVE  BaseCurrent'
  <2>1. pc[t] = "construct" /\ (work[t].compiler \notin Stateful => roles' = roles)
    BY <1>11 DEF Publish, CommitsRoles
  <2> QED
    BY <1>0, <1>a, <1>11, <2>1, ReturnLocals
<1>12. ASSUME NEW t \in Threads, PublishCancelled(t)
      PROVE  BaseCurrent'
  <2>1. pc[t] = "construct" /\ roles' = roles
    BY <1>12 DEF PublishCancelled, DiscardedRoles
  <2> QED
    BY <1>0, <1>a, <1>12, <2>1, ReturnLocals
<1>13. ASSUME NEW t \in Threads, Drain(t)
      PROVE  BaseCurrent'
  <2>1. pc[t] = "drain" /\ UNCHANGED roles
    BY <1>13 DEF Drain, retained
  <2> QED
    BY <1>0, <1>a, <1>13, <2>1, DrainLocals
<1>14. ASSUME NEW t \in Threads, DrainFails(t)
      PROVE  BaseCurrent'
  <2>1. pc[t] \in {"drain", "build"} /\ UNCHANGED roles
    BY <1>14 DEF DrainFails, retained
  <2> QED
    BY <1>0, <1>a, <1>14, <2>1, DrainFailsLocals
<1>15. ASSUME NEW t \in Threads, Restore(t)
      PROVE  BaseCurrent'
  <2>1. pc[t] = "restore" /\ UNCHANGED roles
    BY <1>15 DEF Restore, retained
  <2> QED
    BY <1>0, <1>a, <1>15, <2>1, ReturnLocals
<1>16. ASSUME NEW t \in Threads, Commit(t)
      PROVE  BaseCurrent'
  <2>1. pc[t] = "build" /\ UNCHANGED roles
    BY <1>16 DEF Commit, retained
  <2> QED
    BY <1>0, <1>a, <1>16, <2>1, CommitLocals
<1>17. ASSUME NEW t \in Threads, Discard(t)
      PROVE  BaseCurrent'
  <2>1. pc[t] = "build" /\ UNCHANGED roles
    BY <1>17 DEF Discard, retained
  <2> QED
    BY <1>0, <1>a, <1>17, <2>1, ReturnLocals
<1>18. ASSUME NEW t \in Threads, CountBatch(t)
      PROVE  BaseCurrent'
  <2>1. pc[t] = "post" /\ UNCHANGED roles
    BY <1>18 DEF CountBatch, retained
  <2> QED
    BY <1>0, <1>a, <1>18, <2>1, ReturnLocals
<1>19. ASSUME NEW t \in Threads, ReadReturns(t)
      PROVE  BaseCurrent'
  <2>1. pc[t] = "read" /\ UNCHANGED roles
    BY <1>19 DEF ReadReturns, retained
  <2> QED
    BY <1>0, <1>a, <1>19, <2>1, ReadReturnsLocals
<1>20. ASSUME NEW t \in Threads, ReadRoles(t)
      PROVE  BaseCurrent'
  <2>1. pc[t] = "idle" /\ UNCHANGED roles
    BY <1>20 DEF ReadRoles, retained
  <2> QED
    BY <1>0, <1>a, <1>20, <2>1, ReadRolesLocals
<1>21. ASSUME NEW k \in Compilers, StopEmpty(k)
      PROVE  BaseCurrent'
  <2>1. UNCHANGED <<pc, work>> /\ UNCHANGED roles
    BY <1>21 DEF StopEmpty, retained
  <2> QED
    BY <1>0, <1>a, <1>21, <2>1
<1>22. ASSUME NEW k \in Compilers, Close(k)
      PROVE  BaseCurrent'
  <2>1. UNCHANGED <<pc, work>> /\ UNCHANGED roles
    BY <1>22 DEF Close, CancelOutput, retained
  <2> QED
    BY <1>0, <1>a, <1>22, <2>1
<1>23. ASSUME NEW k \in Compilers, Cancel(k)
      PROVE  BaseCurrent'
  <2>1. UNCHANGED <<pc, work>> /\ UNCHANGED roles
    BY <1>23 DEF Cancel, retained
  <2> QED
    BY <1>0, <1>a, <1>23, <2>1
<1>24. ASSUME UNCHANGED vars
      PROVE  BaseCurrent'
  BY <1>0, <1>a, <1>24 DEF vars, retained
<1> QED
  BY <1>1, <1>2, <1>3, <1>4, <1>5, <1>6, <1>7, <1>8, <1>9, <1>10, <1>11, <1>12, <1>13, <1>14, <1>15, <1>16, <1>17, <1>18, <1>19, <1>20, <1>21, <1>22, <1>23, <1>24 DEF Next, Start, Continue, Quiet

\* No step shows a part of an unfinished compiler.
LEMMA AbsentStep ==
  ASSUME Inv, [Next]_vars
  PROVE  AbsentFrame'
<1>0. TypeOK /\ WorkFrame /\ AbsentFrame /\ DrainFrame
  BY DEF Inv
<1>a. /\ pc \in [Threads -> Places] /\ work \in [Threads -> Locals]
      /\ state \in [Compilers -> {"idle", "running", "finished", "cancelled", "failed"}]
      /\ session \in [Compilers -> {"absent", "active", "exhausted", "cancelled"}]
      /\ opened \in [Compilers -> BOOLEAN] /\ handed \in [Compilers -> Seq(Nat)]
  BY <1>0 DEF TypeOK
<1> USE SessionAssumption DEF WorkFrame, AbsentFrame, DrainFrame, HoldsCursor, Compiling, Draining
<1>1. ASSUME UNCHANGED <<state, session, opened, handed>>
      PROVE  AbsentFrame'
  BY <1>0, <1>a, <1>1
<1>2. ASSUME NEW t \in Threads, NEW k \in Compilers, NEW kind \in {"stream", "coarse"}, Begin(t, k, kind)
      PROVE  AbsentFrame'
  <2>1. pc[t] = "idle" /\ state[k] = "idle" /\ state' = [state EXCEPT ![k] = "running"]
        /\ UNCHANGED <<session, opened, handed>>
    BY <1>2 DEF Begin, output, iterator
  <2> QED
    BY <1>0, <1>a, <1>2, <2>1, BeginLocals
<1>3. ASSUME NEW t \in Threads, NEW k \in Compilers, BeginUnplanned(t, k)
      PROVE  AbsentFrame'
  <2>1. UNCHANGED <<pc, work>> /\ state[k] = "idle" /\ state' = [state EXCEPT ![k] = "running"]
        /\ UNCHANGED <<session, opened, handed>>
    BY <1>3 DEF BeginUnplanned, output, iterator
  <2> QED
    BY <1>0, <1>a, <1>3, <2>1
<1>4. ASSUME NEW t \in Threads, NEW k \in Compilers, BeginBusy(t, k)
      PROVE  AbsentFrame'
  <2>1. UNCHANGED <<pc, work>> /\ state[k] = "idle" /\ state' = [state EXCEPT ![k] = "failed"]
        /\ UNCHANGED <<session, opened, handed>>
    BY <1>4 DEF BeginBusy, output, iterator
  <2> QED
    BY <1>0, <1>a, <1>4, <2>1
<1>5. ASSUME NEW t \in Threads, Fail(t)
      PROVE  AbsentFrame'
  <2>1. pc[t] = "failing" /\ state' = [state EXCEPT ![work[t].compiler] = IF @ = "running" THEN "failed" ELSE @]
        /\ UNCHANGED <<session, opened, handed>>
    BY <1>5 DEF Fail, output, iterator
  <2> QED
    BY <1>0, <1>a, <1>5, <2>1, ReturnLocals
<1>6. ASSUME NEW t \in Threads, Publish(t)
      PROVE  AbsentFrame'
  <2>1. pc[t] = "construct" /\ state[work[t].compiler] = "running" /\ state' = [state EXCEPT ![work[t].compiler] = "finished"]
        /\ \/ handed' = [handed EXCEPT ![work[t].compiler] = [i \in 1..work[t].edges |-> i]]
              /\ UNCHANGED <<session, opened>>
           \/ /\ session' = [session EXCEPT ![work[t].compiler] =
                                IF work[t].edges = 0 THEN "exhausted" ELSE "active"]
              /\ opened' = [opened EXCEPT ![work[t].compiler] = TRUE]
              /\ UNCHANGED handed
    BY <1>6 DEF Publish, Finishable, Install, output, iterator
  <2> QED
    BY <1>0, <1>a, <1>6, <2>1, ReturnLocals
<1>7. ASSUME NEW t \in Threads, Commit(t)
      PROVE  AbsentFrame'
  <2>1. work[t].compiler \in Compilers /\ session[work[t].compiler] \in {"active", "cancelled"}
    BY <1>0, <1>7 DEF Commit
  <2>2. UNCHANGED <<state, opened>>
        /\ session'[work[t].compiler] \in {session[work[t].compiler], "exhausted"}
        /\ \A j \in Compilers : j # work[t].compiler =>
             session'[j] = session[j] /\ handed'[j] = handed[j]
    BY <1>a, <2>1, <1>7 DEF Commit, iterator
  <2> QED
    BY <1>0, <1>a, <2>1, <2>2
<1>8. ASSUME NEW t \in Threads, CountBatch(t)
      PROVE  AbsentFrame'
  <2>1. pc[t] = "post" /\ UNCHANGED <<state, session, handed>>
        /\ opened' = [opened EXCEPT ![work[t].compiler] =
                         @ /\ yielded[work[t].compiler] + work[t].amount # edges[work[t].compiler]]
    BY <1>8 DEF CountBatch, output, iterator
  <2> QED
    BY <1>0, <1>a, <1>8, <2>1, ReturnLocals
<1>9. ASSUME NEW k \in Compilers, StopEmpty(k)
      PROVE  AbsentFrame'
  <2>1. UNCHANGED <<pc, work>> /\ UNCHANGED <<state, session, handed>> /\ opened' = [opened EXCEPT ![k] = FALSE]
    BY <1>9 DEF StopEmpty, output, iterator
  <2> QED
    BY <1>0, <1>a, <1>9, <2>1
<1>10. ASSUME NEW k \in Compilers, Close(k)
      PROVE  AbsentFrame'
  <2>1. UNCHANGED <<pc, work>> /\ opened[k] /\ opened' = [opened EXCEPT ![k] = FALSE] /\ UNCHANGED handed
        /\ \/ /\ session' = [session EXCEPT ![k] = "cancelled"]
              /\ state' = [state EXCEPT ![k] = "cancelled"]
           \/ UNCHANGED <<session, state>>
    BY <1>10 DEF Close, CancelOutput
  <2> QED
    BY <1>0, <1>a, <1>10, <2>1
<1>11. ASSUME NEW k \in Compilers, Cancel(k)
      PROVE  AbsentFrame'
  <2>1. UNCHANGED <<pc, work>> /\ state[k] \in {"idle", "running"} /\ state' = [state EXCEPT ![k] = "cancelled"]
        /\ UNCHANGED <<session, opened, handed>>
    BY <1>11 DEF Cancel, output, iterator
  <2> QED
    BY <1>0, <1>a, <1>11, <2>1
<1>12. ASSUME NEW t \in Threads, NEW k \in Compilers,
             NextBatch(t, k) \/ NextUnplanned(t, k)
      PROVE  UNCHANGED <<state, session, opened, handed>>
  BY <1>12 DEF output, iterator, NextBatch, NextUnplanned
<1>13. ASSUME NEW t \in Threads,
             Prepare(t) \/ AppendChunk(t) \/ LastChunk(t) \/ CompileFails(t) \/
             PublishCancelled(t) \/ Drain(t) \/ DrainFails(t) \/ Restore(t) \/
             Discard(t) \/ ReadReturns(t) \/ ReadRoles(t)
      PROVE  UNCHANGED <<state, session, opened, handed>>
  BY <1>13 DEF output, iterator, Prepare, AppendChunk, LastChunk, CompileFails, PublishCancelled, Drain,
     DrainFails, Restore, Discard, ReadReturns, ReadRoles
<1>14. ASSUME UNCHANGED vars
      PROVE  AbsentFrame'
  BY <1>0, <1>a, <1>14 DEF vars, output, iterator
<1> QED
  BY <1>1, <1>2, <1>3, <1>4, <1>5, <1>6, <1>7, <1>8, <1>9, <1>10, <1>11, <1>12, <1>13, <1>14 DEF Next, Start, Continue, Quiet

\* Every step leaves a waiting stream only in an active session.
LEMMA StreamStep ==
  ASSUME Inv, [Next]_vars
  PROVE  StreamFrame'
<1>0. TypeOK /\ WorkFrame /\ StreamFrame /\ DrainFrame
  BY DEF Inv
<1>a. /\ pc \in [Threads -> Places] /\ work \in [Threads -> Locals]
      /\ session \in [Compilers -> {"absent", "active", "exhausted", "cancelled"}]
      /\ stream \in [Compilers -> Nat \cup {Nothing}] /\ edges \in [Compilers -> Nat]
      /\ draining \in [Compilers -> BOOLEAN]
      /\ \A t \in Threads : work[t].edges \in Nat /\ work[t].cursor \in Nat
                             /\ work[t].amount \in Nat
  BY <1>0 DEF TypeOK, Locals
<1> USE SessionAssumption DEF WorkFrame, StreamFrame, DrainFrame, HoldsCursor, Compiling, Draining
<1>1. ASSUME UNCHANGED <<stream, session, draining, edges>>
      PROVE  StreamFrame'
  BY <1>0, <1>a, <1>1
<1>2. ASSUME NEW t \in Threads, NEW k \in Compilers, NextBatch(t, k)
      PROVE  StreamFrame'
  <2>1. pc[t] = "idle" /\ session[k] = "active" /\ stream[k] # Nothing /\ UNCHANGED <<session, edges>>
        /\ stream' = [stream EXCEPT ![k] = Nothing] /\ draining' = [draining EXCEPT ![k] = TRUE]
    BY <1>2 DEF NextBatch, NextReady, TakeStream
  <2> QED
    BY <1>0, <1>a, <1>2, <2>1, NextBatchLocals
<1>3. ASSUME NEW t \in Threads, NEW k \in Compilers, NextUnplanned(t, k)
      PROVE  StreamFrame'
  <2>1. UNCHANGED <<pc, work>> /\ session[k] = "active" /\ stream[k] # Nothing /\ UNCHANGED <<session, edges>>
        /\ stream' = [stream EXCEPT ![k] = Nothing] /\ draining' = [draining EXCEPT ![k] = TRUE]
    BY <1>3 DEF NextUnplanned, NextReady, TakeStream
  <2> QED
    BY <1>0, <1>a, <1>3, <2>1
<1>4. ASSUME NEW t \in Threads, Publish(t)
      PROVE  StreamFrame'
  <2>1. pc[t] = "construct" /\ 
        /\ \/ UNCHANGED <<stream, session, draining, edges>>
           \/ /\ session' = [session EXCEPT ![work[t].compiler] = IF work[t].edges = 0 THEN "exhausted" ELSE "active"]
              /\ stream' = [stream EXCEPT ![work[t].compiler] = IF work[t].edges = 0 THEN Nothing ELSE 0]
              /\ edges' = [edges EXCEPT ![work[t].compiler] = work[t].edges]
              /\ draining' = [draining EXCEPT ![work[t].compiler] = FALSE]
    BY <1>4 DEF Publish, Install, output, iterator
  <2> QED
    BY <1>0, <1>a, <1>4, <2>1, ReturnLocals
<1>5. ASSUME NEW t \in Threads, Restore(t)
      PROVE  StreamFrame'
  <2>1. pc[t] = "restore" /\ UNCHANGED <<session, edges>> /\ draining' = [draining EXCEPT ![work[t].compiler] = FALSE]
        /\ stream' = [stream EXCEPT ![work[t].compiler] = IF session[work[t].compiler] = "cancelled" THEN stream[work[t].compiler] ELSE work[t].cursor]
    BY <1>5 DEF Restore, Restored, RestoredCursor
  <2> QED
    BY <1>0, <1>a, <1>5, <2>1, ReturnLocals
<1>6. ASSUME NEW t \in Threads, Commit(t)
      PROVE  StreamFrame'
  <2>1. pc[t] = "build" /\ session[work[t].compiler] # "cancelled" /\ UNCHANGED edges /\ draining' = [draining EXCEPT ![work[t].compiler] = FALSE]
        /\ stream' = [stream EXCEPT ![work[t].compiler] = IF work[t].cursor + work[t].amount >= work[t].edges THEN Nothing ELSE work[t].cursor + work[t].amount]
        /\ session' = [session EXCEPT ![work[t].compiler] = IF work[t].cursor + work[t].amount >= work[t].edges THEN "exhausted" ELSE @]
    BY <1>6 DEF Commit, Overtaken
  <2> QED
    BY <1>0, <1>a, <1>6, <2>1, CommitLocals
<1>7. ASSUME NEW t \in Threads, Discard(t)
      PROVE  StreamFrame'
  <2>1. pc[t] = "build" /\ session[work[t].compiler] = "cancelled" /\ UNCHANGED <<session, stream, edges>> /\ draining' = [draining EXCEPT ![work[t].compiler] = FALSE]
    BY <1>7 DEF Discard, Overtaken
  <2> QED
    BY <1>0, <1>a, <1>7, <2>1, ReturnLocals
<1>8. ASSUME NEW k \in Compilers, Close(k)
      PROVE  StreamFrame'
  <2>1. UNCHANGED <<pc, work>> /\ UNCHANGED <<draining, edges>>
        /\ \/ /\ session[k] = "active" /\ session' = [session EXCEPT ![k] = "cancelled"]
              /\ stream' = [stream EXCEPT ![k] = Nothing]
           \/ UNCHANGED <<session, stream>>
    BY <1>8 DEF Close, CancelOutput
  <2> QED
    BY <1>0, <1>a, <1>8, <2>1
<1>9. ASSUME NEW t \in Threads, NEW k \in Compilers, NEW kind \in {"stream", "coarse"},
             Begin(t, k, kind)
      PROVE  UNCHANGED <<stream, session, draining, edges>>
  BY <1>9 DEF output, Begin
<1>10. ASSUME NEW t \in Threads, NEW k \in Compilers,
             BeginUnplanned(t, k) \/ BeginBusy(t, k)
      PROVE  UNCHANGED <<stream, session, draining, edges>>
  BY <1>10 DEF output, BeginUnplanned, BeginBusy
<1>11. ASSUME NEW t \in Threads,
             Prepare(t) \/ AppendChunk(t) \/ LastChunk(t) \/ CompileFails(t) \/
             Fail(t) \/ PublishCancelled(t) \/ Drain(t) \/ DrainFails(t) \/
             CountBatch(t) \/ ReadReturns(t) \/ ReadRoles(t)
      PROVE  UNCHANGED <<stream, session, draining, edges>>
  BY <1>11 DEF output, Prepare, AppendChunk, LastChunk, CompileFails, Fail, PublishCancelled, Drain,
     DrainFails, CountBatch, ReadReturns, ReadRoles
<1>12. ASSUME NEW k \in Compilers,
             StopEmpty(k) \/ Cancel(k)
      PROVE  UNCHANGED <<stream, session, draining, edges>>
  BY <1>12 DEF output, StopEmpty, Cancel
<1>13. ASSUME UNCHANGED vars
      PROVE  StreamFrame'
  BY <1>0, <1>a, <1>13 DEF vars, output
<1> QED
  BY <1>1, <1>2, <1>3, <1>4, <1>5, <1>6, <1>7, <1>8, <1>9, <1>10, <1>11, <1>12, <1>13 DEF Next, Start, Continue, Quiet

\* A drain that a step does not touch, except that it may have failed or that its
\* session may have been cancelled.
Untouched(u) ==
  LET k == work[u].compiler IN
  /\ pc[u] \in Draining /\ pc'[u] \in {pc[u], "restore"} /\ work'[u] = work[u]
  /\ session'[k] \in {"active", "cancelled"} /\ draining'[k] /\ stream'[k] = Nothing
  /\ edges'[k] = edges[k] /\ handed'[k] = handed[k]

\* Drains that are not touched keep what they know.
LEMMA DrainKept ==
  ASSUME DrainFrame, \A u \in Threads : pc'[u] \in Draining => Untouched(u)
  PROVE  DrainFrame'
<1>1. ASSUME NEW u \in Threads, pc'[u] \in Draining
      PROVE  HoldsCursor(u)'
  <2>1. HoldsCursor(u) /\ Untouched(u)
    BY <1>1 DEF DrainFrame, Untouched
  <2> QED
    BY <2>1 DEF HoldsCursor, Untouched, BatchAmount
<1>2. ASSUME NEW t \in Threads, NEW u \in Threads, pc'[t] \in Draining, pc'[u] \in Draining,
             work'[t].compiler = work'[u].compiler
      PROVE  t = u
  <2>1. Untouched(t) /\ Untouched(u)
    BY <1>2
  <2> QED
    BY <1>2, <2>1 DEF DrainFrame, Untouched
<1> QED
  BY <1>1, <1>2 DEF DrainFrame

\* The steps of threads outside a drain.
LEMMA Elsewhere ==
  ASSUME TypeOK, NEW t \in Threads,
             Prepare(t) \/ AppendChunk(t) \/ LastChunk(t) \/ CompileFails(t) \/
             Fail(t) \/ PublishCancelled(t) \/ CountBatch(t) \/ ReadReturns(t) \/
             ReadRoles(t)
  PROVE  /\ pc[t] \notin Draining /\ pc'[t] \notin Draining
         /\ \A u \in Threads : u # t => pc'[u] = pc[u] /\ work'[u] = work[u]
         /\ UNCHANGED <<stream, session, draining, edges, handed>>
<1>1. pc[t] \notin Draining /\ UNCHANGED <<stream, session, draining, edges, handed>>
  BY DEF Draining, output, Preparable, Prepare, AppendChunk, LastChunk, CompileFails, Fail, PublishCancelled,
     CountBatch, ReadReturns, ReadRoles
<1>2. /\ pc'[t] \notin Draining
      /\ \A u \in Threads : u # t => pc'[u] = pc[u] /\ work'[u] = work[u]
  BY <1>1, AppendChunkLocals, CompileFailsLocals, ReturnLocals, ReturnLocals,
     LastChunkLocals, PrepareLocals, ReturnLocals, ReadReturnsLocals,
     ReadRolesLocals DEF Draining
<1> QED
  BY <1>1, <1>2

\* Every step leaves the cursor of a session with at most one thread.
LEMMA DrainStep ==
  ASSUME Inv, [Next]_vars
  PROVE  DrainFrame'
<1>0. TypeOK /\ WorkFrame /\ AbsentFrame /\ StreamFrame /\ DrainFrame /\ ExactlyOnce
  BY DEF Inv
<1>a. /\ pc \in [Threads -> Places] /\ work \in [Threads -> Locals]
      /\ session \in [Compilers -> {"absent", "active", "exhausted", "cancelled"}]
      /\ stream \in [Compilers -> Nat \cup {Nothing}] /\ edges \in [Compilers -> Nat]
      /\ draining \in [Compilers -> BOOLEAN] /\ handed \in [Compilers -> Seq(Nat)]
      /\ \A t \in Threads : work[t].edges \in Nat /\ work[t].cursor \in Nat
                             /\ work[t].amount \in Nat
  BY <1>0 DEF TypeOK, Locals
<1> USE SessionAssumption DEF Compiling, Draining
<1>1. ASSUME NEW t \in Threads,
             Prepare(t) \/ AppendChunk(t) \/ LastChunk(t) \/ CompileFails(t) \/
             Fail(t) \/ PublishCancelled(t) \/ CountBatch(t) \/ ReadReturns(t) \/
             ReadRoles(t)
      PROVE  DrainFrame'
  <2>1. \A u \in Threads : pc'[u] \in Draining => Untouched(u)
    <3> HIDE DEF Compiling, Draining
    <3> QED
      BY <1>0, <1>1, Elsewhere DEF DrainFrame, HoldsCursor, Untouched
  <2> QED
    BY <1>0, <2>1, DrainKept
<1>2. ASSUME UNCHANGED <<pc, work, stream, session, draining, edges, handed>>
      PROVE  DrainFrame'
  BY <1>0, <1>2 DEF DrainFrame, HoldsCursor, BatchAmount
<1>3. ASSUME NEW t \in Threads, NEW k \in Compilers, NEW kind \in {"stream", "coarse"}, Begin(t, k, kind)
      PROVE  DrainFrame'
  <2>1. pc[t] = "idle" /\ UNCHANGED <<stream, session, draining, edges, handed>>
    BY <1>3 DEF Begin, output
  <2>2. \A u \in Threads : pc'[u] \in Draining => Untouched(u)
    BY <1>0, <1>a, <1>3, <2>1, BeginLocals DEF DrainFrame, HoldsCursor, Untouched
  <2> QED
    BY <1>0, <2>2, DrainKept
<1>4. ASSUME NEW t \in Threads, NEW k \in Compilers, NextBatch(t, k)
      PROVE  DrainFrame'
  <2>1. /\ session[k] = "active" /\ stream[k] # Nothing /\ UNCHANGED <<session, edges, handed>>
        /\ stream' = [stream EXCEPT ![k] = Nothing] /\ draining' = [draining EXCEPT ![k] = TRUE]
    BY <1>4 DEF NextBatch, NextReady, TakeStream
  <2>2. stream[k] = Len(handed[k]) /\ stream[k] < edges[k] /\ ~draining[k]
    BY <1>0, <2>1 DEF StreamFrame, ExactlyOnce
  <2>3. \A u \in Threads : u # t /\ pc'[u] \in Draining =>
          /\ pc[u] \in Draining /\ pc'[u] = pc[u] /\ work'[u] = work[u]
          /\ work[u].compiler # k /\ work[u].compiler \in Compilers /\ HoldsCursor(u)
    BY <1>0, <2>2, <1>4, NextBatchLocals DEF WorkFrame, DrainFrame, HoldsCursor
  <2>4. \A u \in Threads : u # t /\ pc'[u] \in Draining => HoldsCursor(u)'
    <3> SUFFICES ASSUME NEW u \in Threads, u # t /\ pc'[u] \in Draining
                 PROVE  HoldsCursor(u)'
      OBVIOUS
    <3>1. PICK j \in Compilers : j = work[u].compiler
      BY <2>3
    <3>2. j # k /\ work'[u] = work[u] /\ pc'[u] = pc[u] /\ HoldsCursor(u)
      BY <2>3, <3>1
    <3>3. stream'[j] = stream[j] /\ draining'[j] = draining[j] /\ session' = session
          /\ edges' = edges /\ handed' = handed
      BY <1>a, <2>1, <3>2
    <3>4. BatchAmount(u)' = BatchAmount(u)
      BY <3>2 DEF BatchAmount
    <3> QED
      BY <3>1, <3>2, <3>3, <3>4 DEF HoldsCursor
  <2>5. HoldsCursor(t)'
    BY <1>0, <1>a, <2>1, <2>2, <1>4, NextBatchLocals DEF HoldsCursor
  <2> QED
    BY <1>0, <2>3, <2>4, <2>5, <1>4, NextBatchLocals DEF DrainFrame
<1>5. ASSUME NEW t \in Threads, NEW k \in Compilers, NextUnplanned(t, k)
      PROVE  DrainFrame'
  <2>1. UNCHANGED <<pc, work, session, edges, handed>> /\ stream[k] # Nothing
        /\ stream' = [stream EXCEPT ![k] = Nothing] /\ draining' = [draining EXCEPT ![k] = TRUE]
    BY <1>5 DEF NextUnplanned, NextReady, TakeStream
  <2>2. \A u \in Threads : pc'[u] \in Draining => Untouched(u)
    BY <1>0, <1>a, <2>1 DEF DrainFrame, HoldsCursor, Untouched, WorkFrame
  <2> QED
    BY <1>0, <2>2, DrainKept
<1>6. ASSUME NEW t \in Threads, Publish(t)
      PROVE  DrainFrame'
  <2>1. work[t].compiler \in Compilers /\ state[work[t].compiler] = "running" /\ pc[t] = "construct"
        /\ \A j \in Compilers : j # work[t].compiler =>
             /\ session'[j] = session[j] /\ stream'[j] = stream[j] /\ edges'[j] = edges[j]
             /\ draining'[j] = draining[j] /\ handed'[j] = handed[j]
    BY <1>0, <1>a, <1>6 DEF Publish, Finishable, Install, output, iterator, WorkFrame
  <2>2. session[work[t].compiler] = "absent"
    BY <1>0, <2>1 DEF AbsentFrame
  <2>3. \A u \in Threads : pc[u] \in Draining => work[t].compiler # work[u].compiler /\ work[u].compiler \in Compilers
    BY <1>0, <2>2 DEF WorkFrame, DrainFrame, HoldsCursor
  <2>4. \A u \in Threads : pc'[u] \in Draining => Untouched(u)
    BY <1>0, <1>a, <1>6, <2>1, <2>3, ReturnLocals DEF DrainFrame, HoldsCursor, Untouched
  <2> QED
    BY <1>0, <2>4, DrainKept
<1>7. ASSUME NEW t \in Threads, Drain(t)
      PROVE  DrainFrame'
  <2>1. pc[t] = "drain" /\ UNCHANGED <<stream, session, draining, edges, handed>>
    BY <1>7 DEF Drain, output
  <2>2. \A u \in Threads : pc'[u] \in Draining =>
          pc[u] \in Draining /\ HoldsCursor(u) /\ work'[u].compiler = work[u].compiler
    <3>1. pc[t] \in Draining /\ HoldsCursor(t) /\ work'[t].compiler = work[t].compiler
      BY <1>0, <2>1, <1>7, DrainLocals DEF DrainFrame
    <3>2. \A u \in Threads : u # t /\ pc'[u] \in Draining =>
            pc[u] \in Draining /\ HoldsCursor(u) /\ work'[u].compiler = work[u].compiler
      BY <1>0, <1>7, DrainLocals DEF DrainFrame
    <3> QED
      BY <3>1, <3>2
  <2>3. HoldsCursor(t)'
    <3>1. /\ work'[t].compiler = work[t].compiler /\ work'[t].edges = work[t].edges
          /\ work'[t].cursor = work[t].cursor /\ work'[t].amount = BatchAmount(t)
      BY <1>0, <1>7, DrainLocals
    <3>2. HoldsCursor(t)
      BY <1>0, <2>1 DEF DrainFrame
    <3> QED
      BY <2>1, <3>1, <3>2 DEF HoldsCursor, BatchAmount
  <2>4. \A u \in Threads : u # t /\ pc'[u] \in Draining => HoldsCursor(u)'
    BY <1>0, <1>a, <2>1, <2>2, <1>7, DrainLocals DEF HoldsCursor, BatchAmount
  <2> QED
    BY <1>0, <2>2, <2>3, <2>4 DEF DrainFrame
<1>8. ASSUME NEW t \in Threads, DrainFails(t)
      PROVE  DrainFrame'
  <2>1. pc[t] \in {"drain", "build"} /\ UNCHANGED <<stream, session, draining, edges, handed>>
    BY <1>8 DEF DrainFails, output
  <2>2. \A u \in Threads : pc'[u] \in Draining => Untouched(u)
    BY <1>0, <1>a, <1>8, <2>1, DrainFailsLocals DEF DrainFrame, HoldsCursor, Untouched
  <2> QED
    BY <1>0, <2>2, DrainKept
<1>9. ASSUME NEW t \in Threads, Restore(t)
      PROVE  DrainFrame'
  <2>1. work[t].compiler \in Compilers /\ pc[t] = "restore"
        /\ \A j \in Compilers : j # work[t].compiler =>
             /\ session'[j] = session[j] /\ stream'[j] = stream[j] /\ edges'[j] = edges[j]
             /\ draining'[j] = draining[j] /\ handed'[j] = handed[j]
    BY <1>0, <1>a, <1>9 DEF Restore, WorkFrame
  <2>2. \A u \in Threads : pc'[u] \in Draining =>
          /\ u # t /\ pc[u] \in Draining
          /\ work[u].compiler # work[t].compiler /\ work[u].compiler \in Compilers
    BY <1>0, <2>1, <1>9, ReturnLocals DEF WorkFrame, DrainFrame
  <2>3. \A u \in Threads : pc'[u] \in Draining => Untouched(u)
    BY <1>0, <1>a, <1>9, <2>1, <2>2, ReturnLocals DEF DrainFrame, HoldsCursor, Untouched
  <2> QED
    BY <1>0, <2>3, DrainKept
<1>10. ASSUME NEW t \in Threads, Commit(t)
      PROVE  DrainFrame'
  <2>1. work[t].compiler \in Compilers /\ pc[t] = "build"
        /\ \A j \in Compilers : j # work[t].compiler =>
             /\ session'[j] = session[j] /\ stream'[j] = stream[j] /\ edges'[j] = edges[j]
             /\ draining'[j] = draining[j] /\ handed'[j] = handed[j]
    BY <1>0, <1>a, <1>10 DEF Commit, WorkFrame
  <2>2. \A u \in Threads : pc'[u] \in Draining =>
          /\ u # t /\ pc[u] \in Draining
          /\ work[u].compiler # work[t].compiler /\ work[u].compiler \in Compilers
    BY <1>0, <2>1, <1>10, CommitLocals DEF WorkFrame, DrainFrame
  <2>3. \A u \in Threads : pc'[u] \in Draining => Untouched(u)
    BY <1>0, <1>a, <1>10, <2>1, <2>2, CommitLocals DEF DrainFrame, HoldsCursor, Untouched
  <2> QED
    BY <1>0, <2>3, DrainKept
<1>11. ASSUME NEW t \in Threads, Discard(t)
      PROVE  DrainFrame'
  <2>1. work[t].compiler \in Compilers /\ pc[t] = "build"
        /\ \A j \in Compilers : j # work[t].compiler =>
             /\ session'[j] = session[j] /\ stream'[j] = stream[j] /\ edges'[j] = edges[j]
             /\ draining'[j] = draining[j] /\ handed'[j] = handed[j]
    BY <1>0, <1>a, <1>11 DEF Discard, WorkFrame
  <2>2. \A u \in Threads : pc'[u] \in Draining =>
          /\ u # t /\ pc[u] \in Draining
          /\ work[u].compiler # work[t].compiler /\ work[u].compiler \in Compilers
    BY <1>0, <2>1, <1>11, ReturnLocals DEF WorkFrame, DrainFrame
  <2>3. \A u \in Threads : pc'[u] \in Draining => Untouched(u)
    BY <1>0, <1>a, <1>11, <2>1, <2>2, ReturnLocals DEF DrainFrame, HoldsCursor, Untouched
  <2> QED
    BY <1>0, <2>3, DrainKept
<1>12. ASSUME NEW k \in Compilers, Close(k)
      PROVE  DrainFrame'
  <2>1. UNCHANGED <<pc, work, draining, edges, handed>>
        /\ session' \in {session, [session EXCEPT ![k] = "cancelled"]}
        /\ stream' \in {stream, [stream EXCEPT ![k] = Nothing]}
    BY <1>12 DEF Close, CancelOutput
  <2>2. \A u \in Threads : pc'[u] \in Draining => Untouched(u)
    BY ZenonT(60), <1>0, <1>a, <2>1 DEF DrainFrame, HoldsCursor, Untouched, WorkFrame
  <2> QED
    BY <1>0, <2>2, DrainKept
<1>13. ASSUME NEW t \in Threads, NEW k \in Compilers,
             BeginUnplanned(t, k) \/ BeginBusy(t, k)
      PROVE  UNCHANGED <<pc, work, stream, session, draining, edges, handed>>
  BY <1>13 DEF output, BeginUnplanned, BeginBusy
<1>14. ASSUME NEW k \in Compilers,
             StopEmpty(k) \/ Cancel(k)
      PROVE  UNCHANGED <<pc, work, stream, session, draining, edges, handed>>
  BY <1>14 DEF output, StopEmpty, Cancel
<1>15. UNCHANGED vars => UNCHANGED <<pc, work, stream, session, draining, edges, handed>>
  BY DEF vars, output
<1> QED
  BY <1>1, <1>2, <1>3, <1>4, <1>5, <1>6, <1>7, <1>8, <1>9, <1>10, <1>11, <1>12,
     <1>13, <1>14, <1>15
     DEF Next, Start, Continue, Quiet

\* The delivery of a compiler: what ExactlyOnce says of it.
Delivered(k) ==
  /\ handed[k] = [i \in 1..Len(handed[k]) |-> i]
  /\ stream[k] # Nothing => stream[k] = Len(handed[k])
  /\ session[k] = "exhausted" => Len(handed[k]) = edges[k]

\* The delivery of a compiler changes and that of the others does not.
LEMMA ExactOne ==
  ASSUME ExactlyOnce, NEW k \in Compilers, Delivered(k)',
         \A j \in Compilers : j # k =>
           /\ handed'[j] = handed[j] /\ stream'[j] = stream[j]
           /\ session'[j] = session[j] /\ edges'[j] = edges[j]
  PROVE  ExactlyOnce'
<1>1. ASSUME NEW j \in Compilers, j # k
      PROVE  Delivered(j)'
  BY <1>1 DEF ExactlyOnce, Delivered
<1> QED
  BY <1>1 DEF ExactlyOnce, Delivered

\* Every step hands out the next edges of a session or none.
LEMMA ExactStep ==
  ASSUME Inv, [Next]_vars
  PROVE  ExactlyOnce'
<1>0. TypeOK /\ WorkFrame /\ AbsentFrame /\ StreamFrame /\ DrainFrame /\ ExactlyOnce
  BY DEF Inv
<1>a. /\ pc \in [Threads -> Places] /\ work \in [Threads -> Locals]
      /\ session \in [Compilers -> {"absent", "active", "exhausted", "cancelled"}]
      /\ stream \in [Compilers -> Nat \cup {Nothing}] /\ edges \in [Compilers -> Nat]
      /\ draining \in [Compilers -> BOOLEAN] /\ handed \in [Compilers -> Seq(Nat)]
      /\ \A t \in Threads : work[t].edges \in Nat /\ work[t].cursor \in Nat
                             /\ work[t].amount \in Nat
      /\ \A k \in Compilers : handed[k] \in Seq(Nat) /\ Len(handed[k]) \in Nat
  BY <1>0 DEF TypeOK, Locals
<1>b. \A k \in Compilers : Delivered(k)
  BY <1>0 DEF ExactlyOnce, Delivered
<1> USE SessionAssumption
<1>1. ASSUME UNCHANGED <<handed, stream, session, edges>>
      PROVE  ExactlyOnce'
  BY <1>0, <1>1 DEF ExactlyOnce
<1>2. ASSUME NEW k \in Compilers, UNCHANGED <<handed, session, edges>>,
             stream' = [stream EXCEPT ![k] = Nothing]
      PROVE  ExactlyOnce'
  <2>1. Delivered(k)'
    BY <1>a, <1>b, <1>2 DEF Delivered
  <2> QED
    BY <1>0, <1>a, <1>2, <2>1, ExactOne
<1>3. ASSUME NEW t \in Threads, Publish(t)
      PROVE  ExactlyOnce'
  <2>k. PICK k \in Compilers : k = work[t].compiler
    BY <1>0, <1>3 DEF Publish, WorkFrame, Compiling
  <2> DEFINE n == work[t].edges
  <2>1. /\ state[k] = "running" /\ n \in Nat
        /\ \A j \in Compilers : j # k =>
             /\ handed'[j] = handed[j] /\ stream'[j] = stream[j]
             /\ session'[j] = session[j] /\ edges'[j] = edges[j]
    BY <1>0, <1>a, <1>3, <2>k DEF Publish, Finishable, Install, output, WorkFrame, Compiling
  <2>2. session[k] = "absent" /\ stream[k] = Nothing /\ handed[k] = <<>>
    BY <1>0, <2>1 DEF AbsentFrame, StreamFrame
  <2>3. \/ /\ handed'[k] = [i \in 1..n |-> i]
           /\ stream'[k] = stream[k] /\ session'[k] = session[k]
        \/ /\ handed'[k] = handed[k] /\ edges'[k] = n
           /\ session'[k] = IF n = 0 THEN "exhausted" ELSE "active"
           /\ stream'[k] = IF n = 0 THEN Nothing ELSE 0
    BY <1>a, <1>3, <2>1, <2>k DEF Publish, Install, output
  <2>4. Len(<<>>) = 0
    OBVIOUS
  <2>5. Delivered(k)'
    <3>1. CASE /\ handed'[k] = [i \in 1..n |-> i]
               /\ stream'[k] = stream[k] /\ session'[k] = session[k]
      <4>1. handed'[k] = [i \in 1..Len(handed'[k]) |-> i]
        BY <2>1, <3>1, Counting
      <4> QED
        BY <2>2, <3>1, <4>1 DEF Delivered
    <3>2. CASE /\ handed'[k] = handed[k] /\ edges'[k] = n
               /\ session'[k] = IF n = 0 THEN "exhausted" ELSE "active"
               /\ stream'[k] = IF n = 0 THEN Nothing ELSE 0
      BY <1>b, <2>1, <2>2, <2>4, <3>2 DEF Delivered
    <3> QED
      BY <2>3, <3>1, <3>2
  <2> QED
    BY <1>0, <2>1, <2>5, ExactOne
<1>4. ASSUME NEW t \in Threads, Restore(t)
      PROVE  ExactlyOnce'
  <2>k. PICK k \in Compilers : k = work[t].compiler
    BY <1>0, <1>4 DEF Restore, WorkFrame, Draining
  <2>1. work[t].cursor = Len(handed[k]) /\ stream[k] = Nothing
    BY <1>0, <1>4, <2>k DEF Restore, WorkFrame, DrainFrame, HoldsCursor, Draining
  <2>2. /\ UNCHANGED <<handed, session, edges>>
        /\ stream' = [stream EXCEPT ![k] =
                        IF session[k] = "cancelled" THEN stream[k] ELSE work[t].cursor]
    BY <1>4, <2>k DEF Restore, Restored, RestoredCursor
  <2>3. Delivered(k)'
    BY <1>a, <1>b, <2>1, <2>2 DEF Delivered
  <2> QED
    BY <1>0, <1>a, <2>1, <2>2, <2>3, ExactOne
<1>5. ASSUME NEW t \in Threads, Commit(t)
      PROVE  ExactlyOnce'
  <2>k. PICK k \in Compilers : k = work[t].compiler
    BY <1>0, <1>5 DEF Commit, WorkFrame, Draining
  <2> DEFINE next == work[t].cursor + work[t].amount
  <2>1. /\ work[t].cursor = Len(handed[k]) /\ session[k] = "active"
        /\ work[t].edges = edges[k] /\ work[t].cursor < work[t].edges
        /\ work[t].amount = BatchAmount(t)
    BY <1>0, <1>5, <2>k DEF Commit, Overtaken, WorkFrame, DrainFrame, HoldsCursor, Draining
  <2>2. next <= edges[k]
    BY <1>a, <2>1 DEF BatchAmount, Smaller
  <2>3. /\ UNCHANGED edges
        /\ stream' = [stream EXCEPT ![k] = IF next >= work[t].edges THEN Nothing ELSE next]
        /\ session' = [session EXCEPT ![k] = IF next >= work[t].edges THEN "exhausted" ELSE @]
        /\ handed' = [handed EXCEPT ![k] =
                        @ \o [i \in 1..work[t].amount |-> work[t].cursor + i]]
    BY <1>5, <2>k DEF Commit
  <2>4. handed'[k] = handed[k] \o [i \in 1..work[t].amount |-> Len(handed[k]) + i]
    BY <1>a, <2>1, <2>3
  <2>5. /\ Len(handed'[k]) = Len(handed[k]) + work[t].amount
        /\ handed'[k] = [i \in 1..Len(handed'[k]) |-> i]
    <3>1. /\ handed[k] \in Seq(Nat) /\ work[t].amount \in Nat
          /\ handed[k] = [i \in 1..Len(handed[k]) |-> i]
      BY <1>a, <1>b DEF Delivered
    <3>2. LET s == handed[k] \o [i \in 1..work[t].amount |-> Len(handed[k]) + i]
          IN  Len(s) = Len(handed[k]) + work[t].amount /\ s = [i \in 1..Len(s) |-> i]
      BY <3>1, CountOn
    <3> QED
      BY <2>4, <3>2
  <2>6. Len(handed'[k]) = next /\ next \in Nat
    BY <1>a, <2>1, <2>5
  <2>7. /\ stream'[k] = IF next >= work[t].edges THEN Nothing ELSE next
        /\ session'[k] = IF next >= work[t].edges THEN "exhausted" ELSE "active"
        /\ edges'[k] = edges[k]
    BY <1>a, <2>1, <2>3
  <2>8. \A j \in Compilers : j # k =>
             /\ handed'[j] = handed[j] /\ stream'[j] = stream[j]
             /\ session'[j] = session[j] /\ edges'[j] = edges[j]
    BY <1>a, <2>3
  <2>9. Delivered(k)'
    <3> HIDE DEF next
    <3>1. edges[k] \in Nat
      BY <1>a, <2>1
    <3> QED
      BY <2>1, <2>2, <2>5, <2>6, <2>7, <3>1 DEF Delivered
  <2> QED
    BY <1>0, <2>1, <2>8, <2>9, ExactOne
<1>6. ASSUME NEW k \in Compilers, Close(k)
      PROVE  ExactlyOnce'
  <2>1. \/ UNCHANGED <<handed, stream, session, edges>>
        \/ /\ UNCHANGED <<handed, edges>>
           /\ session' = [session EXCEPT ![k] = "cancelled"]
           /\ stream' = [stream EXCEPT ![k] = Nothing]
    BY <1>6 DEF Close, CancelOutput
  <2>2. CASE /\ UNCHANGED <<handed, edges>>
             /\ session' = [session EXCEPT ![k] = "cancelled"]
             /\ stream' = [stream EXCEPT ![k] = Nothing]
    <3>1. Delivered(k)'
      BY <1>a, <1>b, <2>2 DEF Delivered
    <3> QED
      BY <1>0, <1>a, <2>2, <3>1, ExactOne
  <2> QED
    BY <1>1, <2>1, <2>2
<1>7. ASSUME NEW t \in Threads, NEW k \in Compilers, NextBatch(t, k) \/ NextUnplanned(t, k)
      PROVE  ExactlyOnce'
  BY <1>2, <1>7 DEF NextBatch, NextUnplanned, TakeStream
<1>8. ASSUME NEW t \in Threads, NEW k \in Compilers, NEW kind \in {"stream", "coarse"},
             Begin(t, k, kind)
      PROVE  UNCHANGED <<handed, stream, session, edges>>
  BY <1>8 DEF output, Begin
<1>9. ASSUME NEW t \in Threads, NEW k \in Compilers,
             BeginUnplanned(t, k) \/ BeginBusy(t, k)
      PROVE  UNCHANGED <<handed, stream, session, edges>>
  BY <1>9 DEF output, BeginUnplanned, BeginBusy
<1>10. ASSUME NEW t \in Threads,
             Prepare(t) \/ AppendChunk(t) \/ LastChunk(t) \/ CompileFails(t) \/
             Fail(t) \/ PublishCancelled(t) \/ Drain(t) \/ DrainFails(t) \/
             Discard(t) \/ CountBatch(t) \/ ReadReturns(t) \/ ReadRoles(t)
      PROVE  UNCHANGED <<handed, stream, session, edges>>
  BY <1>10 DEF output, Prepare, AppendChunk, LastChunk, CompileFails, Fail, PublishCancelled, Drain,
     DrainFails, Discard, CountBatch, ReadReturns, ReadRoles
<1>11. ASSUME NEW k \in Compilers,
             StopEmpty(k) \/ Cancel(k)
      PROVE  UNCHANGED <<handed, stream, session, edges>>
  BY <1>11 DEF output, StopEmpty, Cancel
<1>12. UNCHANGED vars => UNCHANGED <<handed, stream, session, edges>>
  BY DEF vars, output
<1> QED
  BY <1>1, <1>3, <1>4, <1>5, <1>6, <1>7, <1>8, <1>9, <1>10, <1>11, <1>12 DEF Next, Start, Continue, Quiet

\* The types of everything but the places and locals of threads.
SharedType ==
  /\ state \in [Compilers -> {"idle", "running", "finished", "cancelled", "failed"}]
  /\ session \in [Compilers -> {"absent", "active", "exhausted", "cancelled"}]
  /\ stream \in [Compilers -> Nat \cup {Nothing}]
  /\ draining \in [Compilers -> BOOLEAN] /\ opened \in [Compilers -> BOOLEAN]
  /\ batches \in [Compilers -> Nat] /\ edges \in [Compilers -> Nat]
  /\ yielded \in [Compilers -> Nat] /\ handed \in [Compilers -> Seq(Nat)]
  /\ roles \in Seq(Compilers) /\ in_use \in Threads \cup {Nothing}
  /\ gil \in Threads \cup {Nothing}

\* Every step keeps the types.
LEMMA TypeStep ==
  ASSUME Inv, [Next]_vars
  PROVE  TypeOK'
<1>0. TypeOK /\ SharedType /\ WorkFrame /\ DrainFrame /\ ExactlyOnce
  BY DEF Inv, TypeOK, SharedType
<1>a. pc \in [Threads -> Places] /\ work \in [Threads -> Locals]
  BY <1>0 DEF TypeOK
<1>b. \A t \in Threads : work[t].edges \in Nat /\ work[t].cursor \in Nat
                         /\ work[t].amount \in Nat /\ work[t].base \in Seq(Compilers)
  BY <1>a DEF Locals
<1> USE SessionAssumption
<1>1. ASSUME NEW t \in Threads, NEW k \in Compilers, NEW kind \in {"stream", "coarse"}, Begin(t, k, kind)
      PROVE  TypeOK'
  <2>1. pc' \in [Threads -> Places] /\ work' \in [Threads -> Locals]
    BY <1>0, <1>a, <1>1, BeginLocals
  <2>2. SharedType'
    BY <1>0, <1>b, <1>1 DEF SharedType, Begin, output, iterator, retained
  <2> QED
    BY <2>1, <2>2 DEF TypeOK, SharedType
<1>2. ASSUME NEW t \in Threads, NEW k \in Compilers, BeginUnplanned(t, k)
      PROVE  TypeOK'
  <2>1. pc' \in [Threads -> Places] /\ work' \in [Threads -> Locals]
    BY <1>0, <1>a, <1>2 DEF BeginUnplanned
  <2>2. SharedType'
    BY <1>0, <1>b, <1>2 DEF SharedType, BeginUnplanned, output, iterator, retained
  <2> QED
    BY <2>1, <2>2 DEF TypeOK, SharedType
<1>3. ASSUME NEW t \in Threads, NEW k \in Compilers, BeginBusy(t, k)
      PROVE  TypeOK'
  <2>1. pc' \in [Threads -> Places] /\ work' \in [Threads -> Locals]
    BY <1>0, <1>a, <1>3 DEF BeginBusy
  <2>2. SharedType'
    BY <1>0, <1>b, <1>3 DEF SharedType, BeginBusy, output, iterator, retained
  <2> QED
    BY <2>1, <2>2 DEF TypeOK, SharedType
<1>4. ASSUME NEW t \in Threads, NEW k \in Compilers, NextBatch(t, k)
      PROVE  TypeOK'
  <2>1. pc' \in [Threads -> Places] /\ work' \in [Threads -> Locals]
    BY <1>0, <1>a, <1>4, NextBatchLocals
  <2>2. SharedType'
    BY <1>0, <1>b, <1>4 DEF SharedType, NextBatch, NextReady, TakeStream, output, iterator, retained
  <2> QED
    BY <2>1, <2>2 DEF TypeOK, SharedType
<1>5. ASSUME NEW t \in Threads, NEW k \in Compilers, NextUnplanned(t, k)
      PROVE  TypeOK'
  <2>1. pc' \in [Threads -> Places] /\ work' \in [Threads -> Locals]
    BY <1>0, <1>a, <1>5 DEF NextUnplanned
  <2>2. SharedType'
    BY <1>0, <1>b, <1>5 DEF SharedType, NextUnplanned, NextReady, TakeStream, output, iterator, retained
  <2> QED
    BY <2>1, <2>2 DEF TypeOK, SharedType
<1>6. ASSUME NEW t \in Threads, Prepare(t)
      PROVE  TypeOK'
  <2>1. pc' \in [Threads -> Places] /\ work' \in [Threads -> Locals]
    BY <1>0, <1>a, <1>6, PrepareLocals
  <2>2. SharedType'
    BY <1>0, <1>b, <1>6 DEF SharedType, Prepare, output, iterator, retained
  <2> QED
    BY <2>1, <2>2 DEF TypeOK, SharedType
<1>7. ASSUME NEW t \in Threads, AppendChunk(t)
      PROVE  TypeOK'
  <2>1. pc' \in [Threads -> Places] /\ work' \in [Threads -> Locals]
    BY <1>0, <1>a, <1>7, AppendChunkLocals DEF AppendChunk
  <2>2. SharedType'
    BY <1>0, <1>b, <1>7 DEF SharedType, AppendChunk, output, iterator, retained
  <2> QED
    BY <2>1, <2>2 DEF TypeOK, SharedType
<1>8. ASSUME NEW t \in Threads, LastChunk(t)
      PROVE  TypeOK'
  <2>1. pc' \in [Threads -> Places] /\ work' \in [Threads -> Locals]
    BY <1>0, <1>a, <1>8, LastChunkLocals
  <2>2. SharedType'
    BY <1>0, <1>b, <1>8 DEF SharedType, LastChunk, output, iterator, retained
  <2> QED
    BY <2>1, <2>2 DEF TypeOK, SharedType
<1>9. ASSUME NEW t \in Threads, CompileFails(t)
      PROVE  TypeOK'
  <2>1. pc' \in [Threads -> Places] /\ work' \in [Threads -> Locals]
    BY <1>0, <1>a, <1>9, CompileFailsLocals
  <2>2. SharedType'
    BY <1>0, <1>b, <1>9 DEF SharedType, CompileFails, output, iterator, retained
  <2> QED
    BY <2>1, <2>2 DEF TypeOK, SharedType
<1>10. ASSUME NEW t \in Threads, Fail(t)
      PROVE  TypeOK'
  <2>1. pc' \in [Threads -> Places] /\ work' \in [Threads -> Locals]
    BY <1>0, <1>a, <1>10, ReturnLocals
  <2>2. SharedType'
    BY <1>0, <1>b, <1>10 DEF SharedType, Fail, UnclaimedOnError, Unclaimed, output, iterator, retained
  <2> QED
    BY <2>1, <2>2 DEF TypeOK, SharedType
<1>11. ASSUME NEW t \in Threads, Publish(t)
      PROVE  TypeOK'
  <2>1. pc' \in [Threads -> Places] /\ work' \in [Threads -> Locals]
    BY <1>0, <1>11, ReturnLocals
  <2>k. PICK k \in Compilers : k = work[t].compiler
    BY <1>0, <1>11 DEF Publish, WorkFrame, Compiling
  <2>n. PICK n \in Nat : n = work[t].edges
    BY <1>b
  <2>r. PICK r \in Seq(Compilers) : r = work[t].base
    BY <1>b
  <2>s. [i \in 1..n |-> i] \in Seq(Nat) /\ Append(r, k) \in Seq(Compilers)
    BY Counting
  <2>2. /\ state' = [state EXCEPT ![k] = "finished"]
        /\ \/ /\ handed' = [handed EXCEPT ![k] = [i \in 1..n |-> i]]
              /\ UNCHANGED <<output, iterator>>
           \/ Install(k, n) /\ UNCHANGED handed
        /\ roles' \in {roles, Append(r, k)} /\ in_use' \in {in_use, Nothing} /\ gil' = gil
    BY <1>11, <2>k, <2>n, <2>r DEF Publish, Unclaimed
  <2>3. /\ state' \in [Compilers -> {"idle", "running", "finished", "cancelled", "failed"}]
        /\ in_use' \in Threads \cup {Nothing} /\ gil' \in Threads \cup {Nothing}
    <3>1. state \in [Compilers -> {"idle", "running", "finished", "cancelled", "failed"}]
      BY <1>0 DEF SharedType
    <3>2. state' \in [Compilers -> {"idle", "running", "finished", "cancelled", "failed"}]
      BY <3>1, <2>2
    <3>3. in_use' \in Threads \cup {Nothing} /\ gil' \in Threads \cup {Nothing}
      BY <1>0, <2>2 DEF SharedType
    <3> QED
      BY <3>2, <3>3
  <2>6. roles' \in Seq(Compilers)
    <3>1. roles \in Seq(Compilers)
      BY <1>0 DEF SharedType
    <3> QED
      BY <3>1, <2>2, <2>s
  <2>4. handed' \in [Compilers -> Seq(Nat)]
    <3>1. handed \in [Compilers -> Seq(Nat)]
      BY <1>0 DEF SharedType
    <3>2. PICK q \in Seq(Nat) : q = [i \in 1..n |-> i]
      BY <2>s
    <3>3. handed' = [handed EXCEPT ![k] = q] \/ handed' = handed
      BY <2>2, <3>2
    <3> QED
      BY <3>1, <3>3
  <2>5. /\ session' \in [Compilers -> {"absent", "active", "exhausted", "cancelled"}]
        /\ stream' \in [Compilers -> Nat \cup {Nothing}]
        /\ draining' \in [Compilers -> BOOLEAN] /\ opened' \in [Compilers -> BOOLEAN]
        /\ batches' \in [Compilers -> Nat] /\ edges' \in [Compilers -> Nat]
        /\ yielded' \in [Compilers -> Nat]
    <3>1. CASE UNCHANGED <<output, iterator>>
      BY <1>0, <3>1 DEF SharedType, output, iterator
    <3>2. CASE Install(k, n)
      BY <1>0, <3>2 DEF SharedType, Install
    <3> QED
      BY <2>2, <3>1, <3>2
  <2> QED
    BY <2>1, <2>3, <2>4, <2>5, <2>6 DEF TypeOK
<1>12. ASSUME NEW t \in Threads, PublishCancelled(t)
      PROVE  TypeOK'
  <2>1. pc' \in [Threads -> Places] /\ work' \in [Threads -> Locals]
    BY <1>0, <1>a, <1>12, ReturnLocals
  <2>2. SharedType'
    BY <1>0, <1>b, <1>12 DEF SharedType, PublishCancelled, DiscardedRoles, Unclaimed, output, iterator, retained
  <2> QED
    BY <2>1, <2>2 DEF TypeOK, SharedType
<1>13. ASSUME NEW t \in Threads, Drain(t)
      PROVE  TypeOK'
  <2>1. pc' \in [Threads -> Places] /\ work' \in [Threads -> Locals]
    BY <1>0, <1>a, <1>13, DrainLocals
  <2>2. SharedType'
    BY <1>0, <1>b, <1>13 DEF SharedType, Drain, output, iterator, retained
  <2> QED
    BY <2>1, <2>2 DEF TypeOK, SharedType
<1>14. ASSUME NEW t \in Threads, DrainFails(t)
      PROVE  TypeOK'
  <2>1. pc' \in [Threads -> Places] /\ work' \in [Threads -> Locals]
    BY <1>0, <1>a, <1>14, DrainFailsLocals
  <2>2. SharedType'
    BY <1>0, <1>b, <1>14 DEF SharedType, DrainFails, output, iterator, retained
  <2> QED
    BY <2>1, <2>2 DEF TypeOK, SharedType
<1>15. ASSUME NEW t \in Threads, Restore(t)
      PROVE  TypeOK'
  <2>1. pc' \in [Threads -> Places] /\ work' \in [Threads -> Locals]
    BY <1>0, <1>a, <1>15, ReturnLocals
  <2>2. SharedType'
    BY <1>0, <1>b, <1>15 DEF SharedType, Restore, Restored, RestoredCursor, output, iterator, retained
  <2> QED
    BY <2>1, <2>2 DEF TypeOK, SharedType
<1>16. ASSUME NEW t \in Threads, Commit(t)
      PROVE  TypeOK'
  <2>1. pc' \in [Threads -> Places] /\ work' \in [Threads -> Locals]
    BY <1>0, <1>16, CommitLocals
  <2>k. PICK k \in Compilers : k = work[t].compiler
    BY <1>0, <1>16 DEF Commit, WorkFrame, Draining
  <2>2. work[t].amount \in Nat /\ work[t].cursor \in Nat /\ work[t].cursor + work[t].amount \in Nat
        /\ work[t].cursor = Len(handed[k]) /\ handed[k] \in Seq(Nat)
        /\ handed[k] = [i \in 1..Len(handed[k]) |-> i]
    <3>1. HoldsCursor(t)
      BY <1>0, <1>16 DEF Commit, DrainFrame, Draining
    <3>2. work[t].amount \in Nat /\ work[t].cursor \in Nat
      BY <1>b
    <3>3. handed[k] \in Seq(Nat) /\ handed[k] = [i \in 1..Len(handed[k]) |-> i]
      BY <1>0 DEF SharedType, ExactlyOnce
    <3> QED
      BY <2>k, <3>1, <3>2, <3>3 DEF HoldsCursor
  <2>3. handed[k] \o [i \in 1..work[t].amount |-> work[t].cursor + i] \in Seq(Nat)
    BY <2>2, CountOn
  <2>4. handed' \in [Compilers -> Seq(Nat)]
    BY <1>0, <2>k, <2>3, <1>16 DEF Commit, SharedType
  <2>5. SharedType'
    <3>1. /\ draining' = [draining EXCEPT ![k] = FALSE]
          /\ stream' \in {[stream EXCEPT ![k] = Nothing],
                          [stream EXCEPT ![k] = work[t].cursor + work[t].amount]}
          /\ session' = [session EXCEPT ![k] =
               IF work[t].cursor + work[t].amount >= work[t].edges THEN "exhausted" ELSE @]
          /\ batches' = [batches EXCEPT ![k] = @ + 1]
          /\ UNCHANGED <<state, edges, opened, yielded, roles, in_use, gil>>
      BY <2>k, <1>16 DEF Commit, iterator, retained
    <3>2. stream' \in [Compilers -> Nat \cup {Nothing}]
      BY ZenonT(60), <1>0, <2>2, <3>1 DEF SharedType
    <3>3. session' \in [Compilers -> {"absent", "active", "exhausted", "cancelled"}]
      BY <1>0, <3>1 DEF SharedType
    <3>4. draining' \in [Compilers -> BOOLEAN] /\ batches' \in [Compilers -> Nat]
      BY <1>0, <3>1 DEF SharedType
    <3> QED
      BY <1>0, <2>4, <3>1, <3>2, <3>3, <3>4 DEF SharedType
  <2> QED
    BY <2>1, <2>5 DEF TypeOK, SharedType
<1>17. ASSUME NEW t \in Threads, Discard(t)
      PROVE  TypeOK'
  <2>1. pc' \in [Threads -> Places] /\ work' \in [Threads -> Locals]
    BY <1>0, <1>a, <1>17, ReturnLocals
  <2>2. SharedType'
    <3>1. /\ UNCHANGED <<state, session, stream, batches, edges, iterator, retained, gil, handed>>
          /\ draining' = [draining EXCEPT ![work[t].compiler] = FALSE]
      BY <1>17 DEF Discard
    <3>2. draining' \in [Compilers -> BOOLEAN]
      BY <1>0, <3>1 DEF SharedType
    <3> QED
      BY <1>0, <3>1, <3>2 DEF SharedType, iterator, retained
  <2> QED
    BY <2>1, <2>2 DEF TypeOK, SharedType
<1>18. ASSUME NEW t \in Threads, CountBatch(t)
      PROVE  TypeOK'
  <2>1. pc' \in [Threads -> Places] /\ work' \in [Threads -> Locals]
    BY <1>0, <1>18, ReturnLocals
  <2>k. PICK k \in Compilers : k = work[t].compiler
    BY <1>0, <1>18 DEF CountBatch, WorkFrame
  <2>2. PICK total \in Nat : total = yielded[k] + work[t].amount
    BY <1>0, <1>b DEF SharedType
  <2>3. PICK open \in BOOLEAN : open = (opened[k] /\ total # edges[k])
    OBVIOUS
  <2>4. /\ yielded' = [yielded EXCEPT ![k] = total] /\ opened' = [opened EXCEPT ![k] = open]
        /\ UNCHANGED <<state, output, retained, gil, handed>>
    BY <2>k, <2>2, <2>3, <1>18 DEF CountBatch
  <2>5. SharedType'
    BY <1>0, <2>4 DEF SharedType, output, retained
  <2> QED
    BY <2>1, <2>5 DEF TypeOK, SharedType
<1>19. ASSUME NEW t \in Threads, ReadReturns(t)
      PROVE  TypeOK'
  <2>1. pc' \in [Threads -> Places] /\ work' \in [Threads -> Locals]
    BY <1>0, <1>a, <1>19, ReadReturnsLocals
  <2>2. SharedType'
    BY <1>0, <1>b, <1>19 DEF SharedType, ReadReturns, output, iterator, retained
  <2> QED
    BY <2>1, <2>2 DEF TypeOK, SharedType
<1>20. ASSUME NEW t \in Threads, ReadRoles(t)
      PROVE  TypeOK'
  <2>1. pc' \in [Threads -> Places] /\ work' \in [Threads -> Locals]
    BY <1>0, <1>a, <1>20, ReadRolesLocals
  <2>2. SharedType'
    BY <1>0, <1>b, <1>20 DEF SharedType, ReadRoles, output, iterator, retained
  <2> QED
    BY <2>1, <2>2 DEF TypeOK, SharedType
<1>21. ASSUME NEW k \in Compilers, StopEmpty(k)
      PROVE  TypeOK'
  <2>1. pc' \in [Threads -> Places] /\ work' \in [Threads -> Locals]
    BY <1>0, <1>a, <1>21 DEF StopEmpty
  <2>2. SharedType'
    BY <1>0, <1>b, <1>21 DEF SharedType, StopEmpty, output, iterator, retained
  <2> QED
    BY <2>1, <2>2 DEF TypeOK, SharedType
<1>22. ASSUME NEW k \in Compilers, Close(k)
      PROVE  TypeOK'
  <2>1. pc' \in [Threads -> Places] /\ work' \in [Threads -> Locals]
    BY <1>0, <1>a, <1>22 DEF Close, CancelOutput
  <2>2. SharedType'
    BY ZenonT(60), <1>0, <1>b, <1>22 DEF SharedType, Close, CancelOutput, output, iterator, retained
  <2> QED
    BY <2>1, <2>2 DEF TypeOK, SharedType
<1>23. ASSUME NEW k \in Compilers, Cancel(k)
      PROVE  TypeOK'
  <2>1. pc' \in [Threads -> Places] /\ work' \in [Threads -> Locals]
    BY <1>0, <1>a, <1>23 DEF Cancel
  <2>2. SharedType'
    BY <1>0, <1>b, <1>23 DEF SharedType, Cancel, output, iterator, retained
  <2> QED
    BY <2>1, <2>2 DEF TypeOK, SharedType
<1>24. ASSUME UNCHANGED vars
      PROVE  TypeOK'
  BY <1>0, <1>24 DEF vars, output, iterator, retained, TypeOK
<1> QED
  BY <1>1, <1>2, <1>3, <1>4, <1>5, <1>6, <1>7, <1>8, <1>9, <1>10, <1>11, <1>12, <1>13, <1>14, <1>15, <1>16, <1>17, <1>18, <1>19, <1>20, <1>21, <1>22, <1>23, <1>24 DEF Next, Start, Continue, Quiet

\* Every step extends the published role maps or leaves them alone.
LEMMA RolesStep ==
  ASSUME Inv, [Next]_vars
  PROVE  IsPrefix(roles, roles')
<1>0. /\ roles \in Seq(Compilers) /\ IsPrefix(roles, roles)
      /\ TypeOK /\ WorkFrame /\ BaseCurrent
  BY PrefixSelf DEF Inv, TypeOK
<1>1. ASSUME NEW t \in Threads, Publish(t)
      PROVE  IsPrefix(roles, roles')
  <2>1. PICK k \in Compilers : k = work[t].compiler
    BY <1>0, <1>1 DEF Publish, WorkFrame, Compiling
  <2>2. IsPrefix(roles, Append(roles, k))
    BY <1>0, <2>1, PrefixAppend
  <2>3. roles' \in {roles, Append(roles, k)}
    BY <1>0, <1>1, <2>1 DEF Publish, CommitsRoles, BaseCurrent
  <2> QED
    BY <1>0, <2>2, <2>3
<1>2. ASSUME NEW t \in Threads, PublishCancelled(t)
      PROVE  roles' = roles
  BY <1>2 DEF PublishCancelled, DiscardedRoles
<1>3. ASSUME NEW t \in Threads, NEW k \in Compilers, NEW kind \in {"stream", "coarse"},
             Begin(t, k, kind)
      PROVE  roles' = roles
  BY <1>3 DEF retained, Begin
<1>4. ASSUME NEW t \in Threads, NEW k \in Compilers,
             BeginUnplanned(t, k) \/ BeginBusy(t, k) \/ NextBatch(t, k) \/
             NextUnplanned(t, k)
      PROVE  roles' = roles
  BY <1>4 DEF retained, BeginUnplanned, BeginBusy, NextBatch, NextUnplanned
<1>5. ASSUME NEW t \in Threads,
             Prepare(t) \/ AppendChunk(t) \/ LastChunk(t) \/ CompileFails(t) \/
             Fail(t) \/ Drain(t) \/ DrainFails(t) \/ Restore(t) \/ Commit(t) \/
             Discard(t) \/ CountBatch(t) \/ ReadReturns(t) \/ ReadRoles(t)
      PROVE  roles' = roles
  BY <1>5 DEF retained, Prepare, AppendChunk, LastChunk, CompileFails, Fail, Drain, DrainFails,
     Restore, Commit, Discard, CountBatch, ReadReturns, ReadRoles
<1>6. ASSUME NEW k \in Compilers,
             StopEmpty(k) \/ Close(k) \/ Cancel(k)
      PROVE  roles' = roles
  BY <1>6 DEF retained, StopEmpty, Close, CancelOutput, Cancel
<1>7. UNCHANGED vars => roles' = roles
  BY DEF vars, retained
<1> QED
  BY <1>0, <1>1, <1>2, <1>3, <1>4, <1>5, <1>6, <1>7 DEF Next, Start, Continue, Quiet

\* The members of an extended sequence.
LEMMA MemberAppended ==
  ASSUME NEW S, NEW s \in Seq(S), NEW x \in S
  PROVE  ToSet(Append(s, x)) = ToSet(s) \cup {x}
<1>1. \A y : y \in ToSet(s) <=> \E i \in 1..Len(s) : s[i] = y
  BY DEF ToSet
<1>2. \A y : y \in ToSet(Append(s, x)) <=> \E i \in 1..Len(s) + 1 : Append(s, x)[i] = y
  BY DEF ToSet
<1>3. \A i \in 1..Len(s) : Append(s, x)[i] = s[i] /\ i \in 1..Len(s) + 1
  OBVIOUS
<1>4. Append(s, x)[Len(s) + 1] = x /\ Len(s) + 1 \in 1..Len(s) + 1
  OBVIOUS
<1>5. \A i \in 1..Len(s) + 1 : i \in 1..Len(s) \/ i = Len(s) + 1
  OBVIOUS
<1> QED
  BY <1>1, <1>2, <1>3, <1>4, <1>5

\* Every step leaves sessions and role maps only to compilers that finished.
LEMMA SettledStep ==
  ASSUME Inv, [Next]_vars
  PROVE  SettledFrame'
<1>0. TypeOK /\ WorkFrame /\ BaseCurrent /\ AbsentFrame /\ DrainFrame /\ SettledFrame
  BY DEF Inv
<1>a. /\ state \in [Compilers -> {"idle", "running", "finished", "cancelled", "failed"}]
      /\ session \in [Compilers -> {"absent", "active", "exhausted", "cancelled"}]
      /\ batches \in [Compilers -> Nat] /\ roles \in Seq(Compilers)
  BY <1>0 DEF TypeOK
<1>b. \A k \in Compilers : state[k] \in {"idle", "running", "failed"} => session[k] = "absent"
  BY <1>0 DEF AbsentFrame
<1> USE DEF SettledFrame
<1>1. ASSUME UNCHANGED <<state, session, batches, roles>>
      PROVE  SettledFrame'
  BY <1>0, <1>1
<1>2. ASSUME NEW k \in Compilers, NEW next \in {"running", "failed", "cancelled"},
             state[k] \in {"idle", "running"}, state' = [state EXCEPT ![k] = next],
             UNCHANGED <<session, batches, roles>>
      PROVE  SettledFrame'
  BY <1>0, <1>a, <1>b, <1>2
<1>3. ASSUME NEW t \in Threads, NEW k \in Compilers,
             (\E kind \in {"stream", "coarse"} : Begin(t, k, kind)) \/ BeginUnplanned(t, k)
             \/ BeginBusy(t, k)
      PROVE  SettledFrame'
  <2>1. /\ state[k] = "idle" /\ UNCHANGED <<session, batches, roles>>
        /\ \E next \in {"running", "failed"} : state' = [state EXCEPT ![k] = next]
    BY <1>3 DEF Begin, BeginUnplanned, BeginBusy, output, retained
  <2> QED
    BY <2>1, <1>2
<1>4. ASSUME NEW t \in Threads, Fail(t)
      PROVE  SettledFrame'
  <2>1. work[t].compiler \in Compilers /\ UNCHANGED <<session, batches, roles>>
        /\ state' = [state EXCEPT ![work[t].compiler] = IF @ = "running" THEN "failed" ELSE @]
    BY <1>0, <1>4 DEF Fail, WorkFrame, Compiling, output
  <2>2. state' = state \/ (state[work[t].compiler] = "running"
                           /\ state' = [state EXCEPT ![work[t].compiler] = "failed"])
    BY <1>a, <2>1
  <2> QED
    BY <2>1, <2>2, <1>1, <1>2
<1>5. ASSUME NEW t \in Threads, Publish(t)
      PROVE  SettledFrame'
  <2>k. PICK k \in Compilers : k = work[t].compiler
    BY <1>0, <1>5 DEF Publish, WorkFrame, Compiling
  <2>1. state[k] = "running" /\ session[k] = "absent" /\ state' = [state EXCEPT ![k] = "finished"]
    BY <1>b, <1>5, <2>k DEF Publish, Finishable
  <2>2. \/ UNCHANGED <<session, batches>>
        \/ /\ batches' = [batches EXCEPT ![k] = 0]
           /\ \E next \in {"exhausted", "active"} : session' = [session EXCEPT ![k] = next]
    BY <1>5, <2>k DEF Publish, Install, output
  <2>3. roles' \in {roles, Append(roles, k)}
    <3>1. k \in Stateful => work[t].base = roles
      BY <1>0, <1>5, <2>k DEF Publish, BaseCurrent
    <3>2. CommitsRoles(k) => k \in Stateful
      BY DEF CommitsRoles
    <3>3. roles' = IF CommitsRoles(k) THEN Append(work[t].base, k) ELSE roles
      BY <1>5, <2>k DEF Publish
    <3> QED
      BY <3>1, <3>2, <3>3
  <2>4. ToSet(roles') \subseteq ToSet(roles) \cup {k}
    <3>1. roles \in Seq(Compilers)
      BY <1>a
    <3>2. ToSet(Append(roles, k)) = ToSet(roles) \cup {k}
      BY <3>1, MemberAppended
    <3> QED
      BY <2>3, <3>2, Zenon
  <2>5. \A j \in Compilers : j # k =>
          session'[j] = session[j] /\ batches'[j] = batches[j] /\ state'[j] = state[j]
    BY <1>a, <2>1, <2>2
  <2>6. /\ state'[k] = "finished" /\ (session'[k] = "absent" => batches'[k] = 0)
    BY <1>a, <1>0, <2>1, <2>2
  <2> QED
    BY <1>0, <2>4, <2>5, <2>6
<1>6. ASSUME NEW t \in Threads, Commit(t)
      PROVE  SettledFrame'
  <2>k. PICK k \in Compilers : k = work[t].compiler
    BY <1>0, <1>6 DEF Commit, WorkFrame, Draining
  <2>1. session[k] = "active"
    BY <1>0, <1>6, <2>k DEF Commit, Overtaken, DrainFrame, HoldsCursor, Draining
  <2>2. /\ UNCHANGED <<state, roles>> /\ session'[k] \in {"active", "exhausted"}
        /\ \A j \in Compilers : j # k => session'[j] = session[j] /\ batches'[j] = batches[j]
    BY <1>a, <2>1, <1>6, <2>k DEF Commit, retained
  <2> QED
    BY <1>0, <2>1, <2>2
<1>7. ASSUME NEW k \in Compilers, Close(k)
      PROVE  SettledFrame'
  <2>1. /\ UNCHANGED <<batches, roles>>
        /\ \/ /\ session' = [session EXCEPT ![k] = "cancelled"]
              /\ state' = [state EXCEPT ![k] = "cancelled"]
           \/ UNCHANGED <<session, state>>
    BY <1>7 DEF Close, CancelOutput, retained
  <2> QED
    BY <1>0, <1>a, <2>1
<1>8. ASSUME NEW k \in Compilers, Cancel(k)
      PROVE  SettledFrame'
  BY <1>2, <1>8 DEF Cancel, output, retained
<1>9. ASSUME NEW t \in Threads, NEW k \in Compilers, NextBatch(t, k) \/ NextUnplanned(t, k)
      PROVE  UNCHANGED <<state, session, batches, roles>>
  BY <1>9 DEF retained, NextBatch, NextUnplanned
<1>10. ASSUME NEW t \in Threads,
             Prepare(t) \/ AppendChunk(t) \/ LastChunk(t) \/ CompileFails(t) \/
             PublishCancelled(t) \/ Drain(t) \/ DrainFails(t) \/ Restore(t) \/
             Discard(t) \/ CountBatch(t) \/ ReadReturns(t) \/ ReadRoles(t)
      PROVE  UNCHANGED <<state, session, batches, roles>>
  BY <1>10 DEF output, retained, Prepare, AppendChunk, LastChunk, CompileFails, PublishCancelled,
     DiscardedRoles, Drain, DrainFails, Restore, Discard, CountBatch, ReadReturns, ReadRoles
<1>11. ASSUME NEW k \in Compilers, StopEmpty(k)
      PROVE  UNCHANGED <<state, session, batches, roles>>
  BY <1>11 DEF output, retained, StopEmpty
<1>12. UNCHANGED vars => UNCHANGED <<state, session, batches, roles>>
  BY DEF vars, output, retained
<1> QED
  BY <1>1, <1>3, <1>4, <1>5, <1>6, <1>7, <1>8, <1>9, <1>10, <1>11, <1>12
     DEF Next, Start, Continue, Quiet

\* Every step leaves the stream of an active session in the session or with a drain.
LEMMA HeldStep ==
  ASSUME Inv, [Next]_vars
  PROVE  DirectRetryable'
<1>0. TypeOK /\ WorkFrame /\ DrainFrame /\ DirectRetryable
  BY DEF Inv
<1>a. /\ pc \in [Threads -> Places] /\ work \in [Threads -> Locals]
      /\ session \in [Compilers -> {"absent", "active", "exhausted", "cancelled"}]
      /\ stream \in [Compilers -> Nat \cup {Nothing}] /\ draining \in [Compilers -> BOOLEAN]
      /\ Nothing \notin Nat
      /\ \A t \in Threads : work[t].edges \in Nat /\ work[t].cursor \in Nat
                             /\ work[t].amount \in Nat
  BY <1>0, SessionAssumption DEF TypeOK, Locals
<1>b. ASSUME NEW k \in Compilers, HoldsStream(k),
             session'[k] = session[k], stream'[k] = stream[k], draining'[k] = draining[k],
             \A u \in Threads : pc[u] \in Draining /\ work[u].compiler = k =>
               pc'[u] \in Draining /\ work'[u].compiler = k
      PROVE  HoldsStream(k)'
  BY <1>b DEF HoldsStream
<1>c. ASSUME NEW k \in Compilers, session'[k] # "active"
      PROVE  HoldsStream(k)'
  BY <1>c DEF HoldsStream
<1>1. ASSUME UNCHANGED <<session, stream, draining>>,
             \A u \in Threads : pc[u] \in Draining =>
               pc'[u] \in Draining /\ work'[u].compiler = work[u].compiler
      PROVE  DirectRetryable'
  BY <1>0, <1>1, <1>b DEF DirectRetryable
<1>2. ASSUME NEW t \in Threads, NEW k \in Compilers, NextBatch(t, k)
      PROVE  DirectRetryable'
  <2>1. /\ pc[t] = "idle" /\ session' = session
        /\ stream' = [stream EXCEPT ![k] = Nothing] /\ draining' = [draining EXCEPT ![k] = TRUE]
    BY <1>2 DEF NextBatch, TakeStream
  <2>2. /\ pc'[t] = "drain" /\ work'[t].compiler = k
        /\ \A u \in Threads : u # t => pc'[u] = pc[u] /\ work'[u] = work[u]
    BY <1>0, <1>2, NextBatchLocals
  <2>3. HoldsStream(k)'
    BY <2>2 DEF HoldsStream, Draining
  <2>4. \A u \in Threads : pc[u] \in Draining => u # t
    BY <2>1 DEF Draining
  <2>5. ASSUME NEW j \in Compilers \ Composite, j # k
        PROVE  HoldsStream(j)'
    <3>1. session'[j] = session[j] /\ stream'[j] = stream[j] /\ draining'[j] = draining[j]
      BY <1>a, <2>1, <2>5
    <3> QED
      BY <1>0, <1>b, <2>2, <2>4, <3>1, <2>5 DEF DirectRetryable
  <2> QED
    BY <2>3, <2>5 DEF DirectRetryable
<1>3. ASSUME NEW t \in Threads, NEW k \in Compilers, NextUnplanned(t, k)
      PROVE  DirectRetryable'
  <2>1. /\ k \in Composite /\ UNCHANGED <<session, pc, work>>
        /\ stream' = [stream EXCEPT ![k] = Nothing] /\ draining' = [draining EXCEPT ![k] = TRUE]
    BY <1>3 DEF NextUnplanned, TakeStream
  <2>2. ASSUME NEW j \in Compilers \ Composite
        PROVE  HoldsStream(j)'
    <3>1. session'[j] = session[j] /\ stream'[j] = stream[j] /\ draining'[j] = draining[j]
      BY <1>a, <2>1, <2>2
    <3> QED
      BY <1>0, <1>b, <2>1, <3>1, <2>2 DEF DirectRetryable
  <2> QED
    BY <2>2 DEF DirectRetryable
<1>4. ASSUME NEW t \in Threads, Publish(t)
      PROVE  DirectRetryable'
  <2>k. PICK k \in Compilers : k = work[t].compiler
    BY <1>0, <1>4 DEF Publish, WorkFrame, Compiling
  <2>1. /\ pc[t] = "construct"
        /\ \/ UNCHANGED <<session, stream, draining>>
           \/ /\ session' = [session EXCEPT ![k] = IF work[t].edges = 0 THEN "exhausted" ELSE "active"]
              /\ stream' = [stream EXCEPT ![k] = IF work[t].edges = 0 THEN Nothing ELSE 0]
              /\ draining' = [draining EXCEPT ![k] = FALSE]
    BY <1>4, <2>k DEF Publish, Install, output
  <2>2. \A u \in Threads : pc[u] \in Draining => pc'[u] = pc[u] /\ work'[u] = work[u]
    BY <1>0, <1>4, <2>1, ReturnLocals DEF Draining
  <2>3. CASE UNCHANGED <<session, stream, draining>>
    BY <1>1, <2>2, <2>3
  <2>4. CASE /\ session' = [session EXCEPT ![k] = IF work[t].edges = 0 THEN "exhausted" ELSE "active"]
             /\ stream' = [stream EXCEPT ![k] = IF work[t].edges = 0 THEN Nothing ELSE 0]
             /\ draining' = [draining EXCEPT ![k] = FALSE]
    <3>1. session'[k] = "active" => stream'[k] # Nothing /\ ~draining'[k]
      BY <1>a, <2>4
    <3>2. HoldsStream(k)'
      BY <3>1 DEF HoldsStream
    <3>3. ASSUME NEW j \in Compilers \ Composite, j # k
          PROVE  HoldsStream(j)'
      <4>1. session'[j] = session[j] /\ stream'[j] = stream[j] /\ draining'[j] = draining[j]
        BY <1>a, <2>4, <3>3
      <4> QED
        BY <1>0, <1>b, <2>2, <4>1, <3>3 DEF DirectRetryable
    <3> QED
      BY <3>2, <3>3 DEF DirectRetryable
  <2> QED
    BY <2>1, <2>3, <2>4
<1>5. ASSUME NEW t \in Threads, Restore(t) \/ Commit(t) \/ Discard(t)
      PROVE  DirectRetryable'
  <2>k. PICK k \in Compilers : k = work[t].compiler
    BY <1>0, <1>5 DEF Restore, Commit, Discard, WorkFrame, Draining
  <2>1. pc[t] \in Draining /\ session[k] \in {"active", "cancelled"}
    BY <1>0, <1>5, <2>k DEF Restore, Commit, Discard, DrainFrame, HoldsCursor, Draining
  <2>2. \A u \in Threads : u # t => pc'[u] = pc[u] /\ work'[u] = work[u]
    BY <1>0, <1>5, ReturnLocals, CommitLocals
  <2>3. session'[k] = "active" => stream'[k] # Nothing /\ ~draining'[k]
    <3>1. CASE Restore(t)
      BY <1>a, <2>k, <3>1 DEF Restore, Restored, RestoredCursor
    <3>2. CASE Commit(t)
      <4>1. PICK next \in Nat : next = work[t].cursor + work[t].amount
        BY <1>a
      <4>2. /\ draining' = [draining EXCEPT ![k] = FALSE]
            /\ stream' = [stream EXCEPT ![k] = IF next >= work[t].edges THEN Nothing ELSE next]
            /\ session' = [session EXCEPT ![k] = IF next >= work[t].edges THEN "exhausted" ELSE @]
        BY <2>k, <4>1, <3>2 DEF Commit
      <4> QED
        BY <1>a, <4>1, <4>2
    <3>3. CASE Discard(t)
      BY <2>k, <3>3 DEF Discard, Overtaken
    <3> QED
      BY <1>5, <3>1, <3>2, <3>3
  <2>4. HoldsStream(k)'
    BY <2>3 DEF HoldsStream
  <2>5. ASSUME NEW j \in Compilers \ Composite, j # k
        PROVE  HoldsStream(j)'
    <3>1. session'[j] = session[j] /\ stream'[j] = stream[j] /\ draining'[j] = draining[j]
      BY <1>a, <2>k, <1>5, <2>5 DEF Restore, Commit, Discard
    <3>2. \A u \in Threads : pc[u] \in Draining /\ work[u].compiler = j => u # t
      BY <2>k, <2>5
    <3> QED
      BY <1>0, <1>b, <2>2, <3>1, <3>2, <2>5 DEF DirectRetryable
  <2> QED
    BY <2>4, <2>5 DEF DirectRetryable
<1>6. ASSUME NEW k \in Compilers, Close(k)
      PROVE  DirectRetryable'
  <2>1. /\ UNCHANGED <<pc, work, draining>>
        /\ \/ /\ session' = [session EXCEPT ![k] = "cancelled"]
              /\ stream' = [stream EXCEPT ![k] = Nothing]
           \/ UNCHANGED <<session, stream>>
    BY <1>6 DEF Close, CancelOutput
  <2>2. ASSUME NEW j \in Compilers \ Composite
        PROVE  HoldsStream(j)'
    <3>1. session'[j] # "active" \/ (session'[j] = session[j] /\ stream'[j] = stream[j])
      BY <1>a, <2>1, <2>2
    <3> QED
      BY <1>0, <1>b, <1>c, <2>1, <3>1, <2>2 DEF DirectRetryable
  <2> QED
    BY <2>2 DEF DirectRetryable
<1>7. ASSUME NEW t \in Threads, NEW k \in Compilers,
             (\E kind \in {"stream", "coarse"} : Begin(t, k, kind)) \/ BeginUnplanned(t, k)
             \/ BeginBusy(t, k)
      PROVE  DirectRetryable'
  <2>1. pc[t] = "idle" /\ UNCHANGED <<session, stream, draining>>
    BY <1>7 DEF Begin, BeginUnplanned, BeginBusy, output
  <2>2. \A u \in Threads : u # t => pc'[u] = pc[u] /\ work'[u] = work[u]
    BY <1>0, <1>7, BeginLocals DEF BeginUnplanned, BeginBusy
  <2> QED
    BY <1>1, <2>1, <2>2 DEF Draining
<1>8. ASSUME NEW t \in Threads,
             Prepare(t) \/ AppendChunk(t) \/ LastChunk(t) \/ CompileFails(t) \/
             Fail(t) \/ PublishCancelled(t) \/ CountBatch(t) \/ ReadReturns(t) \/
             ReadRoles(t)
      PROVE  DirectRetryable'
  <2>1. /\ pc[t] \notin Draining
        /\ \A u \in Threads : u # t => pc'[u] = pc[u] /\ work'[u] = work[u]
        /\ UNCHANGED <<session, stream, draining>>
    BY <1>0, <1>8, Elsewhere
  <2> QED
    BY <1>1, <2>1
<1>9. ASSUME NEW t \in Threads, Drain(t) \/ DrainFails(t)
      PROVE  DirectRetryable'
  <2>1. UNCHANGED <<session, stream, draining>>
    BY <1>9 DEF Drain, DrainFails, output
  <2>2. /\ pc'[t] \in Draining /\ work'[t].compiler = work[t].compiler
        /\ \A u \in Threads : u # t => pc'[u] = pc[u] /\ work'[u] = work[u]
    BY <1>0, <1>9, DrainLocals, DrainFailsLocals DEF Draining
  <2> QED
    BY <1>1, <2>1, <2>2
<1>10. ASSUME NEW k \in Compilers, StopEmpty(k) \/ Cancel(k)
      PROVE  UNCHANGED <<session, stream, draining, pc, work>>
  BY <1>10 DEF output, StopEmpty, Cancel
<1>11. UNCHANGED vars => UNCHANGED <<session, stream, draining, pc, work>>
  BY DEF vars, output
<1> QED
  BY <1>1, <1>2, <1>3, <1>4, <1>5, <1>6, <1>7, <1>8, <1>9, <1>10, <1>11
     DEF Next, Start, Continue, Quiet

\* A step does nothing more for a cancelled compiler.
LEMMA CancelStep ==
  ASSUME Inv, [Next]_vars, NEW k \in Compilers, state[k] = "cancelled"
  PROVE  /\ state'[k] = "cancelled" /\ handed'[k] = handed[k]
         /\ (k \in ToSet(roles') => k \in ToSet(roles))
<1>0. TypeOK /\ WorkFrame /\ BaseCurrent /\ DrainFrame /\ SettledFrame
  BY DEF Inv
<1>a. /\ state \in [Compilers -> {"idle", "running", "finished", "cancelled", "failed"}]
      /\ handed \in [Compilers -> Seq(Nat)] /\ roles \in Seq(Compilers)
  BY <1>0 DEF TypeOK
<1> DEFINE Dead == /\ state'[k] = "cancelled" /\ handed'[k] = handed[k]
                   /\ (k \in ToSet(roles') => k \in ToSet(roles))
<1>1. ASSUME UNCHANGED <<handed, roles>>, state'[k] = "cancelled"
      PROVE  Dead
  BY <1>1
<1> HIDE DEF Dead
<1>2. ASSUME NEW t \in Threads, NEW j \in Compilers,
             (\E kind \in {"stream", "coarse"} : Begin(t, j, kind)) \/ BeginUnplanned(t, j)
             \/ BeginBusy(t, j)
      PROVE  Dead
  <2>1. /\ state[j] = "idle" /\ UNCHANGED <<handed, roles>>
        /\ \E next \in {"running", "failed"} : state' = [state EXCEPT ![j] = next]
    BY <1>2 DEF Begin, BeginUnplanned, BeginBusy, retained
  <2> QED
    BY <1>1, <1>a, <2>1
<1>3. ASSUME NEW t \in Threads, Fail(t)
      PROVE  Dead
  <2>1. UNCHANGED <<handed, roles>>
        /\ state' = [state EXCEPT ![work[t].compiler] = IF @ = "running" THEN "failed" ELSE @]
    BY <1>3 DEF Fail
  <2> QED
    BY <1>1, <1>a, <2>1
<1>4. ASSUME NEW t \in Threads, Publish(t)
      PROVE  Dead
  <2>j. PICK j \in Compilers : j = work[t].compiler
    BY <1>0, <1>4 DEF Publish, WorkFrame, Compiling
  <2>1. state[j] = "running" /\ j # k
    BY <1>4, <2>j DEF Publish, Finishable
  <2>2. state'[k] = "cancelled" /\ handed'[k] = handed[k]
    BY <1>a, <1>4, <2>j, <2>1 DEF Publish
  <2>3. roles' \in {roles, Append(roles, j)}
    BY <1>0, <1>4, <2>j DEF Publish, CommitsRoles, BaseCurrent
  <2>4. ToSet(roles') \subseteq ToSet(roles) \cup {j}
    <3>1. roles \in Seq(Compilers)
      BY <1>a
    <3>2. ToSet(Append(roles, j)) = ToSet(roles) \cup {j}
      BY <3>1, MemberAppended
    <3> QED
      BY <2>3, <3>2, Zenon
  <2> QED
    BY <2>1, <2>2, <2>4 DEF Dead
<1>5. ASSUME NEW t \in Threads, Commit(t)
      PROVE  Dead
  <2>j. PICK j \in Compilers : j = work[t].compiler
    BY <1>0, <1>5 DEF Commit, WorkFrame, Draining
  <2>1. session[j] = "active"
    BY <1>0, <1>5, <2>j DEF Commit, Overtaken, DrainFrame, HoldsCursor, Draining
  <2>2. j # k
    BY <1>0, <2>1 DEF SettledFrame
  <2>3. handed'[k] = handed[k] /\ UNCHANGED <<state, roles>>
    BY <1>a, <1>5, <2>j, <2>2 DEF Commit, retained
  <2> QED
    BY <2>3 DEF Dead
<1>6. ASSUME NEW j \in Compilers, Close(j) \/ Cancel(j)
      PROVE  Dead
  <2>1. UNCHANGED <<handed, roles>> /\ state' \in {state, [state EXCEPT ![j] = "cancelled"]}
    BY <1>6 DEF Close, CancelOutput, Cancel, retained
  <2> QED
    BY <1>1, <1>a, <2>1
<1>7. ASSUME NEW t \in Threads, NEW j \in Compilers, NextBatch(t, j) \/ NextUnplanned(t, j)
      PROVE  UNCHANGED <<state, handed, roles>>
  BY <1>7 DEF retained, NextBatch, NextUnplanned
<1>8. ASSUME NEW t \in Threads,
             Prepare(t) \/ AppendChunk(t) \/ LastChunk(t) \/ CompileFails(t) \/
             PublishCancelled(t) \/ Drain(t) \/ DrainFails(t) \/ Restore(t) \/
             Discard(t) \/ CountBatch(t) \/ ReadReturns(t) \/ ReadRoles(t)
      PROVE  UNCHANGED <<state, handed, roles>>
  BY <1>8 DEF retained, Prepare, AppendChunk, LastChunk, CompileFails, PublishCancelled,
     DiscardedRoles, Drain, DrainFails, Restore, Discard, CountBatch, ReadReturns, ReadRoles
<1>9. ASSUME NEW j \in Compilers, StopEmpty(j)
      PROVE  UNCHANGED <<state, handed, roles>>
  BY <1>9 DEF retained, StopEmpty
<1>10. UNCHANGED vars => UNCHANGED <<state, handed, roles>>
  BY DEF vars, retained
<1>11. Dead
  BY <1>1, <1>2, <1>3, <1>4, <1>5, <1>6, <1>7, <1>8, <1>9, <1>10 DEF Next, Start, Continue, Quiet
<1> QED
  BY <1>11 DEF Dead

-----------------------------------------------------------------------------
(* The theorems                                                            *)

\* Nothing is claimed, published or drained at the start.
LEMMA Initially == Init => Inv
<1> SUFFICES ASSUME Init PROVE Inv
  OBVIOUS
<1>1. NoWork \in Locals
  BY NoWorkType
<1>2. Len(<<>>) = 0 /\ <<>> \in Seq(Nat) /\ <<>> \in Seq(Compilers) /\ <<>> = [i \in 1..0 |-> i]
  OBVIOUS
<1>3. TypeOK
  BY <1>1, <1>2, SessionAssumption DEF Init, TypeOK, Places
<1>4. WorkFrame /\ BaseCurrent /\ DrainFrame /\ AbsentFrame /\ StreamFrame
  BY SessionAssumption DEF Init, WorkFrame, BaseCurrent, DrainFrame, AbsentFrame, StreamFrame,
     Compiling, Draining
<1>5. ClaimOwned
  BY SessionAssumption DEF Init, ClaimOwned, Compiling
<1>6. ExactlyOnce
  BY <1>2 DEF Init, ExactlyOnce
<1>7. ToSet(<<>>) = {}
  BY <1>2 DEF ToSet
<1>8. SettledFrame /\ DirectRetryable
  BY <1>7 DEF Init, SettledFrame, DirectRetryable, HoldsStream
<1> QED
  BY <1>3, <1>4, <1>5, <1>6, <1>8 DEF Inv

\* Inv is inductive.
LEMMA Inductive == Inv /\ [Next]_vars => Inv'
BY TypeStep, WorkStep, ClaimStep, BaseStep, AbsentStep, StreamStep, DrainStep, ExactStep,
   SettledStep, HeldStep DEF Inv

\* Inv holds in every reachable state.
LEMMA Invariance == Spec => []Inv
BY Initially, Inductive, PTL DEF Spec

\* Compilers, sessions, role state and threads keep their types: a cursor never
\* passes the end of its compilation and a batch never has a negative size.
THEOREM TypeCorrect == Spec => []TypeOK
<1>1. Inv => TypeOK
  BY DEF Inv
<1> QED
  BY <1>1, Invariance, PTL

\* However many threads compile with the shared role state, each failing, being
\* cancelled or finishing as it likes: the claim belongs exactly to the one that
\* compiles with it, so no claim is leaked and no two compilations hold it.
THEOREM ClaimExclusive == Spec => []ClaimOwned
<1>1. Inv => ClaimOwned
  BY DEF Inv
<1> QED
  BY <1>1, Invariance, PTL

\* For any number of compilers, threads, failures, retries and closes, callers
\* receive the edges of a session in order, each once.
THEOREM DeliveredOnce == Spec => []ExactlyOnce
<1>1. Inv => ExactlyOnce
  BY DEF Inv
<1> QED
  BY <1>1, Invariance, PTL

\* Whenever a preparation, a result object, a batch or a cancellation fails a
\* compilation (lib.rs, finish_result), its caller finds what was there before:
\* no session, no batch, no edge, and role maps without it.
THEOREM FailuresLeaveNothing == Spec => []FailureAtomic
<1>1. Inv => FailureAtomic
  <2> SUFFICES ASSUME Inv, NEW k \in Compilers,
                      state[k] # "finished", session[k] # "cancelled"
               PROVE  /\ session[k] = "absent" /\ batches[k] = 0 /\ handed[k] = <<>>
                      /\ k \notin ToSet(roles)
    BY DEF FailureAtomic
  <2>1. state[k] \in {"idle", "running", "cancelled", "failed"}
    BY DEF Inv, TypeOK
  <2>2. session[k] = "absent"
    BY <2>1 DEF Inv, AbsentFrame, SettledFrame
  <2> QED
    BY <2>2 DEF Inv, AbsentFrame, SettledFrame
<1> QED
  BY <1>1, Invariance, PTL

\* A failed or overtaken drain of a compiler without composite members puts its
\* stream back (lib.rs, next_batch): it can be called again.
THEOREM FailedDrainsRetryable == Spec => []DirectRetryable
<1>1. Inv => DirectRetryable
  BY DEF Inv
<1> QED
  BY <1>1, Invariance, PTL

\* After cancel() or close() no thread, however far its call has come, delivers
\* an edge or publishes role maps for that compiler, or revives it.
THEOREM CancellationFinal == Spec => CancelFinal
<1>1. Inv /\ [Next]_vars =>
        [\A k \in Compilers : state[k] = "cancelled" =>
           /\ state'[k] = "cancelled" /\ handed'[k] = handed[k]
           /\ (k \in ToSet(roles') => k \in ToSet(roles))]_vars
  BY CancelStep
<1> QED
  BY <1>1, Invariance, PTL DEF Spec, CancelFinal

\* No published role map is lost to another publication.
THEOREM RolesNeverLost == Spec => RolesGrow
<1>1. Inv /\ [Next]_vars => [IsPrefix(roles, roles')]_vars
  BY RolesStep
<1> QED
  BY <1>1, Invariance, PTL DEF Spec, RolesGrow

=============================================================================
