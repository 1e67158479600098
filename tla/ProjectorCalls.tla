---------------------------- MODULE ProjectorCalls -----------------------------
(***************************************************************************)
(* One Projector shared by concurrent calls: api.py, _iter_view with the   *)
(* methods that drive it (project, project_with_report, iter_edges,        *)
(* project_to_sink, write_artifact) and iter_taxonomy_edges.               *)
(*                                                                         *)
(* A call is a generator: it begins when its first edge is asked for, it   *)
(* may be closed or dropped at any yield, and other threads run between    *)
(* any two of its steps.  Calls meet in the fields of the Projector: the   *)
(* scala-instance lock, the role maps that scala-instance calls leave to   *)
(* one another (a Python copy and a native copy), and the last_* fields    *)
(* under the metadata lock.                                                *)
(*                                                                         *)
(* The role maps are a function of the calls whose role axioms were        *)
(* applied to them, in order, so a role state is that sequence of calls.   *)
(***************************************************************************)
EXTENDS Naturals, Sequences, FiniteSets, SequencesExt

CONSTANTS
  Calls,       \* the calls made on one Projector
  Modes,       \* compatibility_state: "isolated", "scala-instance"
  Kinds,       \* "report": the caller reads last_report; "iterate"; "taxonomy"
  Nothing      \* None

ASSUME ProjectorAssumption ==
  /\ IsFiniteSet(Calls) /\ Nothing \notin Calls \cup Seq(Calls)
  /\ {"none", "error"} \cap Calls = {}
  /\ Modes \subseteq {"isolated", "scala-instance"}
  /\ Kinds \subseteq {"report", "iterate", "taxonomy"}

VARIABLES
  \* per call: what was asked, where its generator is, how it ended, its native
  \* batch session, the role state it compiled with, its invocation number and
  \* what the caller received as its report
  request, pc, ended, session, used, invocation, received,
  \* the Projector
  scala_lock, scala_state, native_scala_state, native_scala_disabled,
  last_view, last_report, last_spill_metrics, scala_invocation_count,
  \* history: the calls whose reports were published, in order
  published

locals   == <<request, session, used, invocation, received>>
roles    == <<scala_state, native_scala_state, native_scala_disabled>>
metadata == <<last_view, last_report, last_spill_metrics, scala_invocation_count,
              published>>

vars == <<request, pc, ended, session, used, invocation, received, scala_lock, roles,
          metadata>>

-----------------------------------------------------------------------------
Scala(c) == request[c].mode = "scala-instance"

Goto(c, place) == pc' = [pc EXCEPT ![c] = place]

Taxonomy(c) == request[c].kind = "taxonomy"

End(c, how) == Goto(c, "end") /\ ended' = [ended EXCEPT ![c] = how]

\* An exception, the end of the stream or a close leads to the finally block;
\* iter_taxonomy_edges has none.
Leave(c, how) ==
  /\ Goto(c, IF Taxonomy(c) THEN "drop" ELSE "finally")
  /\ ended' = [ended EXCEPT ![c] = how]

-----------------------------------------------------------------------------
(* generate: the lock, then the choice of a compiler                       *)

\* Mutant: a second stateful call waits its turn inside the first.
EnterUnlocked(c) ==
  /\ pc[c] = "idle"
  /\ Goto(c, "select")
  /\ scala_lock' = IF Scala(c) THEN c ELSE scala_lock
  /\ UNCHANGED <<locals, ended, roles, metadata>>

\* acquire(blocking=False); an overlapping scala-instance call is refused.
Enter(c) ==
  /\ pc[c] = "idle"
  /\ IF Scala(c) /\ scala_lock # Nothing
       THEN End(c, "refused") /\ UNCHANGED scala_lock
       ELSE /\ Goto(c, "select")
            /\ scala_lock' = IF Scala(c) THEN c ELSE scala_lock
            /\ UNCHANGED ended
  /\ UNCHANGED <<locals, roles, metadata>>

\* An iterator that is dropped before its first edge does nothing.
DropUnstarted(c) ==
  /\ pc[c] = "idle" /\ request[c].kind = "iterate"
  /\ End(c, "closed")
  /\ UNCHANGED <<locals, scala_lock, roles, metadata>>

\* Backend selection and negotiation choose scalar ingestion ...
SelectScalar(c) ==
  /\ pc[c] = "select"
  /\ Goto(c, "scalar")
  /\ UNCHANGED <<locals, ended, scala_lock, roles, metadata>>

\* ... or encoded-native ingestion.  A scala-instance call may use the native
\* role state only while the scalar compiler has never run for one.
SelectNative(c) ==
  /\ pc[c] = "select"
  /\ IF ~Scala(c) THEN Goto(c, "native") /\ UNCHANGED roles
     ELSE LET retired == \/ native_scala_disabled
                         \/ native_scala_state = Nothing /\ scala_state # <<>>
          IN  /\ native_scala_disabled' = retired
              /\ UNCHANGED scala_state
              /\ \/ retired /\ Goto(c, "scalar") /\ UNCHANGED native_scala_state
                 \/ /\ ~retired /\ Goto(c, "native")
                    /\ native_scala_state' =
                         IF native_scala_state = Nothing THEN <<>> ELSE native_scala_state
                 \/ /\ ~retired /\ native_scala_state = Nothing   \* no native factory
                    /\ Goto(c, "scalar") /\ UNCHANGED native_scala_state
  /\ UNCHANGED <<locals, ended, scala_lock, metadata>>

\* compile_batches: the session is installed and the role maps committed.
NativeCompile(c) ==
  /\ pc[c] = "native"
  /\ session' = [session EXCEPT ![c] = "open"]
  /\ native_scala_state' =
       IF Scala(c) THEN Append(native_scala_state, c) ELSE native_scala_state
  /\ Goto(c, "compiled")
  /\ UNCHANGED <<request, ended, used, invocation, received, scala_lock, scala_state,
                 native_scala_disabled, metadata>>

\* NativeEncodedDirectUnsupported, before anything is committed.
NativeDecline(c) ==
  /\ pc[c] = "native"
  /\ Goto(c, "scalar")
  /\ UNCHANGED <<locals, ended, scala_lock, roles, metadata>>

\* The ledgers of a finished compilation do not add up: whole-call fallback.
NativeReject(c) ==
  /\ pc[c] = "compiled"
  /\ session' = [session EXCEPT ![c] = "closed"]
  /\ Goto(c, "scalar")
  /\ UNCHANGED <<request, ended, used, invocation, received, scala_lock, roles, metadata>>

\* The native maps are copied into the scalar shadow.
NativeAccept(c) ==
  /\ pc[c] = "compiled"
  /\ scala_state' = IF Scala(c) THEN native_scala_state ELSE scala_state
  /\ used' = [used EXCEPT ![c] = IF Scala(c) THEN native_scala_state ELSE <<c>>]
  /\ Goto(c, "ready")
  /\ UNCHANGED <<request, ended, session, invocation, received, scala_lock,
                 native_scala_state, native_scala_disabled, metadata>>

\* Mutant: a scalar scala-instance call leaves the native state in use.
RetiredByScalarNever(c) == native_scala_disabled

\* _native_scala_disabled = True for every scala-instance call without a native
\* compilation.
RetiredByScalar(c) == native_scala_disabled \/ Scala(c)

\* Mutant: the maps are updated when the first role edge is needed.
ScalarCompileLazily(c) ==
  /\ pc[c] = "scalar"
  /\ native_scala_disabled' = RetiredByScalar(c)
  /\ used' = [used EXCEPT ![c] = IF Scala(c) THEN Append(scala_state, c) ELSE <<c>>]
  /\ Goto(c, "ready")
  /\ UNCHANGED <<request, ended, session, invocation, received, scala_lock, scala_state,
                 native_scala_state, metadata>>

\* prepare_streaming_compilation, then prepare_role_state on the shared maps (an
\* isolated call has its own).  prepare_encoded_subset_compilation, called in
\* between, declines: ingestion is scalar wherever this is reached.
ScalarCompile(c) ==
  /\ pc[c] = "scalar"
  /\ native_scala_disabled' = RetiredByScalar(c)
  /\ scala_state' = IF Scala(c) THEN Append(scala_state, c) ELSE scala_state
  /\ used' = [used EXCEPT ![c] = IF Scala(c) THEN Append(scala_state, c) ELSE <<c>>]
  /\ Goto(c, "ready")
  /\ UNCHANGED <<request, ended, session, invocation, received, scala_lock,
                 native_scala_state, metadata>>

\* Validation, cancellation or resources: an exception before the first edge.
\* Between compile_batches and the copy it leaves the native maps ahead.
PrepareFails(c) ==
  /\ pc[c] \in {"select", "native", "compiled", "scalar"}
  /\ Leave(c, "raised")
  /\ session' = [session EXCEPT ![c] = IF @ = "open" THEN "closed" ELSE @]
  /\ native_scala_disabled' =
       IF pc[c] = "scalar" THEN RetiredByScalar(c) ELSE native_scala_disabled
  /\ UNCHANGED <<request, used, invocation, received, scala_lock, scala_state,
                 native_scala_state, metadata>>

-----------------------------------------------------------------------------
(* Publication, iteration and the report                                   *)

\* self._last_report = None as a call starts; a taxonomy call has no report.
Publish(c) ==
  /\ pc[c] = "ready"
  /\ last_view' = c
  /\ last_report' = IF Taxonomy(c) THEN last_report ELSE Nothing
  /\ IF Scala(c)
       THEN /\ scala_invocation_count' = scala_invocation_count + 1
            /\ invocation' = [invocation EXCEPT ![c] = scala_invocation_count + 1]
       ELSE /\ invocation' = [invocation EXCEPT ![c] = 1]
            /\ UNCHANGED scala_invocation_count
  /\ Goto(c, "iterate")
  /\ UNCHANGED <<request, ended, session, used, received, scala_lock, roles,
                 last_spill_metrics, published>>

\* The policy iterator runs out: it closed its source (iter_raw_edges closes the
\* session) and reported its metrics.
Exhaust(c) ==
  /\ pc[c] = "iterate"
  /\ IF Taxonomy(c) THEN Leave(c, "complete") ELSE Goto(c, "report") /\ UNCHANGED ended
  /\ session' = [session EXCEPT ![c] = IF @ = "open" THEN "closed" ELSE @]
  /\ last_spill_metrics' = c
  /\ UNCHANGED <<request, used, invocation, received, scala_lock, roles, last_view,
                 last_report, scala_invocation_count, published>>

\* An exception out of the policy iterator.  Closing a source that never started
\* does not run its finally block, and metrics that fail are not reported.
IterationFails(c) ==
  /\ pc[c] = "iterate"
  /\ Leave(c, "raised")
  /\ session' \in { session, [session EXCEPT ![c] = IF @ = "open" THEN "closed" ELSE @] }
  /\ last_spill_metrics' \in {last_spill_metrics, c}
  /\ UNCHANGED <<request, used, invocation, received, scala_lock, roles, last_view,
                 last_report, scala_invocation_count, published>>

\* The consumer closes or drops the iterator, or its sink raises.
CloseIterator(c) ==
  /\ pc[c] = "iterate"
  /\ Leave(c, "closed")
  /\ UNCHANGED <<locals, scala_lock, roles, metadata>>

\* Mutant: a report that is already there is kept.
PublishedFirst(c) == IF last_report = Nothing THEN c ELSE last_report

Published(c) == c

Report(c) ==
  /\ pc[c] = "report"
  /\ last_report' = Published(c)
  /\ published' = Append(published, c)
  /\ Leave(c, "complete")
  /\ UNCHANGED <<locals, scala_lock, roles, last_view, last_spill_metrics,
                 scala_invocation_count>>

\* _report validates what it is given and may raise.
ReportFails(c) ==
  /\ pc[c] = "report"
  /\ Leave(c, "raised")
  /\ UNCHANGED <<locals, scala_lock, roles, metadata>>

\* Mutant: an exception skips the release.
ReleasedOnSuccess(c) ==
  IF scala_lock = c /\ ended[c] = "complete" THEN Nothing ELSE scala_lock

\* if acquired: self._scala_lock.release()
Released(c) == IF scala_lock = c THEN Nothing ELSE scala_lock

\* Mutant: only a completed call closes its session.
ClosedOnSuccess(c) == IF ended[c] = "complete" THEN "closed" ELSE session[c]

\* native_encoded_compilation.batches.close()
Closed(c) == IF session[c] = "open" THEN "closed" ELSE session[c]

Finally(c) ==
  /\ pc[c] = "finally"
  /\ session' = [session EXCEPT ![c] = Closed(c)]
  /\ scala_lock' = Released(c)
  /\ Goto(c, IF ended[c] = "closed" THEN "drop"
             ELSE IF ended[c] = "complete" /\ request[c].kind = "report" THEN "fetch"
             ELSE "end")
  /\ UNCHANGED <<request, ended, used, invocation, received, roles, metadata>>

\* The frame is cleared: only now does a policy iterator that was not exhausted
\* run its finally block, and __del__ closes a session that nothing else closed.
Drop(c) ==
  /\ pc[c] = "drop"
  /\ session' = [session EXCEPT ![c] = IF @ = "open" THEN "closed" ELSE @]
  /\ last_spill_metrics' \in {last_spill_metrics} \cup (IF ended[c] = "closed" THEN {c} ELSE {})
  /\ Goto(c, "end")
  /\ UNCHANGED <<request, ended, used, invocation, received, scala_lock, roles, last_view,
                 last_report, scala_invocation_count, published>>

\* None is a RuntimeError.
Fetched == IF last_report = Nothing THEN "error" ELSE last_report

\* report = self.last_report, after the generator has ended.
Fetch(c) ==
  /\ pc[c] = "fetch"
  /\ received' = [received EXCEPT ![c] = Fetched]
  /\ Goto(c, "end")
  /\ UNCHANGED <<request, ended, session, used, invocation, scala_lock, roles, metadata>>

-----------------------------------------------------------------------------
Init ==
  /\ request \in [Calls -> { r \in [mode : Modes, kind : Kinds] :
                               r.kind = "taxonomy" => r.mode = "isolated" }]
  /\ pc = [c \in Calls |-> "idle"] /\ ended = [c \in Calls |-> "none"]
  /\ session = [c \in Calls |-> "none"] /\ used = [c \in Calls |-> <<>>]
  /\ invocation = [c \in Calls |-> 0] /\ received = [c \in Calls |-> "none"]
  /\ scala_lock = Nothing
  /\ scala_state = <<>> /\ native_scala_state = Nothing /\ native_scala_disabled = FALSE
  /\ last_view = Nothing /\ last_report = Nothing /\ last_spill_metrics = Nothing
  /\ scala_invocation_count = 0 /\ published = <<>>

Step(c) ==
  \/ Enter(c) \/ DropUnstarted(c) \/ SelectScalar(c) \/ SelectNative(c)
  \/ NativeCompile(c) \/ NativeDecline(c) \/ NativeReject(c) \/ NativeAccept(c)
  \/ ScalarCompile(c) \/ PrepareFails(c) \/ Publish(c) \/ Exhaust(c)
  \/ IterationFails(c) \/ CloseIterator(c) \/ Report(c) \/ ReportFails(c) \/ Finally(c)
  \/ Drop(c) \/ Fetch(c)

\* Every call has returned.
Returned == (\A c \in Calls : pc[c] = "end") /\ UNCHANGED vars

Next == (\E c \in Calls : Step(c)) \/ Returned

Spec == Init /\ [][Next]_vars

\* A thread inside a call runs on.  Nobody has to start a call, and a consumer may
\* hold an iterator without asking for the next edge.
FairSpec ==
  Spec /\ \A c \in Calls : WF_vars(Step(c) /\ pc[c] \notin {"idle", "iterate"})

-----------------------------------------------------------------------------
(* Properties                                                              *)

\* Type correctness of the calls and of the Projector's fields.
TypeOK ==
  /\ request \in [Calls -> [mode : Modes, kind : Kinds]]
  /\ pc \in [Calls -> {"idle", "select", "native", "compiled", "scalar", "ready",
                       "iterate", "report", "finally", "drop", "fetch", "end"}]
  /\ ended \in [Calls -> {"none", "refused", "raised", "closed", "complete"}]
  /\ session \in [Calls -> {"none", "open", "closed"}]
  /\ used \in [Calls -> Seq(Calls)] /\ invocation \in [Calls -> Nat]
  /\ received \in [Calls -> Calls \cup {"none", "error"}]
  /\ scala_lock \in Calls \cup {Nothing}
  /\ scala_state \in Seq(Calls)
  /\ native_scala_state = Nothing \/ native_scala_state \in Seq(Calls)
  /\ native_scala_disabled \in BOOLEAN
  /\ {last_view, last_report, last_spill_metrics} \subseteq Calls \cup {Nothing}
  /\ scala_invocation_count \in Nat /\ published \in Seq(Calls)

\* The places between acquiring the lock and releasing it.
Inside == {"select", "native", "compiled", "scalar", "ready", "iterate", "report", "finally"}

\* SPEC.md 9: overlapping scala-instance calls are rejected rather than raced.
\* The lock is held exactly by the one stateful call that is inside generate,
\* through every exception, close and refused rival.
ScalaExclusive ==
  \A c \in Calls : scala_lock = c <=> (Scala(c) /\ pc[c] \in Inside)

\* The maps a stateful call leaves behind are those its successor starts from:
\* a later invocation compiled with everything an earlier one compiled with,
\* then with its own axioms, whichever compilers the two used and whatever
\* failed in between.
ReplaysInOrder ==
  \A c, d \in Calls :
    Scala(c) /\ Scala(d) /\ 0 < invocation[c] /\ invocation[c] < invocation[d] =>
      IsStrictPrefix(used[c], used[d]) /\ Last(used[d]) = d

\* The scalar-compatible shadow of the role maps never loses or reorders an
\* update, although two compilers write it: native calls overwrite it whole.
HistoryGrows == [][IsPrefix(scala_state, scala_state')]_vars

\* A caller that asked for a report gets its own or that of a call which
\* published after it, never an older one.
NoStaleReport ==
  \A c \in Calls : received[c] \in Calls =>
    \E i, j \in DOMAIN published : published[i] = c /\ published[j] = received[c] /\ i <= j

\* SPEC.md 9: however an iterator ends, its native session is closed: by the
\* time generate releases the lock, and at the latest when the frame of a
\* taxonomy iterator is gone.
SessionsClosed ==
  \A c \in Calls : session[c] = "open" =>
    pc[c] \in Inside \/ (Taxonomy(c) /\ pc[c] = "drop")

\* No end of a stateful call leaves the lock behind: while its consumer is not
\* holding an unfinished iterator, the lock is eventually given up.
LockReleased ==
  \A c \in Calls : scala_lock = c ~> (scala_lock # c \/ pc[c] = "iterate")

\* SPEC.md 9: "Projector is re-entrant and safe for concurrent isolated calls":
\* each such caller receives the report of its own projection (api.py,
\* project_with_report: "guarded by complete consumption").
OwnReport == \A c \in Calls : received[c] \in {"none", c}

=============================================================================
