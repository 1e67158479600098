------------------------- MODULE ProjectorCallsProofs --------------------------
(***************************************************************************)
(* The properties of concurrent calls, for any number of them: exclusion,  *)
(* the growth of the role maps, the order in which stateful calls replay   *)
(* one another, reports that are never older than the caller's own, and    *)
(* sessions that are closed with their call.                               *)
(*                                                                         *)
(* Mutual exclusion is inductive once the shapes of pc and request are     *)
(* known. That the scalar shadow only grows needs what the two copies of   *)
(* the role maps have to do with each other: as long as the native copy is *)
(* in use the shadow is a prefix of it (so copying it loses nothing), a    *)
(* stateful call that has chosen the native compiler holds the lock and    *)
(* keeps that copy in use, and no stateful call has run before there is    *)
(* one.                                                                    *)
(*                                                                         *)
(* The order of the calls needs that invocation numbers are given out      *)
(* under the lock (NumberFrame), and that what a numbered call compiled    *)
(* with is in the maps from then on (CompileFrame). Reports need that what *)
(* last_report holds was published last, after a call that is about to     *)
(* read it published its own (ReportFrame).                                *)
(***************************************************************************)
EXTENDS ProjectorCalls, SequenceLemmas, TLAPS

\* iter_taxonomy_edges is isolated: it never holds the lock.
TaxonomyIsolated == \A c \in Calls : Taxonomy(c) => ~Scala(c)

\* The native copy of the role maps may be used by the next stateful call.
InUse == ~native_scala_disabled /\ native_scala_state \in Seq(Calls)

\* The shadow lags behind the native copy, never diverges from it.
ShadowPrefix == InUse => IsPrefix(scala_state, native_scala_state)

\* No copy yet: no stateful call has been compiled.
ShadowEmpty == ~native_scala_disabled /\ native_scala_state = Nothing => scala_state = <<>>

\* A stateful call that chose the native compiler finds its copy in use.
NativeChosen ==
  \A c \in Calls : Scala(c) /\ pc[c] \in {"native", "compiled"} => InUse

\* A call that came to its report, and is not yet through reading it, published it.
\* last_report is the latest publication.
ReportFrame ==
  /\ \A c \in Calls :
       pc[c] = "fetch" \/ (pc[c] = "finally" /\ ended[c] = "complete") =>
         \E i \in DOMAIN published : published[i] = c
  /\ last_report # Nothing => published # <<>> /\ last_report = Last(published)

\* The places of a call that has its invocation number.
Numbered == {"iterate", "report", "finally", "drop", "fetch", "end"}

\* A stateful call with a number compiled with maps that the shadow still begins with.
NumberFrame ==
  \A c \in Calls : invocation[c] > 0 =>
    /\ pc[c] \in Numbered
    /\ Scala(c) => /\ invocation[c] <= scala_invocation_count /\ used[c] # <<>>
                   /\ IsPrefix(used[c], scala_state) /\ Last(used[c]) = c

\* Between its compilation and its number a stateful call has added itself, and
\* only itself, to what every numbered call compiled with.
CompileFrame ==
  \A c \in Calls : Scala(c) =>
    /\ pc[c] = "compiled" =>
         Len(scala_state) < Len(native_scala_state) /\ Last(native_scala_state) = c
    /\ pc[c] = "ready" =>
         /\ used[c] = scala_state /\ used[c] # <<>> /\ Last(used[c]) = c
         /\ \A d \in Calls : Scala(d) /\ invocation[d] > 0 => IsStrictPrefix(used[d], used[c])

Inv == TypeOK /\ TaxonomyIsolated /\ ScalaExclusive /\ ShadowPrefix /\ ShadowEmpty /\ NativeChosen
       /\ SessionsClosed /\ ReportFrame /\ NoStaleReport
       /\ NumberFrame /\ CompileFrame /\ ReplaysInOrder

-----------------------------------------------------------------------------
(* One step of one call                                                    *)

\* Every action keeps the fields in their types.
LEMMA TypeStep ==
  ASSUME TypeOK, NativeChosen, NEW c \in Calls, Step(c)
  PROVE  TypeOK'
<1> USE DEF TypeOK
<1>1. CASE Enter(c)
  BY <1>1 DEF Enter, Goto, End, locals, roles, metadata
<1>2. CASE DropUnstarted(c)
  BY <1>2 DEF DropUnstarted, Goto, End, locals, roles, metadata
<1>3. CASE SelectScalar(c)
  BY <1>3 DEF SelectScalar, Goto, locals, roles, metadata
<1>4. CASE SelectNative(c)
  <2>1. \E place \in {"native", "scalar"} : Goto(c, place)
    BY <1>4 DEF SelectNative
  <2>2. scala_state' = scala_state /\ native_scala_state' \in {native_scala_state, <<>>}
    BY <1>4 DEF SelectNative, roles
  <2>3. pc' \in [Calls -> {"idle", "select", "native", "compiled", "scalar", "ready",
                       "iterate", "report", "finally", "drop", "fetch", "end"}]
    BY <2>1 DEF Goto
  <2>4. native_scala_disabled' \in BOOLEAN
    <3>1. CASE ~Scala(c)
      BY <1>4, <3>1 DEF SelectNative, roles
    <3>2. CASE Scala(c)
      <4>1. native_scala_disabled' = (native_scala_disabled
                                      \/ (native_scala_state = Nothing /\ scala_state # <<>>))
        BY <1>4, <3>2, Zenon DEF SelectNative
      <4> QED
        BY <4>1, Zenon
    <3> QED
      BY <3>1, <3>2
  <2>5. UNCHANGED <<locals, ended, scala_lock, metadata>>
    BY <1>4 DEF SelectNative
  <2>6. <<>> \in Seq(Calls)
    OBVIOUS
  <2>7. native_scala_state' = Nothing \/ native_scala_state' \in Seq(Calls)
    BY <2>2, <2>6
  <2>8. UNCHANGED <<request, ended, session, used, invocation, received, scala_lock, scala_state,
                    last_view, last_report, last_spill_metrics, scala_invocation_count,
                    published>>
    BY <2>2, <2>5 DEF locals, metadata
  <2> QED
    BY <2>3, <2>4, <2>7, <2>8
<1>5. CASE NativeCompile(c)
  <2>1. Scala(c) => native_scala_state \in Seq(Calls)
    BY <1>5 DEF NativeCompile, NativeChosen, InUse
  <2>2. native_scala_state' = Nothing \/ native_scala_state' \in Seq(Calls)
    BY <1>5, <2>1 DEF NativeCompile
  <2>3. session' \in [Calls -> {"none", "open", "closed"}]
    BY <1>5 DEF NativeCompile
  <2>4. pc' \in [Calls -> {"idle", "select", "native", "compiled", "scalar", "ready",
                       "iterate", "report", "finally", "drop", "fetch", "end"}]
    BY <1>5 DEF NativeCompile, Goto
  <2>5. UNCHANGED <<request, ended, used, invocation, received, scala_lock, scala_state,
                    native_scala_disabled, metadata>>
    BY <1>5 DEF NativeCompile
  <2> QED
    BY <2>2, <2>3, <2>4, <2>5 DEF metadata
<1>6. CASE NativeDecline(c)
  BY <1>6 DEF NativeDecline, Goto, locals, roles, metadata
<1>7. CASE NativeReject(c)
  BY <1>7 DEF NativeReject, Goto, locals, roles, metadata
<1>8. CASE NativeAccept(c)
  <2>1. Scala(c) => native_scala_state \in Seq(Calls)
    BY <1>8 DEF NativeAccept, NativeChosen, InUse
  <2>2. <<c>> \in Seq(Calls)
    OBVIOUS
  <2>3. scala_state' \in Seq(Calls) /\ used' \in [Calls -> Seq(Calls)]
    BY <1>8, <2>1, <2>2 DEF NativeAccept
  <2>4. pc' \in [Calls -> {"idle", "select", "native", "compiled", "scalar", "ready",
                       "iterate", "report", "finally", "drop", "fetch", "end"}]
    BY <1>8 DEF NativeAccept, Goto
  <2>5. UNCHANGED <<request, ended, session, invocation, received, scala_lock,
                    native_scala_state, native_scala_disabled, metadata>>
    BY <1>8 DEF NativeAccept
  <2> QED
    BY <2>3, <2>4, <2>5 DEF metadata
<1>9. CASE ScalarCompile(c)
  <2>1. pc' \in [Calls -> {"idle", "select", "native", "compiled", "scalar", "ready",
                       "iterate", "report", "finally", "drop", "fetch", "end"}]
    BY <1>9 DEF ScalarCompile, Goto
  <2>2. Append(scala_state, c) \in Seq(Calls) /\ <<c>> \in Seq(Calls)
    OBVIOUS
  <2>3. scala_state' \in Seq(Calls)
    BY <1>9, <2>2 DEF ScalarCompile
  <2>4. used' \in [Calls -> Seq(Calls)]
    <3> DEFINE copy == IF Scala(c) THEN Append(scala_state, c) ELSE <<c>>
    <3>1. copy \in Seq(Calls)
      BY <2>2
    <3>2. used' = [used EXCEPT ![c] = copy]
      BY <1>9 DEF ScalarCompile
    <3> HIDE DEF copy
    <3> QED
      BY <3>1, <3>2
  <2>5. native_scala_disabled' \in BOOLEAN
    BY <1>9 DEF ScalarCompile, RetiredByScalar
  <2>6. UNCHANGED <<request, ended, session, invocation, received, scala_lock,
                    native_scala_state, metadata>>
    BY <1>9 DEF ScalarCompile
  <2> QED
    BY <2>1, <2>3, <2>4, <2>5, <2>6 DEF metadata
<1>10. CASE PrepareFails(c)
  BY <1>10 DEF PrepareFails, Goto, Leave, RetiredByScalar, locals, roles, metadata
<1>11. CASE Publish(c)
  <2> DEFINE n == scala_invocation_count + 1
  <2>0. n \in Nat /\ 1 \in Nat
    OBVIOUS
  <2>1. /\ \E k \in Nat : invocation' = [invocation EXCEPT ![c] = k]
        /\ scala_invocation_count' \in {scala_invocation_count, n}
    <3> HIDE DEF n
    <3>1. \/ scala_invocation_count' = n /\ invocation' = [invocation EXCEPT ![c] = n]
          \/ /\ invocation' = [invocation EXCEPT ![c] = 1]
             /\ scala_invocation_count' = scala_invocation_count
      BY <1>11 DEF Publish, n
    <3> QED
      BY <2>0, <3>1
  <2>2. {last_view', last_report', last_spill_metrics'} \subseteq Calls \cup {Nothing}
    BY <1>11 DEF Publish
  <2>3. pc' \in [Calls -> {"idle", "select", "native", "compiled", "scalar", "ready",
                       "iterate", "report", "finally", "drop", "fetch", "end"}]
    BY <1>11 DEF Publish, Goto
  <2>4. UNCHANGED <<request, ended, session, used, received, scala_lock, roles, published>>
    BY <1>11 DEF Publish
  <2>5. invocation' \in [Calls -> Nat] /\ scala_invocation_count' \in Nat
    BY <2>0, <2>1
  <2> QED
    BY <2>2, <2>3, <2>4, <2>5 DEF roles
<1>12. CASE Exhaust(c)
  BY <1>12 DEF Exhaust, Goto, Leave, locals, roles, metadata
<1>13. CASE IterationFails(c)
  <2>1. pc' \in [Calls -> {"idle", "select", "native", "compiled", "scalar", "ready",
                       "iterate", "report", "finally", "drop", "fetch", "end"}]
        /\ ended' \in [Calls -> {"none", "refused", "raised", "closed", "complete"}]
    BY <1>13 DEF IterationFails, Goto, Leave
  <2>2. session' \in [Calls -> {"none", "open", "closed"}]
    BY <1>13 DEF IterationFails
  <2>3. last_spill_metrics' \in Calls \cup {Nothing}
    BY <1>13 DEF IterationFails
  <2>4. UNCHANGED <<request, used, invocation, received, scala_lock, roles, last_view,
                    last_report, scala_invocation_count, published>>
    BY <1>13 DEF IterationFails
  <2>5. request' = request /\ used' = used /\ invocation' = invocation /\ received' = received
        /\ scala_lock' = scala_lock /\ scala_state' = scala_state
        /\ native_scala_state' = native_scala_state
        /\ native_scala_disabled' = native_scala_disabled
    BY <2>4 DEF roles
  <2>6. last_view' = last_view /\ last_report' = last_report
        /\ scala_invocation_count' = scala_invocation_count /\ published' = published
    BY <2>4
  <2>7. {last_view', last_report', last_spill_metrics'} \subseteq Calls \cup {Nothing}
    <3>1. last_view \in Calls \cup {Nothing} /\ last_report \in Calls \cup {Nothing}
      OBVIOUS
    <3> QED
      BY <2>3, <2>6, <3>1
  <2>8. /\ request' \in [Calls -> [mode : Modes, kind : Kinds]]
        /\ used' \in [Calls -> Seq(Calls)] /\ invocation' \in [Calls -> Nat]
        /\ received' \in [Calls -> Calls \cup {"none", "error"}]
    BY <2>5
  <2>9. /\ scala_lock' \in Calls \cup {Nothing} /\ scala_state' \in Seq(Calls)
        /\ native_scala_state' = Nothing \/ native_scala_state' \in Seq(Calls)
        /\ native_scala_disabled' \in BOOLEAN
    BY <2>5
  <2>10. scala_invocation_count' \in Nat /\ published' \in Seq(Calls)
    BY <2>6
  <2> QED
    BY <2>1, <2>2, <2>7, <2>8, <2>9, <2>10
<1>14. CASE CloseIterator(c)
  BY <1>14 DEF CloseIterator, Goto, Leave, locals, roles, metadata
<1>15. CASE Report(c)
  <2>1. pc' \in [Calls -> {"idle", "select", "native", "compiled", "scalar", "ready",
                       "iterate", "report", "finally", "drop", "fetch", "end"}]
        /\ ended' \in [Calls -> {"none", "refused", "raised", "closed", "complete"}]
    BY <1>15 DEF Report, Goto, Leave
  <2>2. last_report' = c /\ published' \in Seq(Calls)
    BY <1>15 DEF Report, Published
  <2>3. UNCHANGED <<locals, scala_lock, roles, last_view, last_spill_metrics,
                    scala_invocation_count>>
    BY <1>15 DEF Report
  <2> QED
    BY <2>1, <2>2, <2>3 DEF locals, roles
<1>16. CASE ReportFails(c)
  BY <1>16 DEF ReportFails, Goto, Leave, locals, roles, metadata
<1>17. CASE Finally(c)
  BY <1>17 DEF Finally, Goto, Released, Closed, locals, roles, metadata
<1>18. CASE Drop(c)
  BY <1>18 DEF Drop, Goto, locals, roles, metadata
<1>19. CASE Fetch(c)
  BY <1>19 DEF Fetch, Fetched, Goto, locals, roles, metadata
<1> QED
  BY <1>1, <1>2, <1>3, <1>4, <1>5, <1>6, <1>7, <1>8, <1>9, <1>10, <1>11, <1>12, <1>13,
     <1>14, <1>15, <1>16, <1>17, <1>18, <1>19 DEF Step

\* The lock is held exactly by the stateful call inside generate, after any step.
LEMMA ExclusiveStep ==
  ASSUME TypeOK, TaxonomyIsolated, ScalaExclusive, NEW c \in Calls, Step(c)
  PROVE  ScalaExclusive' /\ TaxonomyIsolated'
<1> USE ProjectorAssumption DEF TypeOK, TaxonomyIsolated, ScalaExclusive, Scala, Taxonomy, Inside
<1>1. CASE Enter(c)
  BY <1>1 DEF Enter, Goto, End, locals, roles, metadata
<1>2. CASE DropUnstarted(c)
  BY <1>2 DEF DropUnstarted, Goto, End, locals, roles, metadata
<1>3. CASE SelectScalar(c)
  BY <1>3 DEF SelectScalar, Goto, locals, roles, metadata
<1>4. CASE SelectNative(c)
  <2>1. request' = request /\ scala_lock' = scala_lock
    BY <1>4 DEF SelectNative, locals
  <2>2. pc[c] \in Inside /\ \E place \in Inside : Goto(c, place)
    BY <1>4 DEF SelectNative
  <2> QED
    BY <2>1, <2>2 DEF Goto
<1>5. CASE NativeCompile(c)
  BY <1>5 DEF NativeCompile, Goto, locals, roles, metadata
<1>6. CASE NativeDecline(c)
  BY <1>6 DEF NativeDecline, Goto, locals, roles, metadata
<1>7. CASE NativeReject(c)
  BY <1>7 DEF NativeReject, Goto, locals, roles, metadata
<1>8. CASE NativeAccept(c)
  BY <1>8 DEF NativeAccept, Goto, locals, roles, metadata
<1>9. CASE ScalarCompile(c)
  <2>1. request' = request /\ scala_lock' = scala_lock
    BY <1>9 DEF ScalarCompile, locals
  <2>2. pc[c] \in Inside /\ \E place \in Inside : Goto(c, place)
    BY <1>9 DEF ScalarCompile
  <2> QED
    BY <2>1, <2>2 DEF Goto
<1>10. CASE PrepareFails(c)
  BY <1>10 DEF PrepareFails, Goto, Leave, RetiredByScalar, locals, roles, metadata
<1>11. CASE Publish(c)
  <2>1. request' = request /\ scala_lock' = scala_lock
    BY <1>11 DEF Publish, locals
  <2>2. pc[c] \in Inside /\ \E place \in Inside : Goto(c, place)
    BY <1>11 DEF Publish
  <2> QED
    BY <2>1, <2>2 DEF Goto
<1>12. CASE Exhaust(c)
  BY <1>12 DEF Exhaust, Goto, Leave, locals, roles, metadata
<1>13. CASE IterationFails(c)
  BY <1>13 DEF IterationFails, Goto, Leave, locals, roles, metadata
<1>14. CASE CloseIterator(c)
  BY <1>14 DEF CloseIterator, Goto, Leave, locals, roles, metadata
<1>15. CASE Report(c)
  <2>1. request' = request /\ scala_lock' = scala_lock
    BY <1>15 DEF Report, locals
  <2>2. pc[c] \in Inside /\ \/ ~Scala(c) /\ Goto(c, "drop")
                            \/ Goto(c, "finally")
    BY <1>15 DEF Report, Leave
  <2> QED
    BY <2>1, <2>2 DEF Goto
<1>16. CASE ReportFails(c)
  BY <1>16 DEF ReportFails, Goto, Leave, locals, roles, metadata
<1>17. CASE Finally(c)
  BY <1>17 DEF Finally, Goto, Released, Closed, locals, roles, metadata
<1>18. CASE Drop(c)
  BY <1>18 DEF Drop, Goto, locals, roles, metadata
<1>19. CASE Fetch(c)
  BY <1>19 DEF Fetch, Fetched, Goto, locals, roles, metadata
<1> QED
  BY <1>1, <1>2, <1>3, <1>4, <1>5, <1>6, <1>7, <1>8, <1>9, <1>10, <1>11, <1>12, <1>13,
     <1>14, <1>15, <1>16, <1>17, <1>18, <1>19 DEF Step

\* The two copies of the role maps stay related, and the shadow is not cut back.
LEMMA RolesStep ==
  ASSUME Inv, NEW c \in Calls, Step(c)
  PROVE  ShadowPrefix' /\ ShadowEmpty' /\ NativeChosen' /\ IsPrefix(scala_state, scala_state')
<1> USE DEF Inv
<1> DEFINE Kept == UNCHANGED <<request, roles>>
<1>0. IsPrefix(scala_state, scala_state)
  BY PrefixSelf DEF TypeOK
<1>a. ASSUME Kept, \A d \in Calls : pc'[d] \in {"native", "compiled"} =>
                      pc[d] \in {"native", "compiled"}
      PROVE  ShadowPrefix' /\ ShadowEmpty' /\ NativeChosen' /\ IsPrefix(scala_state, scala_state')
  BY <1>a, <1>0 DEF ShadowPrefix, ShadowEmpty, NativeChosen, InUse, Scala, roles
<1>1. CASE Enter(c)
  BY <1>1, <1>a DEF Enter, Goto, End, locals, roles, metadata, TypeOK
<1>2. CASE DropUnstarted(c)
  BY <1>2, <1>a DEF DropUnstarted, Goto, End, locals, roles, metadata, TypeOK
<1>3. CASE SelectScalar(c)
  BY <1>3, <1>a DEF SelectScalar, Goto, locals, roles, metadata, TypeOK
<1>4. CASE SelectNative(c)
  <2> USE DEF TypeOK, Goto, locals, roles, metadata
  <2>1. CASE ~Scala(c)
    BY <1>4, <2>1, <1>0 DEF SelectNative, ShadowPrefix, ShadowEmpty, NativeChosen, InUse, Scala
  <2>2. CASE Scala(c)
    <3>1. \A d \in Calls : d # c /\ Scala(d) => pc[d] \notin {"native", "compiled"}
      BY <1>4, <2>2, ProjectorAssumption DEF SelectNative, ScalaExclusive, Inside
    <3>2. request' = request /\ scala_state' = scala_state
      BY <1>4, <2>2 DEF SelectNative
    <3>3. <<>> \in Seq(Calls) /\ IsPrefix(<<>>, <<>>)
      <4>1. <<>> \in Seq(Calls)
        OBVIOUS
      <4> QED
        BY <4>1, PrefixSelf
    <3>4. ShadowPrefix' /\ ShadowEmpty'
      BY <1>4, <2>2, <3>2, <3>3 DEF SelectNative, ShadowPrefix, ShadowEmpty, InUse
    <3>5. pc'[c] \in {"native", "compiled"} => InUse'
      BY <1>4, <2>2, <3>3 DEF SelectNative, InUse
    <3>6. \A d \in Calls : d # c => pc'[d] = pc[d]
      BY <1>4, <2>2 DEF SelectNative
    <3>7. NativeChosen'
      BY <3>1, <3>2, <3>5, <3>6 DEF NativeChosen, Scala
    <3> QED
      BY <1>0, <3>2, <3>4, <3>7
  <2> QED
    BY <2>1, <2>2
<1>5. CASE NativeCompile(c)
  <2> USE DEF TypeOK, Goto, locals, roles, metadata
  <2>1. CASE ~Scala(c)
    BY <1>5, <2>1, <1>0 DEF NativeCompile, ShadowPrefix, ShadowEmpty, NativeChosen, InUse, Scala
  <2>2. CASE Scala(c)
    <3>1. InUse
      BY <1>5, <2>2 DEF NativeCompile, NativeChosen
    <3>2. /\ Append(native_scala_state, c) \in Seq(Calls)
          /\ IsPrefix(scala_state, Append(native_scala_state, c))
      BY <3>1, PrefixAppend DEF InUse, ShadowPrefix
    <3>3. /\ native_scala_state' = Append(native_scala_state, c)
          /\ UNCHANGED <<request, scala_state, native_scala_disabled>>
      BY <1>5, <2>2 DEF NativeCompile
    <3>4. InUse' /\ ~native_scala_disabled
      BY <3>1, <3>2, <3>3 DEF InUse
    <3>5. NativeChosen' /\ ShadowPrefix' /\ IsPrefix(scala_state, scala_state')
      BY <1>0, <3>2, <3>3, <3>4 DEF NativeChosen, ShadowPrefix
    <3>6. native_scala_state' # Nothing
      BY <3>2, <3>3, ProjectorAssumption
    <3> QED
      BY <3>5, <3>6 DEF ShadowEmpty
  <2> QED
    BY <2>1, <2>2
<1>6. CASE NativeDecline(c)
  BY <1>6, <1>a DEF NativeDecline, Goto, locals, roles, metadata, TypeOK
<1>7. CASE NativeReject(c)
  BY <1>7, <1>a DEF NativeReject, Goto, locals, roles, metadata, TypeOK
<1>8. CASE NativeAccept(c)
  <2> USE DEF TypeOK, Goto, locals, roles, metadata
  <2>1. CASE ~Scala(c)
    BY <1>8, <2>1, <1>0 DEF NativeAccept, ShadowPrefix, ShadowEmpty, NativeChosen, InUse, Scala
  <2>2. CASE Scala(c)
    <3>1. InUse
      BY <1>8, <2>2 DEF NativeAccept, NativeChosen
    <3>2. /\ scala_state' = native_scala_state
          /\ UNCHANGED <<request, native_scala_state, native_scala_disabled>>
      BY <1>8, <2>2 DEF NativeAccept
    <3>3. IsPrefix(scala_state, scala_state')
      BY <3>1, <3>2 DEF ShadowPrefix
    <3>4. IsPrefix(native_scala_state, native_scala_state)
      BY <3>1, PrefixSelf DEF InUse
    <3>5. NativeChosen' /\ ShadowPrefix'
      BY <3>1, <3>2, <3>4 DEF NativeChosen, ShadowPrefix, InUse
    <3>6. native_scala_state' # Nothing
      BY <3>1, <3>2, ProjectorAssumption DEF InUse
    <3> QED
      BY <3>3, <3>5, <3>6 DEF ShadowEmpty
  <2> QED
    BY <2>1, <2>2
<1>9. CASE ScalarCompile(c)
  <2> USE DEF TypeOK, Goto, locals, roles, metadata
  <2>1. CASE ~Scala(c)
    BY <1>9, <2>1, <1>0
       DEF ScalarCompile, RetiredByScalar, ShadowPrefix, ShadowEmpty, NativeChosen, InUse, Scala
  <2>2. CASE Scala(c)
    <3>1. \A d \in Calls : Scala(d) => pc'[d] \notin {"native", "compiled"}
      BY <1>9, <2>2, ProjectorAssumption DEF ScalarCompile, ScalaExclusive, Inside
    <3>2. native_scala_disabled' /\ scala_state' = Append(scala_state, c) /\ request' = request
      BY <1>9, <2>2 DEF ScalarCompile, RetiredByScalar
    <3>3. IsPrefix(scala_state, Append(scala_state, c))
      BY <1>0, PrefixAppend
    <3> QED
      BY <3>1, <3>2, <3>3 DEF ShadowPrefix, ShadowEmpty, NativeChosen, InUse, Scala
  <2> QED
    BY <2>1, <2>2
<1>10. CASE PrepareFails(c)
  <2> USE DEF TypeOK, Goto, Leave, locals, roles, metadata
  <2>1. CASE native_scala_disabled' = native_scala_disabled
    BY <1>10, <2>1, <1>0 DEF PrepareFails, ShadowPrefix, ShadowEmpty, NativeChosen, InUse, Scala
  <2>2. CASE native_scala_disabled' # native_scala_disabled
    <3>1. native_scala_disabled' /\ Scala(c) /\ pc[c] = "scalar"
      BY <1>10, <2>2 DEF PrepareFails, RetiredByScalar
    <3>2. \A d \in Calls : Scala(d) => pc'[d] \notin {"native", "compiled"}
      BY <1>10, <3>1, ProjectorAssumption DEF PrepareFails, ScalaExclusive, Inside
    <3>3. request' = request /\ scala_state' = scala_state
      BY <1>10 DEF PrepareFails
    <3> QED
      BY <1>0, <3>1, <3>2, <3>3 DEF ShadowPrefix, ShadowEmpty, NativeChosen, InUse, Scala
  <2> QED
    BY <2>1, <2>2
<1>11. CASE Publish(c)
  BY <1>11, <1>a DEF Publish, Goto, locals, roles, metadata, TypeOK
<1>12. CASE Exhaust(c)
  BY <1>12, <1>a DEF Exhaust, Goto, Leave, locals, roles, metadata, TypeOK
<1>13. CASE IterationFails(c)
  BY <1>13, <1>a DEF IterationFails, Goto, Leave, locals, roles, metadata, TypeOK
<1>14. CASE CloseIterator(c)
  BY <1>14, <1>a DEF CloseIterator, Goto, Leave, locals, roles, metadata, TypeOK
<1>15. CASE Report(c)
  BY <1>15, <1>a DEF Report, Goto, Leave, Published, locals, roles, metadata, TypeOK
<1>16. CASE ReportFails(c)
  BY <1>16, <1>a DEF ReportFails, Goto, Leave, locals, roles, metadata, TypeOK
<1>17. CASE Finally(c)
  BY <1>17, <1>a DEF Finally, Goto, Released, Closed, locals, roles, metadata, TypeOK
<1>18. CASE Drop(c)
  BY <1>18, <1>a DEF Drop, Goto, locals, roles, metadata, TypeOK
<1>19. CASE Fetch(c)
  BY <1>19, <1>a DEF Fetch, Fetched, Goto, locals, roles, metadata, TypeOK
<1> QED
  BY <1>1, <1>2, <1>3, <1>4, <1>5, <1>6, <1>7, <1>8, <1>9, <1>10, <1>11, <1>12, <1>13,
     <1>14, <1>15, <1>16, <1>17, <1>18, <1>19 DEF Step

\* Every step that leaves generate has closed the session of the call.
LEMMA ClosedStep ==
  ASSUME TypeOK, SessionsClosed, NEW c \in Calls, Step(c)
  PROVE  SessionsClosed'
<1> USE DEF TypeOK, SessionsClosed, Inside, Taxonomy
<1>1. CASE Enter(c)
  <2>1. request' = request /\ session' = session /\ pc[c] = "idle"
    BY <1>1 DEF Enter, locals
  <2>2. \E place \in {"select", "end"} : Goto(c, place)
    BY <1>1 DEF Enter, End
  <2> QED
    BY <2>1, <2>2 DEF Goto
<1>2. CASE DropUnstarted(c)
  BY <1>2 DEF DropUnstarted, Goto, End, locals
<1>3. CASE SelectScalar(c)
  BY <1>3 DEF SelectScalar, Goto, locals
<1>4. CASE SelectNative(c)
  <2>1. request' = request /\ session' = session
    BY <1>4 DEF SelectNative, locals
  <2>2. \E place \in Inside : Goto(c, place)
    BY <1>4 DEF SelectNative
  <2> QED
    BY <2>1, <2>2 DEF Goto
<1>5. CASE NativeCompile(c)
  BY <1>5 DEF NativeCompile, Goto, locals
<1>6. CASE NativeDecline(c)
  BY <1>6 DEF NativeDecline, Goto, locals
<1>7. CASE NativeReject(c)
  BY <1>7 DEF NativeReject, Goto, locals
<1>8. CASE NativeAccept(c)
  BY <1>8 DEF NativeAccept, Goto, locals
<1>9. CASE ScalarCompile(c)
  BY <1>9 DEF ScalarCompile, Goto, RetiredByScalar, locals
<1>10. CASE PrepareFails(c)
  BY <1>10 DEF PrepareFails, Goto, Leave, RetiredByScalar, locals
<1>11. CASE Publish(c)
  BY <1>11 DEF Publish, Goto, locals
<1>12. CASE Exhaust(c)
  BY <1>12 DEF Exhaust, Goto, Leave, locals
<1>13. CASE IterationFails(c)
  BY <1>13 DEF IterationFails, Goto, Leave, locals
<1>14. CASE CloseIterator(c)
  BY <1>14 DEF CloseIterator, Goto, Leave, locals
<1>15. CASE Report(c)
  BY <1>15 DEF Report, Goto, Leave, Published, locals
<1>16. CASE ReportFails(c)
  BY <1>16 DEF ReportFails, Goto, Leave, locals
<1>17. CASE Finally(c)
  BY <1>17 DEF Finally, Goto, Released, Closed, locals
<1>18. CASE Drop(c)
  BY <1>18 DEF Drop, Goto, locals
<1>19. CASE Fetch(c)
  BY <1>19 DEF Fetch, Goto, Fetched, locals
<1> QED
  BY <1>1, <1>2, <1>3, <1>4, <1>5, <1>6, <1>7, <1>8, <1>9, <1>10, <1>11, <1>12, <1>13,
     <1>14, <1>15, <1>16, <1>17, <1>18, <1>19 DEF Step

\* A publication keeps its place in the sequence of publications.
LEMMA PublicationKept ==
  ASSUME NEW s \in Seq(Calls), NEW c \in Calls
  PROVE  /\ \A i \in DOMAIN s : i \in DOMAIN Append(s, c) /\ Append(s, c)[i] = s[i]
         /\ Len(s) + 1 \in DOMAIN Append(s, c) /\ Append(s, c)[Len(s) + 1] = c
         /\ \A i \in DOMAIN s : i <= Len(s) + 1
         /\ Append(s, c) # <<>> /\ Last(Append(s, c)) = c
<1>1. Append(s, c) \in Seq(Calls) /\ Len(Append(s, c)) = Len(s) + 1 /\ Len(s) \in Nat
  OBVIOUS
<1>2. Append(s, c) # <<>>
  BY <1>1
<1> QED
  BY <1>1, <1>2 DEF Last

\* Every step leaves reports with callers that are not older than their own.
LEMMA ReportStep ==
  ASSUME TypeOK, ReportFrame, NoStaleReport, NEW c \in Calls, Step(c)
  PROVE  ReportFrame' /\ NoStaleReport'
<1>a. published \in Seq(Calls)
  BY DEF TypeOK
<1>b. ASSUME UNCHANGED <<received, published>>,
             last_report' = last_report \/ last_report' = Nothing,
             \A d \in Calls :
               pc'[d] = "fetch" \/ (pc'[d] = "finally" /\ ended'[d] = "complete") =>
                 pc[d] = "fetch" \/ (pc[d] = "finally" /\ ended[d] = "complete")
      PROVE  ReportFrame' /\ NoStaleReport'
  <2>1. NoStaleReport'
    BY <1>b DEF NoStaleReport
  <2> QED
    BY <2>1, <1>b DEF ReportFrame
<1>1. CASE Enter(c)
  BY <1>b, <1>1 DEF Enter, Goto, End, locals, metadata, TypeOK
<1>2. CASE DropUnstarted(c)
  BY <1>b, <1>2 DEF DropUnstarted, Goto, End, locals, metadata, TypeOK
<1>3. CASE SelectScalar(c)
  BY <1>b, <1>3 DEF SelectScalar, Goto, locals, metadata, TypeOK
<1>4. CASE SelectNative(c)
  <2>1. /\ UNCHANGED <<received, published, last_report, ended>>
        /\ \E place \in {"native", "scalar"} : Goto(c, place)
    BY <1>4 DEF SelectNative, locals, metadata
  <2> QED
    BY <1>b, <2>1 DEF Goto, TypeOK
<1>5. CASE NativeCompile(c)
  BY <1>b, <1>5 DEF NativeCompile, Goto, locals, metadata, TypeOK
<1>6. CASE NativeDecline(c)
  BY <1>b, <1>6 DEF NativeDecline, Goto, locals, metadata, TypeOK
<1>7. CASE NativeReject(c)
  BY <1>b, <1>7 DEF NativeReject, Goto, locals, metadata, TypeOK
<1>8. CASE NativeAccept(c)
  BY <1>b, <1>8 DEF NativeAccept, Goto, locals, metadata, TypeOK
<1>9. CASE ScalarCompile(c)
  BY <1>b, <1>9 DEF ScalarCompile, Goto, RetiredByScalar, locals, metadata, TypeOK
<1>10. CASE PrepareFails(c)
  BY <1>b, <1>10 DEF PrepareFails, Goto, Leave, RetiredByScalar, locals, metadata, TypeOK
<1>11. CASE Publish(c)
  BY <1>b, <1>11 DEF Publish, Goto, locals, metadata, TypeOK
<1>12. CASE Exhaust(c)
  <2>1. /\ UNCHANGED <<received, published, last_report>>
        /\ \E place \in {"drop", "report"} : pc' = [pc EXCEPT ![c] = place]
        /\ \A d \in Calls : d # c => ended'[d] = ended[d]
    BY <1>12 DEF Exhaust, Leave, Goto, locals, TypeOK
  <2> QED
    BY <1>b, <2>1 DEF TypeOK
<1>13. CASE IterationFails(c)
  BY <1>b, <1>13 DEF IterationFails, Goto, Leave, locals, metadata, TypeOK
<1>14. CASE CloseIterator(c)
  BY <1>b, <1>14 DEF CloseIterator, Goto, Leave, locals, metadata, TypeOK
<1>15. CASE Report(c)
  <2>1. /\ published' = Append(published, c) /\ last_report' = c /\ received' = received
        /\ \A d \in Calls : d # c => pc'[d] = pc[d] /\ ended'[d] = ended[d]
    BY <1>15 DEF Report, Published, Leave, Goto, locals, TypeOK
  <2>2. ReportFrame'
    BY <1>a, <2>1, PublicationKept DEF ReportFrame
  <2>3. NoStaleReport'
    <3> SUFFICES ASSUME NEW d \in Calls, received[d] \in Calls
                 PROVE  \E i, j \in DOMAIN published' :
                          published'[i] = d /\ published'[j] = received[d] /\ i <= j
      BY <2>1 DEF NoStaleReport
    <3>1. PICK i, j \in DOMAIN published :
            published[i] = d /\ published[j] = received[d] /\ i <= j
      BY DEF NoStaleReport
    <3> QED
      BY <1>a, <2>1, <3>1, PublicationKept
  <2> QED
    BY <2>2, <2>3
<1>16. CASE ReportFails(c)
  BY <1>b, <1>16 DEF ReportFails, Goto, Leave, locals, metadata, TypeOK
<1>17. CASE Finally(c)
  <2>1. /\ UNCHANGED <<received, published, last_report, ended>>
        /\ pc[c] = "finally"
        /\ pc' = [pc EXCEPT ![c] =
              IF ended[c] = "closed" THEN "drop"
              ELSE IF ended[c] = "complete" /\ request[c].kind = "report" THEN "fetch" ELSE "end"]
    BY <1>17 DEF Finally, Goto, locals, metadata
  <2>2. pc'[c] # "finally" /\ (pc'[c] = "fetch" => ended[c] = "complete")
    BY <2>1 DEF TypeOK
  <2>3. \A d \in Calls : d # c => pc'[d] = pc[d]
    BY <2>1 DEF TypeOK
  <2> QED
    BY <1>b, <2>1, <2>2, <2>3
<1>18. CASE Drop(c)
  BY <1>b, <1>18 DEF Drop, Goto, locals, metadata, TypeOK
<1>19. CASE Fetch(c)
  <2>1. /\ pc[c] = "fetch" /\ UNCHANGED <<published, last_report, ended>>
        /\ received' = [received EXCEPT ![c] = Fetched] /\ pc' = [pc EXCEPT ![c] = "end"]
    BY <1>19 DEF Fetch, Goto, metadata
  <2>2. \A d \in Calls : pc'[d] \in {"fetch", "finally"} => pc'[d] = pc[d]
    BY <2>1 DEF TypeOK
  <2>3. ReportFrame'
    BY <2>1, <2>2 DEF ReportFrame
  <2>4. ASSUME NEW d \in Calls, received'[d] \in Calls
        PROVE  \E i, j \in DOMAIN published :
                 published[i] = d /\ published[j] = received'[d] /\ i <= j
    <3>1. CASE d # c
      <4>1. received'[d] = received[d]
        BY <2>1, <3>1 DEF TypeOK
      <4> QED
        BY <4>1, <2>4 DEF NoStaleReport
    <3>2. CASE d = c
      <4>1. received'[c] = Fetched
        BY <2>1 DEF TypeOK
      <4>2. last_report # Nothing /\ received'[c] = last_report
        BY <4>1, <2>4, <3>2, ProjectorAssumption DEF Fetched
      <4>3. published # <<>> /\ last_report = published[Len(published)]
        BY <4>2 DEF ReportFrame, Last
      <4>4. Len(published) \in DOMAIN published /\ \A i \in DOMAIN published : i <= Len(published)
        BY <1>a, <4>3
      <4>5. PICK i \in DOMAIN published : published[i] = c
        BY <2>1 DEF ReportFrame
      <4> QED
        BY <3>2, <4>2, <4>3, <4>4, <4>5
    <3> QED
      BY <3>1, <3>2
  <2>5. NoStaleReport'
    BY <2>1, <2>4 DEF NoStaleReport
  <2> QED
    BY <2>3, <2>5
<1> QED
  BY <1>1, <1>2, <1>3, <1>4, <1>5, <1>6, <1>7, <1>8, <1>9, <1>10, <1>11, <1>12, <1>13,
     <1>14, <1>15, <1>16, <1>17, <1>18, <1>19 DEF Step

\* A stateful call is alone between the lock and its release.
LEMMA Alone ==
  ASSUME ScalaExclusive, NEW c \in Calls, Scala(c), pc[c] \in Inside, NEW d \in Calls, Scala(d), d # c
  PROVE  pc[d] \notin Inside
BY ProjectorAssumption DEF ScalaExclusive

\* Every step keeps the order of stateful calls the order of their role maps.
LEMMA OrderStep ==
  ASSUME Inv, NEW c \in Calls, Step(c)
  PROVE  NumberFrame' /\ CompileFrame' /\ ReplaysInOrder'
<1> DEFINE Ordered == NumberFrame /\ CompileFrame /\ ReplaysInOrder
<1> SUFFICES Ordered'
  OBVIOUS
<1>0. Ordered /\ TypeOK /\ ScalaExclusive
  BY DEF Inv
<1>a. /\ used \in [Calls -> Seq(Calls)] /\ invocation \in [Calls -> Nat]
      /\ scala_state \in Seq(Calls) /\ scala_invocation_count \in Nat
      /\ request \in [Calls -> [mode : Modes, kind : Kinds]]
      /\ pc \in [Calls -> {"idle", "select", "native", "compiled", "scalar", "ready",
                       "iterate", "report", "finally", "drop", "fetch", "end"}]
  BY <1>0 DEF TypeOK
<1>b. ASSUME UNCHANGED <<request, used, invocation, scala_state, native_scala_state,
                         scala_invocation_count>>,
             pc[c] \in Numbered => pc'[c] \in Numbered, pc'[c] \notin {"compiled", "ready"},
             \A d \in Calls : d # c => pc'[d] = pc[d]
      PROVE  Ordered'
  <2>1. NumberFrame'
    BY <1>0, <1>b DEF NumberFrame, Scala
  <2>2. CompileFrame'
    BY <1>0, <1>b DEF CompileFrame, Scala
  <2>3. ReplaysInOrder'
    BY <1>0, <1>b DEF ReplaysInOrder, Scala
  <2> QED
    BY <2>1, <2>2, <2>3
<1> HIDE DEF Ordered
<1>1. CASE Enter(c)
  BY <1>a, <1>b, <1>1 DEF Enter, Goto, End, locals, roles, metadata, Numbered
<1>2. CASE DropUnstarted(c)
  BY <1>a, <1>b, <1>2 DEF DropUnstarted, Goto, End, locals, roles, metadata, Numbered
<1>3. CASE SelectScalar(c)
  BY <1>a, <1>b, <1>3 DEF SelectScalar, Goto, locals, roles, metadata, Numbered
<1>4. CASE SelectNative(c)
  <2>1. /\ pc[c] = "select" /\ \E place \in {"native", "scalar"} : pc' = [pc EXCEPT ![c] = place]
        /\ UNCHANGED <<request, used, invocation, scala_state, scala_invocation_count>>
        /\ Scala(c) \/ native_scala_state' = native_scala_state
    BY <1>4 DEF SelectNative, Goto, locals, roles, metadata
  <2>2. CASE native_scala_state' = native_scala_state
    BY <1>a, <1>b, <2>1, <2>2 DEF Numbered
  <2>3. CASE Scala(c)
    <3>1. \A d \in Calls : Scala(d) => pc'[d] \notin {"compiled", "ready"}
      BY <1>0, <1>a, <2>1, <2>3, Alone DEF Inside
    <3>2. \A d \in Calls : pc[d] \in Numbered => pc'[d] = pc[d]
      BY <1>a, <2>1 DEF Numbered
    <3>3. NumberFrame'
      BY <1>0, <2>1, <3>2 DEF Ordered, NumberFrame, Scala
    <3>4. CompileFrame'
      BY <2>1, <3>1 DEF CompileFrame, Scala
    <3>5. ReplaysInOrder'
      BY <1>0, <2>1 DEF Ordered, ReplaysInOrder, Scala
    <3> QED
      BY <3>3, <3>4, <3>5 DEF Ordered
  <2> QED
    BY <2>1, <2>2, <2>3
<1>5. CASE NativeCompile(c)
  <2>1. /\ pc[c] = "native" /\ pc' = [pc EXCEPT ![c] = "compiled"]
        /\ UNCHANGED <<request, used, invocation, scala_state, scala_invocation_count>>
        /\ native_scala_state' = IF Scala(c) THEN Append(native_scala_state, c)
                                 ELSE native_scala_state
    BY <1>5 DEF NativeCompile, Goto, metadata
  <2>2. \A d \in Calls : pc[d] \in Numbered => pc'[d] = pc[d]
    BY <1>a, <2>1 DEF Numbered
  <2>3. NumberFrame' /\ ReplaysInOrder'
    BY <1>0, <2>1, <2>2 DEF Ordered, NumberFrame, ReplaysInOrder, Scala
  <2>4. CompileFrame'
    <3>1. CASE ~Scala(c)
      <4>1. \A d \in Calls : Scala(d) => d # c /\ pc'[d] = pc[d]
        BY <1>a, <2>1, <3>1
      <4> QED
        BY <1>0, <2>1, <3>1, <4>1 DEF Ordered, CompileFrame, Scala
    <3>2. CASE Scala(c)
      <4>1. \A d \in Calls : Scala(d) /\ d # c => pc'[d] \notin {"compiled", "ready"}
        BY <1>0, <1>a, <2>1, <3>2, Alone DEF Inside
      <4>2. native_scala_state \in Seq(Calls) /\ IsPrefix(scala_state, native_scala_state)
        BY <2>1, <3>2 DEF Inv, NativeChosen, ShadowPrefix, InUse
      <4>3. Len(scala_state) <= Len(native_scala_state)
        BY <1>a, <4>2, PrefixPointwise
      <4>4. Len(scala_state) < Len(native_scala_state') /\ Last(native_scala_state') = c
        <5>1. native_scala_state' = Append(native_scala_state, c)
          BY <2>1, <3>2
        <5>2. Len(native_scala_state') = Len(native_scala_state) + 1
          BY <4>2, <5>1
        <5>3. Len(native_scala_state) \in Nat /\ Len(scala_state) \in Nat
          BY <1>a, <4>2
        <5> QED
          BY <4>2, <4>3, <5>1, <5>2, <5>3, PublicationKept
      <4>5. pc'[c] = "compiled"
        BY <1>a, <2>1
      <4> QED
        BY <2>1, <4>1, <4>4, <4>5 DEF CompileFrame, Scala
    <3> QED
      BY <3>1, <3>2
  <2> QED
    BY <2>3, <2>4 DEF Ordered
<1>6. CASE NativeDecline(c)
  BY <1>a, <1>b, <1>6 DEF NativeDecline, Goto, locals, roles, metadata, Numbered
<1>7. CASE NativeReject(c)
  BY <1>a, <1>b, <1>7 DEF NativeReject, Goto, locals, roles, metadata, Numbered
<1>8. CASE NativeAccept(c)
  <2> DEFINE new == native_scala_state
  <2>1. /\ pc[c] = "compiled" /\ pc' = [pc EXCEPT ![c] = "ready"]
        /\ UNCHANGED <<request, invocation, native_scala_state, scala_invocation_count>>
        /\ scala_state' = IF Scala(c) THEN new ELSE scala_state
        /\ used' = [used EXCEPT ![c] = IF Scala(c) THEN new ELSE <<c>>]
    BY <1>8 DEF NativeAccept, Goto, metadata
  <2>2. \A d \in Calls : pc[d] \in Numbered => pc'[d] = pc[d]
    BY <1>a, <2>1 DEF Numbered
  <2>3. \A d \in Calls : invocation[d] > 0 => d # c /\ used'[d] = used[d] /\ pc[d] \in Numbered
    BY <1>0, <1>a, <2>1 DEF Ordered, NumberFrame, Numbered
  <2> HIDE DEF new
  <2>4. ReplaysInOrder'
    BY <1>0, <1>a, <2>1, <2>3 DEF Ordered, ReplaysInOrder, Scala
  <2>5. NumberFrame' /\ CompileFrame'
    <3>1. CASE ~Scala(c)
      <4>1. \A d \in Calls : Scala(d) => d # c /\ pc'[d] = pc[d] /\ used'[d] = used[d]
        BY <1>a, <2>1, <3>1
      <4>2. NumberFrame'
        BY <1>0, <2>1, <2>2, <2>3, <3>1, <4>1 DEF Ordered, NumberFrame, Scala
      <4>3. CompileFrame'
        BY <1>0, <2>1, <3>1, <4>1 DEF Ordered, CompileFrame, Scala
      <4> QED
        BY <4>2, <4>3
    <3>2. CASE Scala(c)
      <4>1. \A d \in Calls : Scala(d) /\ d # c => pc'[d] \notin {"compiled", "ready"}
        BY <1>0, <1>a, <2>1, <3>2, Alone DEF Inside
      <4>2. native_scala_state \in Seq(Calls) /\ IsPrefix(scala_state, native_scala_state)
        BY <2>1, <3>2 DEF Inv, NativeChosen, ShadowPrefix, InUse
      <4>3. /\ new \in Seq(Calls) /\ IsPrefix(scala_state, new) /\ Len(scala_state) < Len(new)
            /\ Last(new) = c
        BY <1>0, <2>1, <3>2, <4>2 DEF Ordered, CompileFrame, new
      <4>4. ASSUME NEW d \in Calls, Scala(d), invocation[d] > 0
            PROVE  /\ invocation[d] <= scala_invocation_count /\ used[d] # <<>>
                   /\ IsPrefix(used[d], new) /\ IsStrictPrefix(used[d], new) /\ Last(used[d]) = d
        <5>1. /\ IsPrefix(used[d], scala_state) /\ used[d] \in Seq(Calls) /\ used[d] # <<>>
              /\ invocation[d] <= scala_invocation_count /\ Last(used[d]) = d
          BY <1>0, <1>a, <4>4 DEF Ordered, NumberFrame
        <5> QED
          BY <1>a, <4>3, <5>1, PrefixTransitive
      <4>5. NumberFrame'
        BY <2>1, <2>2, <2>3, <3>2, <4>4 DEF NumberFrame, Scala
      <4>6. used'[c] = new /\ scala_state' = new /\ new # <<>>
        BY <1>a, <2>1, <3>2, <4>3
      <4>7. pc'[c] = "ready"
        BY <1>a, <2>1
      <4>8. CompileFrame'
        BY <2>1, <2>3, <4>1, <4>3, <4>4, <4>6, <4>7 DEF CompileFrame, Scala
      <4> QED
        BY <4>5, <4>8
    <3> QED
      BY <3>1, <3>2
  <2> QED
    BY <2>4, <2>5 DEF Ordered
<1>9. CASE ScalarCompile(c)
  <2> DEFINE new == Append(scala_state, c)
  <2>1. /\ pc[c] = "scalar" /\ pc' = [pc EXCEPT ![c] = "ready"]
        /\ UNCHANGED <<request, invocation, native_scala_state, scala_invocation_count>>
        /\ scala_state' = IF Scala(c) THEN new ELSE scala_state
        /\ used' = [used EXCEPT ![c] = IF Scala(c) THEN new ELSE <<c>>]
    BY <1>9 DEF ScalarCompile, Goto, metadata
  <2>2. \A d \in Calls : pc[d] \in Numbered => pc'[d] = pc[d]
    BY <1>a, <2>1 DEF Numbered
  <2>3. \A d \in Calls : invocation[d] > 0 => d # c /\ used'[d] = used[d] /\ pc[d] \in Numbered
    BY <1>0, <1>a, <2>1 DEF Ordered, NumberFrame, Numbered
  <2> HIDE DEF new
  <2>4. ReplaysInOrder'
    BY <1>0, <1>a, <2>1, <2>3 DEF Ordered, ReplaysInOrder, Scala
  <2>5. NumberFrame' /\ CompileFrame'
    <3>1. CASE ~Scala(c)
      <4>1. \A d \in Calls : Scala(d) => d # c /\ pc'[d] = pc[d] /\ used'[d] = used[d]
        BY <1>a, <2>1, <3>1
      <4>2. NumberFrame'
        BY <1>0, <2>1, <2>2, <2>3, <3>1, <4>1 DEF Ordered, NumberFrame, Scala
      <4>3. CompileFrame'
        BY <1>0, <2>1, <3>1, <4>1 DEF Ordered, CompileFrame, Scala
      <4> QED
        BY <4>2, <4>3
    <3>2. CASE Scala(c)
      <4>1. \A d \in Calls : Scala(d) /\ d # c => pc'[d] \notin {"compiled", "ready"}
        BY <1>0, <1>a, <2>1, <3>2, Alone DEF Inside
      <4>2. IsPrefix(scala_state, scala_state)
        BY <1>a, PrefixSelf
      <4>3. /\ new \in Seq(Calls) /\ IsPrefix(scala_state, new) /\ Len(scala_state) < Len(new)
            /\ Last(new) = c
        BY <1>a, <4>2, PrefixAppend, PublicationKept DEF new
      <4>4. ASSUME NEW d \in Calls, Scala(d), invocation[d] > 0
            PROVE  /\ invocation[d] <= scala_invocation_count /\ used[d] # <<>>
                   /\ IsPrefix(used[d], new) /\ IsStrictPrefix(used[d], new) /\ Last(used[d]) = d
        <5>1. /\ IsPrefix(used[d], scala_state) /\ used[d] \in Seq(Calls) /\ used[d] # <<>>
              /\ invocation[d] <= scala_invocation_count /\ Last(used[d]) = d
          BY <1>0, <1>a, <4>4 DEF Ordered, NumberFrame
        <5> QED
          BY <1>a, <4>3, <5>1, PrefixTransitive
      <4>5. NumberFrame'
        BY <2>1, <2>2, <2>3, <3>2, <4>4 DEF NumberFrame, Scala
      <4>6. used'[c] = new /\ scala_state' = new /\ new # <<>>
        BY <1>a, <2>1, <3>2, <4>3
      <4>7. pc'[c] = "ready"
        BY <1>a, <2>1
      <4>8. CompileFrame'
        BY <2>1, <2>3, <4>1, <4>3, <4>4, <4>6, <4>7 DEF CompileFrame, Scala
      <4> QED
        BY <4>5, <4>8
    <3> QED
      BY <3>1, <3>2
  <2> QED
    BY <2>4, <2>5 DEF Ordered
<1>10. CASE PrepareFails(c)
  BY <1>a, <1>b, <1>10 DEF PrepareFails, Goto, Leave, RetiredByScalar, locals, roles, metadata, Numbered
<1>11. CASE Publish(c)
  <2>1. /\ pc[c] = "ready" /\ pc' = [pc EXCEPT ![c] = "iterate"]
        /\ UNCHANGED <<request, used, scala_state, native_scala_state>>
    BY <1>11 DEF Publish, Goto, roles
  <2>2. \A d \in Calls : d # c => pc'[d] = pc[d]
    BY <1>a, <2>1
  <2>3. CASE ~Scala(c)
    <3>1. /\ invocation' = [invocation EXCEPT ![c] = 1]
          /\ scala_invocation_count' = scala_invocation_count
      BY <1>11, <2>3 DEF Publish
    <3>2. \A d \in Calls : d # c => invocation'[d] = invocation[d]
      BY <1>a, <3>1
    <3>3. pc'[c] \in Numbered
      BY <1>a, <2>1 DEF Numbered
    <3>4. NumberFrame'
      BY <1>0, <2>1, <2>2, <2>3, <3>1, <3>2, <3>3 DEF Ordered, NumberFrame, Scala
    <3>5. CompileFrame'
      BY <1>0, <2>1, <2>2, <2>3, <3>2 DEF Ordered, CompileFrame, Scala
    <3>6. ReplaysInOrder'
      BY <1>0, <2>1, <2>3, <3>2 DEF Ordered, ReplaysInOrder, Scala
    <3> QED
      BY <3>4, <3>5, <3>6 DEF Ordered
  <2>4. CASE Scala(c)
    <3> DEFINE n == scala_invocation_count + 1
    <3>1. invocation' = [invocation EXCEPT ![c] = n] /\ scala_invocation_count' = n
      BY <1>11, <2>4 DEF Publish
    <3>2. n \in Nat /\ n > scala_invocation_count /\ n > 0
      BY <1>a
    <3> HIDE DEF n
    <3>3. invocation'[c] = n /\ \A d \in Calls : d # c => invocation'[d] = invocation[d]
      BY <1>a, <3>1
    <3>4. /\ used[c] = scala_state /\ used[c] # <<>> /\ Last(used[c]) = c
          /\ \A d \in Calls : Scala(d) /\ invocation[d] > 0 => IsStrictPrefix(used[d], used[c])
      BY <1>0, <2>1, <2>4 DEF Ordered, CompileFrame
    <3>5. IsPrefix(used[c], scala_state)
      BY <1>a, <3>4, PrefixSelf
    <3>6. \A d \in Calls : Scala(d) /\ d # c => pc'[d] \notin {"compiled", "ready"}
      BY <1>0, <2>1, <2>2, <2>4, Alone DEF Inside
    <3>7. pc'[c] = "iterate" /\ "iterate" \in Numbered
      BY <1>a, <2>1 DEF Numbered
    <3>8. \A d \in Calls : Scala(d) /\ invocation[d] > 0 => invocation[d] < n /\ invocation[d] <= n
      BY <1>0, <1>a, <3>2 DEF Ordered, NumberFrame
    <3>9. NumberFrame'
      BY <1>0, <2>1, <2>2, <2>4, <3>1, <3>2, <3>3, <3>4, <3>5, <3>7, <3>8
         DEF Ordered, NumberFrame, Scala
    <3>10. CompileFrame'
      BY <2>1, <3>6, <3>7 DEF CompileFrame, Scala
    <3>11. ReplaysInOrder'
      <4> SUFFICES ASSUME NEW d \in Calls, NEW f \in Calls, Scala(d), Scala(f),
                          0 < invocation'[d], invocation'[d] < invocation'[f]
                   PROVE  IsStrictPrefix(used[d], used[f]) /\ Last(used[f]) = f
        BY <2>1 DEF ReplaysInOrder, Scala
      <4>1. CASE f = c
        <5>1. d # c /\ invocation[d] > 0
          BY <1>a, <3>2, <3>3, <4>1
        <5> QED
          BY <3>4, <4>1, <5>1
      <4>2. CASE f # c
        <5>1. invocation'[f] = invocation[f] /\ invocation[f] > 0 /\ invocation[f] < n
          <6>1. invocation'[f] = invocation[f] /\ invocation[f] \in Nat
            BY <1>a, <3>3, <4>2
          <6>2. invocation'[d] \in Nat
            BY <1>a, <3>2, <3>3
          <6>3. invocation[f] > 0
            BY <6>1, <6>2
          <6> QED
            BY <3>8, <6>1, <6>3
        <5>2. d # c
          BY <1>a, <3>2, <3>3, <5>1
        <5> QED
          BY <1>0, <3>3, <5>1, <5>2 DEF Ordered, ReplaysInOrder
      <4> QED
        BY <4>1, <4>2
    <3> QED
      BY <3>9, <3>10, <3>11 DEF Ordered
  <2> QED
    BY <2>3, <2>4
<1>12. CASE Exhaust(c)
  BY <1>a, <1>b, <1>12 DEF Exhaust, Goto, Leave, locals, roles, metadata, Numbered
<1>13. CASE IterationFails(c)
  <2>1. /\ UNCHANGED <<request, used, invocation, scala_state, native_scala_state,
                      scala_invocation_count>>
        /\ \E place \in {"drop", "finally"} : pc' = [pc EXCEPT ![c] = place]
    BY <1>13 DEF IterationFails, Leave, Goto, roles
  <2> QED
    BY <1>a, <1>b, <2>1 DEF Numbered
<1>14. CASE CloseIterator(c)
  BY <1>a, <1>b, <1>14 DEF CloseIterator, Goto, Leave, locals, roles, metadata, Numbered
<1>15. CASE Report(c)
  BY <1>a, <1>b, <1>15 DEF Report, Goto, Leave, Published, locals, roles, metadata, Numbered
<1>16. CASE ReportFails(c)
  BY <1>a, <1>b, <1>16 DEF ReportFails, Goto, Leave, locals, roles, metadata, Numbered
<1>17. CASE Finally(c)
  BY <1>a, <1>b, <1>17 DEF Finally, Goto, Released, Closed, locals, roles, metadata, Numbered
<1>18. CASE Drop(c)
  BY <1>a, <1>b, <1>18 DEF Drop, Goto, locals, roles, metadata, Numbered
<1>19. CASE Fetch(c)
  BY <1>a, <1>b, <1>19 DEF Fetch, Goto, Fetched, locals, roles, metadata, Numbered
<1> QED
  BY <1>1, <1>2, <1>3, <1>4, <1>5, <1>6, <1>7, <1>8, <1>9, <1>10, <1>11, <1>12, <1>13,
     <1>14, <1>15, <1>16, <1>17, <1>18, <1>19 DEF Step

-----------------------------------------------------------------------------
(* The theorems                                                            *)

\* The first state satisfies the invariant.
LEMMA Initially == Init => Inv
<1> SUFFICES ASSUME Init PROVE Inv
  OBVIOUS
<1>1. <<>> \in Seq(Calls) /\ IsPrefix(<<>>, <<>>)
  <2>1. <<>> \in Seq(Calls)
    OBVIOUS
  <2> QED
    BY <2>1, PrefixSelf
<1>2. TypeOK
  BY <1>1 DEF Init, TypeOK
<1>3. TaxonomyIsolated
  BY DEF Init, TaxonomyIsolated, Taxonomy, Scala
<1>4. ScalaExclusive
  BY ProjectorAssumption DEF Init, ScalaExclusive, Inside
<1>5. ShadowPrefix /\ ShadowEmpty /\ NativeChosen
  BY <1>1, ProjectorAssumption DEF Init, ShadowPrefix, ShadowEmpty, NativeChosen, InUse
<1>6. SessionsClosed /\ NoStaleReport
  BY ProjectorAssumption DEF Init, SessionsClosed, NoStaleReport
<1>7. ReportFrame /\ NumberFrame /\ CompileFrame /\ ReplaysInOrder
  BY DEF Init, ReportFrame, NumberFrame, CompileFrame, ReplaysInOrder
<1> QED
  BY <1>2, <1>3, <1>4, <1>5, <1>6, <1>7 DEF Inv

\* Every step keeps the invariant and extends the shadow.
LEMMA Inductive == Inv /\ [Next]_vars => Inv' /\ IsPrefix(scala_state, scala_state')
<1> SUFFICES ASSUME Inv, [Next]_vars PROVE Inv' /\ IsPrefix(scala_state, scala_state')
  OBVIOUS
<1>1. ASSUME NEW c \in Calls, Step(c) PROVE Inv' /\ IsPrefix(scala_state, scala_state')
  BY <1>1, TypeStep, ExclusiveStep, RolesStep, ClosedStep, ReportStep, OrderStep DEF Inv
<1>2. CASE UNCHANGED vars
  <2>1. IsPrefix(scala_state, scala_state)
    BY PrefixSelf DEF Inv, TypeOK
  <2>2. TypeOK' /\ TaxonomyIsolated' /\ ScalaExclusive' /\ SessionsClosed'
    BY <1>2 DEF vars, roles, metadata, Inv, TypeOK, TaxonomyIsolated, ScalaExclusive,
       SessionsClosed, Scala, Taxonomy
  <2>3. ShadowPrefix' /\ ShadowEmpty' /\ NativeChosen' /\ IsPrefix(scala_state, scala_state')
    BY <1>2, <2>1 DEF vars, roles, Inv, ShadowPrefix, ShadowEmpty, NativeChosen, InUse, Scala
  <2>4. ReportFrame' /\ NoStaleReport'
    BY <1>2 DEF vars, metadata, Inv, ReportFrame, NoStaleReport
  <2>5. NumberFrame' /\ CompileFrame' /\ ReplaysInOrder'
    BY <1>2 DEF vars, roles, metadata, Inv, NumberFrame, CompileFrame, ReplaysInOrder, Scala
  <2> QED
    BY <2>2, <2>3, <2>4, <2>5 DEF Inv
<1> QED
  BY <1>1, <1>2 DEF Next, Returned

\* The invariant holds throughout.
LEMMA Invariance == Spec => []Inv
BY Initially, Inductive, PTL DEF Spec

\* Type correctness of the shared Projector, for any set of calls.
THEOREM TypeCorrect == Spec => []TypeOK
<1>1. Inv => TypeOK
  BY DEF Inv
<1> QED
  BY <1>1, Invariance, PTL

\* api.py, generate: however many calls overlap, and however they end, the lock is
\* held exactly by the one stateful call inside.
THEOREM MutualExclusion == Spec => []ScalaExclusive
<1>1. Inv => ScalaExclusive
  BY DEF Inv
<1> QED
  BY <1>1, Invariance, PTL

\* api.py, generate: the role maps that stateful calls leave to one another only
\* grow, whichever compiler each of them uses and whatever fails.
THEOREM RoleHistory == Spec => HistoryGrows
<1>1. Inv /\ [Next]_vars => [IsPrefix(scala_state, scala_state')]_vars
  BY Inductive
<1> QED
  BY <1>1, Invariance, PTL DEF Spec, HistoryGrows

\* api.py, generate: whatever ends a call (its stream, an exception at any place,
\* a close, a dropped frame), its native session is closed when it has returned.
THEOREM NoSessionLeft == Spec => []SessionsClosed
<1>1. Inv => SessionsClosed
  BY DEF Inv
<1> QED
  BY <1>1, Invariance, PTL

\* api.py, project_with_report: the last_report that a call reads without the lock
\* is its own or a later one, for any number of calls that publish in between.
THEOREM ReportsNotStale == Spec => []NoStaleReport
<1>1. Inv => NoStaleReport
  BY DEF Inv
<1> QED
  BY <1>1, Invariance, PTL

\* api.py, generate: stateful calls replay one another's role axioms in the order of
\* their invocation numbers, whichever compilers they used and whatever failed.
THEOREM InvocationOrder == Spec => []ReplaysInOrder
<1>1. Inv => ReplaysInOrder
  BY DEF Inv
<1> QED
  BY <1>1, Invariance, PTL

=============================================================================
