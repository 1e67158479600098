--------------------------- MODULE DirectEmission ---------------------------
(***************************************************************************)
(* The emission of the native compiler (DirectEmissionCursor.next_edge and   *)
(* prepare_next_batch): a prepared projection is read edge by edge by a      *)
(* cursor that walks the roots once per phase, takes the deltas in between   *)
(* and expands one pending projection at a time.  A batch is made with a     *)
(* copy of the cursor, which replaces the committed one only when the whole  *)
(* batch is there; a batch given up on the way leaves nothing behind.        *)
(* One step of Iterate is one round of the loop of next_edge.                *)
(***************************************************************************)
EXTENDS CompositePreparation

CONSTANTS
    Jobs,           \* the projections asked for: [members, roots, options, retained]
    BatchSizes,     \* the sizes a caller asks for
    MaxGivenUp      \* bound: batches given up

ASSUME EmissionAssumption == BatchSizes \subseteq Nat \ {0} /\ MaxGivenUp \in Nat

VARIABLES
    currentJob,     \* the projection under way
    preparation,    \* PreparedDirectBatches.preparation, or what refused it
    stage,          \* "new", "ready", "batch", "refused" or "failed"
    committed,      \* PreparedDirectBatches.cursor
    ahead,          \* the copy of the cursor a batch works on
    batchEdges,     \* the edges of the batch so far
    amount,         \* the edges the batch must have
    drained,        \* all edges handed to the caller
    givenUp         \* batches given up so far

emissionVars == <<currentJob, preparation, stage, committed, ahead, batchEdges, amount, drained, givenUp>>

\* One member is compiled directly, several as a composite.
PreparePlanned(job, plans) ==
    IF Len(job.members) = 1
    THEN PrepareDirect(job.members[1], plans[1], job.roots, Tail(plans), job.options, job.retained)
    ELSE PrepareComposite(job.members, job.roots, plans, job.options, job.retained)

PreparationOf(job) ==
    LET tables == job.members \o job.roots
    IN  PreparePlanned(job, Tabulated([t \in DOMAIN tables |-> Resolve(tables[t])]))

-----------------------------------------------------------------------------
(* The cursor.  Optional fields are <<>> or a sequence of one.              *)

StartCursor ==
    [phase |-> "Subclasses", scan |-> 0, delta |-> 0, pending |-> <<>>, aggregate |-> <<>>, owned |-> <<>>,
     previous |-> <<>>, active |-> <<>>, domain |-> <<>>, domainAt |-> 0, rangeAt |-> 0, emitted |-> 0]

Outcome(k, edges, verdict) == [cursor |-> k, edges |-> edges, verdict |-> verdict]
Continue(k) == Outcome(k, <<>>, "ok")
Fail(k) == Outcome(k, <<>>, "malformed")
Publish(k, edge) == Outcome([k EXCEPT !.emitted = @ + 1], <<edge>>, "ok")

SetTaxonomy(k, source, destination) ==
    [k EXCEPT !.pending = <<[kind |-> "Taxonomy", edge |-> <<source, SubclassRelation, destination>>, next |-> 0]>>]

SetRole(k, edge) == [k EXCEPT !.pending = <<[kind |-> "Role", edge |-> edge, next |-> 0]>>]

\* The edges of a pending projection, one by one.
TaxonomyEdges(edge, options) ==
    <<edge>> \o (IF options.bidirectional THEN <<<<edge[3], SuperclassRelation, edge[1]>>>> ELSE <<>>)

RoleEdges(edge, roles) ==
    LET below == SubrolesFor(roles, edge[2])  back == InverseFor(roles, edge[2])
    IN  <<edge>> \o [i \in DOMAIN below |-> <<edge[1], below[i], edge[3]>>]
        \o [i \in DOMAIN back |-> <<edge[3], back[i], edge[1]>>]

ExpandPending(p, k) ==
    LET x    == k.pending[1]
        list == IF x.kind = "Taxonomy" THEN TaxonomyEdges(x.edge, p.options) ELSE RoleEdges(x.edge, p.roles)
    IN  IF x.next < Len(list)
        THEN Publish([k EXCEPT !.pending[1].next = @ + 1], list[x.next + 1])
        ELSE Continue([k EXCEPT !.pending = <<>>])

\* next_overlay_delta_index: 0 when the next delta is not due, -1 when the
\* cursor has passed it.
DueDelta(p, k) ==
    LET d == p.deltas[k.delta + 1]
    IN  IF k.delta = Len(p.deltas) THEN 0
        ELSE IF PhaseIndex(d.phase) < PhaseIndex(k.phase) \/ (d.phase = k.phase /\ d.at < k.scan) THEN -1
        ELSE IF d.phase = k.phase /\ d.at = k.scan THEN k.delta + 1 ELSE 0

\* The next root of a scan, or the next phase.
ScanRoots(p, k, tag, after, OnRoot(_, _)) ==
    LET root == k.scan + 1  on == [k EXCEPT !.scan = root]
    IN  IF k.scan = RootTotal(p) THEN Continue([k EXCEPT !.scan = 0, !.phase = after])
        ELSE IF RootIsSelected(p.tables[1], root) /\ p.plan.rule[root] = tag THEN OnRoot(on, root)
        ELSE Continue(on)

\* The deltas that stand before the next root, then the root.
DeltasThenRoots(p, k, tag, after, OnDelta(_, _), OnRoot(_, _)) ==
    LET due == DueDelta(p, k)
    IN  IF due = -1 THEN Fail(k)
        ELSE IF due # 0 THEN OnDelta([k EXCEPT !.delta = due], p.deltas[due])
        ELSE ScanRoots(p, k, tag, after, OnRoot)

-----------------------------------------------------------------------------
(* The phases.                                                             *)

\* planned_restriction_parts.
RestrictionParts(c, source, coordinate) ==
    <<source, PropertyIri(c, coordinate[1]), EntityIri(c, coordinate[2])>>

Subclasses(p, k) ==
    LET c == p.tables[1]  normal == Mode(p.options) = "normal"
        delta(on, d) == Continue(CASE d.kind = "Taxonomy" -> SetTaxonomy(on, d.edge[1], d.edge[3])
                                   [] d.kind = "Restriction" /\ normal -> SetRole(on, d.edge)
                                   [] OTHER -> on)
        root(on, r) ==
            LET x == p.plan.shape[r]
            IN  Continue(CASE x[1] = "Taxonomy" -> SetTaxonomy(on, EntityIri(c, x[4]), EntityIri(c, x[5]))
                           [] x[1] = "Restriction" /\ normal ->
                                 SetRole(on, RestrictionParts(c, EntityIri(c, x[5]), x[6]))
                           [] OTHER -> on)
    IN  DeltasThenRoots(p, k, "SubClassOf", IF p.options.asserted THEN "Finished" ELSE "Equivalents", delta, root)

\* The aggregate of a delta: its classes, then its restrictions.
OwnedAggregate(p, k) ==
    LET o == k.owned[1]  d == p.deltas[o.delta]  source == d.edge[1]
    IN  IF o.named < Len(d.named)
        THEN Continue(SetTaxonomy([k EXCEPT !.owned[1].named = @ + 1], source, d.named[o.named + 1]))
        ELSE LET limit == d.limits[o.limit + 1]
             IN  Continue(SetRole([k EXCEPT !.owned[1].limit = @ + 1], <<source, limit[1], limit[2]>>))

OwnedLeft(p, k) ==
    LET o == k.owned[1]  d == p.deltas[o.delta]
    IN  o.named < Len(d.named) \/ (~p.options.onlyTaxonomy /\ o.limit < Len(d.limits))

\* The aggregate of a root, from the arenas of the plan; a restriction to an
\* unnamed class has no coordinate.
BaseAggregate(p, k) ==
    LET b == k.aggregate[1]  a == p.plan.aggregates[b.plan]  c == p.tables[1]
        named  == Slice(p.plan.emissionNamed, a.named)
        limits == Slice(p.plan.emissionRestrictions, a.restrictions)
        left   == {i \in b.limit + 1 .. Len(limits) : limits[i] # <<>>}
        limit  == CHOOSE i \in left : \A j \in left : i <= j
    IN  IF b.named < Len(named)
        THEN Continue(SetTaxonomy([k EXCEPT !.aggregate[1].named = @ + 1], b.source, EntityIri(c, named[b.named + 1])))
        ELSE IF p.options.onlyTaxonomy \/ left = {} THEN Continue([k EXCEPT !.aggregate = <<>>])
        ELSE Continue(SetRole([k EXCEPT !.aggregate[1].limit = limit], RestrictionParts(c, b.source, limits[limit])))

Equivalents(p, k) ==
    LET c == p.tables[1]
        delta(on, d) ==
            Continue(CASE d.kind = "Taxonomy" -> SetTaxonomy(on, d.edge[1], d.edge[3])
                       [] d.kind = "Aggregate" -> [on EXCEPT !.owned = <<[delta |-> on.delta, named |-> 0, limit |-> 0]>>]
                       [] OTHER -> on)
        root(on, r) ==
            LET x == p.plan.shape[r]
            IN  Continue(CASE x[1] = "Pair" -> SetTaxonomy(on, EntityIri(c, x[4]), EntityIri(c, x[5]))
                           [] x[1] = "Aggregate" ->
                                 [on EXCEPT !.aggregate =
                                    <<[source |-> EntityIri(c, x[3]), plan |-> x[4], named |-> 0, limit |-> 0]>>]
                           [] OTHER -> on)
        rest == [k EXCEPT !.owned = <<>>]
    IN  IF k.owned # <<>> /\ OwnedLeft(p, k) THEN OwnedAggregate(p, k)
        ELSE IF k.aggregate # <<>> THEN BaseAggregate(p, rest)
        ELSE DeltasThenRoots(p, rest, "EquivalentClasses", "Annotations", delta, root)

\* Listed annotations, or a scan for the next one.
Annotations(p, k) ==
    LET next == [k EXCEPT !.scan = 0, !.phase = "ClassAssertions"]
        c    == p.tables[1]
        at   == {r \in k.scan + 1 .. RootTotal(p) : RootIsSelected(c, r) /\ p.plan.rule[r] = "AnnotationAssertion"}
        root == CHOOSE r \in at : \A s \in at : r <= s
        none == IF p.scan THEN at = {} ELSE k.scan = Len(p.notes)
        note == IF p.scan THEN <<1, c.rootId[root]>> ELSE p.notes[k.scan + 1]
        on   == [k EXCEPT !.scan = IF p.scan THEN root ELSE @ + 1]
        shape == AnnotationShape(p.tables[note[1]], note[2], p.classes)
    IN  IF ~p.options.includeLiterals \/ none THEN Continue(next)
        ELSE IF shape = Ignored THEN Continue(on)
        ELSE Publish(on, AnnotationEdge(shape, p.position, note[1]))

ClassAssertions(p, k) ==
    LET c == p.tables[1]
        delta(on, d) == IF d.kind = "Edge" THEN Publish(on, d.edge) ELSE Continue(on)
        root(on, r) == LET x == p.plan.shape[r]
                       IN  IF x = Ignored THEN Continue(on)
                           ELSE Publish(on, <<EntityIri(c, x[4]), TypeRelation, EntityIri(c, x[5])>>)
    IN  DeltasThenRoots(p, k, "ClassAssertion", "ObjectAssertions", delta, root)

ObjectAssertions(p, k) ==
    LET c == p.tables[1]
        delta(on, d) == IF d.kind = "Edge" THEN Publish(on, d.edge) ELSE Continue(on)
        root(on, r) == LET x == p.plan.shape[r]
                       IN  Publish(on, <<RenderIndividual(c, p.position, 1, x[2]), x[3],
                                         RenderIndividual(c, p.position, 1, x[4])>>)
    IN  DeltasThenRoots(p, k, "ObjectPropertyAssertion", "DomainRanges", delta, root)

\* next_paired_property: from the groups when tails have domains or ranges,
\* otherwise from the roots of the base.
Paired(p) ==
    LET base  == {BaseClassAt(p, q) : q \in 0 .. RootTotal(p) - 1} \ {<<>>}
        on(classes, side) == {x[2] : x \in {y \in classes : y[1] = side}}
        both(classes) == on(classes, "domain") \cap on(classes, "range")
    IN  IF p.locals = <<>> THEN both(base) ELSE {p.groups[i].property : i \in DOMAIN p.groups}

LeastName(names) == IF names = {} THEN <<>> ELSE <<CHOOSE x \in names : \A y \in names : x = y \/ BytesLess(x, y)>>

NextPaired(p, previous) == LeastName({x \in Paired(p) : previous = <<>> \/ BytesLess(previous[1], x)})

\* The next class of a property from an index on: <<index behind it, verdict,
\* class>>, or <<>> when there is none.
BaseClassFrom(p, hits) ==
    IF hits = {} THEN <<>>
    ELSE LET hit == CHOOSE q \in hits : \A r \in hits : q <= r IN <<hit + 1, "ok", BaseClassAt(p, hit)[3]>>

Listed(here, property, side, from) ==
    IF here = <<>> THEN <<from + 1, "malformed", <<>>>>
    ELSE <<from + 1, Need(here[1] = side /\ here[2] = property), here[3]>>

ClassFrom(p, property, side, from) ==
    LET g    == CHOOSE i \in DOMAIN p.groups : p.groups[i].property = property
        span == IF side = "domain" THEN p.groups[g].domain ELSE p.groups[g].range
        is(x) == x # <<>> /\ x[1] = side /\ x[2] = property
    IN  IF p.locals = <<>> THEN BaseClassFrom(p, {q \in from .. RootTotal(p) - 1 : is(BaseClassAt(p, q))})
        ELSE IF from = Len(span) THEN <<>>
        ELSE Listed(ClassAt(p, span[from + 1]), property, side, from)

\* Inside a domain its property's ranges follow, inside a property the domains.
PairRange(k, next) ==
    IF next = <<>> THEN Continue([k EXCEPT !.domain = <<>>])
    ELSE IF next[2] # "ok" THEN Fail(k)
    ELSE Continue(SetRole([k EXCEPT !.rangeAt = next[1]], <<k.domain[1], k.active[1], next[3]>>))

InDomain(p, k) == PairRange(k, ClassFrom(p, k.active[1], "range", k.rangeAt))

OpenDomain(p, k, next) ==
    IF next = <<>> THEN Continue([k EXCEPT !.active = <<>>])
    ELSE IF next[2] # "ok" THEN Fail(k)
    ELSE InDomain(p, [k EXCEPT !.domain = <<next[3]>>, !.domainAt = next[1], !.rangeAt = 0])

InProperty(p, k) ==
    IF k.domain # <<>> THEN InDomain(p, k)
    ELSE OpenDomain(p, k, ClassFrom(p, k.active[1], "domain", k.domainAt))

OpenProperty(p, k, next) ==
    IF next = <<>> THEN Continue([k EXCEPT !.phase = "Finished"])
    ELSE InProperty(p, [k EXCEPT !.previous = next, !.active = next, !.domain = <<>>, !.domainAt = 0, !.rangeAt = 0])

DomainRanges(p, k) ==
    IF k.active # <<>> THEN InProperty(p, k) ELSE OpenProperty(p, k, NextPaired(p, k.previous))

\* One round of next_edge; at the end there is no edge left to give.
Round(p, k) ==
    IF k.pending # <<>> THEN ExpandPending(p, k)
    ELSE CASE k.phase = "Subclasses" -> Subclasses(p, k)
           [] k.phase = "Equivalents" -> Equivalents(p, k)
           [] k.phase = "Annotations" -> Annotations(p, k)
           [] k.phase = "ClassAssertions" -> ClassAssertions(p, k)
           [] k.phase = "ObjectAssertions" -> ObjectAssertions(p, k)
           [] k.phase = "DomainRanges" -> DomainRanges(p, k)
           [] k.phase = "Finished" -> Fail(k)

-----------------------------------------------------------------------------
(* The batches.                                                            *)

Remaining(p, k) == IF k.emitted > p.statistics.edges THEN 0 ELSE p.statistics.edges - k.emitted

EmissionInit ==
    /\ currentJob \in Jobs /\ preparation = <<>> /\ stage = "new"
    /\ committed = StartCursor /\ ahead = StartCursor
    /\ batchEdges = <<>> /\ amount = 0 /\ drained = <<>> /\ givenUp = 0

Prepare ==
    /\ stage = "new"
    /\ preparation' = PreparationOf(currentJob)
    /\ stage' = IF preparation'.verdict = "ok" THEN "ready" ELSE "refused"
    /\ UNCHANGED <<currentJob, committed, ahead, batchEdges, amount, drained, givenUp>>

\* prepare_next_batch copies the cursor and fixes the number of edges.
StartBatch(size) ==
    LET left == Remaining(preparation, committed)
    IN  /\ stage = "ready" /\ left > 0
        /\ stage' = "batch" /\ ahead' = committed /\ batchEdges' = <<>>
        /\ amount' = IF size < left THEN size ELSE left
        /\ UNCHANGED <<currentJob, preparation, committed, drained, givenUp>>

Advance(out) ==
    /\ ahead' = out.cursor
    /\ batchEdges' = batchEdges \o out.edges
    /\ stage' = IF out.verdict = "ok" THEN "batch" ELSE "failed"

Iterate ==
    /\ stage = "batch" /\ Len(batchEdges) < amount
    /\ Advance(Round(preparation, ahead))
    /\ UNCHANGED <<currentJob, preparation, committed, amount, drained, givenUp>>

\* commit_cursor, once the caller has all edges of the batch.
CommitBatch ==
    /\ stage = "batch" /\ Len(batchEdges) = amount
    /\ stage' = "ready" /\ committed' = ahead
    /\ drained' = drained \o batchEdges /\ batchEdges' = <<>> /\ amount' = 0
    /\ UNCHANGED <<currentJob, preparation, ahead, givenUp>>

\* Mutant: the batch is dropped and its cursor kept.
GiveUpBatchMoved ==
    /\ stage = "batch" /\ givenUp < MaxGivenUp
    /\ stage' = "ready" /\ givenUp' = givenUp + 1
    /\ committed' = ahead /\ batchEdges' = <<>> /\ amount' = 0
    /\ UNCHANGED <<currentJob, preparation, ahead, drained>>

\* A cancellation or a failed allocation drops the batch and its cursor.
GiveUpBatch ==
    /\ stage = "batch" /\ givenUp < MaxGivenUp
    /\ stage' = "ready" /\ givenUp' = givenUp + 1
    /\ ahead' = committed /\ batchEdges' = <<>> /\ amount' = 0
    /\ UNCHANGED <<currentJob, preparation, committed, drained>>

EmissionNext ==
    \/ Prepare
    \/ \E size \in BatchSizes : StartBatch(size)
    \/ Iterate
    \/ CommitBatch
    \/ GiveUpBatch

EmissionSpec == EmissionInit /\ [][EmissionNext]_emissionVars
=============================================================================
