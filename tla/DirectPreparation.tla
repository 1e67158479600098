-------------------------- MODULE DirectPreparation --------------------------
(***************************************************************************)
(* What the native compiler prepares before it emits the first edge of one  *)
(* table (prepare_direct): the edge count and the statistics, read from the *)
(* root plan, the role state, the identifiers of the anonymous individuals, *)
(* the annotations of the ROOT document, and the merged domain/range index. *)
(* An edge is <<source, relation, destination>>.                            *)
(***************************************************************************)
EXTENDS RootPlan, CanonicalBytes

SubclassRelation == <<"subclassof">>
SuperclassRelation == <<"superclassof">>
TypeRelation == <<"rdf:type">>

Directions(options) == IF options.bidirectional THEN 2 ELSE 1

Total(numbers) ==
    LET upto[i \in 0 .. Len(numbers)] == IF i = 0 THEN 0 ELSE upto[i - 1] + numbers[i]
    IN  upto[Len(numbers)]

\* The roots of one constructor in canonical order.
Rooted(plan, tag) == Ascending(RootsWith(plan, tag))

\* The nodes below each node, by doubling the length of the walks.
Lengthened(f) == Tabulated([n \in DOMAIN f |-> f[n] \cup UNION {f[m] : m \in f[n]}])

Below(c) ==
    LET walks[k \in 0 .. 32] ==
            IF k = 0 THEN Tabulated([n \in Nodes(c) |-> ChildSet(c, n)]) ELSE Lengthened(walks[k - 1])
    IN  walks[CHOOSE k \in 0 .. 32 : 2 ^ k >= NodeCount(c) /\ (k = 0 \/ 2 ^ (k - 1) < NodeCount(c))]

\* mark_root_reachable: the nodes a set of nodes leads to, itself included.
Marked(below, starts) == starts \cup UNION {below[n] : n \in starts}

ReachableFrom(c, starts) == Marked(Below(c), starts)

\* No walk comes back to its start.
Acyclic(below) == \A n \in DOMAIN below : n \notin below[n]

\* validate_supported_nodes: every constructor, then the walks, which refuse
\* a cycle.
Preflight(c) == ValidateGeneric(c) && ValidateNodes(c) && Need(Acyclic(Below(c)))

\* The plan of a table that passes its checks, otherwise the verdict alone.
Planned(c, verdict) == IF verdict = "ok" THEN Plan(c) ELSE [EmptyPlan EXCEPT !.verdict = verdict]

Resolve(c) == Planned(c, Preflight(c))

-----------------------------------------------------------------------------
(* Anonymous individuals.                                                  *)

\* axiom_anonymous_ids: those of the selected axioms, in node order.
AxiomAnonymous(c) ==
    LET axioms == {c.rootId[i] : i \in {j \in DOMAIN c.rootKind : RootIsSelected(c, j) /\ c.rootKind[j] = 2}}
    IN  Ascending({n \in ReachableFrom(c, axioms) : Tag(c, n) = "AnonymousIndividual"})

AnonymousCanonical(c, nodes) ==
    Need(\A i \in 1 .. Len(nodes) - 1 : AnonymousLess(c, nodes[i], nodes[i + 1]))

\* render_anonymous_identifier.
Genid(rank) == <<"_:genid", ToString(rank)>>

\* AnonymousIds: the identifier of a node <<table, node>> is its position in
\* the list of its own table, or closure-wide in a composite.
OwnPositions(c) ==
    LET nodes == AxiomAnonymous(c)
    IN  [x \in {<<1, nodes[i]>> : i \in DOMAIN nodes} |-> Cardinality({y \in ToSet(nodes) : y < x[2]})]

Render(position, t, n) == Genid(position[<<t, n>>])

RenderIndividual(c, position, t, coordinate) ==
    IF coordinate[1] = "Named" THEN EntityIri(c, coordinate[2]) ELSE Render(position, t, coordinate[2])

-----------------------------------------------------------------------------
(* Annotations.                                                            *)

\* select_root_annotation_nodes: each annotation of the ROOT document is looked
\* for behind the match of the one before it; <<0>> when one is not found.
SelectRootAnnotations(c, plan, d, rootPlan) ==
    LET wanted == Rooted(rootPlan, "AnnotationAssertion")
        have   == Rooted(plan, "AnnotationAssertion")
        same(i, k) == StructurallyEqual(c, c.rootId[have[i]], d, d.rootId[wanted[k]])
        scan[k \in 0 .. Len(wanted)] ==
            IF k = 0 THEN <<0, <<>>>>
            ELSE LET last == scan[k - 1]
                     hits == {i \in last[1] + 1 .. Len(have) : same(i, k)}
                     hit  == CHOOSE i \in hits : \A j \in hits : i <= j
                 IN  IF last[2] = <<0>> \/ hits = {} THEN <<Len(have), <<0>>>>
                     ELSE <<hit, Append(last[2], c.rootId[have[hit]])>>
    IN  scan[Len(wanted)][2]

AnnotationRoots(c, plan) ==
    LET roots == Rooted(plan, "AnnotationAssertion") IN [i \in DOMAIN roots |-> c.rootId[roots[i]]]

\* The annotations of the ROOT document if there is one ("root" is <<>> or the
\* table), and the verdict of looking them up.
Found(nodes) == [verdict |-> Need(nodes # <<0>>), nodes |-> nodes]

RootScope(c, plan, root, rootPlan) ==
    IF root = <<>> THEN Found(AnnotationRoots(c, plan))
    ELSE IF rootPlan[1].verdict # "ok" THEN [verdict |-> rootPlan[1].verdict, nodes |-> <<>>]
    ELSE Found(SelectRootAnnotations(c, plan, root[1], rootPlan[1]))

\* render_typed_annotation_literal drops the first quote and the last character
\* of the datatype (the pinned rendering).
TypedText(lexical, datatype) == lexical \o <<"^^">> \o datatype

AnnotationEdge(shape, position, t) ==
    LET value == shape[4]
    IN  <<shape[2], shape[3],
          CASE value[1] = "Anonymous" -> Render(position, t, value[2])
            [] value[1] = "Typed" -> TypedText(value[2], value[3])
            [] OTHER -> value[2]>>

\* annotation_edge_counts over annotation roots <<table, node>>.
AnnotationCounts(tables, notes, classes) ==
    LET all == [i \in DOMAIN notes |-> AnnotationShape(tables[notes[i][1]], notes[i][2], classes)]
        projected == SelectSeq(all, LAMBDA s : s # Ignored)
    IN  [edges |-> Len(projected), typed |-> Len(SelectSeq(projected, LAMBDA s : s[4][1] = "Typed"))]

NoAnnotations == [edges |-> 0, typed |-> 0]

-----------------------------------------------------------------------------
(* Edge counts.                                                            *)

\* The relations of the projecting restrictions of an aggregate.
Relations(plan, aggregate) ==
    LET operands == SelectSeq(Slice(plan.restrictions, aggregate.restrictions), LAMBDA o : o.projection # <<>>)
    IN  [i \in DOMAIN operands |-> operands[i].projection[1]]

EquivalentCounts(plan, roles, options) ==
    LET roots == Rooted(plan, "EquivalentClasses")
        one(root) ==
            LET kind == plan.shape[root][1]
                a    == AggregateAt(plan, root)
                used == IF options.onlyTaxonomy THEN <<>> ELSE Relations(plan, a)
                expanded == Total([i \in DOMAIN used |-> EdgeCount(roles, used[i])])
            IN  CASE kind = "Pair" -> <<Directions(options), 0, 0, 0>>
                  [] kind = "Aggregate" ->
                        <<a.named[2] * Directions(options) + expanded,
                          IF options.onlyTaxonomy THEN 0 ELSE a.ignored, Len(used), expanded>>
                  [] OTHER -> <<0, 1, 0, 0>>
        rows == [i \in DOMAIN roots |-> one(roots[i])]
        column(k) == Total([i \in DOMAIN rows |-> rows[i][k]])
    IN  IF options.asserted THEN [edges |-> 0, ignored |-> 0, base |-> 0, expanded |-> 0]
        ELSE [edges |-> column(1), ignored |-> column(2), base |-> column(3), expanded |-> column(4)]

RestrictionEdges(plan, roles) ==
    LET roots == SelectSeq(Rooted(plan, "SubClassOf"), LAMBDA r : plan.shape[r][1] = "Restriction")
    IN  Total([i \in DOMAIN roots |-> EdgeCount(roles, plan.shape[roots[i]][3])])

\* domain_range_edge_count: <<pairs, edges>>.
DomainRangeCounts(plan, roles) ==
    LET projected(tag) == SelectSeq(Rooted(plan, tag), LAMBDA r : plan.shape[r][1] = "Projected")
        domains == projected("ObjectPropertyDomain")
        ranges  == projected("ObjectPropertyRange")
        pairs(i) == Cardinality({j \in DOMAIN ranges : plan.shape[ranges[j]][2] = plan.shape[domains[i]][2]})
    IN  <<Total([i \in DOMAIN domains |-> pairs(i)]),
          Total([i \in DOMAIN domains |-> pairs(i) * EdgeCount(roles, plan.shape[domains[i]][2])])>>

\* The counters of the roots, by constructor and by shape.
RootStatistics(plan) ==
    [count |-> [t \in DOMAIN RootRules |-> RootCount(plan, t)],
     restrictions |-> ShapeCount(plan, "SubClassOf", "Restriction"),
     ignoredSubclasses |-> ShapeCount(plan, "SubClassOf", "Ignored"),
     aggregates |-> ShapeCount(plan, "EquivalentClasses", "Aggregate"),
     ignoredAssertions |-> ShapeCount(plan, "ClassAssertion", "Ignored"),
     ignoredDomains |-> ShapeCount(plan, "ObjectPropertyDomain", "Ignored"),
     ignoredRanges |-> ShapeCount(plan, "ObjectPropertyRange", "Ignored"),
     chains |-> Cardinality({r \in DOMAIN plan.role : plan.role[r][1] = "Chain"})]

\* The edges of the roots of one table, and the counters that go with them,
\* from those of the roots, the equivalences and the domain/range pairs.
TableStatistics(c, plan, roles, options, selected, literal, roots, equivalents, pairs) ==
    LET taxonomy == (roots.count["SubClassOf"] - roots.restrictions - roots.ignoredSubclasses) * Directions(options)
        limits == IF Mode(options) = "normal" THEN RestrictionEdges(plan, roles) ELSE 0
        assertions == IF options.asserted THEN 0
                      ELSE roots.count["ClassAssertion"] - roots.ignoredAssertions
                           + roots.count["ObjectPropertyAssertion"]
        base == IF options.asserted THEN 0
                ELSE pairs[1] + (IF options.onlyTaxonomy THEN 0 ELSE roots.restrictions) + equivalents.base
    IN  roots @@
        [roots |-> SelectedRootCount(c),
         ignoredEquivalents |-> equivalents.ignored,
         equivalentBase |-> equivalents.edges - (equivalents.expanded - equivalents.base),
         annotations |-> selected,
         annotationEdges |-> literal.edges, typedLiterals |-> literal.typed,
         skipped |-> IF options.asserted THEN 0 ELSE SkippedAxioms(plan, options),
         domainRange |-> pairs[1],
         roleExpansion |-> limits + pairs[2] + equivalents.expanded - base,
         anonymous |-> Len(AxiomAnonymous(c)),
         edges |-> taxonomy + equivalents.edges + limits + literal.edges + assertions + pairs[2]]

EdgeStatistics(c, plan, roles, options, selected, literal) ==
    TableStatistics(c, plan, roles, options, selected, literal, RootStatistics(plan),
                    EquivalentCounts(plan, roles, options),
                    IF options.asserted THEN <<0, 0>> ELSE DomainRangeCounts(plan, roles))

-----------------------------------------------------------------------------
(* prepare_direct.  A preparation is what the emission reads; "scan" says    *)
(* that the annotations are found by scanning the roots and not listed.      *)

\* Mutant: the limit itself is refused.
WithinStrictly(edges, options) == IF edges >= options.maxEdges THEN "resource" ELSE "ok"

Within(edges, options) == IF edges > options.maxEdges THEN "resource" ELSE "ok"

LiteralsOn(options) == options.includeLiterals /\ ~options.asserted

RolesOf(plan, options, retained) == IF options.asserted THEN NoRoles ELSE RoleStateOf(plan, retained)

CountedNotes(tables, notes, classes, options) ==
    IF LiteralsOn(options) THEN AnnotationCounts(tables, notes, classes) ELSE NoAnnotations

Assembled(c, plan, roles, options, notes, scan, classes, statistics) ==
    [verdict |-> AnonymousCanonical(c, AxiomAnonymous(c)) && Within(statistics.edges, options)
                 && EmissionPlan(plan),
     tables |-> <<c>>, plan |-> plan, roles |-> roles, options |-> options,
     position |-> OwnPositions(c), notes |-> notes, scan |-> scan, classes |-> classes,
     deltas |-> <<>>, locals |-> <<>>, groups |-> <<>>, statistics |-> statistics]

\* The part a composite shares, for a plan and roles already resolved.
PrepareTable(c, plan, roles, options, nodes, scan) ==
    LET classes == ClassIris(c, Nodes(c))
        notes   == [i \in DOMAIN nodes |-> <<1, nodes[i]>>]
    IN  Assembled(c, plan, roles, options, notes, scan, classes,
                  EdgeStatistics(c, plan, roles, options, Len(nodes),
                                 CountedNotes(<<c>>, notes, classes, options)))

Refused(verdict) == [verdict |-> verdict]

Accepted(p) == IF p.verdict = "ok" THEN p ELSE Refused(p.verdict)

PrepareScoped(c, plan, scope, scan, options, retained) ==
    IF scope.verdict # "ok" THEN Refused(scope.verdict)
    ELSE Accepted(PrepareTable(c, plan, RolesOf(plan, options, retained), options, scope.nodes, scan))

PrepareDirect(c, plan, root, rootPlan, options, retained) ==
    IF plan.verdict # "ok" THEN Refused(plan.verdict)
    ELSE PrepareScoped(c, plan, RootScope(c, plan, root, rootPlan), root = <<>>, options, retained)
=============================================================================
